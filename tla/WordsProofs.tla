---------------------------- MODULE WordsProofs -----------------------------
(***************************************************************************)
(* Proofs about messages, bitmaps and powers of two, for any bytes,        *)
(* capacity, lengths and widths of words, then about a behaviour of        *)
(* MCWords, whichever it is about.                                         *)
(***************************************************************************)
EXTENDS MCWords, NatFacts, SequenceTheorems, FiniteSetTheorems

-----------------------------------------------------------------------------
(* Messages.                                                               *)

(* What tells that a sequence is the concatenation of two others. *)
LEMMA Concatenation ==
  ASSUME NEW S, NEW s \in Seq(S), NEW t \in Seq(S), NEW u \in Seq(S),
         Len(u) = Len(s) + Len(t),
         \A i \in 1 .. Len(s) : u[i] = s[i],
         \A i \in 1 .. Len(t) : u[Len(s) + i] = t[i]
  PROVE  u = s \o t
  <1>1. /\ s \o t \in Seq(S)
        /\ Len(s \o t) = Len(s) + Len(t)
        /\ \A i \in 1 .. Len(s) + Len(t) :
             (s \o t)[i] = IF i <= Len(s) THEN s[i] ELSE t[i - Len(s)]
    BY ConcatProperties
  <1>2. Len(s) \in Nat /\ Len(t) \in Nat
    BY LenProperties
  <1>3. ASSUME NEW i \in 1 .. Len(u) PROVE u[i] = (s \o t)[i]
    <2>1. CASE i <= Len(s)
      BY <1>1, <1>2, <2>1
    <2>2. CASE ~ i <= Len(s)
      <3>1. i - Len(s) \in 1 .. Len(t) /\ Len(s) + (i - Len(s)) = i
        BY <1>2, <2>2
      <3> QED BY <1>1, <1>2, <2>2, <3>1
    <2> QED BY <2>1, <2>2
  <1> QED BY <1>1, <1>3, SeqEqual

Areas == [0 .. Capacity - 1 -> Byte]

(* Bytes of a memory area are a sequence. *)
LEMMA BytesAreASequence ==
  ASSUME NEW m \in Areas, NEW from \in Nat, NEW len \in Nat, from + len <= Capacity
  PROVE  /\ Bytes(m, from, len) \in Seq(Byte)
         /\ Len(Bytes(m, from, len)) = len
         /\ \A i \in 1 .. len : Bytes(m, from, len)[i] = m[from + i - 1]
  <1>1. \A i \in 1 .. len : m[from + i - 1] \in Byte
    BY CapacityAssumption DEF Areas
  <1> QED BY <1>1 DEF Bytes

(* Contiguous bytes are one after the other. *)
LEMMA BytesSplit ==
  ASSUME NEW m \in Areas, NEW from \in Nat, NEW a \in Nat, NEW b \in Nat,
         from + a + b <= Capacity
  PROVE  Bytes(m, from, a + b) = Bytes(m, from, a) \o Bytes(m, from + a, b)
  <1> DEFINE s == Bytes(m, from, a)
             t == Bytes(m, from + a, b)
             u == Bytes(m, from, a + b)
  <1> USE CapacityAssumption
  <1>0. from + a \in Nat /\ a + b \in Nat /\ from + a <= Capacity /\ from + (a + b) <= Capacity
    OBVIOUS
  <1>1. /\ s \in Seq(Byte) /\ Len(s) = a
        /\ \A i \in 1 .. a : s[i] = m[from + i - 1]
    BY <1>0, BytesAreASequence
  <1>2. /\ t \in Seq(Byte) /\ Len(t) = b
        /\ \A i \in 1 .. b : t[i] = m[from + a + i - 1]
    BY <1>0, BytesAreASequence
  <1>3. /\ u \in Seq(Byte) /\ Len(u) = a + b
        /\ \A i \in 1 .. a + b : u[i] = m[from + i - 1]
    BY <1>0, BytesAreASequence
  <1> HIDE DEF s, t, u
  <1>4. \A i \in 1 .. a : u[i] = s[i]
    <2> SUFFICES ASSUME NEW i \in 1 .. a PROVE u[i] = s[i]
      OBVIOUS
    <2>1. i \in 1 .. a + b
      OBVIOUS
    <2> QED BY <1>1, <1>3, <2>1
  <1>5. \A i \in 1 .. b : u[a + i] = t[i]
    <2> SUFFICES ASSUME NEW i \in 1 .. b PROVE u[a + i] = t[i]
      OBVIOUS
    <2>1. a + i \in 1 .. a + b /\ from + (a + i) - 1 = from + a + i - 1
      OBVIOUS
    <2> QED BY <1>2, <1>3, <2>1
  <1>6. u = s \o t
    BY <1>1, <1>2, <1>3, <1>4, <1>5, Concatenation
  <1> QED BY <1>6 DEF s, t, u

(* What is filled, and what is not. *)
LEMMA FilledBytes ==
  ASSUME NEW m \in Areas, NEW at \in Nat, NEW len \in Nat, at + len <= Capacity, NEW byte \in Byte
  PROVE  /\ Filled(m, at, len, byte) \in Areas
         /\ Bytes(Filled(m, at, len, byte), at, len) = [i \in 1 .. len |-> byte]
         /\ \A from, n \in Nat :
              from + n <= Capacity /\ (from + n <= at \/ at + len <= from) =>
                Bytes(Filled(m, at, len, byte), from, n) = Bytes(m, from, n)
  <1>1. /\ Filled(m, at, len, byte) \in Areas
        /\ \A i \in 0 .. Capacity - 1 :
             Filled(m, at, len, byte)[i] = IF i \in at .. at + len - 1 THEN byte ELSE m[i]
    BY DEF Filled, Areas
  <1>2. \A i \in 1 .. len : Filled(m, at, len, byte)[at + i - 1] = byte
    BY <1>1, CapacityAssumption
  <1>3. ASSUME NEW from \in Nat, NEW n \in Nat, from + n <= Capacity,
               from + n <= at \/ at + len <= from
        PROVE  Bytes(Filled(m, at, len, byte), from, n) = Bytes(m, from, n)
    <2>1. \A i \in 1 .. n : Filled(m, at, len, byte)[from + i - 1] = m[from + i - 1]
      BY <1>1, <1>3, CapacityAssumption
    <2> QED BY <2>1 DEF Bytes
  <1> QED BY <1>1, <1>2, <1>3 DEF Bytes

-----------------------------------------------------------------------------

(* The window lies within the memory area. *)
WindowOK ==
  /\ buff \in [head_off : Nat, busy_len : Nat]
  /\ buff.head_off + buff.busy_len <= Capacity
  /\ mem \in Areas

LEMMA InitWindow == Init => WindowOK
  BY CapacityAssumption DEF Init, Window, WindowOK, Areas

(* The data, and what joining nothing to it gives. *)
LEMMA DataFacts ==
  ASSUME WindowOK
  PROVE  /\ Data = Bytes(mem, buff.head_off, buff.busy_len)
         /\ Data \in Seq(Byte) /\ Len(Data) = buff.busy_len
         /\ << >> \o Data = Data /\ Data \o << >> = Data
  <1>1. Data = Bytes(mem, buff.head_off, buff.busy_len)
    BY DEF Data, DataAt, Busy
  <1>2. Data \in Seq(Byte) /\ Len(Data) = buff.busy_len
    BY <1>1, BytesAreASequence DEF WindowOK
  <1> QED BY <1>1, <1>2, ConcatEmptySeq

LEMMA StringTyped == WindowOK => StringOK
  BY DataFacts, CapacityAssumption, SMTT(30) DEF WindowOK, StringOK, AvailHead, AvailTail

LEMMA SetupStep ==
  ASSUME WindowOK, NEW off \in 0 .. Capacity, NEW len \in 0 .. Capacity, Setup(off, len)
  PROVE  WindowOK' /\ StringSetup
  <1>1. WindowOK'
    BY CapacityAssumption DEF Setup, Window, WindowOK
  <1>2. StringOK'
    BY <1>1, StringTyped, PTL
  <1> QED BY <1>1, <1>2 DEF Setup, Replied, StringSetup

(* A call that fails. *)
LEMMA FailsStep ==
  ASSUME WindowOK, NEW name, NEW len, Fails(name, len)
  PROVE  /\ WindowOK'
         /\ reply'.call = name /\ reply'.len = len
         /\ reply'.bytes = << >> /\ Len(reply'.bytes) = 0
         /\ Data' = Data
         /\ AvailHead(buff)' = AvailHead(buff) /\ AvailTail(buff)' = AvailTail(buff)
         /\ AvailHead(buff) \in Nat /\ AvailTail(buff) \in Nat
  BY CapacityAssumption DEF Fails, Replied, WindowOK, Data, Bytes, DataAt, Busy, AvailHead, AvailTail

LEMMA PushHeadStep ==
  ASSUME WindowOK, NEW len \in Lengths, NEW byte \in Byte, PushHead(len, byte)
  PROVE  WindowOK' /\ HeadPushed
  <1>1. len \in Nat
    BY LengthsAssumption
  <1>2. CASE len # 0 /\ len <= AvailHead(buff)
    <2> DEFINE at == buff.head_off - len
    <2>1. /\ buff' = [head_off |-> at, busy_len |-> buff.busy_len + len]
          /\ mem' = Filled(mem, at, len, byte)
          /\ reply' = [call |-> "push_head", len |-> len, bytes |-> [i \in 1 .. len |-> byte]]
          /\ at \in Nat /\ at + len = buff.head_off
      BY <1>1, <1>2 DEF PushHead, AvailHead, ShrinkHead, Fill, DataAt, Replied, WindowOK
    <2>2. /\ mem' \in Areas
          /\ Bytes(mem', at, len) = reply'.bytes
          /\ Bytes(mem', buff.head_off, buff.busy_len) = Data
      <3>1. mem \in Areas /\ buff.head_off \in Nat /\ buff.busy_len \in Nat
            /\ at + len <= Capacity /\ buff.head_off + buff.busy_len <= Capacity
        BY <2>1, CapacityAssumption DEF WindowOK
      <3>2. mem' \in Areas /\ Bytes(mem', at, len) = [i \in 1 .. len |-> byte]
        BY <1>1, <2>1, <3>1, FilledBytes
      <3>3. Bytes(mem', buff.head_off, buff.busy_len) = Bytes(mem, buff.head_off, buff.busy_len)
        BY <1>1, <2>1, <3>1, FilledBytes
      <3> QED BY <2>1, <3>2, <3>3, DataFacts
    <2>3. Data' = reply'.bytes \o Data
      <3>1. Data' = Bytes(mem', at, len + buff.busy_len)
        BY <1>1, <2>1 DEF WindowOK, Data, DataAt, Busy
      <3> HIDE DEF at
      <3>2. Bytes(mem', at, len + buff.busy_len)
              = Bytes(mem', at, len) \o Bytes(mem', at + len, buff.busy_len)
        <4>1. at + len + buff.busy_len <= Capacity /\ buff.busy_len \in Nat
          BY <2>1 DEF WindowOK
        <4> QED BY <1>1, <2>1, <2>2, <4>1, BytesSplit
      <3> QED BY <2>1, <2>2, <3>1, <3>2
    <2> QED
      BY <1>1, <1>2, <2>1, <2>2, <2>3
      DEF WindowOK, HeadPushed, Done, AvailHead, AvailTail
  <1>3. CASE ~ (len # 0 /\ len <= AvailHead(buff))
    <2>1. Fails("push_head", len)
      BY <1>3 DEF PushHead
    <2>2. len \notin 0 .. AvailHead(buff) \/ len = 0
      BY <1>1, <1>3 DEF WindowOK, AvailHead
    <2>3. HeadPushed
      BY <2>1, <2>2, FailsStep, DataFacts DEF HeadPushed, Done
    <2> QED BY <2>1, <2>3, FailsStep
  <1> QED BY <1>2, <1>3

LEMMA PushTailStep ==
  ASSUME WindowOK, NEW len \in Lengths, NEW byte \in Byte, PushTail(len, byte)
  PROVE  WindowOK' /\ TailPushed
  <1>1. len \in Nat
    BY LengthsAssumption
  <1>2. CASE len # 0 /\ len <= AvailTail(buff)
    <2> DEFINE at == buff.head_off + buff.busy_len
    <2>1. /\ buff' = [head_off |-> buff.head_off, busy_len |-> buff.busy_len + len]
          /\ mem' = Filled(mem, at, len, byte)
          /\ reply' = [call |-> "push_tail", len |-> len, bytes |-> [i \in 1 .. len |-> byte]]
          /\ at \in Nat /\ at + len <= Capacity /\ at = buff.head_off + buff.busy_len
      BY <1>1, <1>2, CapacityAssumption
      DEF PushTail, AvailTail, GrowTail, Fill, OldTail, TailAt, Replied, WindowOK
    <2> HIDE DEF at
    <2>2. /\ mem' \in Areas
          /\ Bytes(mem', at, len) = reply'.bytes
          /\ Bytes(mem', buff.head_off, buff.busy_len) = Data
      <3>1. mem \in Areas /\ buff.head_off \in Nat /\ buff.busy_len \in Nat
            /\ buff.head_off + buff.busy_len <= Capacity /\ buff.head_off + buff.busy_len <= at
        BY <2>1 DEF WindowOK
      <3>2. mem' \in Areas /\ Bytes(mem', at, len) = [i \in 1 .. len |-> byte]
        BY <1>1, <2>1, <3>1, FilledBytes
      <3>3. Bytes(mem', buff.head_off, buff.busy_len) = Bytes(mem, buff.head_off, buff.busy_len)
        <4>1. \A from, n \in Nat :
                 from + n <= Capacity /\ (from + n <= at \/ at + len <= from) =>
                   Bytes(Filled(mem, at, len, byte), from, n) = Bytes(mem, from, n)
          <5>1. at \in Nat /\ at + len <= Capacity
            BY <2>1
          <5> QED BY <1>1, <3>1, <5>1, FilledBytes
        <4> QED BY <2>1, <3>1, <4>1
      <3> QED BY <2>1, <3>2, <3>3, DataFacts
    <2>3. Data' = Data \o reply'.bytes
      <3>1. Data' = Bytes(mem', buff.head_off, buff.busy_len + len)
        BY <1>1, <2>1 DEF WindowOK, Data, DataAt, Busy
      <3>2. Bytes(mem', buff.head_off, buff.busy_len + len)
              = Bytes(mem', buff.head_off, buff.busy_len) \o Bytes(mem', at, len)
        <4>1. /\ buff.head_off \in Nat /\ buff.busy_len \in Nat
              /\ buff.head_off + buff.busy_len + len <= Capacity
          BY <2>1 DEF WindowOK
        <4>2. Bytes(mem', buff.head_off, buff.busy_len + len)
                = Bytes(mem', buff.head_off, buff.busy_len)
                    \o Bytes(mem', buff.head_off + buff.busy_len, len)
          BY <1>1, <2>2, <4>1, BytesSplit
        <4> QED BY <2>1, <4>2
      <3> QED BY <2>2, <3>1, <3>2
    <2> QED
      BY <1>1, <1>2, <2>1, <2>2, <2>3, CapacityAssumption, SMTT(30)
      DEF WindowOK, TailPushed, Done, AvailHead, AvailTail
  <1>3. CASE ~ (len # 0 /\ len <= AvailTail(buff))
    <2>1. Fails("push_tail", len)
      BY <1>3 DEF PushTail
    <2>2. len \notin 0 .. AvailTail(buff) \/ len = 0
      BY <1>1, <1>3 DEF WindowOK, AvailHead, AvailTail, Busy
    <2>3. TailPushed
      BY <2>1, <2>2, FailsStep, DataFacts DEF TailPushed, Done, Busy
    <2> QED BY <2>1, <2>3, FailsStep
  <1> QED BY <1>2, <1>3

LEMMA PullHeadStep ==
  ASSUME WindowOK, NEW len \in Lengths, PullHead(len)
  PROVE  WindowOK' /\ HeadPulled
  <1>1. len \in Nat
    BY LengthsAssumption
  <1>2. CASE len # 0 /\ len <= Busy(buff)
    <2> DEFINE left == buff.busy_len - len
    <2>1. /\ buff' = [head_off |-> buff.head_off + len, busy_len |-> left]
          /\ mem' = mem
          /\ reply' = [call |-> "pull_head", len |-> len, bytes |-> Bytes(mem, buff.head_off, len)]
          /\ left \in Nat /\ left + len = buff.busy_len /\ len + left = buff.busy_len
      BY <1>1, <1>2 DEF PullHead, Busy, GrowHead, DataAt, Replied, WindowOK
    <2>2. buff.head_off \in Nat /\ mem \in Areas /\ buff.head_off + len + left <= Capacity
      BY <1>1, <2>1 DEF WindowOK
    <2> HIDE DEF left
    <2>3. Data = reply'.bytes \o Data'
      <3>1. Data' = Bytes(mem, buff.head_off + len, left)
        BY <2>1 DEF Data, DataAt, Busy
      <3>2. Bytes(mem, buff.head_off, len + left)
              = Bytes(mem, buff.head_off, len) \o Bytes(mem, buff.head_off + len, left)
        BY <1>1, <2>1, <2>2, BytesSplit
      <3> QED BY <2>1, <3>1, <3>2, DataFacts
    <2>4. Len(reply'.bytes) = len
      <3>1. buff.head_off + len <= Capacity
        BY <1>1, <2>1, <2>2, CapacityAssumption
      <3> QED BY <1>1, <2>1, <2>2, <3>1, BytesAreASequence
    <2> QED
      BY <1>1, <1>2, <2>1, <2>2, <2>3, <2>4, DataFacts, CapacityAssumption
      DEF WindowOK, HeadPulled, Done, AvailHead, AvailTail, Busy
  <1>3. CASE ~ (len # 0 /\ len <= Busy(buff))
    <2>1. Fails("pull_head", len)
      BY <1>3 DEF PullHead
    <2>2. len \notin 0 .. Busy(buff) \/ len = 0
      BY <1>1, <1>3 DEF WindowOK, AvailHead, AvailTail, Busy
    <2>3. HeadPulled
      BY <2>1, <2>2, FailsStep, DataFacts DEF HeadPulled, Done, Busy
    <2> QED BY <2>1, <2>3, FailsStep
  <1> QED BY <1>2, <1>3

LEMMA PullTailStep ==
  ASSUME WindowOK, NEW len \in Lengths, PullTail(len)
  PROVE  WindowOK' /\ TailPulled
  <1>1. len \in Nat
    BY LengthsAssumption
  <1>2. CASE len # 0 /\ len <= Busy(buff)
    <2> DEFINE left == buff.busy_len - len
    <2>1. /\ buff' = [head_off |-> buff.head_off, busy_len |-> left]
          /\ mem' = mem
          /\ reply' = [call |-> "pull_tail", len |-> len,
                       bytes |-> Bytes(mem, buff.head_off + left, len)]
          /\ left \in Nat /\ left + len = buff.busy_len
      BY <1>1, <1>2 DEF PullTail, Busy, ShrinkTail, NewTail, TailAt, Replied, WindowOK
    <2>2. buff.head_off \in Nat /\ mem \in Areas /\ buff.head_off + left + len <= Capacity
      BY <1>1, <2>1 DEF WindowOK
    <2> HIDE DEF left
    <2>3. Data = Data' \o reply'.bytes
      <3>1. Data' = Bytes(mem, buff.head_off, left)
        BY <2>1 DEF Data, DataAt, Busy
      <3>2. Bytes(mem, buff.head_off, left + len)
              = Bytes(mem, buff.head_off, left) \o Bytes(mem, buff.head_off + left, len)
        BY <1>1, <2>1, <2>2, BytesSplit
      <3> QED BY <2>1, <3>1, <3>2, DataFacts
    <2>4. Len(reply'.bytes) = len
      <3>1. buff.head_off + left \in Nat
        BY <2>1, <2>2
      <3> QED BY <1>1, <2>1, <2>2, <3>1, BytesAreASequence
    <2> QED
      BY <1>1, <1>2, <2>1, <2>2, <2>3, <2>4, DataFacts, CapacityAssumption, SMTT(30)
      DEF WindowOK, TailPulled, Done, AvailHead, AvailTail, Busy
  <1>3. CASE ~ (len # 0 /\ len <= Busy(buff))
    <2>1. Fails("pull_tail", len)
      BY <1>3 DEF PullTail
    <2>2. len \notin 0 .. Busy(buff) \/ len = 0
      BY <1>1, <1>3 DEF WindowOK, AvailHead, AvailTail, Busy
    <2>3. TailPulled
      BY <2>1, <2>2, FailsStep, DataFacts DEF TailPulled, Done, Busy
    <2> QED BY <2>1, <2>3, FailsStep
  <1> QED BY <1>2, <1>3

-----------------------------------------------------------------------------

LEMMA MessageNextStep == WindowOK /\ [Next]_vars => WindowOK' /\ [StringNext]_string
  <1> SUFFICES ASSUME WindowOK, [Next]_vars PROVE WindowOK' /\ [StringNext]_string
    OBVIOUS
  <1>1. ASSUME NEW off \in 0 .. Capacity, NEW len \in 0 .. Capacity, Setup(off, len)
        PROVE  WindowOK' /\ StringSetup
    BY <1>1, SetupStep
  <1>2. ASSUME NEW len \in Lengths, NEW byte \in Byte, PushHead(len, byte)
        PROVE  WindowOK' /\ HeadPushed
    BY <1>2, PushHeadStep
  <1>3. ASSUME NEW len \in Lengths, NEW byte \in Byte, PushTail(len, byte)
        PROVE  WindowOK' /\ TailPushed
    BY <1>3, PushTailStep
  <1>4. ASSUME NEW len \in Lengths, PullHead(len) PROVE WindowOK' /\ HeadPulled
    BY <1>4, PullHeadStep
  <1>5. ASSUME NEW len \in Lengths, PullTail(len) PROVE WindowOK' /\ TailPulled
    BY <1>5, PullTailStep
  <1>6. CASE UNCHANGED vars
    BY <1>6 DEF vars, WindowOK, string, Data, Bytes, DataAt, Busy, AvailHead, AvailTail
  <1> QED BY <1>1, <1>2, <1>3, <1>4, <1>5, <1>6 DEF Next, StringNext

(* A message is a string of bytes within some room: what is pushed at an   *)
(* end comes next to what it held, what is pulled was there, nothing else  *)
(* moves, and calls fail only for lack of bytes or of room, whatever the   *)
(* capacity, the bytes and the lengths that the client asks for.           *)
THEOREM MessageIsAString == Spec => StringSpec
  <1>1. Init => WindowOK /\ StringInit
    BY InitWindow, StringTyped DEF Init, StringInit
  <1>2. WindowOK /\ [Next]_vars => WindowOK' /\ [StringNext]_string
    BY MessageNextStep
  <1> QED BY <1>1, <1>2, PTL DEF Spec, StringSpec

-----------------------------------------------------------------------------
(* Bitmaps in a word.                                                      *)

(* The set of bits that it stands for. *)
BmapSet == INSTANCE BitSet WITH bits <- bmap

(* A mask has the bits of its range, which lie within a word.              *)
LEMMA BmapMaskIsRange ==
  ASSUME B!WidthAssumption, NEW r \in B!Ranges
  PROVE  B!Mask(r[1], r[2]) = B!Bits(r) /\ B!Bits(r) \subseteq B!Full
  <1>1. /\ BmapW \in Nat \ {0}
        /\ r[1] \in 0 .. BmapW - 1 /\ r[2] \in 1 .. BmapW /\ r[1] + r[2] <= BmapW
    BY DEF B!WidthAssumption, B!Ranges, B!Full
  <1>2. B!Shr(B!Full, BmapW - r[2]) = 0 .. r[2] - 1
    <2>1. ASSUME NEW b \in 0 .. r[2] - 1 PROVE b \in B!Shr(B!Full, BmapW - r[2])
      <3>1. b + (BmapW - r[2]) \in {c \in B!Full : c >= BmapW - r[2]}
        BY <1>1 DEF B!Full
      <3>2. b = (b + (BmapW - r[2])) - (BmapW - r[2])
        BY <1>1
      <3> QED BY <3>1, <3>2 DEF B!Shr
    <2>2. ASSUME NEW b \in B!Shr(B!Full, BmapW - r[2]) PROVE b \in 0 .. r[2] - 1
      BY <1>1 DEF B!Shr, B!Full
    <2> QED BY <2>1, <2>2
  <1>3. B!Mask(r[1], r[2]) = {b + r[1] : b \in 0 .. r[2] - 1} \cap B!Full
    BY <1>2 DEF B!Mask, B!Shl
  <1>4. B!Bits(r) \subseteq B!Full
    BY <1>1 DEF B!Bits, B!Full
  <1>5. ASSUME NEW b \in B!Bits(r) PROVE b \in {c + r[1] : c \in 0 .. r[2] - 1}
    <2>1. b - r[1] \in 0 .. r[2] - 1 /\ b = (b - r[1]) + r[1]
      BY <1>1 DEF B!Bits
    <2> QED BY <2>1
  <1>6. ASSUME NEW b \in {c + r[1] : c \in 0 .. r[2] - 1} PROVE b \in B!Bits(r)
    BY <1>1 DEF B!Bits
  <1> QED BY <1>3, <1>4, <1>5, <1>6

(* And that of one bit has it alone.                                       *)
LEMMA BmapBitIsSingle ==
  ASSUME B!WidthAssumption, NEW bit_no \in B!Full
  PROVE  B!Bit(bit_no) = {bit_no} /\ {bit_no} \subseteq B!Full
  <1>1. {b + bit_no : b \in {0}} = {bit_no}
    BY DEF B!WidthAssumption, B!Full
  <1> QED BY <1>1 DEF B!Bit, B!Shl

(* All of them are bits of the set. *)
LEMMA BmapFits ==
  ASSUME B!WidthAssumption
  PROVE  B!Full \subseteq BmapSet!Bits
  <1>1. BmapW \in Nat \ {0} /\ BmapW <= Most /\ Most \in Nat
    BY MostAssumption DEF B!WidthAssumption
  <1> QED BY <1>1 DEF B!Full, BmapSet!Bits

(* Instances have their own name for this operator.                        *)
LEMMA BmapSameCardinality ==
  ASSUME NEW T PROVE /\ BmapSet!Cardinality(T) = Cardinality(T)
                     /\ B!Cardinality(T) = Cardinality(T)
  BY DEF BmapSet!Cardinality, B!Cardinality, Cardinality

(* A call that changes bits, given what it does to a set. *)
LEMMA BmapChangeStep ==
  ASSUME B!WidthAssumption, bmap \subseteq B!Full,
         NEW do \in {"set", "clear", "toggle"}, NEW on \in SUBSET B!Full, NEW word,
         B!Change(do, on, word),
         word = BmapSet!Result(do, on)
  PROVE  BmapSet!Next /\ bmap' \subseteq B!Full
  <1>1. call' = [do |-> do, on |-> on] /\ answer' = None /\ bmap' = word
    BY DEF B!Change, B!Changing, B!Called
  <1>2. call' \in [do : {"set", "clear", "toggle"}, on : SUBSET BmapSet!Bits]
    BY <1>1, BmapFits
  <1>3. call'.do = do /\ call'.on = on
    BY <1>1
  <1>4. BmapSet!Change
    BY <1>1, <1>2, <1>3 DEF BmapSet!Change
  <1>5. bmap' \subseteq B!Full
    BY <1>1 DEF BmapSet!Result
  <1> QED BY <1>4, <1>5 DEF BmapSet!Next

(* A call that asks about bits, given the answer of a set. *)
LEMMA BmapAskStep ==
  ASSUME B!WidthAssumption, bmap \subseteq B!Full,
         NEW do \in {"and", "or", "xor", "test", "hweight"}, NEW on \in SUBSET B!Full, NEW given,
         B!Ask(do, on, given),
         given = BmapSet!Answer(do, on)
  PROVE  BmapSet!Next /\ bmap' \subseteq B!Full
  <1>1. call' = [do |-> do, on |-> on] /\ answer' = given /\ bmap' = bmap
    BY DEF B!Ask, B!Asking, B!Called
  <1>2. call' \in [do : {"and", "or", "xor", "test", "hweight"}, on : SUBSET BmapSet!Bits]
    BY <1>1, BmapFits
  <1>3. call'.do = do /\ call'.on = on
    BY <1>1
  <1>4. BmapSet!Ask
    BY <1>1, <1>2, <1>3 DEF BmapSet!Ask
  <1> QED BY <1>1, <1>4 DEF BmapSet!Next

(* The changes that a set makes, one operation each. *)
LEMMA BmapChangesStep ==
  ASSUME B!WidthAssumption, bmap \subseteq B!Full, B!Changes
  PROVE  BmapSet!Next /\ bmap' \subseteq B!Full
  <1>1. ASSUME NEW on \in SUBSET B!Full
        PROVE  /\ B!SetMask(bmap, on) = BmapSet!Result("set", on)
               /\ B!ClearMask(bmap, on) = BmapSet!Result("clear", on)
               /\ B!ToggleMask(bmap, on) = BmapSet!Result("toggle", on)
    BY DEF B!SetMask, B!Or, B!ClearMask, B!And, B!Complement, B!ToggleMask, B!Xor, BmapSet!Result
  <1>2. ASSUME NEW on \in SUBSET B!Full,
               \/ B!Change("set", on, B!SetMask(bmap, on))
               \/ B!Change("clear", on, B!ClearMask(bmap, on))
               \/ B!Change("toggle", on, B!ToggleMask(bmap, on))
        PROVE  BmapSet!Next /\ bmap' \subseteq B!Full
    <2>1. CASE B!Change("set", on, B!SetMask(bmap, on))
      BY <1>1, <2>1, BmapChangeStep
    <2>2. CASE B!Change("clear", on, B!ClearMask(bmap, on))
      BY <1>1, <2>2, BmapChangeStep
    <2>3. CASE B!Change("toggle", on, B!ToggleMask(bmap, on))
      BY <1>1, <2>3, BmapChangeStep
    <2> QED BY <1>2, <2>1, <2>2, <2>3
  <1>3. ASSUME NEW mask \in B!Words,
               \/ B!Change("set", mask, B!SetMask(bmap, mask))
               \/ B!Change("clear", mask, B!ClearMask(bmap, mask))
               \/ B!Change("toggle", mask, B!ToggleMask(bmap, mask))
        PROVE  BmapSet!Next /\ bmap' \subseteq B!Full
    BY <1>2, <1>3 DEF B!Words
  <1>4. ASSUME NEW bit_no \in B!Full,
               \/ B!Change("set", {bit_no}, B!Set(bmap, bit_no))
               \/ B!Change("clear", {bit_no}, B!Clear(bmap, bit_no))
               \/ B!Change("toggle", {bit_no}, B!Toggle(bmap, bit_no))
        PROVE  BmapSet!Next /\ bmap' \subseteq B!Full
    BY <1>2, <1>4, BmapBitIsSingle DEF B!Set, B!Clear, B!Toggle
  <1>5. ASSUME NEW r \in B!Ranges,
               \/ B!Change("set", B!Bits(r), B!SetRange(bmap, r))
               \/ B!Change("clear", B!Bits(r), B!ClearRange(bmap, r))
               \/ B!Change("toggle", B!Bits(r), B!ToggleRange(bmap, r))
        PROVE  BmapSet!Next /\ bmap' \subseteq B!Full
    BY <1>2, <1>5, BmapMaskIsRange DEF B!SetRange, B!ClearRange, B!ToggleRange
  <1>6. ASSUME \/ B!Change("set", B!Full, B!SetAll)
               \/ B!Change("clear", B!Full, B!ClearAll)
               \/ B!Change("toggle", B!Full, B!ToggleAll(bmap))
        PROVE  BmapSet!Next /\ bmap' \subseteq B!Full
    <2>1. /\ B!SetAll = B!SetMask(bmap, B!Full)
          /\ B!ClearAll = B!ClearMask(bmap, B!Full)
          /\ B!ToggleAll(bmap) = B!ToggleMask(bmap, B!Full)
      BY DEF B!SetAll, B!SetMask, B!Or, B!ClearAll, B!ClearMask, B!And, B!Complement, B!ToggleAll, B!ToggleMask, B!Xor
    <2> QED BY <1>2, <1>6, <2>1
  <1> QED BY <1>3, <1>4, <1>5, <1>6 DEF B!Changes

(* And the questions that a set answers.                                   *)
LEMMA BmapQuestionsStep ==
  ASSUME B!WidthAssumption, bmap \subseteq B!Full, B!Questions
  PROVE  BmapSet!Next /\ bmap' \subseteq B!Full
  <1>1. ASSUME NEW on \in SUBSET B!Full,
               \/ B!Ask("and", on, B!And(bmap, on))
               \/ B!Ask("or", on, B!Or(bmap, on))
               \/ B!Ask("xor", on, B!Xor(bmap, on))
               \/ B!Ask("test", on, B!TestMask(bmap, on))
        PROVE  BmapSet!Next /\ bmap' \subseteq B!Full
    <2>1. /\ B!And(bmap, on) = BmapSet!Answer("and", on)
          /\ B!Or(bmap, on) = BmapSet!Answer("or", on)
          /\ B!Xor(bmap, on) = BmapSet!Answer("xor", on)
      BY DEF B!And, B!Or, B!Xor, BmapSet!Answer
    <2>2. B!TestMask(bmap, on) = BmapSet!Answer("test", on)
      BY DEF B!TestMask, B!And, BmapSet!Answer
    <2>3. CASE B!Ask("and", on, B!And(bmap, on))
      BY <2>1, <2>3, BmapAskStep
    <2>4. CASE B!Ask("or", on, B!Or(bmap, on))
      BY <2>1, <2>4, BmapAskStep
    <2>5. CASE B!Ask("xor", on, B!Xor(bmap, on))
      BY <2>1, <2>5, BmapAskStep
    <2>6. CASE B!Ask("test", on, B!TestMask(bmap, on))
      BY <2>2, <2>6, BmapAskStep
    <2> QED BY <1>1, <2>3, <2>4, <2>5, <2>6
  <1>2. ASSUME NEW mask \in B!Words,
               \/ B!Ask("and", mask, B!And(bmap, mask))
               \/ B!Ask("or", mask, B!Or(bmap, mask))
               \/ B!Ask("xor", mask, B!Xor(bmap, mask))
               \/ B!Ask("test", mask, B!TestMask(bmap, mask))
        PROVE  BmapSet!Next /\ bmap' \subseteq B!Full
    BY <1>1, <1>2 DEF B!Words
  <1>3. ASSUME NEW bit_no \in B!Full, B!Ask("test", {bit_no}, B!Test(bmap, bit_no))
        PROVE  BmapSet!Next /\ bmap' \subseteq B!Full
    BY <1>1, <1>3, BmapBitIsSingle DEF B!Test
  <1>4. ASSUME NEW r \in B!Ranges,
               \/ B!Ask("and", B!Bits(r), B!AndRange(bmap, r))
               \/ B!Ask("or", B!Bits(r), B!OrRange(bmap, r))
               \/ B!Ask("xor", B!Bits(r), B!XorRange(bmap, r))
               \/ B!Ask("test", B!Bits(r), B!TestRange(bmap, r))
        PROVE  BmapSet!Next /\ bmap' \subseteq B!Full
    BY <1>1, <1>4, BmapMaskIsRange DEF B!AndRange, B!OrRange, B!XorRange, B!TestRange
  <1>5. bmap \cap B!Full = bmap
    OBVIOUS
  <1>6. ASSUME B!Ask("test", B!Full, B!TestAll(bmap))
        PROVE  BmapSet!Next /\ bmap' \subseteq B!Full
    <2>1. B!TestAll(bmap) = B!TestMask(bmap, B!Full)
      BY <1>5 DEF B!TestAll, B!TestMask, B!And
    <2> QED BY <1>1, <1>6, <2>1
  <1>7. ASSUME B!Ask("hweight", B!Full, B!Hweight(bmap))
        PROVE  BmapSet!Next /\ bmap' \subseteq B!Full
    <2>1. B!Hweight(bmap) = BmapSet!Answer("hweight", B!Full)
      BY <1>5, BmapSameCardinality, Zenon DEF B!Hweight, BmapSet!Answer
    <2> QED BY <1>7, <2>1, BmapAskStep
  <1> QED BY <1>2, <1>3, <1>4, <1>6, <1>7 DEF B!Questions

(* Every step is a call on a set, or none of it.                           *)
LEMMA BmapNextStep ==
  ASSUME B!WidthAssumption, bmap \subseteq B!Full, [B!Next]_(B!vars)
  PROVE  bmap' \subseteq B!Full /\ [BmapSet!Next]_(BmapSet!vars)
  <1>1. CASE B!Changes
    BY <1>1, BmapChangesStep
  <1>2. CASE B!Questions
    BY <1>2, BmapQuestionsStep
  <1>3. ASSUME B!ForeachSet \/ B!ForeachClear \/ B!Step \/ B!LoopEnds \/ (B!Forget /\ UNCHANGED bmap)
        PROVE  UNCHANGED <<bmap, call, answer>>
    BY <1>3 DEF B!ForeachSet, B!ForeachClear, B!Foreach, B!Begin, B!Step, B!LoopEnds, B!Forget
  <1>4. CASE UNCHANGED B!vars
    BY <1>4 DEF B!vars, BmapSet!vars
  <1> QED BY <1>1, <1>2, <1>3, <1>4 DEF B!Next, BmapSet!vars

(* The word has no bit past its width. *)
BmapInside == bmap \subseteq B!Full

(* A bitmap of any width implements a set of bits: each call changes those *)
(* that it is asked to and no other, and answers about them only, however  *)
(* far masks are shifted, and loops over it change nothing.                *)
THEOREM BmapIsASet ==
  ASSUME B!WidthAssumption
  PROVE  B!Spec => BmapSet!Spec
  <1>1. B!Init => BmapInside /\ BmapSet!Init
    BY BmapFits DEF BmapInside, B!Init, B!SetupSet, B!SetAll, B!SetupClear, B!ClearAll,
                    BmapSet!Init
  <1>2. BmapInside /\ [B!Next]_(B!vars) => BmapInside' /\ [BmapSet!Next]_(BmapSet!vars)
    BY BmapNextStep DEF BmapInside
  <1> QED BY <1>1, <1>2, PTL DEF B!Spec, BmapSet!Spec

-----------------------------------------------------------------------------
(* Powers of two, and multiples of them.                                   *)

LEMMA PowersOfTwo ==
  /\ P!Two = Two
  /\ \A n \in Nat : Two[n] \in Nat \ {0} /\ Two[n + 1] = 2 * Two[n]
  /\ \A m, n \in Nat : m <= n => Two[m] <= Two[n]
  <1>1. P!Two = Two
    BY DEF P!Two, Two, Powers!Two
  <1>2. ASSUME NEW m \in Nat, NEW n \in Nat, m <= n PROVE Two[m] <= Two[n]
    <2>1. Two[m] \in Nat \ {0} /\ Two[n] \in Nat \ {0}
      BY TwoFacts
    <2>2. CASE m = n
      BY <2>1, <2>2
    <2>3. CASE m < n
      BY <2>1, <2>3, TwoGrows
    <2> QED BY <1>2, <2>2, <2>3
  <1> QED BY <1>1, <1>2, TwoFacts

(* Every value of a word but 0 is between two consecutive powers.          *)
LEMMA LowOfPower ==
  ASSUME NEW v \in 1 .. Two[Pow2W] - 1
  PROVE  /\ P!Pow2Low(v) \in 0 .. Pow2W - 1
         /\ Two[P!Pow2Low(v)] <= v /\ v < Two[P!Pow2Low(v) + 1]
  <1>1. Pow2W \in Nat \ {0}
    BY WidthsAssumption DEF P!WidthAssumption
  <1>2. v \in Nat /\ v # 0 /\ v < Two[Pow2W]
    BY <1>1, PowersOfTwo
  <1> DEFINE T == {n \in Nat : v < Two[n]}
  <1>3. PICK k \in T : \A n \in T : k <= n
    <2>1. T \subseteq Nat /\ T # {}
      BY <1>1, <1>2
    <2> HIDE DEF T
    <2> QED BY <2>1, LeastElement
  <1>4. k \in 1 .. Pow2W
    <2>1. k # 0
      BY <1>2, <1>3, TwoFacts
    <2>2. k <= Pow2W
      BY <1>1, <1>2, <1>3
    <2> QED BY <1>3, <2>1, <2>2
  <1>5. Two[k - 1] <= v /\ v < Two[k]
    <2>1. k - 1 \in Nat /\ k - 1 \notin T
      BY <1>3, <1>4
    <2> QED BY <1>2, <1>3, <2>1, PowersOfTwo
  <1>6. P!Fls(v) \in 1 .. Pow2W /\ Two[P!Fls(v) - 1] <= v /\ v < Two[P!Fls(v)]
    BY <1>4, <1>5, PowersOfTwo DEF P!Fls
  <1>7. P!Pow2Low(v) = P!Fls(v) - 1 /\ P!Pow2Low(v) + 1 = P!Fls(v)
    BY <1>6 DEF P!Pow2Low
  <1> QED BY <1>1, <1>6, <1>7

LEMMA LowIs ==
  ASSUME NEW v \in 1 .. Two[Pow2W] - 1, NEW n \in Nat, Two[n] <= v, v < Two[n + 1]
  PROVE  P!Pow2Low(v) = n
  <1> DEFINE l == P!Pow2Low(v)
  <1>1. l \in Nat /\ Two[l] <= v /\ v < Two[l + 1]
    BY LowOfPower
  <1> HIDE DEF l
  <1>2. v \in Nat /\ Two[n] \in Nat /\ Two[l] \in Nat /\ Two[n + 1] \in Nat /\ Two[l + 1] \in Nat
    BY <1>1, PowersOfTwo
  <1>3. ~(l < n)
    <2> SUFFICES ASSUME l + 1 <= n PROVE FALSE
      BY <1>1
    <2>1. Two[l + 1] <= Two[n]
      BY <1>1, PowersOfTwo
    <2> QED BY <1>1, <1>2, <2>1
  <1>4. ~(n < l)
    <2> SUFFICES ASSUME n + 1 <= l PROVE FALSE
      BY <1>1
    <2>1. Two[n + 1] <= Two[l]
      BY <1>1, PowersOfTwo
    <2> QED BY <1>1, <1>2, <2>1
  <1>5. l = n
    BY <1>1, <1>3, <1>4
  <1> QED BY <1>5 DEF l

(* The sum never wraps, and its logarithm is the one of the value rounded  *)
(* up.                                                                     *)
LEMMA UpIsLeast ==
  ASSUME NEW v \in 1 .. Two[Pow2W] - 1
  PROVE  /\ P!Pow2Up(v) \in Nat
         /\ v <= Two[P!Pow2Up(v)]
         /\ \A m \in 0 .. P!Pow2Up(v) - 1 : Two[m] < v
  <1>1. Pow2W \in Nat \ {0} /\ Pow2W - 1 \in Nat /\ Pow2W - 1 + 1 = Pow2W
    BY WidthsAssumption DEF P!WidthAssumption
  <1> DEFINE half == Two[Pow2W - 1]
  <1>2. half \in Nat \ {0} /\ Two[Pow2W] = 2 * half
    BY <1>1, PowersOfTwo
  <1>3. v \in Nat /\ v # 0 /\ v < 2 * half
    BY <1>2
  <1>4. P!Pow2Up(v) = IF v > half THEN Pow2W
                      ELSE P!Pow2Low((v + Two[P!Pow2Low(v)] - 1) % (2 * half))
    BY <1>2, PowersOfTwo DEF P!Pow2Up
  <1> HIDE DEF half
  <1>5. CASE v > half
    <2>1. P!Pow2Up(v) = Pow2W
      BY <1>4, <1>5
    <2>2. ASSUME NEW m \in 0 .. Pow2W - 1 PROVE Two[m] < v
      <3>1. Two[m] <= half /\ Two[m] \in Nat
        BY <1>1, PowersOfTwo DEF half
      <3> QED BY <1>2, <1>3, <1>5, <3>1
    <2> QED BY <1>1, <1>2, <1>3, <2>1, <2>2
  <1>6. CASE ~(v > half)
    <2> DEFINE l == P!Pow2Low(v)
    <2>1. l \in Nat /\ Two[l] <= v /\ v < Two[l + 1] /\ Two[l] \in Nat \ {0}
          /\ Two[l + 1] = 2 * Two[l] /\ l + 1 \in Nat /\ Two[l + 1 + 1] = 2 * Two[l + 1]
      BY LowOfPower, PowersOfTwo
    <2> DEFINE sum == v + Two[l] - 1
    <2>2. sum \in 1 .. 2 * half - 1
      BY <1>2, <1>3, <1>6, <2>1
    <2>3. P!Pow2Up(v) = P!Pow2Low(sum)
      <3>1. sum % (2 * half) = sum
        <4> HIDE DEF sum
        <4>1. 2 * half \in Nat \ {0} /\ sum = (2 * half) * 0 + sum /\ sum \in 0 .. (2 * half) - 1
              /\ sum \in Int
          BY <1>2, <2>2
        <4> QED BY <4>1, Quotient
      <3> QED BY <1>4, <1>6, <3>1
    <2>4. sum \in 1 .. Two[Pow2W] - 1
      BY <1>2, <2>2
    <2>5. CASE v = Two[l]
      <3>1. Two[l] <= sum /\ sum < Two[l + 1]
        BY <1>3, <2>1, <2>5
      <3>2. P!Pow2Up(v) = l
        <4> HIDE DEF l, sum
        <4> QED BY <2>1, <2>3, <2>4, <3>1, LowIs
      <3>3. ASSUME NEW m \in 0 .. l - 1 PROVE Two[m] < v
        <4>1. 2 * Two[m] <= Two[l] /\ Two[m] \in Nat \ {0}
          BY <2>1, PowersOfTwo, TwoGrows
        <4> QED BY <2>1, <2>5, <4>1
      <3> HIDE DEF l
      <3> QED BY <2>1, <2>5, <3>2, <3>3
    <2>6. CASE v # Two[l]
      <3>1. Two[l + 1] <= sum /\ sum < Two[l + 1 + 1]
        BY <1>3, <2>1, <2>6
      <3>2. P!Pow2Up(v) = l + 1
        <4> HIDE DEF l, sum
        <4> QED BY <2>1, <2>3, <2>4, <3>1, LowIs
      <3>3. ASSUME NEW m \in 0 .. l + 1 - 1 PROVE Two[m] < v
        <4>1. Two[m] <= Two[l] /\ Two[m] \in Nat \ {0}
          BY <2>1, PowersOfTwo
        <4> QED BY <1>3, <2>1, <2>6, <4>1
      <3>4. v <= Two[l + 1]
        BY <1>3, <2>1
      <3> HIDE DEF l
      <3> QED BY <2>1, <3>2, <3>3, <3>4
    <2> QED BY <2>5, <2>6
  <1> QED BY <1>5, <1>6

(* What rounding down to a multiple gives.                                 *)
LEMMA Lower ==
  ASSUME NEW n \in Nat, NEW m \in Nat \ {0}
  PROVE  /\ P!AlignLower(n, m) % m = 0
         /\ P!AlignLower(n, m) <= n /\ n < P!AlignLower(n, m) + m
         /\ n < m => P!AlignLower(n, m) = 0
         /\ P!AlignLower(n, m) \in Nat
  <1> DEFINE q == n \div m
             r == n % m
  <1>1. q \in Int /\ r \in 0 .. m - 1 /\ n = m * q + r
    OBVIOUS
  <1>2. P!AlignLower(n, m) = n - r
    BY DEF P!AlignLower
  <1>3. n < m => r = n
    <2>1. n \in Int /\ 0 \in Int /\ n = m * 0 + n
      OBVIOUS
    <2>2. n < m => n \in 0 .. m - 1
      OBVIOUS
    <2> QED BY <2>1, <2>2, Quotient
  <1> HIDE DEF q, r
  <1>4. (n - r) % m = 0
    <2>1. n - r = m * q + 0 /\ n - r \in Int /\ 0 \in 0 .. m - 1
      BY <1>1
    <2> QED BY <1>1, <2>1, Quotient
  <1> QED BY <1>1, <1>2, <1>3, <1>4

LEMMA UpperIs ==
  ASSUME NEW v \in 1 .. Two[Pow2W] - 1, NEW n \in 0 .. Pow2W - 1
  PROVE  LET up == P!AlignUpper(v, Two[n])
         IN  /\ up % Two[n] = 0
             /\ IF v <= Two[Pow2W] - Two[n] THEN v <= up /\ up - v < Two[n] ELSE up = 0
  <1>1. Pow2W \in Nat \ {0}
    BY WidthsAssumption DEF P!WidthAssumption
  <1> DEFINE a == Two[n]
             all == Two[Pow2W]
             x == (v + a - 1) % all
  <1>2. /\ a \in Nat \ {0} /\ all \in Nat \ {0} /\ 2 * a <= all
        /\ P!AlignUpper(v, a) = P!AlignLower(x, a)
    BY <1>1, PowersOfTwo, TwoGrows DEF P!AlignUpper
  <1>3. v \in Nat /\ v # 0 /\ v < all
    BY <1>2
  <1>4. v + a - 1 \in Int /\ x \in Nat
    BY <1>2, <1>3
  <1>5. ASSUME v <= all - a PROVE x = v + a - 1
    <2> DEFINE s == v + a - 1
    <2>1. s \in Int /\ 0 \in Int /\ s = all * 0 + s /\ s \in 0 .. all - 1
      BY <1>2, <1>3, <1>5
    <2> HIDE DEF all, s
    <2>2. s % all = s
      BY <1>2, <2>1, Quotient
    <2> QED BY <2>2 DEF s
  <1>6. ASSUME ~(v <= all - a) PROVE x < a
    <2> DEFINE s == v + a - 1
               r == s - all
    <2>1. s \in Int /\ 1 \in Int /\ s = all * 1 + r /\ r \in 0 .. all - 1 /\ r < a
      BY <1>2, <1>3, <1>6
    <2> HIDE DEF all, s, r
    <2>2. s % all = r
      BY <1>2, <2>1, Quotient
    <2> QED BY <2>1, <2>2 DEF s
  <1> HIDE DEF x
  <1>7. /\ P!AlignLower(x, a) % a = 0
        /\ P!AlignLower(x, a) <= x /\ x < P!AlignLower(x, a) + a
        /\ x < a => P!AlignLower(x, a) = 0
        /\ P!AlignLower(x, a) \in Nat
    <2> HIDE DEF a
    <2> QED BY <1>2, <1>4, Lower
  <1> HIDE DEF a, all
  <1>8. v <= all - a => v <= P!AlignLower(x, a) /\ P!AlignLower(x, a) - v < a
    BY <1>2, <1>3, <1>5, <1>7
  <1> QED BY <1>2, <1>6, <1>7, <1>8 DEF a, all

-----------------------------------------------------------------------------
(* Loops over the bits of a word.                                          *)

(* Numbers in increasing order, to which a greater one is added. *)
Increasing(s) == \A i \in 2 .. Len(s) : s[i - 1] < s[i]

LEMMA AppendGreater ==
  ASSUME NEW s \in Seq(Int), Increasing(s), NEW x \in Int, \A y \in Range(s) : y < x
  PROVE  /\ Append(s, x) \in Seq(Int) /\ Increasing(Append(s, x))
         /\ Range(Append(s, x)) = Range(s) \cup {x}
  <1> DEFINE t == Append(s, x)
  <1>1. /\ t \in Seq(Int) /\ Len(t) = Len(s) + 1 /\ Len(s) \in Nat
        /\ \A i \in 1 .. Len(s) : t[i] = s[i]
        /\ t[Len(s) + 1] = x
        /\ DOMAIN s = 1 .. Len(s) /\ DOMAIN t = 1 .. Len(s) + 1
    OBVIOUS
  <1> HIDE DEF t
  <1>2. \A i \in 1 .. Len(s) : s[i] \in Range(s)
    BY <1>1 DEF Range
  <1>3. ASSUME NEW i \in 2 .. Len(t) PROVE t[i - 1] < t[i]
    <2>1. CASE i = Len(s) + 1
      <3>1. i - 1 \in 1 .. Len(s) /\ t[i - 1] = s[i - 1]
        BY <1>1, <2>1
      <3> QED BY <1>1, <1>2, <2>1, <3>1
    <2>2. CASE i # Len(s) + 1
      <3>1. i \in 2 .. Len(s) /\ i \in 1 .. Len(s) /\ i - 1 \in 1 .. Len(s)
        BY <1>1, <2>2
      <3> QED BY <1>1, <3>1 DEF Increasing
    <2> QED BY <2>1, <2>2
  <1>4. Range(t) = Range(s) \cup {x}
    <2>1. ASSUME NEW y \in Range(t) PROVE y \in Range(s) \cup {x}
      <3>1. PICK i \in 1 .. Len(s) + 1 : t[i] = y
        BY <1>1 DEF Range
      <3>2. CASE i = Len(s) + 1
        BY <1>1, <3>1, <3>2
      <3>3. CASE i # Len(s) + 1
        <4>1. i \in 1 .. Len(s)
          BY <1>1, <3>3
        <4> QED BY <1>1, <1>2, <3>1, <4>1
      <3> QED BY <3>2, <3>3
    <2>2. ASSUME NEW y \in Range(s) PROVE y \in Range(t)
      <3>1. PICK i \in 1 .. Len(s) : s[i] = y
        BY <1>1 DEF Range
      <3>2. i \in 1 .. Len(s) + 1 /\ t[i] = y
        BY <1>1, <3>1
      <3> QED BY <1>1, <3>2 DEF Range
    <2>3. x \in Range(t)
      <3>1. Len(s) + 1 \in 1 .. Len(s) + 1
        BY <1>1
      <3> QED BY <1>1, <3>1 DEF Range
    <2> QED BY <2>1, <2>2, <2>3
  <1> QED BY <1>1, <1>3, <1>4 DEF Increasing, t

(* The first bit set in a word that has one.                               *)
LEMMA FirstBit ==
  ASSUME NEW word, word \subseteq Nat, word # {}
  PROVE  /\ B!Ffs(word) - 1 \in word /\ F!Ffs(word) - 1 \in word
         /\ \A b \in word : B!Ffs(word) - 1 <= b /\ F!Ffs(word) - 1 <= b
         /\ B!Ffs(word) \in Nat \ {0} /\ F!Ffs(word) \in Nat \ {0}
  <1>1. \E x \in word : \A y \in word : x <= y
    BY LeastElement
  <1>2. B!Min(word) \in word /\ \A y \in word : B!Min(word) <= y
    BY <1>1 DEF B!Min
  <1>3. F!Min(word) \in word /\ \A y \in word : F!Min(word) <= y
    BY <1>1 DEF F!Min
  <1>4. B!Ffs(word) = B!Min(word) + 1 /\ F!Ffs(word) = F!Min(word) + 1
    BY DEF B!Ffs, F!Ffs
  <1>5. B!Min(word) \in Nat /\ F!Min(word) \in Nat
    BY <1>2, <1>3
  <1>6. /\ B!Ffs(word) - 1 = B!Min(word) /\ F!Ffs(word) - 1 = F!Min(word)
        /\ B!Ffs(word) \in Nat \ {0} /\ F!Ffs(word) \in Nat \ {0}
    BY <1>4, <1>5
  <1> QED BY <1>2, <1>3, <1>6

(* What a loop over a bmap has gone through is what it was after, up to    *)
(* the last bit that it was given; the copy that it shifts has the rest.   *)
BmapLeft == {b - iter.bit_no - 1 : b \in {c \in wanted : c > iter.bit_no}}

BmapGone ==
  /\ wanted \subseteq B!Full
  /\ iter.bit_no \in -1 .. BmapW - 1
  /\ iter.word = BmapLeft
  /\ iter.ended => iter.word = {}
  /\ Range(seen) = {c \in wanted : c <= iter.bit_no}

BmapLoop ==
  /\ bmap \subseteq B!Full
  /\ iter = None => seen = <<>>
  /\ iter # None => iter \in B!Iterators
  /\ seen \in Seq(Int)
  /\ wanted # {BmapW - 1} => Increasing(seen)
  /\ iter # None /\ wanted # {BmapW - 1} => BmapGone

(* The copy is shifted to the next bit that the loop is after.             *)
LEMMA BmapStepGoes ==
  ASSUME B!WidthAssumption, BmapLoop, B!Step
  PROVE  BmapLoop'
  <1>1. BmapW \in Nat \ {0}
    BY DEF B!WidthAssumption
  <1> DEFINE diff == B!Ffs(iter.word)
             next == iter.bit_no + diff
  <1>2. /\ iter # None /\ iter.word # {}
        /\ iter \in B!Iterators /\ iter.word \subseteq B!Full /\ iter.bit_no \in Int
    BY DEF B!Step, BmapLoop, B!Iterators, B!Words
  <1>3. PICK word \in B!Shifted(iter.word, diff) :
          iter' = [iter EXCEPT !.word = word, !.bit_no = iter.bit_no + diff]
    BY DEF B!Step
  <1>4. /\ seen' = Append(seen, next)
        /\ UNCHANGED <<bmap, call, answer, wanted, changed>>
    BY DEF B!Step, B!Given
  <1>5. iter.word \subseteq Nat
    BY <1>1, <1>2 DEF B!Full
  <1>6. /\ diff \in Nat \ {0} /\ diff - 1 \in iter.word
        /\ \A b \in iter.word : diff - 1 <= b
    BY <1>2, <1>5, FirstBit
  <1> HIDE DEF diff
  <1>7. word \subseteq B!Full
    BY <1>1, <1>2, <1>3, <1>6 DEF B!Shifted, B!Shr, B!Full
  <1>8. iter' = [word |-> word, bit_no |-> next, ended |-> iter.ended]
    BY <1>2, <1>3 DEF B!Iterators
  <1>9. iter' \in B!Iterators
    BY <1>2, <1>6, <1>7, <1>8 DEF B!Iterators, B!Words
  <1>10. iter' # None
    BY <1>9, NoneAssumption
  <1>11. seen' \in Seq(Int)
    BY <1>2, <1>4, <1>6 DEF BmapLoop
  <1>12. ASSUME wanted # {BmapW - 1} PROVE Increasing(seen') /\ BmapGone'
    <2>1. /\ wanted \subseteq B!Full /\ iter.bit_no \in -1 .. BmapW - 1
          /\ iter.word = BmapLeft /\ Increasing(seen) /\ seen \in Seq(Int)
          /\ Range(seen) = {c \in wanted : c <= iter.bit_no}
          /\ ~ iter.ended
      BY <1>2, <1>12 DEF BmapLoop, BmapGone
    <2>2. \A c \in wanted : c \in Int /\ 0 <= c /\ c <= BmapW - 1
      BY <1>1, <2>1 DEF B!Full
    <2>3. next \in wanted /\ next > iter.bit_no
      <3>1. PICK c \in wanted : c > iter.bit_no /\ diff - 1 = c - iter.bit_no - 1
        BY <1>6, <2>1 DEF BmapLeft
      <3>2. c = next
        BY <1>6, <2>1, <2>2, <3>1
      <3> QED BY <3>1, <3>2
    <2>4. ASSUME NEW c \in wanted, c > iter.bit_no PROVE next <= c
      <3>1. c - iter.bit_no - 1 \in iter.word
        BY <2>1, <2>4 DEF BmapLeft
      <3>2. diff - 1 <= c - iter.bit_no - 1
        BY <1>6, <3>1
      <3> QED BY <1>6, <2>1, <2>2, <3>2
    <2>5. diff < BmapW
      <3> SUFFICES ASSUME ~(diff < BmapW) PROVE FALSE
        OBVIOUS
      <3>1. next = BmapW - 1 /\ iter.bit_no = -1
        BY <1>1, <1>6, <2>1, <2>2, <2>3
      <3>2. \A c \in wanted : c = BmapW - 1
        BY <1>1, <2>2, <2>4, <3>1
      <3> QED BY <1>12, <2>3, <3>1, <3>2
    <2>6. word = B!Shr(iter.word, diff)
      BY <1>3, <2>5 DEF B!Shifted
    <2>7. word = {b - next - 1 : b \in {c \in wanted : c > next}}
      <3>1. ASSUME NEW c \in wanted, c > next PROVE c - next - 1 \in word
        <4> DEFINE d == c - iter.bit_no - 1
        <4>1. c > iter.bit_no
          BY <1>6, <2>1, <2>2, <3>1
        <4>2. d \in iter.word
          BY <2>1, <4>1 DEF BmapLeft
        <4>3. d >= diff /\ d - diff = c - next - 1
          BY <1>6, <2>1, <2>2, <3>1
        <4> HIDE DEF d
        <4>4. d - diff \in word
          BY <2>6, <4>2, <4>3 DEF B!Shr
        <4> QED BY <4>3, <4>4
      <3>2. ASSUME NEW w \in word PROVE \E c \in wanted : c > next /\ w = c - next - 1
        <4>1. PICK d \in iter.word : d >= diff /\ w = d - diff
          BY <2>6 DEF B!Shr
        <4>2. PICK c \in wanted : c > iter.bit_no /\ d = c - iter.bit_no - 1
          BY <2>1 DEF BmapLeft
        <4>3. c > next /\ w = c - next - 1
          BY <1>6, <2>1, <2>2, <4>1, <4>2
        <4> QED BY <4>3
      <3> HIDE DEF next
      <3> QED BY <3>1, <3>2
    <2>8. next \in Int /\ \A y \in Range(seen) : y < next
      BY <1>6, <2>1, <2>2, <2>3
    <2>9. next \in -1 .. BmapW - 1
      BY <2>2, <2>3, <2>8
    <2>10. {c \in wanted : c <= next} = {c \in wanted : c <= iter.bit_no} \cup {next}
      BY <1>6, <2>1, <2>2, <2>3, <2>4
    <2> HIDE DEF next
    <2>11. Increasing(seen') /\ Range(seen') = {c \in wanted : c <= next}
      <3>1. Increasing(Append(seen, next)) /\ Range(Append(seen, next)) = Range(seen) \cup {next}
        BY <2>1, <2>8, AppendGreater
      <3> QED BY <1>4, <2>1, <2>10, <3>1
    <2>12. iter'.word = word /\ iter'.bit_no = next /\ ~ iter'.ended /\ wanted' = wanted
      BY <1>4, <1>8, <2>1
    <2>13. BmapLeft' = {b - next - 1 : b \in {c \in wanted : c > next}}
      BY <2>12 DEF BmapLeft
    <2> QED BY <2>1, <2>7, <2>9, <2>11, <2>12, <2>13 DEF BmapGone
  <1> QED BY <1>4, <1>9, <1>10, <1>11, <1>12 DEF BmapLoop

LEMMA BmapForeachGoes ==
  ASSUME B!WidthAssumption, BmapLoop, B!ForeachSet \/ B!ForeachClear
  PROVE  BmapLoop'
  <1>1. BmapW \in Nat \ {0}
    BY DEF B!WidthAssumption
  <1>2. PICK word : /\ word \subseteq B!Full /\ B!Foreach(word)
    BY DEF BmapLoop, B!ForeachSet, B!ForeachClear, B!Xor
  <1>3. /\ iter = None /\ wanted' = word /\ seen' = seen /\ bmap' = bmap
        /\ iter' = [word |-> word, bit_no |-> -1, ended |-> FALSE]
    BY <1>2 DEF B!Foreach, B!Begin
  <1>4. seen' = <<>>
    BY <1>3 DEF BmapLoop
  <1>5. iter' \in B!Iterators
    BY <1>2, <1>3 DEF B!Iterators, B!Words
  <1>6. Increasing(seen') /\ Range(seen') = {} /\ seen' \in Seq(Int)
    BY <1>4 DEF Increasing, Range
  <1>7. \A b \in word : b \in Int /\ b > -1 /\ b - (-1) - 1 = b
    BY <1>1, <1>2 DEF B!Full
  <1>8. BmapLeft' = word
    <2>1. BmapLeft' = {b - (-1) - 1 : b \in {c \in word : c > -1}}
      BY <1>3 DEF BmapLeft
    <2> QED BY <1>7, <2>1
  <1>9. {c \in word : c <= -1} = {}
    BY <1>7
  <1>10. BmapGone'
    <2>1. /\ wanted' = word /\ iter'.bit_no = -1 /\ iter'.word = word /\ iter'.ended = FALSE
      BY <1>3
    <2>2. -1 \in -1 .. BmapW - 1
      BY <1>1
    <2> QED BY <1>2, <1>6, <1>8, <1>9, <2>1, <2>2 DEF BmapGone
  <1> QED BY <1>3, <1>4, <1>5, <1>6, <1>10, NoneAssumption DEF BmapLoop

LEMMA BmapLoopStep ==
  ASSUME B!WidthAssumption, BmapLoop, B!Next \/ UNCHANGED B!vars
  PROVE  BmapLoop'
  <1>1. CASE B!Step
    BY <1>1, BmapStepGoes
  <1>2. CASE B!ForeachSet \/ B!ForeachClear
    BY <1>2, BmapForeachGoes
  <1>3. ASSUME UNCHANGED <<iter, wanted, seen>>, bmap' \subseteq B!Full PROVE BmapLoop'
    BY <1>3 DEF BmapLoop, BmapGone, BmapLeft
  <1>4. bmap' \subseteq B!Full
    <2>1. bmap \subseteq B!Full
      BY DEF BmapLoop
    <2> QED BY <2>1, BmapNextStep
  <1>5. CASE B!Changes \/ B!Questions \/ UNCHANGED B!vars
    <2>1. UNCHANGED <<iter, wanted, seen>>
      BY <1>5 DEF B!Changes, B!Change, B!Changing, B!Questions, B!Ask, B!Asking, B!vars, B!loop
    <2> QED BY <1>3, <1>4, <2>1
  <1>6. CASE B!LoopEnds
    <2>1. /\ iter # None /\ iter.word = {} /\ iter' = [iter EXCEPT !.ended = TRUE]
          /\ UNCHANGED <<bmap, wanted, seen>> /\ iter \in B!Iterators
      BY <1>6 DEF B!LoopEnds, BmapLoop
    <2>2. iter' \in B!Iterators /\ iter'.word = {} /\ iter'.bit_no = iter.bit_no
      BY <2>1 DEF B!Iterators
    <2>3. BmapLeft' = BmapLeft
      BY <2>1, <2>2 DEF BmapLeft
    <2>4. BmapGone => BmapGone'
      BY <2>1, <2>2, <2>3 DEF BmapGone
    <2> QED BY <1>4, <2>1, <2>2, <2>4, NoneAssumption DEF BmapLoop
  <1>7. CASE B!Forget /\ UNCHANGED bmap
    <2>1. iter' = None /\ seen' = <<>> /\ <<>> \in Seq(Int) /\ Increasing(<<>>)
      BY <1>7 DEF B!Forget, Increasing
    <2> QED BY <1>4, <2>1 DEF BmapLoop
  <1> QED BY <1>1, <1>2, <1>5, <1>6, <1>7 DEF B!Next

LEMMA BmapLoopsComplete ==
  BmapLoop /\ wanted # {BmapW - 1} => B!LoopComplete
  <1> SUFFICES ASSUME BmapLoop, wanted # {BmapW - 1} PROVE B!LoopComplete
    OBVIOUS
  <1>1. B!Range(seen) = Range(seen)
    BY DEF B!Range, Range
  <1>2. Increasing(seen)
    BY DEF BmapLoop
  <1>3. CASE iter = None
    <2>1. seen = <<>>
      BY <1>3 DEF BmapLoop
    <2>2. Range(seen) = {}
      BY <2>1 DEF Range
    <2> QED BY <1>1, <1>2, <1>3, <2>2 DEF B!LoopComplete, Increasing
  <1>4. CASE iter # None
    <2>1. BmapGone
      BY <1>4 DEF BmapLoop
    <2>2. iter.ended => wanted \subseteq Range(seen)
      <3> SUFFICES ASSUME iter.ended, NEW c \in wanted PROVE c \in Range(seen)
        OBVIOUS
      <3>1. ~ (c > iter.bit_no)
        BY <2>1 DEF BmapGone, BmapLeft
      <3>2. c \in Int /\ iter.bit_no \in Int
        BY <2>1 DEF BmapGone, B!Full
      <3> QED BY <2>1, <3>1, <3>2 DEF BmapGone
    <2> QED BY <1>1, <1>2, <2>1, <2>2 DEF B!LoopComplete, BmapGone, Increasing
  <1> QED BY <1>3, <1>4

-----------------------------------------------------------------------------
(* Where the bits of an fbmap are.                                         *)

LEMMA FbmapWidth == FbmapW \in Nat \ {0}
  BY WidthsAssumption DEF F!WidthAssumption

LEMMA FbmapBit ==
  ASSUME NEW b \in Nat
  PROVE  /\ F!WordNo(b) \in Nat /\ F!WordBitNo(b) \in F!Full /\ F!Full \subseteq Nat
         /\ F!WordBitNo(b) \in Nat
         /\ b = FbmapW * F!WordNo(b) + F!WordBitNo(b)
  <1> USE FbmapWidth
  <1>1. b \div FbmapW \in Nat /\ b % FbmapW \in 0 .. FbmapW - 1
        /\ b = FbmapW * (b \div FbmapW) + (b % FbmapW)
    OBVIOUS
  <1> QED BY <1>1 DEF F!WordNo, F!WordBitNo, F!Full

LEMMA FbmapPlace ==
  ASSUME NEW w \in Nat, NEW i \in F!Full
  PROVE  /\ FbmapW * w + i \in Nat
         /\ F!WordNo(FbmapW * w + i) = w /\ F!WordBitNo(FbmapW * w + i) = i
  <1> USE FbmapWidth
  <1>1. i \in 0 .. FbmapW - 1 /\ i \in Nat
    BY DEF F!Full
  <1>2. FbmapW * w \in Nat
    OBVIOUS
  <1> DEFINE b == FbmapW * w + i
  <1>3. b \in Nat /\ b \in Int /\ w \in Int
    BY <1>1, <1>2
  <1>4. b = FbmapW * w + i
    OBVIOUS
  <1> HIDE DEF b
  <1>5. b \div FbmapW = w /\ b % FbmapW = i
    BY <1>1, <1>3, <1>4, Quotient
  <1> QED BY <1>3, <1>5 DEF b, F!WordNo, F!WordBitNo

(* A bit precedes another one in an earlier word, or in the same.          *)
LEMMA FbmapPrecedes ==
  ASSUME NEW a \in Nat, NEW b \in Nat
  PROVE  a <= b <=> \/ F!WordNo(a) < F!WordNo(b)
                    \/ F!WordNo(a) = F!WordNo(b) /\ F!WordBitNo(a) <= F!WordBitNo(b)
  <1> DEFINE v == F!WordNo(a)
             i == F!WordBitNo(a)
             w == F!WordNo(b)
             j == F!WordBitNo(b)
  <1>1. /\ v \in Nat /\ w \in Nat /\ i \in 0 .. FbmapW - 1 /\ j \in 0 .. FbmapW - 1
        /\ a = FbmapW * v + i /\ b = FbmapW * w + j
    BY FbmapBit DEF F!Full
  <1>2. FbmapW \in Nat \ {0}
    BY FbmapWidth
  <1> HIDE DEF v, i, w, j
  <1>3. FbmapW * v \in Nat /\ FbmapW * w \in Nat
    BY <1>1, <1>2
  <1>4. ASSUME v = w PROVE a <= b <=> i <= j
    BY <1>1, <1>2, <1>3, <1>4
  <1>5. ASSUME v < w PROVE a <= b
    <2>1. v + 1 <= w
      BY <1>1, <1>5
    <2>2. FbmapW * (v + 1) <= FbmapW * w
      BY <1>1, <1>2, <2>1
    <2>3. FbmapW * (v + 1) = FbmapW * v + FbmapW
      BY <1>1, <1>2
    <2> QED BY <1>1, <1>2, <1>3, <2>2, <2>3
  <1>6. ASSUME w < v PROVE ~(a <= b)
    <2>1. w + 1 <= v
      BY <1>1, <1>6
    <2>2. FbmapW * (w + 1) <= FbmapW * v
      BY <1>1, <1>2, <2>1
    <2>3. FbmapW * (w + 1) = FbmapW * w + FbmapW
      BY <1>1, <1>2
    <2> QED BY <1>1, <1>2, <1>3, <2>2, <2>3
  <1>7. v < w \/ v = w \/ w < v
    BY <1>1
  <1>8. a <= b <=> v < w \/ (v = w /\ i <= j)
    BY <1>1, <1>4, <1>5, <1>6, <1>7
  <1> QED BY <1>8 DEF v, i, w, j

(* As many words as the last bit needs. *)
LEMMA FbmapWords ==
  ASSUME NEW n \in Nat \ {0}
  PROVE  /\ F!WordNr(n) \in Nat \ {0}
         /\ F!WordNr(n) - 1 = F!WordNo(n - 1)
         /\ \A b \in 0 .. n - 1 : F!WordNo(b) \in F!Array(n)
  <1> USE FbmapWidth
  <1>1. n - 1 \in Nat /\ n + FbmapW - 1 \in Nat
    OBVIOUS
  <1> DEFINE w == F!WordNo(n - 1)
             i == F!WordBitNo(n - 1)
  <1>2. w \in Nat /\ i \in F!Full /\ n - 1 = FbmapW * w + i
    BY <1>1, FbmapBit
  <1> HIDE DEF w, i
  <1>3. w + 1 \in Nat /\ FbmapW * (w + 1) = FbmapW * w + FbmapW /\ FbmapW * w \in Nat
    BY <1>2
  <1>4. n + FbmapW - 1 = FbmapW * (w + 1) + i
    BY <1>2, <1>3 DEF F!Full
  <1>5. F!WordNo(n + FbmapW - 1) = w + 1
    BY <1>2, <1>3, <1>4, FbmapPlace
  <1>6. F!WordNr(n) = w + 1
    BY <1>5 DEF F!WordNr
  <1>7. ASSUME NEW b \in 0 .. n - 1 PROVE F!WordNo(b) \in F!Array(n)
    <2>1. b \in Nat /\ b <= n - 1
      OBVIOUS
    <2>2. F!WordNo(b) <= w /\ F!WordNo(b) \in Nat
      <3>1. \/ F!WordNo(b) < F!WordNo(n - 1)
            \/ F!WordNo(b) = F!WordNo(n - 1) /\ F!WordBitNo(b) <= F!WordBitNo(n - 1)
        BY <1>1, <2>1, FbmapPrecedes
      <3>2. F!WordNo(b) \in Nat
        BY <2>1, FbmapBit
      <3> QED BY <1>2, <3>1, <3>2 DEF w
    <2> QED BY <1>2, <1>6, <2>2 DEF F!Array
  <1> QED BY <1>2, <1>6, <1>7 DEF w

(* Masks have the bits from one on, up to one, and one alone.              *)
LEMMA FbmapMasks ==
  ASSUME NEW b \in Nat
  PROVE  /\ F!WordHighMask(b) = {i \in F!Full : F!WordBitNo(b) <= i}
         /\ F!WordLowMask(b) = {i \in F!Full : i <= F!WordBitNo(b)}
         /\ F!WordBitMask(b) = {F!WordBitNo(b)}
  <1> DEFINE k == F!WordBitNo(b)
  <1>1. FbmapW \in Nat \ {0} /\ k \in 0 .. FbmapW - 1 /\ k \in Nat
    BY FbmapWidth, FbmapBit DEF F!Full
  <1> HIDE DEF k
  <1>2. F!Shl(F!Full, k) = {i \in F!Full : k <= i}
    <2>1. ASSUME NEW i \in F!Full, k <= i PROVE i \in F!Shl(F!Full, k)
      <3>1. i - k \in F!Full /\ i = (i - k) + k
        BY <1>1, <2>1 DEF F!Full
      <3> QED BY <3>1 DEF F!Shl
    <2>2. ASSUME NEW i \in F!Shl(F!Full, k) PROVE i \in F!Full /\ k <= i
      BY <1>1 DEF F!Shl, F!Full
    <2> QED BY <2>1, <2>2
  <1>3. F!Shr(F!Full, FbmapW - 1 - k) = {i \in F!Full : i <= k}
    <2>1. ASSUME NEW i \in F!Full, i <= k PROVE i \in F!Shr(F!Full, FbmapW - 1 - k)
      <3>1. i + (FbmapW - 1 - k) \in {c \in F!Full : c >= FbmapW - 1 - k}
        BY <1>1, <2>1 DEF F!Full
      <3>2. i = (i + (FbmapW - 1 - k)) - (FbmapW - 1 - k)
        BY <1>1, <2>1 DEF F!Full
      <3> QED BY <3>1, <3>2 DEF F!Shr
    <2>2. ASSUME NEW i \in F!Shr(F!Full, FbmapW - 1 - k) PROVE i \in F!Full /\ i <= k
      BY <1>1 DEF F!Shr, F!Full
    <2> QED BY <2>1, <2>2
  <1>4. F!Shl({0}, k) = {k}
    BY <1>1 DEF F!Shl, F!Full
  <1> QED BY <1>2, <1>3, <1>4 DEF k, F!WordHighMask, F!WordLowMask, F!WordBitMask

-----------------------------------------------------------------------------
(* Calls on an fbmap.                                                      *)

(* The set of bits that it stands for. *)
FbmapSet == INSTANCE BitSet WITH bits <- F!Map

FbmapOK == F!Up => nr \in Sizes /\ bits \in [F!Array(nr) -> F!Words]

LEMMA FbmapSizes ==
  ASSUME NEW n \in Sizes
  PROVE  /\ n \in Nat \ {0} /\ 0 .. n - 1 \subseteq FbmapSet!Bits
         /\ n - 1 \in Nat /\ n - 1 \in 0 .. n - 1
         /\ \A b \in 0 .. n - 1 : b \in Nat /\ b \in Int
  <1>1. n \in Nat \ {0} /\ n <= Most /\ Most \in Nat
    BY SizesAssumption, MostAssumption
  <1> QED BY <1>1 DEF FbmapSet!Bits

(* A call that changes bits, given what it does to a set. *)
LEMMA FbmapChangeStep ==
  ASSUME NEW do \in {"set", "clear", "toggle"}, NEW on, on \subseteq FbmapSet!Bits,
         F!Changing(do, on), F!Map' = FbmapSet!Result(do, on)
  PROVE  FbmapSet!Next
  <1>1. call' = [do |-> do, on |-> on] /\ answer' = None
    BY DEF F!Changing, F!Called
  <1>2. call' \in [do : {"set", "clear", "toggle"}, on : SUBSET FbmapSet!Bits]
    BY <1>1
  <1>3. call'.do = do /\ call'.on = on
    BY <1>1
  <1>4. FbmapSet!Change
    BY <1>1, <1>2, <1>3 DEF FbmapSet!Change
  <1> QED BY <1>4 DEF FbmapSet!Next

(* A call that asks about bits, given the answer of a set. *)
LEMMA FbmapAskStep ==
  ASSUME NEW do \in {"test", "hweight"}, NEW on, on \subseteq FbmapSet!Bits, NEW given,
         F!Ask(do, on, given), given = FbmapSet!Answer(do, on)
  PROVE  FbmapSet!Next
  <1>1. call' = [do |-> do, on |-> on] /\ answer' = given /\ UNCHANGED <<nr, bits>>
    BY DEF F!Ask, F!Asking, F!Called
  <1>2. F!Map' = F!Map
    BY <1>1 DEF F!Map, F!Up
  <1>3. call' \in [do : {"and", "or", "xor", "test", "hweight"}, on : SUBSET FbmapSet!Bits]
    BY <1>1
  <1>4. call'.do = do /\ call'.on = on
    BY <1>1
  <1>5. FbmapSet!Ask
    BY <1>1, <1>2, <1>3, <1>4 DEF FbmapSet!Ask
  <1> QED BY <1>5 DEF FbmapSet!Next

(* What a bitmap is made of once it has words. *)
LEMMA FbmapIsUp ==
  ASSUME nr' \in Sizes, bits' \in [F!Array(nr') -> F!Words]
  PROVE  /\ F!Up' /\ FbmapOK'
         /\ F!Map' = {b \in 0 .. nr' - 1 : F!WordBitNo(b) \in bits'[F!WordNo(b)]}
  <1>1. bits' # None
    BY NoneAssumption
  <1> QED BY <1>1 DEF F!Up, FbmapOK, F!Map

(* Words of a bitmap have all of its bits, or none. *)
LEMMA FbmapInitStep ==
  ASSUME NEW n \in Sizes, F!InitClear(n) \/ F!InitSet(n)
  PROVE  FbmapOK' /\ FbmapSet!Next
  <1>1. /\ n \in Nat \ {0} /\ 0 .. n - 1 \subseteq FbmapSet!Bits
        /\ \A b \in 0 .. n - 1 : b \in Nat
    BY FbmapSizes
  <1>2. ~ F!Up /\ nr' = n /\ F!Map = {}
    BY DEF F!InitClear, F!InitSet, F!InitTo, F!Map
  <1>3. \A b \in 0 .. n - 1 : F!WordNo(b) \in F!Array(n) /\ F!WordBitNo(b) \in F!Full
    BY <1>1, FbmapWords, FbmapBit
  <1>4. CASE F!InitClear(n)
    <2>1. F!Changing("clear", 0 .. n - 1) /\ bits' = [w \in F!Array(n) |-> {}]
      BY <1>4 DEF F!InitClear, F!InitTo
    <2>2. bits' \in [F!Array(nr') -> F!Words]
      BY <1>2, <2>1 DEF F!Words
    <2>3. FbmapOK' /\ F!Map' = {b \in 0 .. n - 1 : F!WordBitNo(b) \in bits'[F!WordNo(b)]}
      BY <1>2, <2>2, FbmapIsUp
    <2>4. F!Map' = {}
      BY <1>3, <2>1, <2>3
    <2>5. F!Map' = FbmapSet!Result("clear", 0 .. n - 1)
      BY <1>2, <2>4 DEF FbmapSet!Result
    <2> QED BY <1>1, <2>1, <2>3, <2>5, FbmapChangeStep
  <1>5. CASE F!InitSet(n)
    <2>1. F!Changing("set", 0 .. n - 1) /\ bits' = [w \in F!Array(n) |-> F!Full]
      BY <1>5 DEF F!InitSet, F!InitTo
    <2>2. bits' \in [F!Array(nr') -> F!Words]
      BY <1>2, <2>1 DEF F!Words
    <2>3. FbmapOK' /\ F!Map' = {b \in 0 .. n - 1 : F!WordBitNo(b) \in bits'[F!WordNo(b)]}
      BY <1>2, <2>2, FbmapIsUp
    <2>4. F!Map' = 0 .. n - 1
      BY <1>3, <2>1, <2>3
    <2>5. F!Map' = FbmapSet!Result("set", 0 .. n - 1)
      BY <1>2, <2>4 DEF FbmapSet!Result
    <2> QED BY <1>1, <2>1, <2>3, <2>5, FbmapChangeStep
  <1> QED BY <1>4, <1>5

LEMMA FbmapMapInside ==
  ASSUME FbmapOK, F!Up
  PROVE  /\ nr \in Sizes /\ nr \in Nat \ {0} /\ bits \in [F!Array(nr) -> F!Words]
         /\ 0 .. nr - 1 \subseteq FbmapSet!Bits
         /\ F!Map = {b \in 0 .. nr - 1 : F!WordBitNo(b) \in bits[F!WordNo(b)]}
         /\ \A b \in 0 .. nr - 1 :
              /\ b \in Nat /\ F!WordNo(b) \in F!Array(nr) /\ F!WordBitNo(b) \in F!Full
              /\ bits[F!WordNo(b)] \subseteq F!Full
  <1>1. nr \in Sizes /\ bits \in [F!Array(nr) -> F!Words]
    BY DEF FbmapOK
  <1>2. /\ nr \in Nat \ {0} /\ 0 .. nr - 1 \subseteq FbmapSet!Bits
        /\ \A b \in 0 .. nr - 1 : b \in Nat
    BY <1>1, FbmapSizes
  <1>3. \A b \in 0 .. nr - 1 : F!WordNo(b) \in F!Array(nr) /\ F!WordBitNo(b) \in F!Full
    BY <1>2, FbmapWords, FbmapBit
  <1> QED BY <1>1, <1>2, <1>3 DEF F!Map, F!Words

(* One bit is changed, given by the word that it leaves. *)
LEMMA FbmapOneStep ==
  ASSUME FbmapOK, F!Up, NEW bit_no \in 0 .. nr - 1, NEW do \in {"set", "clear", "toggle"},
         NEW word \in F!Words, F!Change(do, bit_no, word),
         \A i \in F!Full : i # F!WordBitNo(bit_no) => (i \in word <=> i \in bits[F!WordNo(bit_no)]),
         F!WordBitNo(bit_no) \in word <=> \/ do = "set"
                                          \/ do = "toggle" /\ bit_no \notin F!Map
  PROVE  FbmapOK' /\ F!Up' /\ FbmapSet!Next
  <1>1. /\ nr \in Sizes /\ nr \in Nat \ {0} /\ bits \in [F!Array(nr) -> F!Words]
        /\ 0 .. nr - 1 \subseteq FbmapSet!Bits
        /\ F!Map = {b \in 0 .. nr - 1 : F!WordBitNo(b) \in bits[F!WordNo(b)]}
        /\ \A b \in 0 .. nr - 1 :
              /\ b \in Nat /\ F!WordNo(b) \in F!Array(nr) /\ F!WordBitNo(b) \in F!Full
    BY FbmapMapInside
  <1>2. /\ F!Changing(do, {bit_no}) /\ nr' = nr
        /\ bits' = [bits EXCEPT ![F!WordNo(bit_no)] = word]
    BY DEF F!Change
  <1>3. bits' \in [F!Array(nr') -> F!Words]
    BY <1>1, <1>2
  <1>4. FbmapOK' /\ F!Up' /\ F!Map' = {b \in 0 .. nr - 1 : F!WordBitNo(b) \in bits'[F!WordNo(b)]}
    BY <1>1, <1>2, <1>3, FbmapIsUp
  <1>5. ASSUME NEW b \in 0 .. nr - 1, b # bit_no PROVE b \in F!Map' <=> b \in F!Map
    <2>1. CASE F!WordNo(b) = F!WordNo(bit_no)
      <3>1. F!WordBitNo(b) # F!WordBitNo(bit_no)
        <4>1. /\ b = FbmapW * F!WordNo(b) + F!WordBitNo(b)
              /\ bit_no = FbmapW * F!WordNo(bit_no) + F!WordBitNo(bit_no)
          BY <1>1, FbmapBit
        <4> QED BY <1>5, <2>1, <4>1
      <3>2. bits'[F!WordNo(b)] = word
        BY <1>1, <1>2, <2>1
      <3> QED BY <1>1, <1>4, <2>1, <3>1, <3>2
    <2>2. CASE F!WordNo(b) # F!WordNo(bit_no)
      <3>1. bits'[F!WordNo(b)] = bits[F!WordNo(b)]
        BY <1>1, <1>2, <2>2
      <3> QED BY <1>1, <1>4, <3>1
    <2> QED BY <2>1, <2>2
  <1>6. bit_no \in F!Map' <=> do = "set" \/ (do = "toggle" /\ bit_no \notin F!Map)
    <2>1. bits'[F!WordNo(bit_no)] = word
      BY <1>1, <1>2
    <2> QED BY <1>4, <2>1
  <1>7. F!Map \subseteq 0 .. nr - 1 /\ F!Map' \subseteq 0 .. nr - 1
    BY <1>1, <1>4
  <1>8. F!Map' = FbmapSet!Result(do, {bit_no})
    BY <1>5, <1>6, <1>7 DEF FbmapSet!Result
  <1>9. {bit_no} \subseteq FbmapSet!Bits
    BY <1>1
  <1> QED BY <1>2, <1>4, <1>8, <1>9, FbmapChangeStep

LEMMA FbmapBitStep ==
  ASSUME FbmapOK, F!Up, NEW bit_no \in 0 .. nr - 1,
         F!Set(bit_no) \/ F!Clear(bit_no) \/ F!Toggle(bit_no)
  PROVE  FbmapOK' /\ F!Up' /\ FbmapSet!Next
  <1> DEFINE old == bits[F!WordNo(bit_no)]
             at == F!WordBitNo(bit_no)
  <1>1. /\ old \subseteq F!Full /\ at \in F!Full
        /\ bit_no \in F!Map <=> at \in old
        /\ F!WordBitMask(bit_no) = {at}
    <2>1. bit_no \in Nat
      BY FbmapMapInside
    <2> QED BY <2>1, FbmapMapInside, FbmapMasks
  <1>2. CASE F!Set(bit_no)
    <2>1. F!Change("set", bit_no, old \cup {at}) /\ old \cup {at} \in F!Words
      BY <1>1, <1>2 DEF F!Set, F!Words
    <2> HIDE DEF old, at
    <2> QED BY <1>1, <2>1, FbmapOneStep DEF old, at
  <1>3. CASE F!Clear(bit_no)
    <2>1. F!Change("clear", bit_no, old \ {at}) /\ old \ {at} \in F!Words
      BY <1>1, <1>3 DEF F!Clear, F!Words
    <2> HIDE DEF old, at
    <2> QED BY <1>1, <2>1, FbmapOneStep DEF old, at
  <1>4. CASE F!Toggle(bit_no)
    <2> DEFINE new == (old \ {at}) \cup ({at} \ old)
    <2>1. F!Change("toggle", bit_no, new) /\ new \in F!Words
      BY <1>1, <1>4 DEF F!Toggle, F!Words
    <2>2. at \in new <=> at \notin old
      OBVIOUS
    <2>3. \A i \in F!Full : i # at => (i \in new <=> i \in old)
      OBVIOUS
    <2> HIDE DEF old, at, new
    <2> QED BY <1>1, <2>1, <2>2, <2>3, FbmapOneStep DEF old, at
  <1> QED BY <1>2, <1>3, <1>4

(* All words are changed, and so are the bits past the end. *)
LEMMA FbmapAllStep ==
  ASSUME FbmapOK, F!Up, F!SetAll \/ F!ClearAll \/ F!ToggleAll
  PROVE  FbmapOK' /\ F!Up' /\ FbmapSet!Next
  <1>1. /\ nr \in Sizes /\ nr \in Nat \ {0} /\ bits \in [F!Array(nr) -> F!Words]
        /\ 0 .. nr - 1 \subseteq FbmapSet!Bits
        /\ F!Map = {b \in 0 .. nr - 1 : F!WordBitNo(b) \in bits[F!WordNo(b)]}
        /\ \A b \in 0 .. nr - 1 : F!WordNo(b) \in F!Array(nr) /\ F!WordBitNo(b) \in F!Full
    BY FbmapMapInside
  <1>2. ASSUME NEW do \in {"set", "clear", "toggle"}, NEW words \in [F!Array(nr) -> F!Words],
               F!ChangeAll(do, words),
               {b \in 0 .. nr - 1 : F!WordBitNo(b) \in words[F!WordNo(b)]}
                 = FbmapSet!Result(do, 0 .. nr - 1)
        PROVE  FbmapOK' /\ F!Up' /\ FbmapSet!Next
    <2>1. F!Changing(do, 0 .. nr - 1) /\ bits' = words /\ nr' = nr
      BY <1>2 DEF F!ChangeAll
    <2>2. FbmapOK' /\ F!Up' /\ F!Map' = {b \in 0 .. nr - 1 : F!WordBitNo(b) \in words[F!WordNo(b)]}
      BY <1>1, <2>1, FbmapIsUp
    <2>3. F!Map' = FbmapSet!Result(do, 0 .. nr - 1)
      BY <1>2, <2>2
    <2> QED BY <1>1, <2>1, <2>2, <2>3, FbmapChangeStep
  <1>3. CASE F!SetAll
    <2> DEFINE words == [w \in F!Array(nr) |-> F!Full]
    <2>1. words \in [F!Array(nr) -> F!Words] /\ F!ChangeAll("set", words)
      BY <1>3 DEF F!SetAll, F!Words
    <2>2. {b \in 0 .. nr - 1 : F!WordBitNo(b) \in words[F!WordNo(b)]} = 0 .. nr - 1
      BY <1>1
    <2>3. FbmapSet!Result("set", 0 .. nr - 1) = 0 .. nr - 1
      BY <1>1 DEF FbmapSet!Result
    <2> HIDE DEF words
    <2> QED BY <1>2, <2>1, <2>2, <2>3
  <1>4. CASE F!ClearAll
    <2> DEFINE words == [w \in F!Array(nr) |-> {}]
    <2>1. words \in [F!Array(nr) -> F!Words] /\ F!ChangeAll("clear", words)
      BY <1>4 DEF F!ClearAll, F!Words
    <2>2. {b \in 0 .. nr - 1 : F!WordBitNo(b) \in words[F!WordNo(b)]} = {}
      BY <1>1
    <2>3. FbmapSet!Result("clear", 0 .. nr - 1) = {}
      BY <1>1 DEF FbmapSet!Result
    <2> HIDE DEF words
    <2> QED BY <1>2, <2>1, <2>2, <2>3
  <1>5. CASE F!ToggleAll
    <2> DEFINE words == [w \in F!Array(nr) |-> F!Complement(bits[w])]
    <2>1. words \in [F!Array(nr) -> F!Words] /\ F!ChangeAll("toggle", words)
      BY <1>5 DEF F!ToggleAll, F!Words, F!Complement
    <2>2. \A b \in 0 .. nr - 1 : F!WordBitNo(b) \in words[F!WordNo(b)] <=> b \notin F!Map
      BY <1>1 DEF F!Complement
    <2>3. FbmapSet!Result("toggle", 0 .. nr - 1) = (0 .. nr - 1) \ F!Map
      BY <1>1 DEF FbmapSet!Result
    <2> HIDE DEF words
    <2>4. {b \in 0 .. nr - 1 : F!WordBitNo(b) \in words[F!WordNo(b)]} = (0 .. nr - 1) \ F!Map
      BY <2>2
    <2> QED BY <1>2, <2>1, <2>3, <2>4
  <1> QED BY <1>3, <1>4, <1>5

(* Calls that make another bitmap of the same bits, or none. *)
LEMMA FbmapRestStep ==
  ASSUME FbmapOK, F!InitFails \/ F!Dup \/ F!Fini
  PROVE  FbmapOK' /\ FbmapSet!Next
  <1>1. CASE F!InitFails
    <2>1. F!Changing("set", {}) /\ UNCHANGED <<nr, bits>>
      BY <1>1 DEF F!InitFails
    <2>2. FbmapOK' /\ F!Map' = F!Map
      BY <2>1 DEF FbmapOK, F!Up, F!Map
    <2>3. F!Map' = FbmapSet!Result("set", {})
      BY <2>2 DEF FbmapSet!Result
    <2> QED BY <2>1, <2>2, <2>3, FbmapChangeStep
  <1>2. CASE F!Dup
    <2>1. F!Changing("set", {}) /\ F!Up /\ nr' = nr /\ bits' = [w \in F!Array(nr) |-> bits[w]]
      BY <1>2 DEF F!Dup
    <2>2. bits' = bits
      BY <2>1 DEF FbmapOK
    <2>3. FbmapOK' /\ F!Map' = F!Map
      BY <2>1, <2>2 DEF FbmapOK, F!Up, F!Map
    <2>4. F!Map' = FbmapSet!Result("set", {})
      BY <2>3 DEF FbmapSet!Result
    <2> QED BY <2>1, <2>3, <2>4, FbmapChangeStep
  <1>3. CASE F!Fini
    <2>1. F!Changing("clear", 0 .. nr - 1) /\ F!Up /\ bits' = None
      BY <1>3 DEF F!Fini
    <2>2. FbmapOK' /\ F!Map' = {}
      BY <2>1 DEF FbmapOK, F!Up, F!Map
    <2>3. F!Map \subseteq 0 .. nr - 1 /\ 0 .. nr - 1 \subseteq FbmapSet!Bits
      BY <2>1, FbmapMapInside
    <2>4. F!Map' = FbmapSet!Result("clear", 0 .. nr - 1)
      BY <2>2, <2>3 DEF FbmapSet!Result
    <2> QED BY <2>1, <2>2, <2>3, <2>4, FbmapChangeStep
  <1> QED BY <1>1, <1>2, <1>3

(* Some bit of a range is set, between the place of its first bit and that *)
(* of its last one.                                                        *)
FbmapHit(s, t) ==
  \E w \in Nat, i \in F!Full :
    /\ i \in bits[w]
    /\ F!WordNo(s) < w \/ (F!WordNo(s) = w /\ F!WordBitNo(s) <= i)
    /\ w < F!WordNo(t) \/ (w = F!WordNo(t) /\ i <= F!WordBitNo(t))

LEMMA FbmapHits ==
  ASSUME FbmapOK, F!Up, NEW s \in 0 .. nr - 1, NEW t \in 0 .. nr - 1
  PROVE  FbmapHit(s, t) <=> F!Map \cap s .. t # {}
  <1>1. /\ nr \in Nat \ {0} /\ s \in Nat /\ t \in Nat /\ s \in Int /\ t \in Int
        /\ F!Map = {b \in 0 .. nr - 1 : F!WordBitNo(b) \in bits[F!WordNo(b)]}
        /\ \A b \in 0 .. nr - 1 : b \in Nat
    BY FbmapMapInside
  <1>2. ASSUME NEW b \in F!Map \cap s .. t PROVE FbmapHit(s, t)
    <2>1. b \in Nat /\ s <= b /\ b <= t /\ F!WordBitNo(b) \in bits[F!WordNo(b)]
      BY <1>1
    <2>2. F!WordNo(b) \in Nat /\ F!WordBitNo(b) \in F!Full
      BY <2>1, FbmapBit
    <2>3. /\ F!WordNo(s) < F!WordNo(b) \/ (F!WordNo(s) = F!WordNo(b) /\ F!WordBitNo(s) <= F!WordBitNo(b))
          /\ F!WordNo(b) < F!WordNo(t) \/ (F!WordNo(b) = F!WordNo(t) /\ F!WordBitNo(b) <= F!WordBitNo(t))
      BY <1>1, <2>1, FbmapPrecedes
    <2> QED BY <2>1, <2>2, <2>3 DEF FbmapHit
  <1>3. ASSUME NEW w \in Nat, NEW i \in F!Full, i \in bits[w],
               F!WordNo(s) < w \/ (F!WordNo(s) = w /\ F!WordBitNo(s) <= i),
               w < F!WordNo(t) \/ (w = F!WordNo(t) /\ i <= F!WordBitNo(t))
        PROVE  F!Map \cap s .. t # {}
    <2> DEFINE b == FbmapW * w + i
    <2>1. b \in Nat /\ F!WordNo(b) = w /\ F!WordBitNo(b) = i
      BY FbmapPlace
    <2> HIDE DEF b
    <2>2. s <= b /\ b <= t
      BY <1>1, <1>3, <2>1, FbmapPrecedes
    <2>3. b \in 0 .. nr - 1 /\ b \in s .. t
      BY <1>1, <2>1, <2>2
    <2> QED BY <1>1, <1>3, <2>1, <2>3
  <1> QED BY <1>2, <1>3 DEF FbmapHit

(* What _stroll_fbmap_test_range() looks at is all of that.                *)
LEMMA FbmapTestIsHit ==
  ASSUME FbmapOK, F!Up, NEW r \in F!Ranges
  PROVE  LET s == r[1]
             t == r[1] + r[2] - 1
         IN  /\ s \in 0 .. nr - 1 /\ t \in 0 .. nr - 1 /\ F!Bits(r) = s .. t
             /\ F!TestRange(r[1], r[2]) <=> FbmapHit(s, t)
  <1> DEFINE s == r[1]
             t == r[1] + r[2] - 1
  <1>1. nr \in Nat \ {0} /\ bits \in [F!Array(nr) -> F!Words]
    BY FbmapMapInside
  <1>2. /\ r[1] \in 0 .. nr - 1 /\ r[2] \in 1 .. nr /\ r[1] + r[2] <= nr
    BY DEF F!Ranges
  <1>3. s \in 0 .. nr - 1 /\ t \in 0 .. nr - 1 /\ s <= t /\ s \in Nat /\ t \in Nat /\ F!Bits(r) = s .. t
    BY <1>1, <1>2 DEF F!Bits
  <1> DEFINE curr == F!WordNo(s)
             last == F!WordNo(t)
             high == {i \in F!Full : F!WordBitNo(s) <= i}
             low == {i \in F!Full : i <= F!WordBitNo(t)}
  <1>4. F!WordHighMask(s) = high /\ F!WordLowMask(t) = low
    BY <1>3, FbmapMasks
  <1>5. F!TestRange(r[1], r[2]) =
          IF curr = last
          THEN (bits[curr] \cap high) \cap low # {}
          ELSE \/ bits[curr] \cap high # {}
               \/ \E w \in curr + 1 .. last - 1 : bits[w] # {}
               \/ bits[last] \cap low # {}
    BY <1>4 DEF F!TestRange
  <1> HIDE DEF s, t
  <1>6. /\ curr \in Nat /\ last \in Nat /\ curr <= last
        /\ curr = last => F!WordBitNo(s) <= F!WordBitNo(t)
        /\ F!WordBitNo(s) \in Nat /\ F!WordBitNo(t) \in Nat
        /\ curr \in F!Array(nr) /\ last \in F!Array(nr)
    <2>1. /\ F!WordNo(s) \in Nat /\ F!WordNo(t) \in Nat
          /\ F!WordBitNo(s) \in Nat /\ F!WordBitNo(t) \in Nat
      BY <1>3, FbmapBit
    <2>2. F!WordNo(s) < F!WordNo(t) \/ (F!WordNo(s) = F!WordNo(t) /\ F!WordBitNo(s) <= F!WordBitNo(t))
      BY <1>3, FbmapPrecedes
    <2>3. F!WordNo(s) \in F!Array(nr) /\ F!WordNo(t) \in F!Array(nr)
      BY <1>1, <1>3, FbmapWords
    <2> QED BY <2>1, <2>2, <2>3
  <1>7. \A w \in curr .. last : w \in Nat /\ bits[w] \subseteq F!Full
    <2>1. \A w \in curr .. last : w \in F!Array(nr) /\ w \in Nat
      BY <1>1, <1>6, FbmapWords DEF F!Array
    <2> QED BY <1>1, <2>1 DEF F!Words
  <1>8. F!Full \subseteq Nat
    BY FbmapWidth DEF F!Full
  <1>9. FbmapHit(s, t) <=>
          \E w \in Nat, i \in F!Full :
            /\ i \in bits[w]
            /\ curr < w \/ (curr = w /\ i \in high)
            /\ w < last \/ (w = last /\ i \in low)
    BY DEF FbmapHit
  <1> HIDE DEF curr, last, high, low
  <1>10. ASSUME curr = last PROVE F!TestRange(r[1], r[2]) <=> FbmapHit(s, t)
    <2>1. FbmapHit(s, t) => \E i \in bits[curr] : i \in high /\ i \in low
      BY <1>6, <1>9, <1>10
    <2>2. (\E i \in bits[curr] : i \in high /\ i \in low) => FbmapHit(s, t)
      <3>1. curr \in curr .. last
        BY <1>6
      <3> QED BY <1>6, <1>7, <1>9, <1>10, <3>1
    <2> QED BY <1>5, <1>10, <2>1, <2>2
  <1>11. ASSUME curr # last PROVE F!TestRange(r[1], r[2]) <=> FbmapHit(s, t)
    <2>1. curr < last /\ curr \in curr .. last /\ last \in curr .. last
      BY <1>6, <1>11
    <2>2. \A w \in curr + 1 .. last - 1 : w \in Nat /\ w \in curr .. last /\ curr < w /\ w < last
      BY <1>6
    <2>3. ASSUME NEW w \in Nat, NEW i \in F!Full, i \in bits[w],
                 curr < w \/ (curr = w /\ i \in high),
                 w < last \/ (w = last /\ i \in low)
          PROVE  F!TestRange(r[1], r[2])
      <3>1. CASE w = curr
        BY <1>5, <1>11, <2>3, <3>1
      <3>2. CASE w = last
        BY <1>5, <1>11, <2>3, <3>2
      <3>3. CASE w # curr /\ w # last
        <4>1. w \in curr + 1 .. last - 1
          BY <1>6, <2>3, <3>3
        <4> QED BY <1>5, <1>11, <2>3, <4>1
      <3> QED BY <3>1, <3>2, <3>3
    <2>4. ASSUME F!TestRange(r[1], r[2]) PROVE FbmapHit(s, t)
      <3>1. CASE bits[curr] \cap high # {}
        <4>1. PICK i \in F!Full : i \in bits[curr] /\ i \in high
          BY <1>7, <2>1, <3>1
        <4> QED BY <1>6, <1>9, <2>1, <4>1
      <3>2. ASSUME NEW w \in curr + 1 .. last - 1, bits[w] # {} PROVE FbmapHit(s, t)
        <4>1. PICK i \in F!Full : i \in bits[w]
          BY <1>7, <2>2, <3>2
        <4> QED BY <1>9, <2>2, <4>1
      <3>3. CASE bits[last] \cap low # {}
        <4>1. PICK i \in F!Full : i \in bits[last] /\ i \in low
          BY <1>7, <2>1, <3>3
        <4> QED BY <1>6, <1>9, <2>1, <4>1
      <3> QED BY <1>5, <1>11, <2>4, <3>1, <3>2, <3>3
    <2>5. F!TestRange(r[1], r[2]) \in BOOLEAN
      BY <1>5, <1>11
    <2> QED BY <1>9, <2>3, <2>4, <2>5
  <1>12. /\ s \in 0 .. nr - 1 /\ t \in 0 .. nr - 1 /\ F!Bits(r) = s .. t
         /\ F!TestRange(r[1], r[2]) <=> FbmapHit(s, t)
    BY <1>3, <1>10, <1>11
  <1> QED BY <1>12 DEF s, t

(* _stroll_fbmap_test_all() is the same of all bits. *)
LEMMA FbmapTestAllIsHit ==
  ASSUME FbmapOK, F!Up
  PROVE  F!TestAll <=> F!Map \cap 0 .. nr - 1 # {}
  <1>1. nr \in Nat \ {0} /\ bits \in [F!Array(nr) -> F!Words] /\ 0 \in 0 .. nr - 1 /\ nr - 1 \in 0 .. nr - 1
    BY FbmapMapInside
  <1> DEFINE last == F!WordNo(nr - 1)
             low == {i \in F!Full : i <= F!WordBitNo(nr - 1)}
  <1>2. F!LastWord = last /\ last \in Nat /\ F!WordNr(nr) = last + 1
    BY <1>1, FbmapWords DEF F!LastWord
  <1>3. F!WordLowMask(nr - 1) = low
    BY <1>1, FbmapMasks
  <1>4. F!TestAll <=> (\E w \in 0 .. last - 1 : bits[w] # {}) \/ bits[last] \cap low # {}
    BY <1>2, <1>3 DEF F!TestAll
  <1>5. F!WordNo(0) = 0 /\ F!WordBitNo(0) = 0
    <2>1. 0 \in F!Full /\ 0 \in Nat /\ FbmapW * 0 + 0 = 0
      BY FbmapWidth DEF F!Full
    <2> QED BY <2>1, FbmapPlace
  <1>6. \A w \in 0 .. last : w \in Nat /\ bits[w] \subseteq F!Full
    BY <1>1, <1>2 DEF F!Array, F!Words
  <1>7. \A i \in F!Full : i \in Nat
    BY FbmapWidth DEF F!Full
  <1>8. FbmapHit(0, nr - 1) <=>
          \E w \in Nat, i \in F!Full : i \in bits[w] /\ (w < last \/ (w = last /\ i \in low))
    <2>1. \A w \in Nat, i \in F!Full : 0 < w \/ (0 = w /\ 0 <= i)
      BY <1>7
    <2> QED BY <1>5, <2>1 DEF FbmapHit
  <1> HIDE DEF last, low
  <1>9. ASSUME NEW w \in Nat, NEW i \in F!Full, i \in bits[w], w < last \/ (w = last /\ i \in low)
        PROVE  F!TestAll
    <2>1. CASE w = last
      BY <1>2, <1>4, <1>9, <2>1
    <2>2. CASE w # last
      <3>1. w \in 0 .. last - 1
        BY <1>2, <1>9, <2>2
      <3> QED BY <1>4, <1>9, <3>1
    <2> QED BY <2>1, <2>2
  <1>10. ASSUME NEW w \in 0 .. last - 1, bits[w] # {} PROVE FbmapHit(0, nr - 1)
    <2>1. w \in 0 .. last /\ w < last /\ w \in Nat
      BY <1>2
    <2>2. PICK i \in F!Full : i \in bits[w]
      BY <1>6, <1>10, <2>1
    <2> QED BY <1>8, <2>1, <2>2
  <1>11. ASSUME bits[last] \cap low # {} PROVE FbmapHit(0, nr - 1)
    <2>1. last \in 0 .. last
      BY <1>2
    <2>2. PICK i \in F!Full : i \in bits[last] /\ i \in low
      BY <1>6, <1>11, <2>1
    <2> QED BY <1>2, <1>8, <2>2
  <1>12. F!TestAll <=> FbmapHit(0, nr - 1)
    BY <1>4, <1>8, <1>9, <1>10, <1>11
  <1> QED BY <1>1, <1>12, FbmapHits

(* The sum of the weights of the words before one, as                      *)
(* _stroll_fbmap_hweight() adds them.                                      *)
LEMMA RunningSum ==
  ASSUME NEW n \in Nat, NEW g \in [0 .. n - 1 -> Nat]
  PROVE  \E h \in [0 .. n -> Nat] :
           h = [w \in 0 .. n |-> IF w = 0 THEN 0 ELSE h[w - 1] + g[w - 1]]
  <1> DEFINE G == [p \in Nat \X Nat |-> IF p[1] \in 0 .. n - 1 THEN p[2] + g[p[1]] ELSE p[2]]
  <1>1. G \in [Nat \X Nat -> Nat] /\ 0 \in Nat
    OBVIOUS
  <1>2. \A k \in 0 .. n - 1, x \in Nat : G[<<k, x>>] = x + g[k]
    OBVIOUS
  <1> HIDE DEF G
  <1>3. PICK f \in [Nat -> Nat] : Recurs(f, 0, G)
    BY <1>1, Recursion, Zenon
  <1> DEFINE h == [w \in 0 .. n |-> f[w]]
  <1>4. h \in [0 .. n -> Nat]
    OBVIOUS
  <1>5. ASSUME NEW w \in 0 .. n PROVE h[w] = IF w = 0 THEN 0 ELSE h[w - 1] + g[w - 1]
    <2>1. CASE w = 0
      BY <1>3, <2>1 DEF Recurs
    <2>2. CASE w # 0
      <3>1. w - 1 \in Nat /\ w - 1 + 1 = w /\ w - 1 \in 0 .. n - 1 /\ w - 1 \in 0 .. n /\ f[w - 1] \in Nat
        BY <2>2, SMTT(30)
      <3>2. f[w - 1 + 1] = G[<<w - 1, f[w - 1]>>]
        BY <1>3, <3>1 DEF Recurs
      <3> QED BY <1>2, <2>2, <3>1, <3>2
    <2> QED BY <2>1, <2>2
  <1>6. h = [w \in 0 .. n |-> IF w = 0 THEN 0 ELSE h[w - 1] + g[w - 1]]
    BY <1>5
  <1> QED BY <1>4, <1>6

LEMMA FbmapSameCardinality ==
  ASSUME NEW T PROVE F!Cardinality(T) = Cardinality(T) /\ FbmapSet!Cardinality(T) = Cardinality(T)
  BY DEF F!Cardinality, FbmapSet!Cardinality, Cardinality

LEMMA FbmapWordWeighs ==
  ASSUME NEW word, word \subseteq F!Full
  PROVE  /\ F!Hweight(word) = Cardinality(word) /\ F!Hweight(word) \in Nat /\ IsFiniteSet(word)
  <1>1. IsFiniteSet(F!Full)
    BY FbmapWidth, FS_Interval DEF F!Full
  <1>2. IsFiniteSet(word)
    BY <1>1, FS_Subset
  <1> QED BY <1>2, FS_CardinalityType, FbmapSameCardinality DEF F!Hweight

LEMMA FbmapWeightIsSum ==
  ASSUME FbmapOK, F!Up
  PROVE  LET n == F!LastWord
         IN  /\ n = F!WordNo(nr - 1) /\ n \in Nat /\ n \in F!Array(nr) /\ 0 .. n - 1 \subseteq F!Array(nr)
             /\ \E h \in [0 .. n -> Nat] :
                  /\ h[0] = 0
                  /\ \A k \in 0 .. n - 1 : h[k + 1] = h[k] + Cardinality(bits[k])
                  /\ F!Weight = h[n] + Cardinality(bits[n] \cap F!WordLowMask(nr - 1))
  <1>1. nr \in Nat \ {0} /\ bits \in [F!Array(nr) -> F!Words]
    BY FbmapMapInside
  <1>2. /\ F!LastWord = F!WordNo(nr - 1) /\ F!LastWord \in Nat
        /\ F!LastWord \in F!Array(nr) /\ 0 .. F!LastWord - 1 \subseteq F!Array(nr)
    <2>1. F!WordNr(nr) \in Nat \ {0} /\ F!WordNr(nr) - 1 = F!WordNo(nr - 1)
      BY <1>1, FbmapWords
    <2> QED BY <2>1 DEF F!LastWord, F!Array
  <1> DEFINE n == F!LastWord
             g == [w \in 0 .. n - 1 |-> F!Hweight(bits[w])]
  <1>3. \A w \in F!Array(nr) : bits[w] \subseteq F!Full
    BY <1>1 DEF F!Words
  <1>4. g \in [0 .. n - 1 -> Nat]
    BY <1>2, <1>3, FbmapWordWeighs
  <1>5. \A w \in 1 .. n : g[w - 1] = F!Hweight(bits[w - 1])
    BY <1>2
  <1> DEFINE hw[w \in 0 .. F!LastWord] == IF w = 0 THEN 0 ELSE hw[w - 1] + F!Hweight(bits[w - 1])
  <1>6. PICK h \in [0 .. n -> Nat] :
          h = [w \in 0 .. n |-> IF w = 0 THEN 0 ELSE h[w - 1] + g[w - 1]]
    <2> HIDE DEF g, n
    <2> QED BY <1>2, <1>4, RunningSum DEF n
  <1> HIDE DEF g
  <1>7. h = [w \in 0 .. n |-> IF w = 0 THEN 0 ELSE h[w - 1] + F!Hweight(bits[w - 1])]
    <2>1. \A w \in 0 .. n : h[w] = IF w = 0 THEN 0 ELSE h[w - 1] + g[w - 1]
      BY <1>6
    <2>2. \A w \in 0 .. n : h[w] = IF w = 0 THEN 0 ELSE h[w - 1] + F!Hweight(bits[w - 1])
      BY <1>2, <1>5, <2>1
    <2> QED BY <1>6, <2>2
  <1>8. hw = [w \in 0 .. n |-> IF w = 0 THEN 0 ELSE hw[w - 1] + F!Hweight(bits[w - 1])]
    BY <1>7, Zenon DEF hw
  <1>9. F!Weight = hw[n] + F!Hweight(bits[n] \cap F!WordLowMask(nr - 1))
    BY DEF F!Weight
  <1> HIDE DEF hw, n
  <1>10. /\ hw[0] = 0
         /\ \A k \in 0 .. n - 1 : hw[k + 1] = hw[k] + F!Hweight(bits[k])
    <2>1. n \in Nat
      BY <1>2 DEF n
    <2>2. ASSUME NEW k \in 0 .. n - 1 PROVE hw[k + 1] = hw[k] + F!Hweight(bits[k])
      <3>1. k + 1 \in 0 .. n /\ k + 1 # 0 /\ k + 1 - 1 = k
        BY <2>1
      <3> DEFINE m == k + 1
      <3>2. hw[m] = IF m = 0 THEN 0 ELSE hw[m - 1] + F!Hweight(bits[m - 1])
        <4> HIDE DEF m
        <4> QED BY <1>8, <3>1, Zenon DEF m
      <3> QED BY <3>1, <3>2
    <2> QED BY <1>8, <2>1, <2>2
  <1>11. hw \in [0 .. n -> Nat]
    <2> DEFINE T == {k \in Nat : k <= n => hw[k] \in Nat}
    <2>1. 0 \in T
      BY <1>10
    <2>2. ASSUME NEW k \in Nat, k \in T PROVE k + 1 \in T
      <3> SUFFICES ASSUME k + 1 <= n PROVE hw[k + 1] \in Nat
        OBVIOUS
      <3>1. n \in Nat /\ k \in 0 .. n - 1 /\ k <= n
        BY <1>2 DEF n
      <3>2. F!Hweight(bits[k]) \in Nat
        <4>1. bits[k] \subseteq F!Full
          BY <1>2, <1>3, <3>1 DEF n
        <4> QED BY <4>1, FbmapWordWeighs
      <3> QED BY <1>10, <2>2, <3>1, <3>2
    <2> HIDE DEF T
    <2>3. Nat \subseteq T
      BY <2>1, <2>2, NatSet
    <2>4. \A k \in 0 .. n : hw[k] \in Nat
      BY <1>2, <2>3 DEF T, n
    <2>5. DOMAIN hw = 0 .. n /\ hw = [w \in 0 .. n |-> hw[w]]
      BY <1>8
    <2> QED BY <2>4, <2>5
  <1>12. \A k \in 0 .. n - 1 : F!Hweight(bits[k]) = Cardinality(bits[k])
    BY <1>2, <1>3, FbmapWordWeighs DEF n
  <1>13. F!Hweight(bits[n] \cap F!WordLowMask(nr - 1)) = Cardinality(bits[n] \cap F!WordLowMask(nr - 1))
    <2>1. bits[n] \cap F!WordLowMask(nr - 1) \subseteq F!Full
      BY <1>2, <1>3 DEF n
    <2> QED BY <2>1, FbmapWordWeighs
  <1> QED BY <1>2, <1>9, <1>10, <1>11, <1>12, <1>13 DEF n

(* Bits of a word are as many as those of the bitmap that they stand for.  *)
LEMMA FbmapAtWord ==
  ASSUME NEW w \in Nat, NEW word, word \subseteq F!Full
  PROVE  LET S == {b \in Nat : F!WordNo(b) = w /\ F!WordBitNo(b) \in word}
         IN  IsFiniteSet(S) /\ Cardinality(S) = Cardinality(word)
  <1> DEFINE S == {b \in Nat : F!WordNo(b) = w /\ F!WordBitNo(b) \in word}
             f == [i \in word |-> FbmapW * w + i]
  <1>1. \A i \in word : f[i] \in S /\ F!WordBitNo(f[i]) = i
    BY FbmapPlace
  <1>2. \A b \in S : F!WordBitNo(b) \in word /\ f[F!WordBitNo(b)] = b
    BY FbmapBit
  <1>3. DOMAIN f = word /\ f \in [word -> S]
    BY <1>1
  <1> HIDE DEF f, S
  <1>4. f \in Bijection(word, S)
    <2>1. \A i, j \in DOMAIN f : f[i] = f[j] => i = j
      BY <1>1, <1>3
    <2>2. f \in Injection(word, S)
      BY <1>3, <2>1, Zenon DEF Injection, IsInjective
    <2>3. f \in Surjection(word, S)
      BY <1>2, <1>3 DEF Surjection
    <2> QED BY <2>2, <2>3 DEF Bijection
  <1>5. ExistsBijection(word, S)
    BY <1>4 DEF ExistsBijection
  <1>6. IsFiniteSet(word)
    BY FbmapWordWeighs
  <1>7. IsFiniteSet(S) /\ Cardinality(S) = Cardinality(word)
    BY <1>5, <1>6, FS_Bijection
  <1> QED BY <1>7 DEF S

(* stroll_fbmap_hweight() counts the bits that the words stand for.        *)
LEMMA FbmapWeighs ==
  ASSUME FbmapOK, F!Up
  PROVE  F!Weight = Cardinality(F!Map)
  <1>1. /\ nr \in Nat \ {0} /\ bits \in [F!Array(nr) -> F!Words] /\ nr - 1 \in Nat
        /\ F!Map = {b \in 0 .. nr - 1 : F!WordBitNo(b) \in bits[F!WordNo(b)]}
    BY FbmapMapInside
  <1> DEFINE n == F!LastWord
             low == F!WordLowMask(nr - 1)
  <1>2. n = F!WordNo(nr - 1) /\ n \in Nat /\ n \in F!Array(nr) /\ 0 .. n - 1 \subseteq F!Array(nr)
    BY FbmapWeightIsSum
  <1>3. PICK h \in [0 .. n -> Nat] :
          /\ h[0] = 0
          /\ \A k \in 0 .. n - 1 : h[k + 1] = h[k] + Cardinality(bits[k])
          /\ F!Weight = h[n] + Cardinality(bits[n] \cap low)
    BY FbmapWeightIsSum
  <1>4. low = {i \in F!Full : i <= F!WordBitNo(nr - 1)}
    BY <1>1, FbmapMasks
  <1>5. bits[n] \subseteq F!Full /\ \A k \in 0 .. n - 1 : bits[k] \subseteq F!Full
    BY <1>1, <1>2 DEF F!Words
  <1> DEFINE Below(k) == {b \in Nat : F!WordNo(b) < k /\ F!WordBitNo(b) \in bits[F!WordNo(b)]}
             At(k, word) == {b \in Nat : F!WordNo(b) = k /\ F!WordBitNo(b) \in word}
             T == {k \in Nat : k <= n => IsFiniteSet(Below(k)) /\ Cardinality(Below(k)) = h[k]}
  <1> HIDE DEF n, low
  <1>6. 0 \in T
    <2>1. Below(0) = {}
      BY FbmapBit
    <2> QED BY <1>3, <2>1, FS_EmptySet
  <1>7. \A k \in Nat, word \in SUBSET F!Full :
          IsFiniteSet(At(k, word)) /\ Cardinality(At(k, word)) = Cardinality(word)
    BY FbmapAtWord
  <1>8. ASSUME NEW k \in Nat, k \in T PROVE k + 1 \in T
    <2> SUFFICES ASSUME k + 1 <= n
                 PROVE  IsFiniteSet(Below(k + 1)) /\ Cardinality(Below(k + 1)) = h[k + 1]
      OBVIOUS
    <2>1. k \in 0 .. n - 1 /\ k <= n
      BY <1>2
    <2>2. IsFiniteSet(Below(k)) /\ Cardinality(Below(k)) = h[k]
      BY <1>8, <2>1
    <2>3. IsFiniteSet(At(k, bits[k])) /\ Cardinality(At(k, bits[k])) = Cardinality(bits[k])
      BY <1>5, <1>7, <2>1
    <2>4. Below(k + 1) = Below(k) \cup At(k, bits[k])
      <3>1. \A b \in Nat : F!WordNo(b) \in Nat
        BY FbmapBit
      <3>2. \A b \in Nat : F!WordNo(b) < k + 1 <=> F!WordNo(b) < k \/ F!WordNo(b) = k
        BY <3>1
      <3> QED BY <3>2
    <2>5. Below(k) \cap At(k, bits[k]) = {}
      <3>1. \A b \in Nat : F!WordNo(b) \in Nat
        BY FbmapBit
      <3> QED BY <3>1
    <2>6. /\ IsFiniteSet(Below(k + 1))
          /\ Cardinality(Below(k + 1)) = h[k] + Cardinality(bits[k]) - 0
      <3> DEFINE X == Below(k)
                 Y == At(k, bits[k])
                 Z == Below(k + 1)
      <3> HIDE DEF X, Y, Z
      <3>1. /\ IsFiniteSet(X \cup Y)
            /\ Cardinality(X \cup Y) = Cardinality(X) + Cardinality(Y) - Cardinality(X \cap Y)
        BY <2>2, <2>3, FS_Union DEF X, Y
      <3>2. Z = X \cup Y /\ X \cap Y = {}
        BY <2>4, <2>5 DEF X, Y, Z
      <3>3. Cardinality(X) = h[k] /\ Cardinality(Y) = Cardinality(bits[k])
        BY <2>2, <2>3 DEF X, Y
      <3>4. IsFiniteSet(Z) /\ Cardinality(Z) = h[k] + Cardinality(bits[k]) - 0
        BY <3>1, <3>2, <3>3, FS_EmptySet
      <3> QED BY <3>4 DEF Z
    <2>7. h[k] \in Nat /\ Cardinality(bits[k]) \in Nat
      BY <1>3, <1>5, <2>1, <2>2, <2>3, FS_CardinalityType
    <2> QED BY <1>3, <2>1, <2>6, <2>7
  <1>9. IsFiniteSet(Below(n)) /\ Cardinality(Below(n)) = h[n]
    <2> HIDE DEF T
    <2>1. n \in T
      BY <1>2, <1>6, <1>8, NatSet DEF n
    <2> QED BY <1>2, <2>1 DEF T
  <1>10. /\ IsFiniteSet(At(n, bits[n] \cap low))
         /\ Cardinality(At(n, bits[n] \cap low)) = Cardinality(bits[n] \cap low)
    <2>1. bits[n] \cap low \in SUBSET F!Full
      BY <1>5
    <2> QED BY <1>2, <1>7, <2>1
  <1>11. F!Map = Below(n) \cup At(n, bits[n] \cap low)
    <2>1. ASSUME NEW b \in Nat
          PROVE  b \in F!Map <=> b \in Below(n) \/ b \in At(n, bits[n] \cap low)
      <3>1. F!WordNo(b) \in Nat /\ F!WordBitNo(b) \in F!Full
        BY FbmapBit
      <3>2. b \in 0 .. nr - 1 <=> b <= nr - 1
        BY <1>1
      <3>3. b <= nr - 1 <=> \/ F!WordNo(b) < n
                            \/ (F!WordNo(b) = n /\ F!WordBitNo(b) <= F!WordBitNo(nr - 1))
        BY <1>1, <1>2, FbmapPrecedes
      <3>4. CASE F!WordNo(b) = n
        BY <1>1, <1>2, <1>4, <3>1, <3>2, <3>3, <3>4
      <3>5. CASE F!WordNo(b) # n
        BY <1>1, <1>2, <3>1, <3>2, <3>3, <3>5
      <3> QED BY <3>4, <3>5
    <2>2. F!Map \subseteq Nat
      BY <1>1
    <2> QED BY <2>1, <2>2
  <1>12. Below(n) \cap At(n, bits[n] \cap low) = {}
    <2>1. \A b \in Nat : F!WordNo(b) \in Nat
      BY FbmapBit
    <2> QED BY <1>2, <2>1
  <1>13. Cardinality(F!Map) = h[n] + Cardinality(bits[n] \cap low) - 0
    <2> DEFINE X == Below(n)
               Y == At(n, bits[n] \cap low)
    <2> HIDE DEF X, Y
    <2>1. Cardinality(X \cup Y) = Cardinality(X) + Cardinality(Y) - Cardinality(X \cap Y)
      BY <1>9, <1>10, FS_Union DEF X, Y
    <2>2. F!Map = X \cup Y /\ X \cap Y = {}
      BY <1>11, <1>12 DEF X, Y
    <2>3. Cardinality(X) = h[n] /\ Cardinality(Y) = Cardinality(bits[n] \cap low)
      BY <1>9, <1>10 DEF X, Y
    <2> QED BY <2>1, <2>2, <2>3, FS_EmptySet
  <1>14. h[n] \in Nat /\ Cardinality(bits[n] \cap low) \in Nat
    BY <1>9, <1>10, FS_CardinalityType
  <1> QED BY <1>3, <1>13, <1>14

LEMMA FbmapQuestionsStep ==
  ASSUME FbmapOK, F!Up, F!Questions
  PROVE  FbmapOK' /\ FbmapSet!Next
  <1>1. /\ nr \in Nat \ {0} /\ 0 .. nr - 1 \subseteq FbmapSet!Bits
        /\ F!Map = {b \in 0 .. nr - 1 : F!WordBitNo(b) \in bits[F!WordNo(b)]}
        /\ \A b \in 0 .. nr - 1 : b \in Nat /\ F!WordBitNo(b) \in F!Full
    BY FbmapMapInside
  <1>2. FbmapOK'
    <2>1. UNCHANGED <<nr, bits>>
      BY DEF F!Questions, F!Ask
    <2> QED BY <2>1 DEF FbmapOK, F!Up
  <1>3. CASE F!Ask("hweight", 0 .. nr - 1, F!Weight)
    <2>1. F!Map \cap 0 .. nr - 1 = F!Map
      BY <1>1
    <2>2. F!Weight = FbmapSet!Answer("hweight", 0 .. nr - 1)
      BY <2>1, FbmapWeighs, FbmapSameCardinality DEF FbmapSet!Answer
    <2> QED BY <1>1, <1>2, <1>3, <2>2, FbmapAskStep
  <1>4. ASSUME NEW bit_no \in 0 .. nr - 1, F!Ask("test", {bit_no}, F!Test(bit_no))
        PROVE  FbmapSet!Next
    <2>1. F!WordBitMask(bit_no) = {F!WordBitNo(bit_no)}
      BY <1>1, FbmapMasks
    <2>2. F!Test(bit_no) <=> F!Map \cap {bit_no} # {}
      BY <1>1, <2>1 DEF F!Test
    <2>3. F!Test(bit_no) = FbmapSet!Answer("test", {bit_no})
      BY <2>2 DEF FbmapSet!Answer, F!Test
    <2>4. {bit_no} \subseteq FbmapSet!Bits
      BY <1>1
    <2> QED BY <1>4, <2>3, <2>4, FbmapAskStep
  <1>5. ASSUME NEW r \in F!Ranges, F!Ask("test", F!Bits(r), F!TestRange(r[1], r[2]))
        PROVE  FbmapSet!Next
    <2> DEFINE s == r[1]
               t == r[1] + r[2] - 1
    <2>1. /\ s \in 0 .. nr - 1 /\ t \in 0 .. nr - 1 /\ F!Bits(r) = s .. t
          /\ F!TestRange(r[1], r[2]) <=> FbmapHit(s, t)
      BY FbmapTestIsHit
    <2> HIDE DEF s, t
    <2>2. F!TestRange(r[1], r[2]) <=> F!Map \cap s .. t # {}
      BY <2>1, FbmapHits
    <2>3. FbmapSet!Answer("test", F!Bits(r)) = (F!Map \cap s .. t # {})
      BY <2>1 DEF FbmapSet!Answer
    <2>4. F!TestRange(r[1], r[2]) = FbmapSet!Answer("test", F!Bits(r))
      <3>1. F!TestRange(r[1], r[2]) \in BOOLEAN
        BY Zenon DEF F!TestRange
      <3> QED BY <2>2, <2>3, <3>1
    <2>5. F!Bits(r) \subseteq FbmapSet!Bits
      <3>1. s .. t \subseteq 0 .. nr - 1
        BY <1>1, <2>1
      <3> QED BY <1>1, <2>1, <3>1
    <2> QED BY <1>5, <2>4, <2>5, FbmapAskStep
  <1>6. CASE F!Ask("test", 0 .. nr - 1, F!TestAll)
    <2>1. F!TestAll <=> F!Map \cap 0 .. nr - 1 # {}
      BY FbmapTestAllIsHit
    <2>2. F!TestAll = FbmapSet!Answer("test", 0 .. nr - 1)
      <3>1. F!TestAll \in BOOLEAN
        BY Zenon DEF F!TestAll
      <3> QED BY <2>1, <3>1 DEF FbmapSet!Answer
    <2> QED BY <1>1, <1>2, <1>6, <2>2, FbmapAskStep
  <1>7. FbmapSet!Next
    BY <1>3, <1>4, <1>5, <1>6 DEF F!Questions
  <1> QED BY <1>2, <1>7

(* Each step of an fbmap is one of the set that it stands for. *)
LEMMA FbmapNextStep ==
  ASSUME FbmapOK, F!Next \/ UNCHANGED F!vars
  PROVE  FbmapOK' /\ (FbmapSet!Next \/ UNCHANGED FbmapSet!vars)
  <1>1. ASSUME UNCHANGED <<nr, bits, call, answer>>
        PROVE  FbmapOK' /\ UNCHANGED FbmapSet!vars
    <2>1. FbmapOK' /\ F!Map' = F!Map
      BY <1>1 DEF FbmapOK, F!Up, F!Map
    <2> QED BY <1>1, <2>1 DEF FbmapSet!vars
  <1>2. CASE \E n \in Sizes : F!InitClear(n) \/ F!InitSet(n)
    BY <1>2, FbmapInitStep
  <1>3. CASE F!InitFails \/ F!Dup \/ F!Fini
    BY <1>3, FbmapRestStep
  <1>4. CASE F!Up /\ \E bit_no \in 0 .. nr - 1 : F!Set(bit_no) \/ F!Clear(bit_no) \/ F!Toggle(bit_no)
    BY <1>4, FbmapBitStep
  <1>5. CASE F!Up /\ (F!SetAll \/ F!ClearAll \/ F!ToggleAll)
    BY <1>5, FbmapAllStep
  <1>6. CASE F!Up /\ F!Questions
    BY <1>6, FbmapQuestionsStep
  <1>7. ASSUME NEW of \in {"set", "clear"}, NEW r \in F!Ranges, F!ForeachRange(of, r[1], r[2])
        PROVE  UNCHANGED <<nr, bits, call, answer>>
    BY <1>7 DEF F!ForeachRange, F!Begin
  <1>8. F!Step \/ (F!Forget /\ UNCHANGED <<nr, bits>>) \/ UNCHANGED F!vars
          => UNCHANGED <<nr, bits, call, answer>>
    BY DEF F!Step, F!Forget, F!vars
  <1>9. CASE UNCHANGED <<nr, bits, call, answer>>
    BY <1>1, <1>9
  <1> QED BY <1>2, <1>3, <1>4, <1>5, <1>6, <1>7, <1>8, <1>9 DEF F!Next

-----------------------------------------------------------------------------
(* Loops over the bits of an fbmap.                                        *)

(* A bit that the loop has in its copy of a word, and one that it will get *)
(* to in a later word.                                                     *)
FbmapLeft(it, b) == F!WordNo(b) = it.curr /\ F!WordBitNo(b) \in F!Left(it.of, it.word)
FbmapLater(it, b) == F!WordNo(b) > it.curr

(* A loop has got, in order, bits that it is after or that were changed    *)
(* meanwhile, up to those of its copy, which follow them and are of the    *)
(* same kind.  What is in later words is what it is after, but for what    *)
(* was changed, and nothing else that it is after is still to be got.      *)
FbmapGoes(it, want, chg, got) ==
  /\ it \in F!Iterators /\ it.nr \in 1 .. nr
  /\ want \subseteq 0 .. it.nr - 1
  /\ got \in Seq(Int) /\ Increasing(got) /\ Range(got) \subseteq (want \cup chg) \cap Nat
  /\ \A b \in Range(got) : ~FbmapLater(it, b)
  /\ \A b \in 0 .. it.nr - 1 :
       /\ FbmapLeft(it, b) => b \in want \cup chg /\ \A c \in Range(got) : c < b
       /\ FbmapLater(it, b) /\ b \notin chg => (b \in want <=> (it.of = "set" <=> b \in F!Map))
       /\ b \in want \ chg /\ b \notin Range(got) =>
            ~it.ended /\ (FbmapLeft(it, b) \/ FbmapLater(it, b))

LEMMA FbmapFirst ==
  ASSUME NEW of \in {"set", "clear"}, NEW word \in F!Words
  PROVE  /\ F!Left(of, word) \subseteq F!Full
         /\ F!Left(of, word) = {} => F!First(of, word) = 0
         /\ F!Left(of, word) # {} =>
              /\ F!First(of, word) - 1 \in F!Left(of, word) /\ F!First(of, word) \in Nat \ {0}
              /\ \A i \in F!Left(of, word) : F!First(of, word) - 1 <= i
         /\ \A i \in F!Full :
              /\ F!Taken(of, word, i) \in F!Words
              /\ F!Left(of, F!Taken(of, word, i)) = F!Left(of, word) \ {i}
  <1> DEFINE left == F!Left(of, word)
  <1>1. word \subseteq F!Full /\ left \subseteq F!Full /\ F!Full \subseteq Nat
    BY FbmapWidth DEF F!Words, F!Left, F!Complement, F!Full
  <1>2. F!First(of, word) = F!Ffs(left)
    BY DEF F!First, F!Left, F!Ffc
  <1>3. left = {} => F!Ffs(left) = 0
    BY DEF F!Ffs
  <1>4. \A i \in F!Full :
          /\ F!Taken(of, word, i) \in F!Words
          /\ F!Left(of, F!Taken(of, word, i)) = left \ {i}
    BY <1>1 DEF F!Taken, F!Left, F!Words, F!Complement
  <1> HIDE DEF left
  <1>5. left # {} => /\ F!Ffs(left) - 1 \in left /\ F!Ffs(left) \in Nat \ {0}
                     /\ \A i \in left : F!Ffs(left) - 1 <= i
    BY <1>1, FirstBit
  <1> QED BY <1>1, <1>2, <1>3, <1>4, <1>5 DEF left

(* A word of the bitmap has what the loop is after, but for what changed.  *)
LEMMA FbmapLeftOfMap ==
  ASSUME FbmapOK, F!Up, NEW of \in {"set", "clear"}, NEW b \in 0 .. nr - 1
  PROVE  F!WordBitNo(b) \in F!Left(of, bits[F!WordNo(b)]) <=> (of = "set" <=> b \in F!Map)
  BY FbmapMapInside DEF F!Left, F!Complement

(* Getting to a later word skips nothing that the loop is after.           *)
LEMMA FbmapSkips ==
  ASSUME FbmapOK, F!Up, NEW it, NEW want, NEW chg, NEW got,
         FbmapGoes(it, want, chg, got), ~it.ended
  PROVE  LET next == F!Skipped(it)
         IN  /\ FbmapGoes(next, want, chg, got) /\ ~next.ended
             /\ F!Left(next.of, next.word) = {} =>
                  \A b \in 0 .. next.nr - 1 : FbmapLater(next, b) => b \notin want \ chg
  <1>1. /\ it \in F!Iterators /\ it.nr \in 1 .. nr /\ it.curr \in Nat /\ it.of \in {"set", "clear"}
        /\ want \subseteq 0 .. it.nr - 1
        /\ nr \in Nat \ {0} /\ bits \in [F!Array(nr) -> F!Words]
    BY FbmapMapInside DEF FbmapGoes, F!Iterators
  <1> DEFINE later == {w \in it.curr + 1 .. F!WordNr(it.nr) - 1 : F!Left(it.of, bits[w]) # {}}
             next == F!Skipped(it)
  <1>2. /\ \A b \in 0 .. it.nr - 1 : /\ b \in Nat /\ b \in 0 .. nr - 1 /\ F!WordNo(b) \in Nat
                                     /\ F!WordNo(b) <= F!WordNr(it.nr) - 1
        /\ F!WordNr(it.nr) - 1 = F!WordNo(it.nr - 1) /\ F!WordNr(it.nr) \in Nat
        /\ F!WordNo(it.nr - 1) \in F!Array(nr)
    <2>1. it.nr \in Nat \ {0} /\ it.nr - 1 \in 0 .. nr - 1
      BY <1>1
    <2>2. /\ F!WordNr(it.nr) \in Nat \ {0} /\ F!WordNr(it.nr) - 1 = F!WordNo(it.nr - 1)
          /\ \A b \in 0 .. it.nr - 1 : F!WordNo(b) \in F!Array(it.nr)
      BY <2>1, FbmapWords
    <2>3. F!WordNo(it.nr - 1) \in F!Array(nr)
      BY <1>1, <2>1, FbmapWords
    <2> QED BY <1>1, <2>1, <2>2, <2>3 DEF F!Array
  <1>3. ASSUME NEW b \in 0 .. it.nr - 1, FbmapLater(it, b), F!WordNo(b) \notin later
        PROVE  b \notin want \ chg
    <2>1. F!WordNo(b) \in it.curr + 1 .. F!WordNr(it.nr) - 1
      BY <1>1, <1>2, <1>3 DEF FbmapLater
    <2>2. F!Left(it.of, bits[F!WordNo(b)]) = {}
      BY <1>3, <2>1
    <2>3. ~(it.of = "set" <=> b \in F!Map)
      BY <1>1, <1>2, <2>2, FbmapLeftOfMap
    <2> QED BY <1>3, <2>3 DEF FbmapGoes
  <1>4. ASSUME F!Left(it.of, it.word) # {} \/ later = {}
        PROVE  /\ FbmapGoes(next, want, chg, got) /\ ~next.ended
               /\ F!Left(next.of, next.word) = {} =>
                    \A b \in 0 .. next.nr - 1 : FbmapLater(next, b) => b \notin want \ chg
    <2>1. next = it
      BY <1>4 DEF F!Skipped
    <2> HIDE DEF next, later
    <2> QED BY <1>3, <1>4, <2>1
  <1>5. ASSUME F!Left(it.of, it.word) = {}, later # {}
        PROVE  /\ FbmapGoes(next, want, chg, got) /\ ~next.ended /\ F!Left(next.of, next.word) # {}
    <2> DEFINE m == F!Min(later)
    <2>1. m \in later /\ \A w \in later : m <= w
      <3>1. later \subseteq Nat
        BY <1>1, <1>2
      <3>2. \E x \in later : \A y \in later : x <= y
        <4> HIDE DEF later
        <4> QED BY <1>5, <3>1, LeastElement
      <3> HIDE DEF later
      <3> QED BY <3>2 DEF F!Min
    <2>2. next = [it EXCEPT !.curr = m, !.word = bits[m]]
      BY <1>5 DEF F!Skipped
    <2>3. m \in Nat /\ m > it.curr /\ m \in F!Array(nr) /\ F!Left(it.of, bits[m]) # {}
      <3>1. m \in it.curr + 1 .. F!WordNr(it.nr) - 1 /\ F!Left(it.of, bits[m]) # {}
        BY <2>1
      <3>2. F!WordNr(nr) \in Nat
        BY <1>1, FbmapWords
      <3> HIDE DEF m
      <3> QED BY <1>1, <1>2, <3>1, <3>2 DEF F!Array
    <2>4. bits[m] \in F!Words
      BY <1>1, <2>3
    <2> HIDE DEF next, m
    <2>5. next = [of |-> it.of, word |-> bits[m], curr |-> m, nr |-> it.nr, ended |-> it.ended]
      BY <1>1, <2>2 DEF F!Iterators
    <2>6. next \in F!Iterators
      BY <1>1, <2>3, <2>4, <2>5 DEF F!Iterators
    <2>7. /\ next.of = it.of /\ next.word = bits[m] /\ next.curr = m /\ next.nr = it.nr
          /\ next.ended = it.ended
      BY <2>5
    <2>8. ASSUME NEW b \in Range(got) PROVE ~FbmapLater(next, b) /\ b \in Nat /\ F!WordNo(b) <= it.curr
      <3>1. ~FbmapLater(it, b) /\ b \in Nat
        BY DEF FbmapGoes
      <3>2. F!WordNo(b) \in Nat
        BY <3>1, FbmapBit
      <3> QED BY <1>1, <2>3, <2>7, <3>1, <3>2 DEF FbmapLater
    <2>9. ASSUME NEW b \in 0 .. it.nr - 1, FbmapLeft(next, b)
          PROVE  b \in want \cup chg /\ \A c \in Range(got) : c < b
      <3>1. F!WordNo(b) = m /\ F!WordBitNo(b) \in F!Left(it.of, bits[m]) /\ FbmapLater(it, b)
        BY <1>1, <2>3, <2>7, <2>9 DEF FbmapLeft, FbmapLater
      <3>2. it.of = "set" <=> b \in F!Map
        BY <1>1, <1>2, <3>1, FbmapLeftOfMap
      <3>3. b \in want \cup chg
        BY <3>1, <3>2 DEF FbmapGoes
      <3>4. ASSUME NEW c \in Range(got) PROVE c < b
        <4>1. F!WordNo(c) < F!WordNo(b) /\ c \in Nat /\ b \in Nat /\ F!WordNo(c) \in Nat /\ F!WordNo(b) \in Nat
          BY <1>1, <1>2, <2>3, <2>8, <3>1, FbmapBit
        <4>2. ~(b <= c)
          BY <4>1, FbmapPrecedes
        <4> QED BY <4>1, <4>2
      <3> QED BY <3>3, <3>4
    <2>10. ASSUME NEW b \in 0 .. it.nr - 1, FbmapLater(next, b), b \notin chg
           PROVE  b \in want <=> (it.of = "set" <=> b \in F!Map)
      <3>1. FbmapLater(it, b)
        BY <1>1, <1>2, <2>3, <2>7, <2>10 DEF FbmapLater
      <3> QED BY <2>10, <3>1 DEF FbmapGoes
    <2>11. ASSUME NEW b \in 0 .. it.nr - 1, b \in want \ chg, b \notin Range(got)
           PROVE  FbmapLeft(next, b) \/ FbmapLater(next, b)
      <3>1. FbmapLeft(it, b) \/ FbmapLater(it, b)
        BY <2>11 DEF FbmapGoes
      <3>2. FbmapLater(it, b)
        BY <1>5, <3>1 DEF FbmapLeft
      <3>3. F!WordNo(b) \in later
        BY <1>3, <2>11, <3>2
      <3>4. m <= F!WordNo(b)
        BY <2>1, <3>3 DEF m
      <3>5. CASE F!WordNo(b) = m
        <4>1. it.of = "set" <=> b \in F!Map
          BY <2>11, <3>2 DEF FbmapGoes
        <4>2. F!WordBitNo(b) \in F!Left(it.of, bits[F!WordNo(b)])
          BY <1>1, <1>2, <4>1, FbmapLeftOfMap
        <4> QED BY <2>7, <3>5, <4>2 DEF FbmapLeft
      <3>6. CASE F!WordNo(b) # m
        BY <1>2, <2>3, <2>7, <3>4, <3>6 DEF FbmapLater
      <3> QED BY <3>5, <3>6
    <2>12. FbmapGoes(next, want, chg, got)
      <3>1. /\ got \in Seq(Int) /\ Increasing(got) /\ Range(got) \subseteq (want \cup chg) \cap Nat
        BY DEF FbmapGoes
      <3> QED BY <1>1, <1>5, <2>6, <2>7, <2>8, <2>9, <2>10, <2>11, <3>1 DEF FbmapGoes
    <2> QED BY <1>1, <2>3, <2>7, <2>12
  <1> HIDE DEF next
  <1>6. F!Left(it.of, it.word) # {} \/ later = {} \/ (F!Left(it.of, it.word) = {} /\ later # {})
    OBVIOUS
  <1>7. /\ FbmapGoes(next, want, chg, got) /\ ~next.ended
        /\ F!Left(next.of, next.word) = {} =>
             \A b \in 0 .. next.nr - 1 : FbmapLater(next, b) => b \notin want \ chg
    <2> HIDE DEF later
    <2> QED BY <1>4, <1>5, <1>6
  <1> QED BY <1>7 DEF next

(* A step gives the loop the next bit, or ends it. *)
LEMMA FbmapGives ==
  ASSUME FbmapOK, F!Up, NEW it, NEW want, NEW chg,
         FbmapGoes(it, want, chg, seen), ~it.ended, F!StepIter(it)
  PROVE  FbmapGoes(iter', want, chg, seen')
  <1> DEFINE next == F!Skipped(it)
             left == F!Left(next.of, next.word)
             first == F!First(next.of, next.word)
             bit_no == first - 1 + next.curr * FbmapW
  <1>1. /\ FbmapGoes(next, want, chg, seen) /\ ~next.ended
        /\ left = {} => \A b \in 0 .. next.nr - 1 : FbmapLater(next, b) => b \notin want \ chg
    BY FbmapSkips
  <1>2. IF first - 1 >= 0 /\ bit_no < next.nr
        THEN /\ iter' = [next EXCEPT !.word = F!Taken(next.of, next.word, first - 1)]
             /\ seen' = Append(seen, bit_no)
        ELSE iter' = [next EXCEPT !.ended = TRUE] /\ seen' = seen
    <2>1. next.of = it.of /\ next.nr = it.nr
      BY DEF F!Skipped, FbmapGoes, F!Iterators
    <2> HIDE DEF next
    <2> QED BY <2>1 DEF F!StepIter, F!Given, next
  <1> HIDE DEF next
  <1>3. /\ next \in F!Iterators /\ next.nr \in 1 .. nr /\ nr \in Nat \ {0}
        /\ next.of \in {"set", "clear"} /\ next.word \in F!Words
        /\ next.curr \in Nat /\ next.nr \in Nat \ {0}
        /\ want \subseteq 0 .. next.nr - 1
        /\ seen \in Seq(Int) /\ Increasing(seen) /\ Range(seen) \subseteq (want \cup chg) \cap Nat
    BY <1>1, FbmapMapInside DEF FbmapGoes, F!Iterators
  <1>4. /\ left \subseteq F!Full /\ F!Full \subseteq Nat
        /\ left = {} => first = 0
        /\ left # {} => first - 1 \in left /\ first \in Nat \ {0} /\ \A i \in left : first - 1 <= i
        /\ \A i \in F!Full :
             /\ F!Taken(next.of, next.word, i) \in F!Words
             /\ F!Left(next.of, F!Taken(next.of, next.word, i)) = left \ {i}
    <2>1. F!Full \subseteq Nat
      BY FbmapWidth DEF F!Full
    <2> QED BY <1>3, <2>1, FbmapFirst
  <1>5. \A b \in 0 .. next.nr - 1 :
          /\ b \in Nat /\ F!WordNo(b) \in Nat /\ F!WordBitNo(b) \in F!Full
          /\ FbmapLeft(next, b) <=> F!WordNo(b) = next.curr /\ F!WordBitNo(b) \in left
    <2> SUFFICES ASSUME NEW b \in 0 .. next.nr - 1
                 PROVE  /\ b \in Nat /\ F!WordNo(b) \in Nat /\ F!WordBitNo(b) \in F!Full
                        /\ FbmapLeft(next, b) <=> F!WordNo(b) = next.curr /\ F!WordBitNo(b) \in left
      OBVIOUS
    <2>1. b \in Nat
      BY <1>3
    <2>2. F!WordNo(b) \in Nat /\ F!WordBitNo(b) \in F!Full
      BY <2>1, FbmapBit
    <2>3. FbmapLeft(next, b) <=> F!WordNo(b) = next.curr /\ F!WordBitNo(b) \in left
      BY DEF FbmapLeft
    <2> HIDE DEF left
    <2> QED BY <2>1, <2>2, <2>3
  <1>6. left # {} => /\ bit_no \in Nat /\ F!WordNo(bit_no) = next.curr
                     /\ F!WordBitNo(bit_no) = first - 1
    <2> SUFFICES ASSUME left # {}
                 PROVE  /\ bit_no \in Nat /\ F!WordNo(bit_no) = next.curr
                        /\ F!WordBitNo(bit_no) = first - 1
      OBVIOUS
    <2>1. first - 1 \in F!Full /\ first \in Nat
      BY <1>4
    <2>2. bit_no = FbmapW * next.curr + (first - 1)
      BY <1>3, <2>1, FbmapWidth
    <2> HIDE DEF bit_no, first
    <2> QED BY <1>3, <2>1, <2>2, FbmapPlace
  <1> HIDE DEF left, first, bit_no
  <1>7. left # {} => \A b \in 0 .. next.nr - 1 : FbmapLeft(next, b) => bit_no <= b
    <2> SUFFICES ASSUME left # {}, NEW b \in 0 .. next.nr - 1, FbmapLeft(next, b) PROVE bit_no <= b
      OBVIOUS
    <2>1. first - 1 <= F!WordBitNo(b) /\ F!WordNo(b) = next.curr /\ b \in Nat
      BY <1>4, <1>5
    <2> QED BY <1>6, <2>1, FbmapPrecedes
  <1>8. ASSUME first - 1 >= 0 /\ bit_no < next.nr PROVE FbmapGoes(iter', want, chg, seen')
    <2>1. left # {} /\ bit_no \in 0 .. next.nr - 1 /\ bit_no \in Int /\ first - 1 \in left /\ first - 1 \in F!Full
      BY <1>3, <1>4, <1>6, <1>8
    <2> DEFINE word == F!Taken(next.of, next.word, first - 1)
               got == Append(seen, bit_no)
    <2>2. word \in F!Words /\ F!Left(next.of, word) = left \ {first - 1}
      BY <1>4, <2>1
    <2>3. iter' = [of |-> next.of, word |-> word, curr |-> next.curr, nr |-> next.nr,
                   ended |-> next.ended]
      BY <1>2, <1>3, <1>8 DEF F!Iterators
    <2>4. seen' = got
      BY <1>2, <1>8
    <2> HIDE DEF word
    <2>5. /\ iter' \in F!Iterators /\ iter'.of = next.of /\ iter'.word = word
          /\ iter'.curr = next.curr /\ iter'.nr = next.nr /\ iter'.ended = next.ended
      BY <1>3, <2>2, <2>3 DEF F!Iterators
    <2>6. FbmapLeft(next, bit_no)
      BY <1>4, <1>5, <1>6, <2>1
    <2>7. bit_no \in want \cup chg /\ \A c \in Range(seen) : c < bit_no
      BY <1>1, <2>1, <2>6 DEF FbmapGoes
    <2>8. got \in Seq(Int) /\ Increasing(got) /\ Range(got) = Range(seen) \cup {bit_no}
      BY <1>3, <2>1, <2>7, AppendGreater
    <2> HIDE DEF got
    <2>9. Range(got) \subseteq (want \cup chg) \cap Nat
      BY <1>3, <1>6, <2>1, <2>7, <2>8
    <2>10. \A b : FbmapLater(iter', b) <=> FbmapLater(next, b)
      BY <2>5 DEF FbmapLater
    <2>11. ASSUME NEW b \in 0 .. next.nr - 1
           PROVE  FbmapLeft(iter', b) <=> FbmapLeft(next, b) /\ b # bit_no
      <3>1. FbmapLeft(iter', b) <=> F!WordNo(b) = next.curr /\ F!WordBitNo(b) \in left \ {first - 1}
        BY <2>2, <2>5 DEF FbmapLeft
      <3>2. ASSUME F!WordNo(b) = next.curr PROVE F!WordBitNo(b) = first - 1 <=> b = bit_no
        <4>1. b \in Nat /\ b = FbmapW * F!WordNo(b) + F!WordBitNo(b)
          BY <1>5, FbmapBit
        <4>2. bit_no = FbmapW * F!WordNo(bit_no) + F!WordBitNo(bit_no)
          BY <1>6, <2>1, FbmapBit
        <4> QED BY <1>6, <2>1, <3>2, <4>1, <4>2
      <3> QED BY <1>5, <1>6, <2>1, <3>1, <3>2
    <2>12. \A b \in Range(got) : ~FbmapLater(iter', b)
      <3>1. ~FbmapLater(next, bit_no)
        BY <1>3, <1>6, <2>1 DEF FbmapLater
      <3>2. \A b \in Range(seen) : ~FbmapLater(next, b)
        BY <1>1 DEF FbmapGoes
      <3> QED BY <2>8, <2>10, <3>1, <3>2
    <2>13. ASSUME NEW b \in 0 .. next.nr - 1
           PROVE  /\ FbmapLeft(iter', b) => b \in want \cup chg /\ \A c \in Range(got) : c < b
                  /\ FbmapLater(iter', b) /\ b \notin chg => (b \in want <=> (next.of = "set" <=> b \in F!Map))
                  /\ b \in want \ chg /\ b \notin Range(got) =>
                       ~next.ended /\ (FbmapLeft(iter', b) \/ FbmapLater(iter', b))
      <3>1. /\ FbmapLeft(next, b) => b \in want \cup chg /\ \A c \in Range(seen) : c < b
            /\ FbmapLater(next, b) /\ b \notin chg => (b \in want <=> (next.of = "set" <=> b \in F!Map))
            /\ b \in want \ chg /\ b \notin Range(seen) =>
                 ~next.ended /\ (FbmapLeft(next, b) \/ FbmapLater(next, b))
        BY <1>1 DEF FbmapGoes
      <3>2. ASSUME FbmapLeft(iter', b) PROVE b \in want \cup chg /\ \A c \in Range(got) : c < b
        <4>1. FbmapLeft(next, b) /\ b # bit_no
          BY <2>11, <3>2
        <4>2. bit_no < b
          BY <1>5, <1>7, <2>1, <4>1
        <4> QED BY <2>8, <3>1, <4>1, <4>2
      <3>3. ASSUME b \in want \ chg, b \notin Range(got)
            PROVE  ~next.ended /\ (FbmapLeft(iter', b) \/ FbmapLater(iter', b))
        BY <2>8, <2>10, <2>11, <3>1, <3>3
      <3> QED BY <2>10, <3>1, <3>2, <3>3
    <2> QED BY <1>3, <2>4, <2>5, <2>8, <2>9, <2>12, <2>13 DEF FbmapGoes
  <1>9. ASSUME ~(first - 1 >= 0 /\ bit_no < next.nr) PROVE FbmapGoes(iter', want, chg, seen')
    <2>1. iter' = [of |-> next.of, word |-> next.word, curr |-> next.curr, nr |-> next.nr,
                   ended |-> TRUE] /\ seen' = seen
      BY <1>2, <1>3, <1>9 DEF F!Iterators
    <2>2. /\ iter' \in F!Iterators /\ iter'.of = next.of /\ iter'.word = next.word
          /\ iter'.curr = next.curr /\ iter'.nr = next.nr /\ iter'.ended = TRUE
      BY <1>3, <2>1 DEF F!Iterators
    <2>3. \A b : /\ FbmapLeft(iter', b) <=> FbmapLeft(next, b)
                 /\ FbmapLater(iter', b) <=> FbmapLater(next, b)
      BY <2>2 DEF FbmapLeft, FbmapLater
    <2>4. ASSUME NEW b \in 0 .. next.nr - 1, b \in want \ chg PROVE b \in Range(seen)
      <3> SUFFICES ASSUME b \notin Range(seen) PROVE FALSE
        OBVIOUS
      <3>1. FbmapLeft(next, b) \/ FbmapLater(next, b)
        BY <1>1, <2>4 DEF FbmapGoes
      <3>2. CASE left = {}
        BY <1>1, <1>5, <2>4, <3>1, <3>2 DEF left
      <3>3. CASE left # {}
        <4>1. bit_no \in Nat /\ next.nr <= bit_no
          BY <1>3, <1>4, <1>6, <1>9, <3>3
        <4>2. ~FbmapLeft(next, b)
          BY <1>3, <1>5, <1>7, <3>3, <4>1
        <4>3. F!WordNo(b) > next.curr
          BY <3>1, <4>2 DEF FbmapLater
        <4>4. ~(b <= bit_no)
          BY <1>3, <1>5, <1>6, <3>3, <4>1, <4>3, FbmapPrecedes
        <4> QED BY <1>3, <1>5, <4>1, <4>4
      <3> QED BY <3>2, <3>3
    <2> QED BY <1>1, <2>1, <2>2, <2>3, <2>4 DEF FbmapGoes
  <1> QED BY <1>8, <1>9

FbmapLoop ==
  /\ FbmapOK
  /\ iter = None => seen = <<>>
  /\ iter # None => F!Up /\ FbmapGoes(iter, wanted, changed, seen)

(* What a loop has got depends on the bitmap through its set of bits only. *)
LEMMA FbmapGoesOn ==
  ASSUME NEW it, NEW want, NEW chg, FbmapGoes(it, want, chg, seen'),
         iter' = it, wanted' = want, changed' = chg, nr' = nr, F!Map' = F!Map
  PROVE  FbmapGoes(iter, wanted, changed, seen)'
  BY DEF FbmapGoes, FbmapLeft, FbmapLater

(* A loop starts with the bits of the word of the first one of its range,  *)
(* from that on.                                                           *)
LEMMA FbmapStarts ==
  ASSUME FbmapOK, F!Up, seen = <<>>, NEW of \in {"set", "clear"}, NEW r \in F!Ranges, NEW it, NEW want,
         it = [of |-> of, word |-> F!FirstWord(of, r[1]), curr |-> F!WordNo(r[1]),
               nr |-> r[1] + r[2], ended |-> FALSE],
         want = IF of = "set" THEN F!Map \cap (r[1] .. r[1] + r[2] - 1)
                ELSE (r[1] .. r[1] + r[2] - 1) \ F!Map
  PROVE  FbmapGoes(it, want, {}, seen)
  <1>1. /\ nr \in Nat \ {0} /\ bits \in [F!Array(nr) -> F!Words]
        /\ \A b \in 0 .. nr - 1 :
              /\ b \in Nat /\ F!WordNo(b) \in F!Array(nr) /\ F!WordBitNo(b) \in F!Full
              /\ bits[F!WordNo(b)] \subseteq F!Full
    BY FbmapMapInside
  <1> DEFINE s == r[1]
             end == r[1] + r[2]
             high == {i \in F!Full : F!WordBitNo(s) <= i}
  <1>2. s \in 0 .. nr - 1 /\ s \in Nat /\ end \in 1 .. nr /\ end \in Nat /\ s < end
    BY <1>1 DEF F!Ranges
  <1>3. F!WordHighMask(s) = high
    BY <1>2, FbmapMasks
  <1>4. it = [of |-> of, word |-> F!FirstWord(of, s), curr |-> F!WordNo(s), nr |-> end, ended |-> FALSE]
    OBVIOUS
  <1>5. want = IF of = "set" THEN F!Map \cap (s .. end - 1) ELSE (s .. end - 1) \ F!Map
    <2>1. r[1] + r[2] - 1 = end - 1
      BY DEF F!Ranges
    <2> HIDE DEF end
    <2> QED BY <2>1
  <1> HIDE DEF s, end
  <1>6. /\ F!FirstWord(of, s) \in F!Words
        /\ F!Left(of, F!FirstWord(of, s)) = F!Left(of, bits[F!WordNo(s)]) \cap high
    <2>1. bits[F!WordNo(s)] \subseteq F!Full /\ high \subseteq F!Full
      BY <1>1, <1>2
    <2> HIDE DEF high
    <2> QED BY <1>3, <2>1 DEF F!FirstWord, F!Left, F!Words, F!Complement
  <1>7. /\ it \in F!Iterators /\ it.of = of /\ it.word = F!FirstWord(of, s)
        /\ it.curr = F!WordNo(s) /\ it.nr = end /\ it.ended = FALSE
    <2>1. F!WordNo(s) \in Nat
      BY <1>2, FbmapBit
    <2> QED BY <1>2, <1>4, <1>6, <2>1 DEF F!Iterators
  <1>8. ASSUME NEW b \in 0 .. end - 1
        PROVE  b \in want <=> s <= b /\ (of = "set" <=> b \in F!Map)
    BY <1>2, <1>5
  <1>9. want \subseteq 0 .. end - 1
    BY <1>2, <1>5
  <1>10. ASSUME NEW b \in 0 .. end - 1
         PROVE  /\ b \in Nat /\ b \in 0 .. nr - 1 /\ F!WordNo(b) \in Nat /\ F!WordBitNo(b) \in F!Full
                /\ s <= b <=> \/ F!WordNo(s) < F!WordNo(b)
                              \/ (F!WordNo(s) = F!WordNo(b) /\ F!WordBitNo(b) \in high)
    <2>1. b \in Nat /\ b \in 0 .. nr - 1
      BY <1>1, <1>2
    <2>2. F!WordNo(b) \in Nat /\ F!WordBitNo(b) \in F!Full
      BY <2>1, FbmapBit
    <2> QED BY <1>2, <2>1, <2>2, FbmapPrecedes
  <1>11. ASSUME NEW b \in 0 .. end - 1
         PROVE  /\ FbmapLeft(it, b) => b \in want
                /\ FbmapLater(it, b) => (b \in want <=> (of = "set" <=> b \in F!Map))
                /\ b \in want => FbmapLeft(it, b) \/ FbmapLater(it, b)
    <2>1. F!WordBitNo(b) \in F!Left(of, bits[F!WordNo(b)]) <=> (of = "set" <=> b \in F!Map)
      BY <1>10, FbmapLeftOfMap
    <2>2. FbmapLeft(it, b) <=> /\ F!WordNo(b) = F!WordNo(s)
                               /\ F!WordBitNo(b) \in F!Left(of, bits[F!WordNo(b)])
                               /\ F!WordBitNo(b) \in high
      BY <1>6, <1>7 DEF FbmapLeft
    <2>3. FbmapLater(it, b) <=> F!WordNo(s) < F!WordNo(b)
      <3>1. F!WordNo(s) \in Nat
        BY <1>2, FbmapBit
      <3> QED BY <1>7, <1>10, <3>1 DEF FbmapLater
    <2> HIDE DEF high
    <2> QED BY <1>8, <1>10, <2>1, <2>2, <2>3
  <1>12. seen \in Seq(Int) /\ Increasing(seen) /\ Range(seen) = {}
    BY DEF Increasing, Range
  <1> HIDE DEF high
  <1> QED BY <1>2, <1>7, <1>9, <1>11, <1>12 DEF FbmapGoes

LEMMA FbmapForeachGoes ==
  ASSUME FbmapLoop, NEW of \in {"set", "clear"}, NEW r \in F!Ranges, F!ForeachRange(of, r[1], r[2])
  PROVE  FbmapLoop'
  <1>1. PICK it : it = [of |-> of, word |-> F!FirstWord(of, r[1]), curr |-> F!WordNo(r[1]),
                        nr |-> r[1] + r[2], ended |-> FALSE]
    OBVIOUS
  <1>2. PICK want : want = IF of = "set" THEN F!Map \cap (r[1] .. r[1] + r[2] - 1)
                           ELSE (r[1] .. r[1] + r[2] - 1) \ F!Map
    OBVIOUS
  <1>3. /\ FbmapOK /\ F!Up /\ iter = None /\ seen = <<>>
        /\ wanted' = want /\ changed' = {} /\ UNCHANGED <<nr, bits>>
        /\ F!StepIter(it)
    BY <1>1, <1>2 DEF F!ForeachRange, F!Begin, FbmapLoop
  <1>4. FbmapGoes(it, want, {}, seen) /\ ~it.ended
    BY <1>1, <1>2, <1>3, FbmapStarts
  <1>5. FbmapGoes(iter', want, {}, seen')
    BY <1>3, <1>4, FbmapGives
  <1>6. FbmapOK' /\ F!Up' /\ F!Map' = F!Map
    BY <1>3 DEF FbmapOK, F!Up, F!Map
  <1>7. PICK next : next = iter'
    OBVIOUS
  <1>8. FbmapGoes(iter, wanted, changed, seen)'
    BY <1>3, <1>5, <1>6, <1>7, FbmapGoesOn
  <1>9. iter' # None
    BY <1>5, NoneAssumption DEF FbmapGoes
  <1> QED BY <1>6, <1>8, <1>9 DEF FbmapLoop

LEMMA FbmapStepGoes ==
  ASSUME FbmapLoop, F!Step
  PROVE  FbmapLoop'
  <1>1. PICK it, want, chg : it = iter /\ want = wanted /\ chg = changed
    OBVIOUS
  <1>2. /\ FbmapOK /\ F!Up /\ iter # None /\ ~it.ended /\ FbmapGoes(it, want, chg, seen)
        /\ wanted' = want /\ changed' = chg /\ UNCHANGED <<nr, bits>>
        /\ F!StepIter(it)
    BY <1>1 DEF F!Step, FbmapLoop
  <1>3. FbmapGoes(iter', want, chg, seen')
    BY <1>2, FbmapGives
  <1>4. FbmapOK' /\ F!Up' /\ F!Map' = F!Map
    BY <1>2 DEF FbmapOK, F!Up, F!Map
  <1>5. PICK next : next = iter'
    OBVIOUS
  <1>6. FbmapGoes(iter, wanted, changed, seen)'
    BY <1>2, <1>3, <1>4, <1>5, FbmapGoesOn
  <1>7. iter' # None
    BY <1>3, NoneAssumption DEF FbmapGoes
  <1> QED BY <1>4, <1>6, <1>7 DEF FbmapLoop

(* A call that changes bits of the bitmap does not change what the loop    *)
(* holds, nor other bits.                                                  *)
LEMMA FbmapChangeGoes ==
  ASSUME FbmapLoop, FbmapOK', F!Up', FbmapSet!Next, iter # None, nr' = nr,
         NEW do, NEW on, F!Changing(do, on)
  PROVE  FbmapLoop'
  <1>1. /\ call' = [do |-> do, on |-> on]
        /\ changed' = changed \cup on /\ UNCHANGED <<iter, wanted, seen>>
    BY DEF F!Changing, F!Called
  <1>2. FbmapGoes(iter, wanted, changed, seen)
    BY DEF FbmapLoop
  <1>3. \A b : b \notin on => (b \in F!Map' <=> b \in F!Map)
    <2>1. call'.on = on
      BY <1>1
    <2>2. CASE FbmapSet!Change
      <3>1. F!Map' = FbmapSet!Result(call'.do, on) /\ call'.do \in {"set", "clear", "toggle"}
        BY <2>1, <2>2 DEF FbmapSet!Change
      <3> QED BY <3>1 DEF FbmapSet!Result
    <2>3. CASE FbmapSet!Ask
      BY <2>3 DEF FbmapSet!Ask
    <2> QED BY <2>2, <2>3 DEF FbmapSet!Next
  <1>4. PICK it, want, chg, got : it = iter /\ want = wanted /\ chg = changed /\ got = seen
    OBVIOUS
  <1>5. FbmapGoes(it, want, chg \cup on, got)'
    <2>1. FbmapGoes(it, want, chg, got)
      BY <1>2, <1>4
    <2>2. /\ it \in F!Iterators /\ it.nr \in 1 .. nr'
          /\ want \subseteq 0 .. it.nr - 1
          /\ got \in Seq(Int) /\ Increasing(got) /\ Range(got) \subseteq (want \cup (chg \cup on)) \cap Nat
          /\ \A b \in Range(got) : ~FbmapLater(it, b)
      BY <2>1 DEF FbmapGoes
    <2>3. ASSUME NEW b \in 0 .. it.nr - 1
          PROVE  /\ FbmapLeft(it, b) => b \in want \cup (chg \cup on) /\ \A c \in Range(got) : c < b
                 /\ FbmapLater(it, b) /\ b \notin chg \cup on =>
                      (b \in want <=> (it.of = "set" <=> b \in F!Map'))
                 /\ b \in want \ (chg \cup on) /\ b \notin Range(got) =>
                      ~it.ended /\ (FbmapLeft(it, b) \/ FbmapLater(it, b))
      <3>1. /\ FbmapLeft(it, b) => b \in want \cup chg /\ \A c \in Range(got) : c < b
            /\ FbmapLater(it, b) /\ b \notin chg => (b \in want <=> (it.of = "set" <=> b \in F!Map))
            /\ b \in want \ chg /\ b \notin Range(got) =>
                 ~it.ended /\ (FbmapLeft(it, b) \/ FbmapLater(it, b))
        BY <2>1 DEF FbmapGoes
      <3> QED BY <1>3, <3>1
    <2> QED BY <2>2, <2>3 DEF FbmapGoes, FbmapLeft, FbmapLater
  <1>6. FbmapGoes(iter, wanted, changed, seen)'
    <2>1. iter' = it /\ wanted' = want /\ changed' = chg \cup on /\ seen' = got
      BY <1>1, <1>4
    <2> QED BY <1>5, <2>1 DEF FbmapGoes, FbmapLeft, FbmapLater
  <1> QED BY <1>1, <1>6 DEF FbmapLoop

LEMMA FbmapLoopStep ==
  ASSUME FbmapLoop, F!Next \/ UNCHANGED F!vars
  PROVE  FbmapLoop'
  <1>1. FbmapOK /\ FbmapOK'
    BY FbmapNextStep DEF FbmapLoop
  <1>2. ASSUME iter = None, UNCHANGED <<iter, seen>> PROVE FbmapLoop'
    BY <1>1, <1>2 DEF FbmapLoop
  <1>3. ASSUME NEW do, NEW on, F!Changing(do, on), iter = None PROVE FbmapLoop'
    BY <1>1, <1>3 DEF FbmapLoop, F!Changing, F!loop
  <1>4. ASSUME NEW n \in Sizes, F!InitClear(n) \/ F!InitSet(n) PROVE FbmapLoop'
    <2>1. ~F!Up /\ \E do, on : F!Changing(do, on)
      BY <1>4 DEF F!InitClear, F!InitSet, F!InitTo
    <2> QED BY <1>3, <2>1 DEF FbmapLoop
  <1>5. CASE F!InitFails \/ F!Dup \/ F!Fini
    <2>1. iter = None /\ \E do, on : F!Changing(do, on)
      BY <1>5 DEF F!InitFails, F!Dup, F!Fini, FbmapLoop
    <2> QED BY <1>3, <2>1
  <1>6. ASSUME F!Up, F!Up', FbmapSet!Next, nr' = nr, NEW do, NEW on, F!Changing(do, on)
        PROVE  FbmapLoop'
    <2>1. CASE iter = None
      BY <1>3, <1>6, <2>1
    <2>2. CASE iter # None
      BY <1>1, <1>6, <2>2, FbmapChangeGoes
    <2> QED BY <2>1, <2>2
  <1>7. ASSUME F!Up, NEW bit_no \in 0 .. nr - 1, F!Set(bit_no) \/ F!Clear(bit_no) \/ F!Toggle(bit_no)
        PROVE  FbmapLoop'
    <2>1. F!Up' /\ FbmapSet!Next
      BY <1>1, <1>7, FbmapBitStep
    <2>2. nr' = nr /\ \E do, on : F!Changing(do, on)
      BY <1>7 DEF F!Set, F!Clear, F!Toggle, F!Change
    <2> QED BY <1>6, <1>7, <2>1, <2>2
  <1>8. CASE F!Up /\ (F!SetAll \/ F!ClearAll \/ F!ToggleAll)
    <2>1. F!Up' /\ FbmapSet!Next
      BY <1>1, <1>8, FbmapAllStep
    <2>2. nr' = nr /\ \E do, on : F!Changing(do, on)
      BY <1>8 DEF F!SetAll, F!ClearAll, F!ToggleAll, F!ChangeAll
    <2> QED BY <1>6, <1>8, <2>1, <2>2
  <1>9. CASE F!Up /\ F!Questions
    <2>1. iter = None /\ UNCHANGED <<iter, seen>>
      BY <1>9 DEF F!Questions, F!Ask, F!Asking, F!loop
    <2> QED BY <1>2, <2>1
  <1>10. CASE \E of \in {"set", "clear"}, r \in F!Ranges : F!ForeachRange(of, r[1], r[2])
    BY <1>10, FbmapForeachGoes
  <1>11. CASE F!Step
    BY <1>11, FbmapStepGoes
  <1>12. CASE F!Forget /\ UNCHANGED <<nr, bits>>
    BY <1>1, <1>12 DEF F!Forget, FbmapLoop
  <1>13. CASE UNCHANGED F!vars
    BY <1>13 DEF F!vars, FbmapLoop, FbmapOK, F!Up, F!Map, FbmapGoes, FbmapLeft, FbmapLater
  <1> QED BY <1>4, <1>5, <1>7, <1>8, <1>9, <1>10, <1>11, <1>12, <1>13 DEF F!Next

LEMMA FbmapLoopsComplete == FbmapLoop => F!LoopComplete
  <1> SUFFICES ASSUME FbmapLoop PROVE F!LoopComplete
    OBVIOUS
  <1>1. F!Range(seen) = Range(seen)
    BY DEF F!Range, Range
  <1>2. CASE iter = None
    <2>1. seen = <<>>
      BY <1>2 DEF FbmapLoop
    <2>2. Range(seen) = {} /\ Increasing(seen)
      BY <2>1 DEF Range, Increasing
    <2> QED BY <1>1, <1>2, <2>2 DEF F!LoopComplete, Increasing
  <1>3. CASE iter # None
    <2>1. FbmapGoes(iter, wanted, changed, seen)
      BY <1>3 DEF FbmapLoop
    <2>2. ASSUME iter.ended, NEW b \in wanted \ changed PROVE b \in Range(seen)
      BY <2>1, <2>2 DEF FbmapGoes
    <2> QED BY <1>1, <2>1, <2>2 DEF F!LoopComplete, FbmapGoes, Increasing
  <1> QED BY <1>2, <1>3

-----------------------------------------------------------------------------
(* A behaviour of MCWords.                                                 *)

ValueOK == value \in 1 .. Two[Pow2W] - 1

WordsInv ==
  /\ kind \in {"bmap", "fbmap", "message", "pow2"}
  /\ kind = "bmap" => BmapLoop
  /\ kind = "fbmap" => FbmapLoop
  /\ kind = "message" => WindowOK
  /\ kind = "pow2" => ValueOK

LEMMA WordsInit == MCInit => WordsInv
  <1> SUFFICES ASSUME MCInit PROVE WordsInv
    OBVIOUS
  <1>1. kind \in {"bmap", "fbmap", "message", "pow2"}
    BY DEF MCInit
  <1>2. ASSUME kind = "bmap" PROVE BmapLoop
    <2>1. bmap \subseteq B!Full /\ iter = None /\ seen = <<>>
      BY <1>2 DEF MCInit, B!Init, B!NoLoop, B!SetupSet, B!SetAll, B!SetupClear, B!ClearAll
    <2> QED BY <2>1 DEF BmapLoop, Increasing
  <1>3. ASSUME kind = "fbmap" PROVE FbmapLoop
    BY <1>3 DEF MCInit, F!Init, F!NoLoop, FbmapLoop, FbmapOK, F!Up
  <1>4. ASSUME kind = "message" PROVE WindowOK
    BY <1>4, InitWindow DEF MCInit
  <1>5. ASSUME kind = "pow2" PROVE ValueOK
    <2>1. value = 1
      BY <1>5 DEF MCInit
    <2>2. 2 * Two[0] <= Two[Pow2W] /\ Two[0] = 1
      BY WidthsAssumption, TwoGrows, TwoFacts DEF P!WidthAssumption
    <2>3. Two[Pow2W] \in Nat
      BY WidthsAssumption, PowersOfTwo DEF P!WidthAssumption
    <2> QED BY <2>1, <2>2, <2>3 DEF ValueOK
  <1> QED BY <1>1, <1>2, <1>3, <1>4, <1>5 DEF WordsInv

(* A step is one of what the behaviour is about.                           *)
LEMMA WordsKinds ==
  ASSUME [MCNext]_<<kind, bitVars, bmap, fbmapVars, vars, value>>
  PROVE  /\ kind' = kind
         /\ kind = "bmap" => B!Next \/ UNCHANGED B!vars
         /\ kind = "fbmap" => F!Next \/ UNCHANGED F!vars
         /\ kind = "message" => [Next]_vars
         /\ kind # "message" => UNCHANGED vars
         /\ kind = "pow2" => NextValue \/ UNCHANGED value
         /\ kind \notin {"bmap", "fbmap"} => UNCHANGED <<call, answer>>
  <1>1. CASE MCNext
    BY <1>1 DEF MCNext, bitVars, B!vars, F!vars
  <1>2. CASE UNCHANGED <<kind, bitVars, bmap, fbmapVars, vars, value>>
    BY <1>2 DEF bitVars, fbmapVars, B!vars, F!vars, vars
  <1> QED BY <1>1, <1>2

LEMMA WordsStep ==
  WordsInv /\ [MCNext]_<<kind, bitVars, bmap, fbmapVars, vars, value>> => WordsInv'
  <1> SUFFICES ASSUME WordsInv, [MCNext]_<<kind, bitVars, bmap, fbmapVars, vars, value>>
               PROVE  WordsInv'
    OBVIOUS
  <1>1. kind' = kind /\ kind \in {"bmap", "fbmap", "message", "pow2"}
    BY WordsKinds DEF WordsInv
  <1>2. ASSUME kind = "bmap" PROVE BmapLoop'
    BY <1>2, WordsKinds, BmapLoopStep, WidthsAssumption DEF WordsInv
  <1>3. ASSUME kind = "fbmap" PROVE FbmapLoop'
    BY <1>3, WordsKinds, FbmapLoopStep DEF WordsInv
  <1>4. ASSUME kind = "message" PROVE WindowOK'
    BY <1>4, WordsKinds, MessageNextStep DEF WordsInv
  <1>5. ASSUME kind = "pow2" PROVE ValueOK'
    <2>1. ValueOK /\ (NextValue \/ value' = value)
      BY <1>5, WordsKinds DEF WordsInv
    <2>2. Two[Pow2W] \in Nat /\ P!Two = Two
      BY WidthsAssumption, PowersOfTwo DEF P!WidthAssumption
    <2> QED BY <2>1, <2>2 DEF ValueOK, NextValue
  <1> QED BY <1>1, <1>2, <1>3, <1>4, <1>5 DEF WordsInv

LEMMA WordsAlways == MCSpec => []WordsInv
  BY WordsInit, WordsStep, PTL DEF MCSpec

(* A loop over the bits of a bitmap of any width and size gets each bit    *)
(* that it is after, once and in order, and nothing else but what calls    *)
(* changed while it ran, whichever they were: for a bmap, unless the most  *)
(* significant bit is the only one.                                        *)
THEOREM LoopsAlwaysComplete == MCSpec => []LoopsComplete
  <1>1. WordsInv => LoopsComplete
    BY BmapLoopsComplete, FbmapLoopsComplete DEF WordsInv, LoopsComplete
  <1> QED BY <1>1, WordsAlways, PTL

(* The exponent that stroll_pow2_up32() gives is the least, for every      *)
(* value of a word of any width.                                           *)
THEOREM Pow2UpAlwaysLeast == MCSpec => []Pow2UpIsLeast
  <1>1. WordsInv => Pow2UpIsLeast
    BY UpIsLeast, PowersOfTwo DEF WordsInv, ValueOK, Pow2UpIsLeast
  <1> QED BY <1>1, WordsAlways, PTL

(* Rounding up to a multiple of a power of two is exact as long as there   *)
(* is such a multiple in a word, and gives 0 otherwise.                    *)
THEOREM AlignUpperAlwaysExact == MCSpec => []AlignUpperIsLeastOrNull
  <1>1. WordsInv => AlignUpperIsLeastOrNull
    <2> SUFFICES ASSUME WordsInv, kind = "pow2", NEW n \in 0 .. Pow2W - 1
                 PROVE  LET align == P!Two[n]
                            up == P!AlignUpper(value, align)
                        IN  /\ up % align = 0
                            /\ IF value <= P!Two[Pow2W] - align
                               THEN value <= up /\ up - value < align
                               ELSE up = 0
      BY DEF AlignUpperIsLeastOrNull
    <2>1. value \in 1 .. Two[Pow2W] - 1 /\ P!Two = Two
      BY PowersOfTwo DEF WordsInv, ValueOK
    <2> QED BY <2>1, UpperIs
  <1> QED BY <1>1, WordsAlways, PTL

(* Whatever a behaviour is about, its message is a string of bytes within  *)
(* some room.                                                              *)
THEOREM MessagesAreStrings == MCSpec => StringSpec
  <1>1. MCInit => StringInit
    <2> SUFFICES ASSUME MCInit PROVE StringInit
      OBVIOUS
    <2>1. buff = Window(0, 0) /\ reply = [call |-> "setup", len |-> 0, bytes |-> <<>>]
      BY DEF MCInit, Init, OffMessage
    <2>2. /\ buff.head_off = 0 /\ buff.busy_len = 0 /\ reply.call = "setup"
      BY <2>1 DEF Window
    <2>3. Data = << >>
      BY <2>2 DEF Data, Bytes, Busy
    <2>4. AvailHead(buff) = 0 /\ AvailTail(buff) = Capacity
      BY <2>2, CapacityAssumption DEF AvailHead, AvailTail
    <2> QED BY <2>2, <2>3, <2>4, CapacityAssumption DEF StringInit, StringOK
  <1>2. WordsInv /\ [MCNext]_<<kind, bitVars, bmap, fbmapVars, vars, value>>
          => [StringNext]_string
    <2> SUFFICES ASSUME WordsInv, [MCNext]_<<kind, bitVars, bmap, fbmapVars, vars, value>>
                 PROVE  [StringNext]_string
      OBVIOUS
    <2>1. CASE kind = "message"
      BY <2>1, WordsKinds, MessageNextStep DEF WordsInv
    <2>2. CASE kind # "message"
      <3>1. UNCHANGED vars
        BY <2>2, WordsKinds
      <3> QED BY <3>1 DEF vars, string, Data, Bytes, DataAt, Busy, AvailHead, AvailTail
    <2> QED BY <2>1, <2>2
  <1> QED BY <1>1, <1>2, WordsAlways, PTL DEF MCSpec, StringSpec

(* Either bitmap is a set of bits, for any width of a word and any size.   *)
THEOREM BitmapsAreSets == MCSpec => BitSetSpec
  <1>1. MCInit => Set!Init
    <2> SUFFICES ASSUME MCInit PROVE Set!Init
      OBVIOUS
    <2>1. CASE kind = "bmap"
      <3>1. bmap \subseteq B!Full /\ call = None /\ answer = None
        BY <2>1 DEF MCInit, B!Init, B!SetupSet, B!SetAll, B!SetupClear, B!ClearAll
      <3>2. bmap \subseteq BmapSet!Bits
        BY <3>1, BmapFits, WidthsAssumption
      <3> QED BY <2>1, <3>1, <3>2 DEF Set!Init, Set!Bits, BmapSet!Bits
    <2>2. CASE kind = "fbmap"
      <3>1. F!Map = {} /\ call = None /\ answer = None
        BY <2>2 DEF MCInit, F!Init, F!Map, F!Up
      <3> QED BY <2>2, <3>1 DEF Set!Init, Set!Bits
    <2>3. CASE kind \notin {"bmap", "fbmap"}
      <3>1. call = None /\ answer = None
        BY <2>3 DEF MCInit, OffBits
      <3> QED BY <2>3, <3>1 DEF Set!Init, Set!Bits
    <2> QED BY <2>1, <2>2, <2>3
  <1>2. WordsInv /\ [MCNext]_<<kind, bitVars, bmap, fbmapVars, vars, value>> => [Set!Next]_(Set!vars)
    <2> SUFFICES ASSUME WordsInv, [MCNext]_<<kind, bitVars, bmap, fbmapVars, vars, value>>
                 PROVE  [Set!Next]_(Set!vars)
      OBVIOUS
    <2>1. kind' = kind
      BY WordsKinds
    <2>2. CASE kind = "bmap"
      <3>1. [BmapSet!Next]_(BmapSet!vars)
        BY <2>2, WordsKinds, BmapNextStep, WidthsAssumption DEF WordsInv, BmapLoop
      <3>2. CASE BmapSet!Change
        BY <2>1, <2>2, <3>2 DEF BmapSet!Change, BmapSet!Result, BmapSet!Bits,
                                Set!Next, Set!Change, Set!Result, Set!Bits
      <3>3. CASE BmapSet!Ask
        BY <2>1, <2>2, <3>3 DEF BmapSet!Ask, BmapSet!Answer, BmapSet!Bits, BmapSet!Cardinality,
                                Set!Next, Set!Ask, Set!Answer, Set!Bits, Set!Cardinality
      <3>4. CASE UNCHANGED BmapSet!vars
        BY <2>1, <2>2, <3>4 DEF BmapSet!vars, Set!vars
      <3> QED BY <3>1, <3>2, <3>3, <3>4 DEF BmapSet!Next
    <2>3. CASE kind = "fbmap"
      <3>1. FbmapSet!Next \/ UNCHANGED FbmapSet!vars
        BY <2>3, WordsKinds, FbmapNextStep DEF WordsInv, FbmapLoop
      <3>2. CASE FbmapSet!Change
        BY <2>1, <2>3, <3>2 DEF FbmapSet!Change, FbmapSet!Result, FbmapSet!Bits,
                                Set!Next, Set!Change, Set!Result, Set!Bits
      <3>3. CASE FbmapSet!Ask
        BY <2>1, <2>3, <3>3 DEF FbmapSet!Ask, FbmapSet!Answer, FbmapSet!Bits, FbmapSet!Cardinality,
                                Set!Next, Set!Ask, Set!Answer, Set!Bits, Set!Cardinality
      <3>4. CASE UNCHANGED FbmapSet!vars
        BY <2>1, <2>3, <3>4 DEF FbmapSet!vars, Set!vars
      <3> QED BY <3>1, <3>2, <3>3, <3>4 DEF FbmapSet!Next
    <2>4. CASE kind \notin {"bmap", "fbmap"}
      <3>1. UNCHANGED <<call, answer>>
        BY <2>4, WordsKinds
      <3> QED BY <2>1, <2>4, <3>1 DEF Set!vars
    <2> QED BY <2>2, <2>3, <2>4
  <1> QED BY <1>1, <1>2, WordsAlways, PTL DEF MCSpec, BitSetSpec, Set!Spec

=============================================================================
