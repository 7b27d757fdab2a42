-------------------------------- MODULE Bmap --------------------------------
(***************************************************************************)
(* The bitmap in a word of src/include/stroll/bmap.h.  The header has each *)
(* operation for words of 32 bits, of 64 bits, for integers and for longs: *)
(* they only differ by W.                                                  *)
(***************************************************************************)
EXTENDS BitClient

VARIABLE bmap   \* the word

vars == <<bmap, call, answer, iter, wanted, changed, seen>>

(* Ranges that the header's assertions let through. *)
Ranges == {r \in Full \X (1 .. W) : r[1] + r[2] <= W}
Bits(r) == r[1] .. r[1] + r[2] - 1

Bit(bit_no) == Shl({0}, bit_no)

(* stroll_bmap_mask(), and the mask that is one bit too far. *)
MaskPast(start_bit, bit_count) == Shl(Shr(Full, W - bit_count), start_bit + 1)

Mask(start_bit, bit_count) == Shl(Shr(Full, W - bit_count), start_bit)

And(word, mask) == word \cap mask
Or(word, mask) == word \cup mask
Xor(word, mask) == (word \ mask) \cup (mask \ word)

AndRange(word, r) == And(word, Mask(r[1], r[2]))
OrRange(word, r) == Or(word, Mask(r[1], r[2]))
XorRange(word, r) == Xor(word, Mask(r[1], r[2]))

TestMask(word, mask) == And(word, mask) # {}
Test(word, bit_no) == TestMask(word, Bit(bit_no))
TestRange(word, r) == TestMask(word, Mask(r[1], r[2]))
TestAll(word) == word # {}

SetMask(word, mask) == Or(word, mask)
Set(word, bit_no) == SetMask(word, Bit(bit_no))
SetRange(word, r) == SetMask(word, Mask(r[1], r[2]))
SetAll == Full

ClearMask(word, mask) == And(word, Complement(mask))
Clear(word, bit_no) == ClearMask(word, Bit(bit_no))
ClearRange(word, r) == ClearMask(word, Mask(r[1], r[2]))
ClearAll == {}

ToggleMask(word, mask) == Xor(word, mask)
Toggle(word, bit_no) == ToggleMask(word, Bit(bit_no))
ToggleRange(word, r) == ToggleMask(word, Mask(r[1], r[2]))
ToggleAll(word) == Complement(word)

-----------------------------------------------------------------------------

(* stroll_bmap_setup_set() and stroll_bmap_setup_clear(). *)
SetupSet == SetAll
SetupClear == ClearAll

Init ==
  /\ bmap \in {SetupSet, SetupClear}
  /\ call = None /\ answer = None /\ NoLoop

Change(do, on, word) == Changing(do, on) /\ bmap' = word

Changes ==
  \/ \E mask \in Words :
       \/ Change("set", mask, SetMask(bmap, mask))
       \/ Change("clear", mask, ClearMask(bmap, mask))
       \/ Change("toggle", mask, ToggleMask(bmap, mask))
  \/ \E bit_no \in Full :
       \/ Change("set", {bit_no}, Set(bmap, bit_no))
       \/ Change("clear", {bit_no}, Clear(bmap, bit_no))
       \/ Change("toggle", {bit_no}, Toggle(bmap, bit_no))
  \/ \E r \in Ranges :
       \/ Change("set", Bits(r), SetRange(bmap, r))
       \/ Change("clear", Bits(r), ClearRange(bmap, r))
       \/ Change("toggle", Bits(r), ToggleRange(bmap, r))
  \/ Change("set", Full, SetAll)
  \/ Change("clear", Full, ClearAll)
  \/ Change("toggle", Full, ToggleAll(bmap))

Ask(do, on, value) == Asking(do, on, value) /\ UNCHANGED bmap

Questions ==
  \/ \E mask \in Words :
       \/ Ask("and", mask, And(bmap, mask))
       \/ Ask("or", mask, Or(bmap, mask))
       \/ Ask("xor", mask, Xor(bmap, mask))
       \/ Ask("test", mask, TestMask(bmap, mask))
  \/ \E bit_no \in Full : Ask("test", {bit_no}, Test(bmap, bit_no))
  \/ \E r \in Ranges :
       \/ Ask("and", Bits(r), AndRange(bmap, r))
       \/ Ask("or", Bits(r), OrRange(bmap, r))
       \/ Ask("xor", Bits(r), XorRange(bmap, r))
       \/ Ask("test", Bits(r), TestRange(bmap, r))
  \/ Ask("test", Full, TestAll(bmap))
  \/ Ask("hweight", Full, Hweight(bmap))

(* What a loop keeps. *)
Iterators == [word : Words, bit_no : Int, ended : BOOLEAN]

(* stroll_bmap_foreach_set() and stroll_bmap_foreach_clear(): the loop     *)
(* shifts a copy of the bitmap, bit_no being the last bit that left it.    *)
Foreach(word) ==
  /\ Begin(word)
  /\ iter' = [word |-> word, bit_no |-> -1, ended |-> FALSE]
  /\ UNCHANGED <<bmap, seen>>

ForeachSet == Foreach(bmap)
ForeachClear == Foreach(Xor(bmap, Full))

Step ==
  /\ iter # None /\ iter.word # {}
  /\ LET diff == Ffs(iter.word) IN
     /\ Given(iter.bit_no + diff)
     /\ \E word \in Shifted(iter.word, diff) :
          iter' = [iter EXCEPT !.word = word, !.bit_no = @ + diff]
  /\ UNCHANGED <<bmap, call, answer, wanted, changed>>

LoopEnds ==
  /\ iter # None /\ iter.word = {} /\ ~ iter.ended
  /\ iter' = [iter EXCEPT !.ended = TRUE]
  /\ UNCHANGED <<bmap, call, answer, wanted, changed, seen>>

Next ==
  \/ Changes \/ Questions
  \/ ForeachSet \/ ForeachClear \/ Step \/ LoopEnds
  \/ Forget /\ UNCHANGED bmap

Spec == Init /\ [][Next]_vars

=============================================================================
