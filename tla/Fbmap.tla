-------------------------------- MODULE Fbmap -------------------------------
(***************************************************************************)
(* The bitmap of a fixed number of bits of src/src/fbmap.c and             *)
(* src/include/stroll/fbmap.h: an array of words, the last of which may    *)
(* have more bits than the bitmap, that hold anything.                     *)
(***************************************************************************)
EXTENDS BitClient

CONSTANT Sizes   (* Numbers of bits that the client makes a bitmap of. *)

VARIABLES
  nr,      \* the number of bits
  bits     \* the words, or None when the bitmap is not initialised

vars == <<nr, bits, call, answer, iter, wanted, changed, seen>>

WordNo(bit_no) == bit_no \div W
WordNr(bit_nr) == WordNo(bit_nr + W - 1)
WordBitNo(bit_no) == bit_no % W
WordBitMask(bit_no) == Shl({0}, WordBitNo(bit_no))

(* A word without the bits below the one of a bitmap's bit, or above it.   *)
WordHighMask(bit_no) == Shl(Full, WordBitNo(bit_no))
WordLowMask(bit_no) == Shr(Full, W - 1 - WordBitNo(bit_no))

(* The words of a bitmap of n bits. *)
Array(n) == 0 .. WordNr(n) - 1
LastWord == WordNr(nr) - 1

Up == bits # None

(* The set of bits that the words stand for. *)
Map == IF Up THEN {b \in 0 .. nr - 1 : WordBitNo(b) \in bits[WordNo(b)]} ELSE {}

Init ==
  /\ nr = 0 /\ bits = None
  /\ call = None /\ answer = None /\ NoLoop

-----------------------------------------------------------------------------

(* stroll_fbmap_init_clear() and stroll_fbmap_init_set().  They fail when  *)
(* malloc() does.                                                          *)
InitTo(do, on, n, word) ==
  /\ ~ Up /\ Changing(do, on)
  /\ nr' = n
  /\ bits' = [w \in Array(n) |-> word]

InitClear(n) == InitTo("clear", 0 .. n - 1, n, {})
InitSet(n) == InitTo("set", 0 .. n - 1, n, Full)

InitFails ==
  /\ ~ Up /\ Changing("set", {})
  /\ UNCHANGED <<nr, bits>>

(* stroll_fbmap_init_dup(): the client goes on with the copy, and gets rid *)
(* of the original.                                                        *)
Dup ==
  /\ Up /\ iter = None /\ Changing("set", {})
  /\ bits' = [w \in Array(nr) |-> bits[w]]
  /\ UNCHANGED nr

Fini ==
  /\ Up /\ iter = None /\ Changing("clear", 0 .. nr - 1)
  /\ bits' = None /\ UNCHANGED nr

(* Calls that change a bit, or all words. *)
Change(do, bit_no, word) ==
  /\ Changing(do, {bit_no})
  /\ bits' = [bits EXCEPT ![WordNo(bit_no)] = word]
  /\ UNCHANGED nr

ChangeAll(do, words) ==
  /\ Changing(do, 0 .. nr - 1)
  /\ bits' = words
  /\ UNCHANGED nr

Set(bit_no) == Change("set", bit_no, bits[WordNo(bit_no)] \cup WordBitMask(bit_no))
Clear(bit_no) == Change("clear", bit_no, bits[WordNo(bit_no)] \ WordBitMask(bit_no))
Toggle(bit_no) ==
  Change("toggle", bit_no,
         (bits[WordNo(bit_no)] \ WordBitMask(bit_no))
           \cup (WordBitMask(bit_no) \ bits[WordNo(bit_no)]))

SetAll == ChangeAll("set", [w \in Array(nr) |-> Full])
ClearAll == ChangeAll("clear", [w \in Array(nr) |-> {}])
ToggleAll == ChangeAll("toggle", [w \in Array(nr) |-> Complement(bits[w])])

-----------------------------------------------------------------------------

(* _stroll_fbmap_hweight(): the sum over the first w words, and the last   *)
(* one without what exceeds nr.                                            *)
Weight ==
  LET hw[w \in 0 .. LastWord] == IF w = 0 THEN 0 ELSE hw[w - 1] + Hweight(bits[w - 1]) IN
  hw[LastWord] + Hweight(bits[LastWord] \cap WordLowMask(nr - 1))

Test(bit_no) == bits[WordNo(bit_no)] \cap WordBitMask(bit_no) # {}

(* _stroll_fbmap_test_range(): the first and the last words are masked,    *)
(* and so on both sides if they are the same; those between are not.       *)
TestRange(start_bit, bit_count) ==
  LET stop_bit == start_bit + bit_count - 1
      curr == WordNo(start_bit)
      last == WordNo(stop_bit)
      first == bits[curr] \cap WordHighMask(start_bit)
  IN  IF curr = last
      THEN first \cap WordLowMask(stop_bit) # {}
      ELSE \/ first # {}
           \/ \E w \in curr + 1 .. last - 1 : bits[w] # {}
           \/ bits[last] \cap WordLowMask(stop_bit) # {}

TestAll ==
  \/ \E w \in 0 .. LastWord - 1 : bits[w] # {}
  \/ bits[LastWord] \cap WordLowMask(nr - 1) # {}

Ask(do, on, value) == Asking(do, on, value) /\ UNCHANGED <<nr, bits>>

Ranges == {r \in (0 .. nr - 1) \X (1 .. nr) : r[1] + r[2] <= nr}
Bits(r) == r[1] .. r[1] + r[2] - 1

Questions ==
  \/ Ask("hweight", 0 .. nr - 1, Weight)
  \/ \E bit_no \in 0 .. nr - 1 : Ask("test", {bit_no}, Test(bit_no))
  \/ \E r \in Ranges : Ask("test", Bits(r), TestRange(r[1], r[2]))
  \/ Ask("test", 0 .. nr - 1, TestAll)

-----------------------------------------------------------------------------

(* What a loop keeps.  A range ends within the bitmap. *)
Iterators ==
  [of : {"set", "clear"}, word : Words, curr : Nat, nr : Nat, ended : BOOLEAN]

(* What a loop looks for in a word, the first bit of that, and the word    *)
(* without it.                                                             *)
Left(of, word) == IF of = "set" THEN word ELSE Complement(word)
First(of, word) == IF of = "set" THEN Ffs(word) ELSE Ffc(word)
Taken(of, word, bit) == IF of = "set" THEN word \ {bit} ELSE word \cup {bit}

(* The iterator once it has got to a word with something left, if there is *)
(* one: words that come after the one that it holds are as they are now.   *)
Skipped(it) ==
  LET next == {w \in it.curr + 1 .. WordNr(it.nr) - 1 : Left(it.of, bits[w]) # {}} IN
  IF Left(it.of, it.word) # {} \/ next = {}
  THEN it
  ELSE [it EXCEPT !.curr = Min(next), !.word = bits[Min(next)]]

(* stroll_fbmap_step_iter_set() and stroll_fbmap_step_iter_clear(). *)
StepIter(it) ==
  LET next == Skipped(it)
      bit == First(it.of, next.word) - 1
      bit_no == bit + next.curr * W
  IN  IF bit >= 0 /\ bit_no < it.nr
      THEN /\ iter' = [next EXCEPT !.word = Taken(it.of, next.word, bit)]
           /\ Given(bit_no)
      ELSE iter' = [next EXCEPT !.ended = TRUE] /\ UNCHANGED seen

(* The iterator starts from a copy of the first word, with what precedes   *)
(* the range made not to be looked for, or without that for clear bits.    *)
FirstWordMasked(of, start_bit) == bits[WordNo(start_bit)] \cap WordHighMask(start_bit)

FirstWord(of, start_bit) ==
  LET word == bits[WordNo(start_bit)] IN
  IF of = "set"
  THEN word \cap WordHighMask(start_bit)
  ELSE word \cup Complement(WordHighMask(start_bit))

(* stroll_fbmap_foreach_range_set(), stroll_fbmap_foreach_range_clear(),   *)
(* and those of the whole bitmap.                                          *)
ForeachRange(of, start_bit, bit_count) ==
  LET range == start_bit .. start_bit + bit_count - 1 IN
  /\ Up /\ Begin(IF of = "set" THEN Map \cap range ELSE range \ Map)
  /\ StepIter([of |-> of, word |-> FirstWord(of, start_bit), curr |-> WordNo(start_bit),
               nr |-> start_bit + bit_count, ended |-> FALSE])
  /\ UNCHANGED <<nr, bits>>

Step ==
  /\ iter # None /\ ~ iter.ended
  /\ StepIter(iter)
  /\ UNCHANGED <<nr, bits, call, answer, wanted, changed>>

-----------------------------------------------------------------------------

Next ==
  \/ \E n \in Sizes : InitClear(n) \/ InitSet(n)
  \/ InitFails \/ Dup \/ Fini
  \/ /\ Up
     /\ \/ \E bit_no \in 0 .. nr - 1 : Set(bit_no) \/ Clear(bit_no) \/ Toggle(bit_no)
        \/ SetAll \/ ClearAll \/ ToggleAll
        \/ Questions
  \/ \E of \in {"set", "clear"}, r \in Ranges : ForeachRange(of, r[1], r[2])
  \/ Step
  \/ Forget /\ UNCHANGED <<nr, bits>>

=============================================================================
