------------------------------ MODULE BitClient -----------------------------
(***************************************************************************)
(* What both kinds of bitmaps share: words of W bits, which are the sets   *)
(* of the bits that are set in them, with the bit operations of            *)
(* src/include/stroll/bops.h; the calls that a client makes; and its       *)
(* iterations over bits, that it may interleave with calls.                *)
(***************************************************************************)
EXTENDS Integers, SequencesExt

CONSTANT W   (* Width of a word. *)

WidthAssumption == W \in Nat \ {0}

Full == 0 .. W - 1

Words == SUBSET Full

Shl(word, n) == {b + n : b \in word} \cap Full
Shr(word, n) == {b - n : b \in {c \in word : c >= n}}

(* What shifting the bits of a word right by n gives.  That is undefined   *)
(* from the width of the word on: processors that take the shift modulo W  *)
(* leave the word as it was, and a compiler may reckon that nothing is     *)
(* left.                                                                   *)
Shifted(word, n) == IF n < W THEN {Shr(word, n)} ELSE {word, {}}

Complement(word) == Full \ word

(* stroll_bops_ffs(), stroll_bops_ffc() and stroll_bops_hweight(): bits    *)
(* are numbered from 1, and 0 tells that there is none.                    *)
Ffs(word) == IF word = {} THEN 0 ELSE Min(word) + 1
Ffc(word) == Ffs(Complement(word))
Hweight(word) == Cardinality(word)

-----------------------------------------------------------------------------

CONSTANTS
  Bound,      (* The iterations of a loop are bounded.         *)
  MaxChanges, (* And so are the calls that change bits during. *)
  None        (* No answer, no iteration.                      *)

VARIABLES
  call,      \* the last call: what it does, and the bits that it is about
  answer,    \* what it answered
  iter,      \* the iterator of the loop in progress, or None
  wanted,    \* the bits that it is after, as of when it started
  changed,   \* the bits that were changed since
  seen       \* the bits that the loop was given, in turn

loop == <<iter, wanted, changed, seen>>

NoLoop == iter = None /\ wanted = {} /\ changed = {} /\ seen = <<>>

Called(do, on) == call' = [do |-> do, on |-> on]

(* A call that changes some bits.  *)
Changing(do, on) ==
  /\ Called(do, on) /\ answer' = None
  /\ IF iter = None
     THEN UNCHANGED loop
     ELSE /\ changed' = changed \cup on
          /\ Cardinality(changed') <= MaxChanges
          /\ UNCHANGED <<iter, wanted, seen>>

(* A call that looks at some bits. *)
Asking(do, on, value) ==
  /\ iter = None /\ Called(do, on) /\ answer' = value
  /\ UNCHANGED loop

Begin(bits) ==
  /\ iter = None
  /\ wanted' = bits /\ changed' = {}
  /\ UNCHANGED <<call, answer>>

(* The loop gets its next bit. *)
Given(bit) ==
  /\ Len(seen) < Bound
  /\ seen' = Append(seen, bit)

(* Once it has ended, the client forgets about it. *)
Forget ==
  /\ iter # None /\ iter.ended
  /\ iter' = None /\ wanted' = {} /\ changed' = {} /\ seen' = <<>>
  /\ UNCHANGED <<call, answer>>

(* A loop gets each bit that it is after, once and in order, whatever      *)
(* becomes of bits changed while it runs.                                  *)
LoopComplete ==
  /\ \A i \in 2 .. Len(seen) : seen[i - 1] < seen[i]
  /\ Range(seen) \subseteq wanted \cup changed
  /\ iter # None /\ iter.ended => wanted \ changed \subseteq Range(seen)

=============================================================================
