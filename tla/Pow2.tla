-------------------------------- MODULE Pow2 --------------------------------
(***************************************************************************)
(* Power of two and alignment helpers of src/src/pow2.c,                   *)
(* src/include/stroll/pow2.h and src/include/stroll/cdefs.h, on words of   *)
(* W bits.                                                                 *)
(***************************************************************************)
EXTENDS Integers

CONSTANT W   (* Width of a word. *)

WidthAssumption == W \in Nat \ {0}

(* The powers of two, as the code has them: 1 shifted left. *)
Two[n \in Nat] == IF n = 0 THEN 1 ELSE 2 * Two[n - 1]

(* stroll_bops_fls32(): 1 + index of the most significant bit set.  It is  *)
(* undefined on 0.                                                         *)
Fls(value) == CHOOSE n \in 1 .. W : Two[n - 1] <= value /\ value < Two[n]

(* stroll_pow2_low32(): rounded down base 2 logarithm. *)
Pow2Low(value) == Fls(value) - 1

(* Rounding up powers of two as well. *)
Pow2UpBumped(value) ==
  IF value >= Two[W - 1] THEN W ELSE Pow2Low((value + Two[Pow2Low(value)]) % Two[W])

(* stroll_pow2_up32(): rounded up base 2 logarithm.  The sum is computed   *)
(* modulo the width of the word.                                           *)
Pow2Up(value) ==
  IF value > Two[W - 1]
  THEN W
  ELSE Pow2Low((value + Two[Pow2Low(value)] - 1) % Two[W])

(* stroll_align_lower() and stroll_align_upper() on a power of two. *)
AlignLower(value, align) == value - (value % align)

(* Without subtracting one. *)
AlignUpperBumped(value, align) == AlignLower((value + align) % Two[W], align)

AlignUpper(value, align) == AlignLower((value + align - 1) % Two[W], align)

=============================================================================
