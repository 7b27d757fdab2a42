------------------------------ MODULE MCWords -------------------------------
(***************************************************************************)
(* What computes with the bits of words and with offsets: both kinds of    *)
(* bitmaps, messages, and powers of two.  A behaviour is about one.        *)
(***************************************************************************)
EXTENDS Message

CONSTANTS
  BmapW, FbmapW, Pow2W,   (* Widths of the words of each. *)
  Bound, MaxChanges,      (* See BitClient. *)
  None,
  Sizes,      (* Numbers of bits in fbmap. *)
  Most        (* As many as in any bitmap. *)

VARIABLES
  kind,       \* "bmap", "fbmap", "message" or "pow2"
  bmap,       \* see Bmap
  nr, bits,   \* see Fbmap
  call, answer, iter, wanted, changed, seen,   \* see BitClient
  value       \* what is given to the helpers of pow2

B == INSTANCE Bmap WITH W <- BmapW
F == INSTANCE Fbmap WITH W <- FbmapW
P == INSTANCE Pow2 WITH W <- Pow2W

ASSUME WidthsAssumption == B!WidthAssumption /\ F!WidthAssumption /\ P!WidthAssumption
ASSUME NoneAssumption ==
  /\ None \notin B!Iterators \cup F!Iterators
  /\ \A n \in Sizes : None \notin [F!Array(n) -> F!Words]
ASSUME SizesAssumption == Sizes \subseteq Nat \ {0}
ASSUME MostAssumption == Most \in Nat /\ \A n \in Sizes \cup {BmapW} : n <= Most

OffBits == call = None /\ answer = None /\ B!NoLoop
OffBmap == bmap = None
OffFbmap == nr = 0 /\ bits = None
OffMessage ==
  buff = Window(0, 0) /\ mem = None /\ reply = [call |-> "setup", len |-> 0, bytes |-> <<>>]
OffPow2 == value = None

MCInit ==
  \/ kind = "bmap" /\ B!Init /\ OffFbmap /\ OffMessage /\ OffPow2
  \/ kind = "fbmap" /\ F!Init /\ OffBmap /\ OffMessage /\ OffPow2
  \/ kind = "message" /\ Init /\ OffBits /\ OffBmap /\ OffFbmap /\ OffPow2
  \/ kind = "pow2" /\ value = 1 /\ OffBits /\ OffBmap /\ OffFbmap /\ OffMessage

(* Every value of a word, in turn. *)
NextValue == value < P!Two[Pow2W] - 1 /\ value' = value + 1

bitVars == <<call, answer, iter, wanted, changed, seen>>
fbmapVars == <<nr, bits>>

MCNext ==
  /\ \/ kind = "bmap" /\ B!Next /\ UNCHANGED <<fbmapVars, vars, value>>
     \/ kind = "fbmap" /\ F!Next /\ UNCHANGED <<bmap, vars, value>>
     \/ kind = "message" /\ Next /\ UNCHANGED <<bitVars, bmap, fbmapVars, value>>
     \/ kind = "pow2" /\ NextValue /\ UNCHANGED <<bitVars, bmap, fbmapVars, vars>>
  /\ UNCHANGED kind

MCSpec == MCInit /\ [][MCNext]_<<kind, bitVars, bmap, fbmapVars, vars, value>>

-----------------------------------------------------------------------------

(* The set of bits that a bitmap stands for. *)
Set == INSTANCE BitSet WITH
  bits <- CASE kind = "bmap" -> bmap [] kind = "fbmap" -> F!Map [] OTHER -> {}

(* Either bitmap is a set of bits: each call changes those that it is      *)
(* asked to and no other, and answers about them only, although masks are  *)
(* shifted to the width of a word, ranges start and end within words, and  *)
(* the last word of an fbmap has bits that are not the bitmap's.           *)
BitSetSpec == Set!Spec

(* A loop over the bits of a range that are set, or clear, gets each of    *)
(* them, once and in order, and no other but for those changed while it    *)
(* runs, that it may get or not: the word that it is in is a copy, the     *)
(* next ones are not.  The loops of bmap do not, see LoopsExact, when the  *)
(* most significant bit is the only one they are after.                    *)
LoopsComplete ==
  CASE kind = "bmap" -> wanted # {BmapW - 1} => B!LoopComplete
    [] kind = "fbmap" -> F!LoopComplete
    [] OTHER -> TRUE

(* A loop over a bmap gets the bits set into it                            *)
(* (src/include/stroll/bmap.h:2612).                                       *)
LoopsExact == kind = "bmap" => B!LoopComplete

(* stroll_pow2_up32() returns the least exponent whose power of two is not *)
(* below the value, up to the last value of a word, although its sum is    *)
(* computed modulo the width of the word: an falloc block always fits in   *)
(* its alignment.                                                          *)
Pow2UpIsLeast ==
  kind = "pow2" =>
    LET n == P!Pow2Up(value) IN
    /\ value <= P!Two[n]
    /\ \A m \in 0 .. n - 1 : P!Two[m] < value

(* stroll_align_upper() returns the least multiple that is not below the   *)
(* value as long as there is one in a word, and 0 otherwise, which is how  *)
(* a chunk size close to SIZE_MAX is silently made a null one.             *)
AlignUpperIsLeastOrNull ==
  kind = "pow2" =>
    \A n \in 0 .. Pow2W - 1 :
      LET align == P!Two[n]
          up == P!AlignUpper(value, align)
      IN  /\ up % align = 0
          /\ IF value <= P!Two[Pow2W] - align
             THEN value <= up /\ up - value < align
             ELSE up = 0

=============================================================================
