------------------------------- MODULE BitSet -------------------------------
(***************************************************************************)
(* What a bitmap promises: a set of bits, that calls change or are asked   *)
(* about.  A call is about some bits: one, a range, a mask or all of them. *)
(***************************************************************************)
EXTENDS Integers, FiniteSets

CONSTANTS
  Most,   (* Most bits in a bitmap.                *)
  None    (* The answer to a call that has none.   *)

VARIABLES
  bits,     \* the bits that are set
  call,     \* the last call: what it does, and the bits that it is about
  answer    \* what it answered

vars == <<bits, call, answer>>

Bits == 0 .. Most - 1

Result(do, on) ==
  CASE do = "set" -> bits \cup on
    [] do = "clear" -> bits \ on
    [] do = "toggle" -> (bits \ on) \cup (on \ bits)

Answer(do, on) ==
  CASE do = "and" -> bits \cap on
    [] do = "or" -> bits \cup on
    [] do = "xor" -> (bits \ on) \cup (on \ bits)
    [] do = "test" -> bits \cap on # {}
    [] do = "hweight" -> Cardinality(bits \cap on)

Init == bits \subseteq Bits /\ call = None /\ answer = None

Change ==
  /\ call' \in [do : {"set", "clear", "toggle"}, on : SUBSET Bits]
  /\ bits' = Result(call'.do, call'.on)
  /\ answer' = None

Ask ==
  /\ call' \in [do : {"and", "or", "xor", "test", "hweight"}, on : SUBSET Bits]
  /\ answer' = Answer(call'.do, call'.on)
  /\ UNCHANGED bits

Next == Change \/ Ask

Spec == Init /\ [][Next]_vars

=============================================================================
