-------------------------------- MODULE Lvstr -------------------------------
(***************************************************************************)
(* The length-value strings of src/src/lvstr.c: a pointer to a string, its *)
(* length, and in the low bit of the latter whether the lvstr owns the     *)
(* string, that is whether it frees it.                                    *)
(*                                                                         *)
(* A string is its address and its length.  The client lends strings that  *)
(* the lvstr does not own itself, cedes strings of its own, duplicates any *)
(* string, and may free one that it has lent.  Calls that fail, with E2BIG *)
(* or ENOMEM, change nothing.                                              *)
(***************************************************************************)
EXTENDS Integers, Functions

CONSTANTS
  Lvs,       (* The lvstr structures of the client.                        *)
  Places,    (* Where malloc() may put a string.                           *)
  Lengths,   (* Lengths of the strings that the client makes.              *)
  SizeMax,   (* SIZE_MAX.                                                  *)
  Null       (* The null pointer.                                          *)

(* Those of the module that instantiates this one. *)
LengthsAssumption == Lengths \subseteq Nat
SizeMaxAssumption == SizeMax \in Nat \ {0}
NullAssumption == Null \notin Places

VARIABLES
  lvs,       \* len and rostr of each lvstr
  ready,     \* those that are initialised
  strings,   \* length of each string on the heap
  mine,      \* the strings that the client has to free
  told       \* the string, length and owner that each was given last

vars == <<lvs, ready, strings, mine, told>>

-----------------------------------------------------------------------------

PtrdiffMax == SizeMax \div 2

(* STROLL_LVSTR_LEN_MAX. *)
LenMax == PtrdiffMax - 1

LEASER == 0
OWNER == 1

(* stroll_lvstr_owns(). *)
Owns(l) == lvs[l].str # Null /\ lvs[l].len % 2 = OWNER

(* stroll_lvstr_cstr() and stroll_lvstr_len(). *)
Cstr(l) == lvs[l].str
Length(l) == lvs[l].len \div 2

(* What a client that registered none has. *)
Nothing == <<Null, 0, LEASER>>

(* The heap with a string of length n at p more, and without that at p. *)
With(heap, p, n) == [q \in DOMAIN heap \cup {p} |-> IF q = p THEN n ELSE heap[q]]
Without(heap, p) == Restrict(heap, DOMAIN heap \ {p})

(* The heap after stroll_lvstr_release(). *)
Released(l) == IF Owns(l) THEN Without(strings, Cstr(l)) ELSE strings

(* A string p of length n is registered. *)
Register(l, p, n, owner) ==
  /\ lvs' = [lvs EXCEPT ![l] = [len |-> (2 * n + owner) % (SizeMax + 1), str |-> p]]
  /\ told' = [told EXCEPT ![l] = <<p, n, owner>>]
  /\ ready' = ready \cup {l}

(* What stays on the heap once l gets another string.  The init_ functions *)
(* release nothing, whatever the structure happens to hold.                *)
Remaining(l) == IF l \in ready THEN Released(l) ELSE strings

-----------------------------------------------------------------------------

(* Structures are not initialised: they may hold anything. *)
Init ==
  /\ lvs \in [Lvs -> [len : {0, 1}, str : Places \cup {Null}]]
  /\ ready = {}
  /\ strings = << >>
  /\ mine = {}
  /\ told = [l \in Lvs |-> Nothing]

(* The client makes a string, or frees one, be it lent. *)
ClientMakes(p, n) ==
  /\ p \notin DOMAIN strings
  /\ strings' = With(strings, p, n)
  /\ mine' = mine \cup {p}
  /\ UNCHANGED <<lvs, ready, told>>

ClientFrees(p) ==
  /\ p \in mine
  /\ strings' = Without(strings, p)
  /\ mine' = mine \ {p}
  /\ UNCHANGED <<lvs, ready, told>>

(* stroll_lvstr_init(): the length is left as it is. *)
InitEmpty(l) ==
  /\ l \notin ready
  /\ lvs' = [lvs EXCEPT ![l].str = Null]
  /\ ready' = ready \cup {l}
  /\ UNCHANGED <<strings, mine, told>>

(* stroll_lvstr_lend() and stroll_lvstr_init_lend(), and those given the   *)
(* length, which must not be greater than LenMax.                          *)
Lend(l, p) ==
  /\ l \in ready /\ Owns(l) => p # Cstr(l)
  /\ strings[p] <= LenMax
  /\ strings' = Remaining(l)
  /\ Register(l, p, strings[p], LEASER)
  /\ UNCHANGED mine

(* stroll_lvstr_cede() and stroll_lvstr_init_cede(), and those given the   *)
(* length.                                                                 *)
Cede(l, p) ==
  /\ p \in mine
  /\ strings[p] <= LenMax
  /\ strings' = Remaining(l)
  /\ Register(l, p, strings[p], OWNER)
  /\ mine' = mine \ {p}

(* stroll_lvstr_dup() and stroll_lvstr_init_dup() of the whole of p, and   *)
(* those given a length n of it: the copy is made before what l owned,     *)
(* which p may be, is released.                                            *)
Dup(l, p, n) ==
  /\ n <= strings[p] /\ n <= LenMax
  /\ \E q \in Places \ DOMAIN strings :
       /\ strings' = With(Remaining(l), q, n)
       /\ Register(l, q, n, OWNER)
  /\ UNCHANGED mine

(* stroll_lvstr_drop(). *)
StillThere(l) == lvs

Emptied(l) == [lvs EXCEPT ![l].str = Null]

Drop(l) ==
  /\ l \in ready
  /\ strings' = Released(l)
  /\ lvs' = Emptied(l)
  /\ told' = [told EXCEPT ![l] = Nothing]
  /\ UNCHANGED <<ready, mine>>

(* stroll_lvstr_fini(): the structure is left as it is. *)
Fini(l) ==
  /\ l \in ready
  /\ strings' = Released(l)
  /\ ready' = ready \ {l}
  /\ told' = [told EXCEPT ![l] = Nothing]
  /\ UNCHANGED <<lvs, mine>>

Next ==
  \/ \E p \in Places :
       \/ ClientFrees(p)
       \/ \E n \in Lengths : ClientMakes(p, n)
  \/ \E l \in Lvs :
       \/ InitEmpty(l) \/ Drop(l) \/ Fini(l)
       \/ \E p \in DOMAIN strings :
            \/ Lend(l, p) \/ Cede(l, p)
            \/ \E n \in 0 .. strings[p] : Dup(l, p, n)

Spec == Init /\ [][Next]_vars

-----------------------------------------------------------------------------

(* Every variable keeps the type of what it models. *)
TypeOK ==
  /\ lvs \in [Lvs -> [len : 0 .. SizeMax, str : Places \cup {Null}]]
  /\ ready \subseteq Lvs
  /\ mine \subseteq Places
  /\ DOMAIN strings \subseteq Places
  /\ strings \in [DOMAIN strings -> Nat]
  /\ DOMAIN told = Lvs

Owners == {l \in ready : Owns(l)}

(* A string on the heap has one owner, the client or one lvstr: it will be *)
(* freed, and once, whoever was lent it and wherever malloc() puts the     *)
(* next ones.  An lvstr has the string that was registered last, and its   *)
(* length; one that owns its string has it still.                          *)
StringsOwned ==
  /\ DOMAIN strings = mine \cup {Cstr(l) : l \in Owners}
  /\ \A l \in Owners : Cstr(l) \notin mine /\ \A k \in Owners : Cstr(k) = Cstr(l) => k = l
  /\ \A l \in ready :
       /\ told[l] = IF Cstr(l) = Null THEN Nothing
                    ELSE <<Cstr(l), Length(l), IF Owns(l) THEN OWNER ELSE LEASER>>
       /\ Owns(l) => strings[Cstr(l)] = Length(l)

=============================================================================
