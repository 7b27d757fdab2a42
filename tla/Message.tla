------------------------------- MODULE Message ------------------------------
(***************************************************************************)
(* src/src/message.c over src/include/stroll/buffer.h: data is a window of *)
(* a memory area, with room at both ends.                                  *)
(***************************************************************************)
EXTENDS Integers, Sequences

CONSTANTS
  Byte,      (* What a byte may be.                       *)
  Capacity,  (* The size of the memory area.              *)
  Lengths    (* Lengths that the client gives, none and   *)
             (* too much included.                        *)

(* STROLL_BUFF_CAPACITY_MIN *)
ASSUME CapacityAssumption == Capacity \in Nat /\ Capacity >= 8
ASSUME LengthsAssumption == Lengths \subseteq Nat

VARIABLES
  buff,    \* where the window starts, and its length
  mem,     \* the memory area
  reply    \* the last call, the length that it was given, and the bytes that
           \* it is about: none if it fails

vars == <<buff, mem, reply>>

(* len bytes of a memory area. *)
Bytes(m, from, len) == [i \in 1 .. len |-> m[from + i - 1]]

(* stroll_buff_avail_head(), stroll_buff_avail_tail(), stroll_buff_busy(), *)
(* stroll_buff_data() and stroll_buff_tail().                              *)
AvailHead(b) == b.head_off
AvailTail(b) == Capacity - (b.head_off + b.busy_len)
Busy(b) == b.busy_len
DataAt(b) == b.head_off
TailAt(b) == b.head_off + b.busy_len

(* The window moved by len bytes, at one of its ends. *)
GrowHead(b, len) == [head_off |-> b.head_off + len, busy_len |-> b.busy_len - len]
ShrinkHead(b, len) == [head_off |-> b.head_off - len, busy_len |-> b.busy_len + len]
GrowTail(b, len) == [b EXCEPT !.busy_len = @ + len]
ShrinkTail(b, len) == [b EXCEPT !.busy_len = @ - len]

(* The data that the message holds. *)
Data == Bytes(mem, DataAt(buff), Busy(buff))

Replied(call, len, bytes) == reply' = [call |-> call, len |-> len, bytes |-> bytes]

-----------------------------------------------------------------------------

(* stroll_msg_setup(), once the client is done with what the message held; *)
(* what the new window holds is its business.                              *)
Window(off, len) == [head_off |-> off, busy_len |-> len]

Init ==
  /\ buff = Window(0, 0)
  /\ \E byte \in Byte : mem = [i \in 0 .. Capacity - 1 |-> byte]
  /\ reply = [call |-> "setup", len |-> 0, bytes |-> <<>>]

Setup(off, len) ==
  /\ Busy(buff) = 0 /\ off + len <= Capacity
  /\ buff' = Window(off, len)
  /\ Replied("setup", len, <<>>)
  /\ UNCHANGED mem

(* A null pointer is returned. *)
Fails(call, len) ==
  /\ Replied(call, len, <<>>)
  /\ UNCHANGED <<buff, mem>>

(* The client fills len bytes from the address that a push returned. *)
Filled(m, at, len, byte) ==
  [i \in DOMAIN m |-> IF i \in at .. at + len - 1 THEN byte ELSE m[i]]

Fill(call, at, len, byte) ==
  /\ mem' = Filled(mem, at, len, byte)
  /\ Replied(call, len, [i \in 1 .. len |-> byte])

PushHead(len, byte) ==
  IF len # 0 /\ len <= AvailHead(buff)
  THEN /\ buff' = ShrinkHead(buff, len)
       /\ Fill("push_head", DataAt(buff'), len, byte)
  ELSE Fails("push_head", len)

(* Where the bytes that are pushed are, or where they would be with the    *)
(* tail read too late.                                                     *)
LateTail(len) == TailAt(GrowTail(buff, len))

OldTail(len) == TailAt(buff)

PushTail(len, byte) ==
  IF len # 0 /\ len <= AvailTail(buff)
  THEN /\ Fill("push_tail", OldTail(len), len, byte)
       /\ buff' = GrowTail(buff, len)
  ELSE Fails("push_tail", len)

(* The client reads them from the address that a pull returned. *)
PullHead(len) ==
  IF len # 0 /\ len <= Busy(buff)
  THEN /\ buff' = GrowHead(buff, len)
       /\ Replied("pull_head", len, Bytes(mem, DataAt(buff), len))
       /\ UNCHANGED mem
  ELSE Fails("pull_head", len)

(* Where the bytes that are pulled are. *)
NewTail(len) == TailAt(ShrinkTail(buff, len))

PullTail(len) ==
  IF len # 0 /\ len <= Busy(buff)
  THEN /\ buff' = ShrinkTail(buff, len)
       /\ Replied("pull_tail", len, Bytes(mem, NewTail(len), len))
       /\ UNCHANGED mem
  ELSE Fails("pull_tail", len)

Next ==
  \/ \E off, len \in 0 .. Capacity : Setup(off, len)
  \/ \E len \in Lengths, byte \in Byte : PushHead(len, byte) \/ PushTail(len, byte)
  \/ \E len \in Lengths : PullHead(len) \/ PullTail(len)

Spec == Init /\ [][Next]_vars

-----------------------------------------------------------------------------
(* What a message promises, of the string of bytes that it stands for, and *)
(* of the room before and after it.                                        *)
string == <<Data, AvailHead(buff), AvailTail(buff), reply>>

StringOK ==
  /\ Data \in Seq(Byte) /\ {AvailHead(buff), AvailTail(buff)} \subseteq Nat
  /\ AvailHead(buff) + Len(Data) + AvailTail(buff) = Capacity

StringInit == StringOK /\ reply.call = "setup"

StringSetup == reply'.call = "setup" /\ StringOK'

(* A call does what it is asked if and only if there are as many bytes, or *)
(* as much room.  The client writes the bytes that it pushes where the     *)
(* push tells it to, and reads those that it pulls.                        *)
Done(call, most) ==
  /\ reply'.call = call
  /\ Len(reply'.bytes) = IF reply'.len \in 0 .. most THEN reply'.len ELSE 0

HeadPushed ==
  /\ Done("push_head", AvailHead(buff))
  /\ Data' = reply'.bytes \o Data
  /\ AvailHead(buff)' = AvailHead(buff) - Len(reply'.bytes)
  /\ AvailTail(buff)' = AvailTail(buff)

TailPushed ==
  /\ Done("push_tail", AvailTail(buff))
  /\ Data' = Data \o reply'.bytes
  /\ AvailTail(buff)' = AvailTail(buff) - Len(reply'.bytes)
  /\ AvailHead(buff)' = AvailHead(buff)

HeadPulled ==
  /\ Done("pull_head", Len(Data))
  /\ Data = reply'.bytes \o Data'
  /\ AvailHead(buff)' = AvailHead(buff) + Len(reply'.bytes)
  /\ AvailTail(buff)' = AvailTail(buff)

TailPulled ==
  /\ Done("pull_tail", Len(Data))
  /\ Data = Data' \o reply'.bytes
  /\ AvailTail(buff)' = AvailTail(buff) + Len(reply'.bytes)
  /\ AvailHead(buff)' = AvailHead(buff)

StringNext == StringSetup \/ HeadPushed \/ TailPushed \/ HeadPulled \/ TailPulled

(* A message is a string of bytes with room at both ends: what is pushed   *)
(* at one end comes next to what it held, what is pulled was there, none   *)
(* of it moves otherwise, and calls fail only for lack of bytes or room.   *)
StringSpec == StringInit /\ [][StringNext]_string

=============================================================================
