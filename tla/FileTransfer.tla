---------------------------- MODULE FileTransfer ----------------------------
(***************************************************************************)
(* What BigFile promises: the segments of a file are put in place one      *)
(* after the other and stay there, the sender goes on to the next when the *)
(* last one is in place, and neither side ends before all of them are.     *)
(* Whether a side has ended may be unknown at first: the flags are not     *)
(* initialised by the constructors.                                        *)
(***************************************************************************)
EXTENDS Integers

VARIABLES
  count,         \* number of segments of the file
  inPlace,       \* segments the receiver's memory holds
  confirmed,     \* number of segments the sender knows to be in place
  senderEnded, receiverEnded

vars == <<count, inPlace, confirmed, senderEnded, receiverEnded>>

All == 0 .. count - 1

Init ==
  /\ count \in Nat
  /\ inPlace = {}
  /\ confirmed = 0
  /\ senderEnded \in BOOLEAN
  /\ receiverEnded \in BOOLEAN

(* The receiver may end in a step that leaves nothing to be put in place. *)
ReceiverMayEnd == receiverEnded' = receiverEnded \/ (inPlace' = All /\ receiverEnded' = TRUE)

Fill ==
  /\ confirmed \in All
  /\ inPlace' = inPlace \union {confirmed}
  /\ ReceiverMayEnd
  /\ UNCHANGED <<count, confirmed, senderEnded>>

(* The sender ends when it has nothing left to confirm. *)
Confirm ==
  /\ confirmed \in inPlace
  /\ confirmed' = confirmed + 1
  /\ senderEnded' = (senderEnded \/ confirmed' = count)
  /\ UNCHANGED <<count, inPlace, receiverEnded>>

(* A file without segments. *)
EndEmpty ==
  /\ count = 0
  /\ senderEnded' = TRUE
  /\ UNCHANGED <<count, inPlace, confirmed, receiverEnded>>

Next == Fill \/ Confirm \/ EndEmpty

Spec == Init /\ [][Next]_vars
=============================================================================
