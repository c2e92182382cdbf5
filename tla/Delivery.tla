------------------------------ MODULE Delivery ------------------------------
(***************************************************************************)
(* What NetworkInterface promises the code above it, without trackers,     *)
(* timers or datagrams: a message is offered once it has been given to     *)
(* PreProcessAndSend, it is handed once PreProcessReceive has returned     *)
(* true for it at its receiver, and it is confirmed once an                *)
(* acknowledgement has removed its tracker at the sender.  Nothing is      *)
(* handed that was not offered, and nothing is confirmed that was not      *)
(* handed: a sender that stops resending never does so in vain.            *)
(***************************************************************************)
CONSTANT Messages

VARIABLES offered, handed, confirmed

vars == <<offered, handed, confirmed>>

Init ==
  /\ offered = {}
  /\ handed = {}
  /\ confirmed = {}

Offer(m) ==
  /\ offered' = offered \union {m}
  /\ UNCHANGED <<handed, confirmed>>

HandOver(m) ==
  /\ m \in offered
  /\ handed' = handed \union {m}
  /\ UNCHANGED <<offered, confirmed>>

Confirm(m) ==
  /\ m \in handed
  /\ confirmed' = confirmed \union {m}
  /\ UNCHANGED <<offered, handed>>

Next == \E m \in Messages : Offer(m) \/ HandOver(m) \/ Confirm(m)

Spec == Init /\ [][Next]_vars
=============================================================================
