-------------------------- MODULE MCRedirectServer --------------------------
(* Instances of RedirectServer small enough for TLC.                       *)
EXTENDS RedirectServer

(* What the members that a new Connection's constructor leaves alone may   *)
(* hold: nothing, or what a game server's Connection left there.           *)
Blank == [myIsServer |-> FALSE, myServerAddress |-> Wild, myPotentialRedirectCount |-> 0]
Recycled == [myIsServer |-> TRUE, myServerAddress |-> 1, myPotentialRedirectCount |-> 1]

BlankMemory == {Blank}
AnyMemory == {Blank, Recycled}
=============================================================================
