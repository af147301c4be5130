---------------------------- MODULE OrderedDisplay ----------------------------
(***************************************************************************)
(* What the delivery of NPC publications promises the player: the answers  *)
(* appear on the display in the order of their slots, each of them at most *)
(* once, and the next one appears only after the one before it has been    *)
(* acknowledged.  NpcDelivery implements it.                               *)
(***************************************************************************)
EXTENDS Naturals, Sequences

VARIABLES
    display,      \* the slots of the answers on display, as they appeared
    acknowledged  \* how many of them have been acknowledged

Init == display = <<>> /\ acknowledged = 0

Show ==
    /\ acknowledged = Len(display)
    /\ display' = Append(display, Len(display) + 1)
    /\ UNCHANGED acknowledged

Acknowledge ==
    /\ acknowledged < Len(display)
    /\ acknowledged' = acknowledged + 1
    /\ UNCHANGED display

Next == Show \/ Acknowledge

Spec == Init /\ [][Next]_<<display, acknowledged>>
=============================================================================
