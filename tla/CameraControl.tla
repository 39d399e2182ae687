---------------------------- MODULE CameraControl ----------------------------
(***************************************************************************)
(* What the live monitor promises about the cameras of its source devices  *)
(* ("Camera and microphone stay off until an administrator starts          *)
(* capture", docs/OPERATIONS.md).  The dashboard orders at most one device *)
(* to transmit.  A device learns of the order while it stands, and each    *)
(* time it does it may turn its camera on once, even if the order was      *)
(* withdrawn in the meantime; without such a grant a camera only goes off. *)
(***************************************************************************)
CONSTANT Device

VARIABLES
    order,     \* the devices ordered to transmit
    grant,     \* the devices that learned of the order and have not acted
    camera     \* the devices whose camera is on

Init == order = {} /\ grant = {} /\ camera = {}

\* The dashboard, a timeout or another device changes the order.
Order ==
    /\ order' \in SUBSET Device
    /\ \A d, e \in order' : d = e
    /\ UNCHANGED <<grant, camera>>

Grant(d) ==
    /\ d \in order
    /\ grant' = grant \cup {d}
    /\ UNCHANGED <<order, camera>>

\* The device acts on the grant: it turns its camera on, or leaves it.
TurnOn(d) ==
    /\ d \in grant
    /\ grant' = grant \ {d}
    /\ camera' = camera \cup {d}
    /\ UNCHANGED order

\* The grant is lost or the camera goes off, or both; a device that forgets its
\* source forgets the order too.
Release(d) ==
    /\ grant' \in {grant, grant \ {d}}
    /\ camera' \in {camera, camera \ {d}}
    /\ order' \in {order, order \ {d}}

Next == Order \/ \E d \in Device : Grant(d) \/ TurnOn(d) \/ Release(d)

vars == <<order, grant, camera>>

Spec == Init /\ [][Next]_vars

=============================================================================
