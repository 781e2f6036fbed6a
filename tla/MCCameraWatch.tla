---------------------------- MODULE MCCameraWatch ----------------------------
(* Instances of CameraWatch for TLC. *)
EXTENDS CameraWatch

CONSTANTS e1, e2, closet, door

AllInCloset == [e \in Events |-> closet]
NoClip == {<<e2, "clip">>}
=============================================================================
