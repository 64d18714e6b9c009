------------------------------- MODULE MCLink -------------------------------
(* Instances of SerialLink: two slots and four numbers, so that numbers wrap *)
(* while older packets and answers are still on the wire.                    *)
EXTENDS SerialLink

=============================================================================
