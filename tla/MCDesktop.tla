------------------------------ MODULE MCDesktop ------------------------------
(* Instances of Desktop for TLC: two services. *)
EXTENDS Desktop

CONSTANTS s1, s2

=============================================================================
