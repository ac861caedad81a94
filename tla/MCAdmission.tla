---------------------------- MODULE MCAdmission ----------------------------
(* Two intents, one of which may be sent with another content, while the    *)
(* configuration, maintenance and the process change.                       *)
EXTENDS Admission, TLC

CONSTANTS k1, k2, d1, d2
MCSymmetry == Permutations({k1, k2}) \union Permutations({d1, d2})
=============================================================================
