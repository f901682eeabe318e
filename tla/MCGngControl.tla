---------------------------- MODULE MCGngControl ----------------------------
(* Instances of GngControl for TLC: values a cfg cannot write down. *)
EXTENDS GngControl

NoLimit == -1

NoLimits == {NoLimit}       \* online

Limits == {NoLimit, 3}      \* online, and offline with three iterations
=============================================================================
