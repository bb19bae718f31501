----------------------------- MODULE MCBootRoot -----------------------------
(* Instances of BootRoot for TLC: the roots are model values and the core    *)
(* services are one representative loop, since all loops are alike.          *)
EXTENDS BootRoot

=============================================================================
