----------------------------- MODULE MCToolchain -----------------------------
(* Values for the constants of Toolchain that a .cfg cannot write.         *)
EXTENDS Toolchain

Geo(s, h) == [spt |-> s, heads |-> h, from |-> 0]
MCDefault == Geo(5, 2)
MCGeos == {Geo(5, 3), Geo(6, 2)}

MCLabels == {<<"a", 0>>}
MCImms == {-1, 200}
MCDisps == {0, -3, 300}
=============================================================================
