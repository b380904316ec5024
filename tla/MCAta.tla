---- MODULE MCAta ----
(***************************************************************************)
(* Ata with two addresses per register and two heads: addresses 0 and 3    *)
(* differ in both parts, and 4 is past the last address the drive can tell *)
(* apart.                                                                  *)
(***************************************************************************)
EXTENDS Ata

MCLbas == {0, 3, 4}
MCOld  == [s \in 0..3 |-> <<"s0", "s1", "s2", "s3">>[s + 1]]
====
