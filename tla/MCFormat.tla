---- MODULE MCFormat ----
(***************************************************************************)
(* Format on a volume of four clusters of one sector, four FAT entries to  *)
(* a sector, so that the FAT has two.                                      *)
(***************************************************************************)
EXTENDS Format

MCPaths  == {<<"A">>}
MCStored == [n \in {"A", ""} |-> n]
MCLength == [d \in Datas |-> 1]
====
