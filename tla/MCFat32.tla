---- MODULE MCFat32 ----
(***************************************************************************)
(* Fat32 on two small volumes.  In MCFat32Dirs a cluster is one sector of  *)
(* two slots: the third entry makes a directory grow and the volume fills  *)
(* up.  In MCFat32Files a cluster has two sectors of one slot, and a long  *)
(* content takes two clusters.  "a" is stored as "A": a lookup of "A"      *)
(* finds it and a lookup of "a" does not.                                  *)
(***************************************************************************)
EXTENDS Fat32

DirPaths  == {<<"A">>, <<"A", "A">>}
FilePaths == {<< >>, <<"A">>, <<"a">>, <<"A", "A">>}
MCNewDirs == {<<"A">>}
MCStored  == [n \in {"A", "a", ""} |-> IF n = "a" THEN "A" ELSE n]
MCLength  == [d \in Datas |-> IF d = "short" THEN 1 ELSE 3]
====
