---- MODULE MCMemFs ----
(***************************************************************************)
(* MemFs on a heap of a few hundred bytes: two names, a short and a long   *)
(* content, nodes of 48 bytes instead of 276.  The heap itself bounds the  *)
(* number of nodes and blocks, and running out of it is part of the model. *)
(***************************************************************************)
EXTENDS MemFs

MCSize == [d \in Datas |-> IF d = "short" THEN 5 ELSE 20]
====
