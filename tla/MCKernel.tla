---- MODULE MCKernel ----
(***************************************************************************)
(* Kernel with one file name, on a heap of three nodes.                    *)
(***************************************************************************)
EXTENDS Kernel

MCSize == [d \in Datas |-> 1]
====
