---- MODULE MCUsers ----
(***************************************************************************)
(* Users on a table of three slots with four names: the table fills up,    *)
(* slots are shifted and the stale ones are reused.                        *)
(***************************************************************************)
EXTENDS Users
====
