---- MODULE MCConsole ----
(***************************************************************************)
(* Console with one letter key and the space bar on a screen of 3 x 3      *)
(* cells.  A line of up to five characters fills two rows behind its       *)
(* prompt, makes the screen scroll and has three words for two arguments.  *)
(* A line of the SQL shell has up to three characters, and an answer to    *)
(* format two.  Of the SQL lines "a" is the keyword whose parser starts    *)
(* one place behind its zero.  The two shift keys do the same, so they are *)
(* symmetric.                                                              *)
(***************************************************************************)
EXTENDS Console, TLC

MCLetters == [c \in {"a"} |-> "A"]
MCOthers  == [c \in {" "} |-> " "]
MCOutputs == {<<"o", "\n">>}
MCPrompt  == [r \in Readers |-> IF r = "format" THEN <<"?">> ELSE <<"$">>]
MCExits   == {<<"A">>}
MCYes     == <<"A", "A">>
MCSkip    == [t \in {<<"a">>} |-> 2]
KeySymmetry == Permutations(ShiftKeys)
====
