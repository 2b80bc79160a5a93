---------------------------- MODULE MCWordFilter ----------------------------
(* A small instance of WordFilter for TLC: two letters, one character of   *)
(* each other class, and lists without a word, without a letter, and with  *)
(* words that share letters, double one, or are spelt with a mark or leet. *)
EXTENDS WordFilter

TwoLetters  == {"s", "i"}
CapitalS    == [c \in {"S"} |-> "s"]
OneIsI      == [c \in {"1"} |-> "i"]
Dot         == {"."}
FewLists    == { {},
                 {<<"1", ".">>},
                 {<<"s", "1", "s">>, <<"i", "s", "i">>, <<"S", ".", "i">>} }
=============================================================================
