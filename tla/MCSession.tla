------------------------------- MODULE MCSession -------------------------------
(* Small values of the constants of Session. *)
EXTENDS Session

\* One quirk twice, and a string that is refused after its first letter.
MCQuirkStrings == {<<"s", "s">>, <<"v", "x">>}
================================================================================
