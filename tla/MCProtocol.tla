----------------------------- MODULE MCProtocol -----------------------------
(***************************************************************************)
(* Two names over one letter, one the beginning of the other; longer ones  *)
(* are unknown. Behind a buffer lies a byte that is a digit or one that is *)
(* not.                                                                    *)
(***************************************************************************)
EXTENDS Protocol

MCNames == [w \in {<<"P">>, <<"P", "P">>} |-> IF w = <<"P">> THEN "PUT_T" ELSE "GET_T"]

MCBehind == {<<>>, <<"1">>}
=============================================================================
