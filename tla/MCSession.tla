----------------------------- MODULE MCSession -----------------------------
(***************************************************************************)
(* A PUT of two bytes, which needs a second buffer; one that announces no  *)
(* data; and a request without a response.                                 *)
(***************************************************************************)
EXTENDS Session

MCNames == [w \in {<<"P">>, <<"G">>} |-> IF w = <<"P">> THEN "PUT_T" ELSE "GET_T"]

MCRequests == {<<"P", "CR", "LF", "CR", "LF", "2", "CR", "LF", "P", "P">>,
               <<"P", "CR", "LF", "CR", "LF", "0", "CR", "LF">>,
               <<"G", "CR", "LF", "CR", "LF">>}
=============================================================================
