----------------------------- MODULE MCMemPool -----------------------------
(* The pool on small sizes; the .cfg files say which. *)
EXTENDS MemPool
=============================================================================
