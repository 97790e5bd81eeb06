---------------------------- MODULE DynamicArray ----------------------------
(***************************************************************************)
(* The growing array of src/dynamic_array.c, as operators on a record:     *)
(* elts are its nelts elements, nalloc is the number for which there is    *)
(* memory. `push' returns a place for an element; here it also stores it,  *)
(* as all callers do. (push_ix changes nothing, and what the configuration *)
(* parser stores through it is read by nobody.)                            *)
(***************************************************************************)
EXTENDS Naturals, Sequences

CONSTANTS Junk,   \* what memory holds when pmalloc returns it
          NULL

nelts(a) == Len(a.elts)

(* dynamic_array_create and dynamic_array_init *)
dynamic_array_create(n) == [elts |-> <<>>, nalloc |-> n]

Grown_OneShort(a) ==
    [elts |-> SubSeq(a.elts, 1, nelts(a) - 1) \o <<Junk>>, nalloc |-> 2 * a.nalloc]

(* the elements are copied into memory for twice as many *)
Grown(a) == [elts |-> a.elts, nalloc |-> 2 * a.nalloc]

dynamic_array_push(a, e) ==
    LET b == IF nelts(a) = a.nalloc THEN Grown(a) ELSE a
    IN  [elts |-> Append(b.elts, e), nalloc |-> b.nalloc]

dynamic_array_get_ix(a, index) ==
    IF index >= nelts(a) THEN NULL ELSE a.elts[index + 1]

=============================================================================
