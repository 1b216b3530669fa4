--------------------------------- MODULE Numbers ---------------------------------
(***************************************************************************)
(* How the shell turns what the user types into unsigned numbers of 8, 16  *)
(* and 32 bits (src/src/cli.c).                                            *)
(*                                                                         *)
(* A number is given by its value; how its digits are written is left out, *)
(* as is everything that follows them, which strtoul does not look at.     *)
(* Widths are constants: a field of any width holds 0..max, and an         *)
(* unsigned long 0..ULongMax.                                              *)
(***************************************************************************)
EXTENDS Integers

CONSTANT
    ULongMax  \* ULONG_MAX; `long' has 32 bits on the target

ASSUME ULongIsOdd == ULongMax \in Nat /\ ULongMax % 2 = 1

LongMax == ULongMax \div 2

(* strtoul of a typed number: it saturates, and negates what follows a '-'. *)
ULongOf(n) ==
    IF n > ULongMax \/ -n > ULongMax THEN ULongMax
    ELSE IF n < 0 THEN ULongMax + 1 + n
    ELSE n

(* str_to_long: the result of strtoul, assigned to a signed long. *)
LongOf(n) ==
    LET u == ULongOf(n) IN IF u > LongMax THEN u - (ULongMax + 1) ELSE u

(* str_to_uint8, str_to_uint16, str_to_uint32: max is UINT8_MAX, UINT16_MAX or  *)
(* UINT32_MAX.  The comparison is that of a signed long; with UINT32_MAX it is *)
(* one of unsigned longs, and never rejects.                                 *)
Accepts(n, max) == max = ULongMax \/ LongOf(n) <= max

(* The cast to the field's width. *)
Stored(n, max) == LongOf(n) % (max + 1)

=============================================================================
