-------------------------- MODULE MCRhtmlScanner --------------------------
(***************************************************************************)
(* Instances of RhtmlScanner for TLC: a plain character and one, like the  *)
(* double quote, that ends a Ruby string.                                  *)
(***************************************************************************)
EXTENDS RhtmlScanner

CONSTANTS a, quote

===========================================================================
