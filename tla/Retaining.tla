----------------------------- MODULE Retaining ------------------------------
(***************************************************************************)
(* Some of the elements of a sequence, in their order: the snapshots the   *)
(* oracle keeps, the accounts with an entry among all addresses.           *)
(*                                                                         *)
(* Which ones is told by their places, and the result is a function that   *)
(* is defined by recursion on the places, of which CommonProofs shows what *)
(* it returns.                                                             *)
(***************************************************************************)
EXTENDS Naturals, Sequences

\* Vec::retain, with the places of what is retained.
Retained(taken, places) ==
  LET UpTo[n \in 0 .. Len(taken)] ==
        IF n = 0 THEN << >>
        ELSE IF n \in places THEN Append(UpTo[n - 1], taken[n])
        ELSE UpTo[n - 1]
  IN  UpTo[Len(taken)]

=============================================================================
