------------------------------- MODULE Words -------------------------------
(***************************************************************************)
(* Go's integers of w bits: powers of two, and two's complement.           *)
(***************************************************************************)
EXTENDS Integers

TwoTo[n \in Nat] == IF n = 0 THEN 1 ELSE 2 * TwoTo[n - 1]

\* The signed integer of w bits that n wraps around to.
Wrap(n, w) ==
  LET m == n % TwoTo[w] IN IF 2 * m < TwoTo[w] THEN m ELSE m - TwoTo[w]
=============================================================================
