------------------------------ MODULE SummaryMC ------------------------------
(* Instances of Summary for TLC: floating point with b significant bits instead of 53, *)
(* of both signs and down to the smallest number, and large enough for a sum of four   *)
(* scores of b bits.                                                                   *)
EXTENDS Summary

Magnitudes(b) == ((0..2^b - 1) \X {0}) \cup ((2^(b - 1)..2^b - 1) \X {1, 2})
Signed(S) == S \cup {-n : n \in S}

BitFloats(b) == Signed({x[1] * 2^x[2] : x \in Magnitudes(b)})
BitEvens(b) == Signed({x[1] * 2^x[2] : x \in {y \in Magnitudes(b) : y[1] % 2 = 0}})

ThreeBitFloats == BitFloats(3)
ThreeBitEvens == BitEvens(3)
FourBitFloats == BitFloats(4)
FourBitEvens == BitEvens(4)

\* Two negative scores and a positive one: a run may have only negative ones.
SignedScores == {-7, -5, 5}
=============================================================================
