------------------------------ MODULE MCMargin ------------------------------
(* Two assets of different decimals and factors.  A debt of one dollar is  *)
(* 1000; the sum 990 is below it and is shown as a health factor of 1.     *)
EXTENDS Margin, Sequences

MCDecimals == <<0, 1>>
MCFactor == <<50, 99>>
MCDebts == {-1, 0, 1, 2}

=============================================================================
