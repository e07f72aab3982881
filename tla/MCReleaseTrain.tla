--------------------------- MODULE MCReleaseTrain ---------------------------
(* ReleaseTrain for TLC: features and promoters are model values.          *)
EXTENDS ReleaseTrain, TLC

CONSTANTS f1, f2, p1, p2

TwoFeatures == {f1, f2}
OnePromoter == {p1}
TwoPromoters == {p1, p2}
SameFeatures == Permutations(TwoFeatures)
================================================================================
