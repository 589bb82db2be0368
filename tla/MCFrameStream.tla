--------------------------- MODULE MCFrameStream ----------------------------
(* FrameStream in miniature: a byte has four values and a size two bytes,   *)
(* so that the largest sizes are 7 (signed) and 15 (unsigned).             *)
EXTENDS FrameStream

AtTheLimits == {1, 7, 8, 15, 16}
Fitting     == {1, 2, 7}
=============================================================================
