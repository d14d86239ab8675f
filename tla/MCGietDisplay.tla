----------------------------- MODULE MCGietDisplay -----------------------------
EXTENDS GietDisplay

TwoImages == <<"a0", "a1", "b0", "b1">>
===============================================================================
