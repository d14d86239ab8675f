--------------------------- MODULE MCGietTranspose ---------------------------
EXTENDS GietTranspose

(* NImages images of NSide lines, whose pixels are all different.          *)
Images ==
  [i \in 1 .. NImages * NSide |->
     [p \in Side |-> <<(i - 1) \div NSide, (i - 1) % NSide, p>>]]

Black == <<NImages, 0, 0>>

Lines == { Images[i] : i \in DOMAIN Images }
===============================================================================
