--------------------------- MODULE MCMieruManager ---------------------------
EXTENDS MieruManager

MCNames == {"ann", "bob"}
MCIds == 1..2
MCLanes == {"one", "two"}
=============================================================================
