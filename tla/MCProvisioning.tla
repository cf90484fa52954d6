--------------------------- MODULE MCProvisioning ---------------------------
EXTENDS Provisioning

MCNone == {}
MCFirst == {1}
MCSecond == {2}
MCThird == {3}
MCOneRunner == {"issue"}
=============================================================================
