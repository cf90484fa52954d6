----------------------------- MODULE MCFleetNode ----------------------------
EXTENDS FleetNode

CONSTANTS first, taken

MCRefs == {first, taken}
MCOneRef == {first}
MCImported == {taken}
MCWindowed == {first}
MCNone == {}
=============================================================================
