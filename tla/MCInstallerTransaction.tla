----------------------- MODULE MCInstallerTransaction -----------------------
EXTENDS InstallerTransaction

CONSTANTS first, second

MCPlans == {first, second}
MCKeepers == {1}
=============================================================================
