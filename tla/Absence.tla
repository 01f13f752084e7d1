-------------------------------- MODULE Absence --------------------------------
\* What the code writes as null, undefined or a row that is not there.
CONSTANT None
=============================================================================
