--------------------------- MODULE MCProjectStore ---------------------------
EXTENDS ProjectStore
=============================================================================
