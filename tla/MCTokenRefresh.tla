--------------------------- MODULE MCTokenRefresh ---------------------------
EXTENDS TokenRefresh
=============================================================================
