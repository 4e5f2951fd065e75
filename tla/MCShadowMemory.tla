--------------------------- MODULE MCShadowMemory ---------------------------
EXTENDS ShadowMemory
=============================================================================
