--------------------------- MODULE MCVpnConnection ---------------------------
EXTENDS VpnConnection
=============================================================================
