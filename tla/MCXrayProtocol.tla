--------------------------- MODULE MCXrayProtocol ---------------------------
EXTENDS XrayProtocol
=============================================================================
