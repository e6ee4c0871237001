---------------------------- MODULE MCSystemDns ----------------------------
EXTENDS SystemDns
=============================================================================
