----------------------------- MODULE MCKillSwitch -----------------------------
EXTENDS KillSwitch
=============================================================================
