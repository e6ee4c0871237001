--------------------------- MODULE ProtocolObject ---------------------------
(***************************************************************************)
(* What a protocol object of client/core/protocols promises the            *)
(* VpnConnection that owns it.  VpnConnection never starts an object twice *)
(* (automatic reconnects create a new one), so an object lives once: it    *)
(* may connect, it ends when it is stopped or when it fails, and from then *)
(* on it is silent.                                                        *)
(***************************************************************************)
EXTENDS Naturals

VARIABLES
    id,  \* which object is m_vpnProtocol: objects are numbered as they are created
    st   \* the last state it has signalled

absVars == <<id, st>>

Init == id = 0 /\ st = "Disconnected"

\* factory() and start().  The object that is replaced has been stopped by then.
Create == id' = id + 1 /\ st' = "Unknown"

Connect == st = "Unknown" /\ st' = "Connected" /\ id' = id

\* stop(), asked for by VpnConnection.
Stop == st \in {"Unknown", "Connected"} /\ st' = "Disconnected" /\ id' = id

\* The object stops itself and then reports why.
Fail == st \in {"Unknown", "Connected"} /\ st' = "Error" /\ id' = id

Next == Create \/ Connect \/ Stop \/ Fail

Spec == Init /\ [][Next]_absVars
=============================================================================
