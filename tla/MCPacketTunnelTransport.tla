----------------------- MODULE MCPacketTunnelTransport -----------------------
(* Instances of PacketTunnelTransport for TLC.                             *)
EXTENDS PacketTunnelTransport
=============================================================================
