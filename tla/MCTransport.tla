---------------------------- MODULE MCTransport -----------------------------
(* The instance of Transport for TLC.                                     *)
EXTENDS Transport
PortalOverHttps == [scheme |-> "https", host |-> "portal"]
=============================================================================
