------------------------------ MODULE MCAgent ------------------------------
(***************************************************************************)
(* Two runs in one run directory.                                          *)
(***************************************************************************)
EXTENDS AgentCampaign

CONSTANTS http, tls, wellKnown

PolicyObjectives == {http, tls, wellKnown}
BothModes == {"governed", "direct"}
AllHosts == {"name", "ipv6", "wildcard"}

=============================================================================
