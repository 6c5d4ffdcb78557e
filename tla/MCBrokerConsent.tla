-------------------------- MODULE MCBrokerConsent --------------------------
(* Instances of BrokerConsent for TLC.                                     *)
EXTENDS BrokerConsent, TLC
=============================================================================
