---------------------------- MODULE MCMqttOutbox ----------------------------
(* Values for TLC.                                                             *)
EXTENDS MqttOutbox
SomeIds == 1..5
=============================================================================
