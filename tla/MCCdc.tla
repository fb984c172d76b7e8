------------------------------- MODULE MCCdc -------------------------------
(* Instances of Cdc for TLC.                                                *)
EXTENDS Cdc

CONSTANTS d1, d2

WebhookNats == <<"webhook", "nats">>
WebhookKafka == <<"webhook", "kafka">>
OneWebhook == <<"webhook">>
=============================================================================
