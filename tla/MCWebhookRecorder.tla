-------------------------- MODULE MCWebhookRecorder --------------------------
(* Small instances of WebhookRecorder. *)
EXTENDS WebhookRecorder
=============================================================================
