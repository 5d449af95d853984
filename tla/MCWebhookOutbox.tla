---------------------------- MODULE MCWebhookOutbox ----------------------------
(* Small instances of WebhookOutbox for TLC. *)
EXTENDS WebhookOutbox, TLC

CONSTANTS w1, w2, s1, s2   \* workers, subscriptions
===============================================================================
