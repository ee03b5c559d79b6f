----------------------------- MODULE MCWebhook -----------------------------
(* The webhook runs: workers are interchangeable.                          *)
EXTENDS WebhookDelivery, TLC

WorkerSymmetry == Permutations(Workers)
=============================================================================
