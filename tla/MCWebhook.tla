----------------------------- MODULE MCWebhook -----------------------------
(* Attempts and deliveries for model checking Webhook: two attempts of one   *)
(* delivery for the first push, one attempt for the second and one for a     *)
(* draft ref.                                                                *)
EXTENDS Webhook, TLC

CONSTANTS w1, w1again, w2, w3, d1, d2, d3, n1, n1again, n2, n3

AllDeliveries == [a \in Attempt |->
  CASE a \in {w1, w1again} -> d1 [] a = w2 -> d2 [] a = w3 -> d3]

AllTargets == [a \in Attempt |->
  CASE a \in {w1, w1again} -> 1 [] a = w2 -> 2 [] a = w3 -> Draft]

AllSyncs == [a \in Attempt |->
  CASE a = w1 -> n1 [] a = w1again -> n1again [] a = w2 -> n2 [] a = w3 -> n3]

\* The event log is written and never read by the handlers.
View == <<changesets, drafted, git, meta, req>>
=============================================================================
