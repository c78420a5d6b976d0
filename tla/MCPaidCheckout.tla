--------------------------- MODULE MCPaidCheckout ----------------------------
EXTENDS CheckoutSales, TLC

(* Requests and webhook deliveries are interchangeable in every property   *)
(* that is checked with symmetry; none of those is a liveness property.     *)
Symmetry == Permutations(Requests) \cup Permutations(Hooks)
==============================================================================
