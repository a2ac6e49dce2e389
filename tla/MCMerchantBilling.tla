--------------------------- MODULE MCMerchantBilling ---------------------------
(* An instance of MerchantBilling for TLC. *)
EXTENDS MerchantBilling, TLC

Alike == Permutations(Handlers) \union Permutations(Plans) \union Permutations(Cards)

\* Renewals and cancellations in Stripe are not followed together with a crash,
\* a lost lock or an unanswered question.
FewMishaps == invoices > 0 => crashes = 0 /\ doubt = "none"
=============================================================================
