--------------------------- MODULE ShopDataClaims ---------------------------
(* What job-handlers.ts:286-289 says of the sessions shop.cleanup deletes. *)
EXTENDS MCShopData

\* "what is left in the table is a set of credentials that authenticate
\* nothing": shop.cleanup never deletes the session of an installed shop.
CleansUpDeadTokens ==
  [][\A w \in Workers : \A x \in run[w] :
       CleanUp(w, x) /\ JobShop(x.job) \in installed =>
         session[JobShop(x.job)] = 0]_vars
=============================================================================
