----------------------------- MODULE MCShopData -----------------------------
(***************************************************************************)
(* Shop s1 gets two copies of one delivery and one of another, of topics   *)
(* that meet in the tables; s2 has a session that nothing may touch.       *)
(***************************************************************************)
EXTENDS ShopData, TLC

CONSTANTS r1, r2, r3, dTwice, dOnce, b1, s1, s2, w1, w2

MCDeliveryOf  == r1 :> dTwice @@ r2 :> dTwice @@ r3 :> dOnce
MCShopOf      == dTwice :> s1 @@ dOnce :> s1 @@ b1 :> s1
MCMail        == {dTwice :> "customers/redact" @@ dOnce :> "customers/data_request",
                  dTwice :> "customers/redact" @@ dOnce :> "orders/create",
                  dTwice :> "customers/redact" @@ dOnce :> "shop/redact",
                  dTwice :> "app/uninstalled"  @@ dOnce :> "shop/redact"}
MCCustomerOf  == dTwice :> "c" @@ dOnce :> "c"
MCMaxInstalls == s1 :> 2 @@ s2 :> 1

Symmetry == Permutations({r1, r2}) \cup Permutations(Workers)
=============================================================================
