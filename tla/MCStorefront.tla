---------------------------- MODULE MCStorefront ----------------------------
(* A customer and an organizer in one tab, which sends two forms. *)
EXTENDS Storefront, TLC

CONSTANTS cust, org

MCUser == {cust, org}
MCRole == (cust :> "CUSTOMER") @@ (org :> "ORGANIZER")
MCOpened == {"home", "login", "callback", "event", "account", "coupons", "newcoupon"}
=============================================================================
