----------------------------- MODULE MCServerBox -----------------------------
(* A box for TLC whose projects have identifiers like "shop-api" and        *)
(* "shop_api": distinct, and one database user.                             *)
EXTENDS ServerBox

SharedUser == [p \in Projects |-> "shop_api_app"]
=============================================================================
