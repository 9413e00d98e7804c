--------------------------- MODULE MCBundlePricing ---------------------------
(* The bundles of BundlePricing_items.cfg: small prices, where rounding     *)
(* weighs most.                                                            *)
EXTENDS BundlePricing
=============================================================================
