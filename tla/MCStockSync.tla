---------------------------- MODULE MCStockSync ----------------------------
(* StockSync with a simple listing and a bundle that needs its product, too. *)
EXTENDS StockSync

MCOdooSku == [l \in Listings |-> IF l \in Bundles THEN "b" ELSE "a"]

MCComponents ==
    [l \in Listings |-> IF l \in Bundles
                        THEN <<[sku |-> "a", quantity |-> 2], [sku |-> "b", quantity |-> 0]>>
                        ELSE <<>>]

Plenty == [stock |-> 10, blocked |-> FALSE, buffer |-> NoBuffer]
Short  == [stock |-> -3, blocked |-> FALSE, buffer |-> 10]

MCProducts == {Plenty, Short}
MCStocked  == [s \in Skus |-> Plenty]

Reserved == [buffer |-> 80, allocation |-> 100]

MCConfigs    == {Reserved}
MCConfigured == [s \in Skus |-> IF s = "a" THEN Reserved ELSE NoConfig]
MCDefaults == [buffer |-> 10, allocation |-> 80]

(* 10 * (1 - 80 / 100) is 1.9999999999999996. *)
MCFallsShort == {<<"kept", 10, 20>>}
=============================================================================
