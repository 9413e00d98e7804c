\* A simple listing and a bundle that share a product; two tasks at a time, one change, one fault.
SPECIFICATION FairSpec
CONSTANTS
    Skus = {"a", "b"}
    Listings = {one, kit}
    Bundles = {kit}
    Broken = {}
    OdooSku <- MCOdooSku
    Components <- MCComponents
    Products <- MCProducts
    Stocked <- MCStocked
    Configs <- MCConfigs
    Configured <- MCConfigured
    Defaults <- MCDefaults
    FallsShort <- MCFallsShort
    NoConfig = NoConfig
    NoBuffer = NoBuffer
    Hundred = 100
    Workers = {v, w}
    MaxEdits = 1
    MaxFaults = 1
    MaxQueued = 1
INVARIANTS TypeOK Covered
PROPERTIES NoRollback Settles
