----------------------------- MODULE StockSync -----------------------------
(***************************************************************************)
(* Stock on its way from Odoo to Shopee (workers/stock_worker.py,          *)
(* services/stock_service.py).  Every 15 minutes the safety net queues a   *)
(* task for each SKU in use.  A task looks up the listings of its SKU and, *)
(* for one after the other, reads the products and the allocation behind   *)
(* it and sends Shopee the number to offer.  No lock ties a read to its    *)
(* push, and nothing orders two tasks that touch the same listing.         *)
(***************************************************************************)
EXTENDS Integers, Sequences

CONSTANTS Skus,           \* default_code of the products in Odoo
          Listings,       \* product_mapping: the items on Shopee
          Bundles,        \* listings whose mapping_type is not "simple"
          OdooSku,        \* product_mapping.odoo_sku of each listing
          Components,     \* its rows of product_bundle_component
          Broken,         \* listings whose update Shopee refuses, or whose ids are no numbers
          Workers,        \* coroutines of sync_stock_for_sku at a time
          Products,       \* what Odoo may say of a product
          Stocked,        \* what it says of each product at first
          Configs,        \* active rows of stock_allocation_config
          Configured,     \* those there are at first
          NoConfig,       \* there is none
          NoBuffer,       \* x_marketplace_buffer_pct is not set
          Defaults,       \* DEFAULT_STOCK_BUFFER_PCT, DEFAULT_SHOPEE_ALLOCATION_PCT
          Hundred,        \* 100 percent, in the smallest fraction of one that is stored
          FallsShort,     \* whole products that come out lower as floats
          MaxEdits,       \* bound: changes in Odoo and in the UI, and flash sales
          MaxFaults,      \* bound: failures, crashes and tasks cut off
          MaxQueued       \* bound: messages of one SKU in the broker

Percents == 0 .. Hundred
Row      == [sku : Skus, quantity : Int]

ASSUME StockSyncAssumption ==
    /\ Bundles \subseteq Listings /\ Broken \subseteq Listings
    /\ OdooSku \in [Listings -> Skus]
    /\ Components \in [Listings -> Seq(Row)]
    /\ NoBuffer \notin Int
    /\ Products \subseteq [stock : Int, blocked : BOOLEAN, buffer : Int \union {NoBuffer}]
    /\ Stocked \in [Skus -> Products]
    /\ Hundred \in Nat \ {0}
    /\ NoConfig \notin Configs
    /\ Configured \in [Skus -> Configs \union {NoConfig}]
    /\ Configs \union {Defaults} \subseteq [buffer : Percents, allocation : Percents]
    /\ FallsShort \subseteq {"kept", "shared"} \X Nat \X Percents
    /\ \A x \in FallsShort : x[2] * x[3] > 0 /\ (x[2] * x[3]) % Hundred = 0
    /\ {MaxEdits, MaxFaults, MaxQueued} \subseteq Nat

VARIABLES product,   \* each product: its version, and what Odoo says of it (none: not found)
          config,    \* the allocation configured for each SKU
          active,    \* listings whose mapping is active
          flash,     \* listings in a flash sale
          shown,     \* what Shopee offers of a listing, and the reads it was computed from
          late,      \* updates whose sender gave up and that Shopee may still carry out
          queue,     \* messages of each SKU in the broker
          pc,        \* what each coroutine does next
          job,       \* the SKU of its message
          todo,      \* listings it has not pushed yet, the current one included
          current,   \* the listing it is computing, if any
          rest,      \* components of that listing still to read
          read,      \* the product it has read last
          basis,     \* everything it has read for the listing
          edits, faults,
          beside     \* history: its listings another task worked on at the same time

marketVars == <<flash, shown, late>>
configVars == <<config, active>>
workerVars == <<pc, job, todo, current, rest, read, basis, beside>>
boundVars  == <<edits, faults>>
vars == <<product, configVars, marketVars, queue, workerVars, boundVars>>

Versions == [ver : Nat, found : SUBSET Products]
Reads    == [sku : Skus, quantity : Int, product : Versions, config : Configs \union {NoConfig}]
Offers   == [quantity : Nat, basis : SUBSET Reads]

(* The type of every variable. *)
TypeOK ==
    /\ product \in [Skus -> Versions]
    /\ config \in [Skus -> Configs \union {NoConfig}]
    /\ active \subseteq Listings
    /\ flash \subseteq Listings
    /\ shown \in [Listings -> Offers]
    /\ late \subseteq Listings \X Offers
    /\ queue \in [Skus -> Nat]
    /\ pc \in [Workers -> {"idle", "listing", "product", "config", "push"}]
    /\ job \in [Workers -> SUBSET Skus]
    /\ todo \in [Workers -> SUBSET Listings]
    /\ current \in [Workers -> SUBSET Listings]
    /\ rest \in [Workers -> Seq(Row)]
    /\ read \in [Workers -> SUBSET Versions]
    /\ basis \in [Workers -> SUBSET Reads]
    /\ edits \in 0 .. MaxEdits
    /\ faults \in 0 .. MaxFaults
    /\ beside \in [Workers -> SUBSET Listings]

Init ==
    /\ product = [s \in Skus |-> [ver |-> 0, found |-> {Stocked[s]}]]
    /\ config = Configured
    /\ active = Listings
    /\ flash = {}
    /\ shown = [l \in Listings |-> [quantity |-> 0, basis |-> {}]]
    /\ late = {}
    /\ queue = [s \in Skus |-> 0]
    /\ pc = [w \in Workers |-> "idle"]
    /\ job = [w \in Workers |-> {}]
    /\ todo = [w \in Workers |-> {}]
    /\ current = [w \in Workers |-> {}]
    /\ rest = [w \in Workers |-> <<>>]
    /\ read = [w \in Workers |-> {}]
    /\ basis = [w \in Workers |-> {}]
    /\ edits = 0
    /\ faults = 0
    /\ beside = [w \in Workers |-> {}]

----------------------------------------------------------------------------
(* The number to offer *)

(* int(n * share) for a share of pct: cut off towards zero, of a product   *)
(* of floats that may be just below the whole number it should be.         *)
Cut(kind, n, pct) ==
    LET exact == IF n * pct >= 0 THEN (n * pct) \div Hundred ELSE -((-(n * pct)) \div Hundred)
    IN  IF <<kind, n, pct>> \in FallsShort THEN exact - 1 ELSE exact

(* The product's own buffer comes first, then the SKU's configuration.     *)
BufferPct(p, c) ==
    IF p.buffer # NoBuffer THEN p.buffer
    ELSE IF c # NoConfig THEN c.buffer ELSE Defaults.buffer

AllocationPct(c) == IF c # NoConfig THEN c.allocation ELSE Defaults.allocation

(* A bug, for the mutation runs: negative stock is passed on. *)
AllocatedNegative(p, c) ==
    IF p.blocked THEN 0
    ELSE Cut("shared", Cut("kept", p.stock, Hundred - BufferPct(p, c)), AllocationPct(c))

(* calculate_platform_stock of a product that was found. *)
Allocated(p, c) ==
    LET buffered  == Cut("kept", p.stock, Hundred - BufferPct(p, c))
        allocated == Cut("shared", buffered, AllocationPct(c))
    IN  IF p.blocked \/ allocated < 0 THEN 0 ELSE allocated

(* A bug: as if every component was needed once. *)
EnoughOfEach(x) ==
    IF x.product.found = {} THEN 0
    ELSE Allocated(CHOOSE p \in x.product.found : TRUE, x.config)

Units(x) == IF x.quantity > 1 THEN x.quantity ELSE 1

(* The bundles a component is enough for; one unit makes a simple listing. *)
Enough(x) ==
    IF x.product.found = {} THEN 0
    ELSE Allocated(CHOOSE p \in x.product.found : TRUE, x.config) \div Units(x)

(* The scarcest component decides; nothing to read is nothing to offer. *)
Quantity(B) ==
    IF B = {} THEN 0
    ELSE CHOOSE n \in {Enough(x) : x \in B} : \A x \in B : n <= Enough(x)

----------------------------------------------------------------------------
(* Odoo, the configuration UI, Shopee *)

OdooChange(s) ==
    /\ edits < MaxEdits
    /\ edits' = edits + 1
    /\ \E f \in ({{p} : p \in Products} \union {{}}) \ {product[s].found} :
          product' = [product EXCEPT ![s] = [ver |-> @.ver + 1, found |-> f]]
    /\ UNCHANGED <<configVars, marketVars, queue, workerVars, faults>>

(* stock_save of a new row, or of one that is there and may be moved to a  *)
(* SKU that has none.  A row saved as inactive counts like one deleted.    *)
ConfigSave(s, t) ==
    /\ edits < MaxEdits
    /\ edits' = edits + 1
    /\ t # s => config[s] # NoConfig /\ config[t] = NoConfig
    /\ \E c \in Configs :
         /\ c # config[t]
         /\ config' = [config EXCEPT ![s] = NoConfig, ![t] = c]
    /\ UNCHANGED <<product, active, marketVars, queue, workerVars, faults>>

ConfigDelete(s) ==
    /\ config[s] # NoConfig
    /\ edits < MaxEdits
    /\ edits' = edits + 1
    /\ config' = [config EXCEPT ![s] = NoConfig]
    /\ UNCHANGED <<product, active, marketVars, queue, workerVars, faults>>

(* products_save and products_delete, as far as a push can tell. *)
MappingToggle(l) ==
    /\ edits < MaxEdits
    /\ edits' = edits + 1
    /\ active' = IF l \in active THEN active \ {l} ELSE active \union {l}
    /\ UNCHANGED <<product, config, marketVars, queue, workerVars, faults>>

FlashStart(l) ==
    /\ l \notin flash
    /\ edits < MaxEdits
    /\ edits' = edits + 1
    /\ flash' = flash \union {l}
    /\ UNCHANGED <<product, configVars, shown, late, queue, workerVars, faults>>

FlashEnd(l) ==
    /\ l \in flash
    /\ flash' = flash \ {l}
    /\ UNCHANGED <<product, configVars, shown, late, queue, workerVars, boundVars>>

(* Shopee carries out an update whose sender stopped waiting. *)
LateArrives(u) ==
    /\ u \in late
    /\ late' = late \ {u}
    /\ shown' = [shown EXCEPT ![u[1]] = IF u[1] \in flash THEN @ ELSE u[2]]
    /\ UNCHANGED <<product, configVars, flash, queue, workerVars, boundVars>>

----------------------------------------------------------------------------
(* The safety net and the broker *)

SkusOf(l) ==
    IF l \in Bundles /\ Components[l] # <<>>
    THEN {Components[l][i].sku : i \in DOMAIN Components[l]}
    ELSE {OdooSku[l]}

NetSkus == UNION {SkusOf(l) : l \in active}

(* stock_safety_net queues a task per SKU, or dies in the middle. *)
SafetyNet ==
    /\ NetSkus # {}
    /\ \A s \in NetSkus : queue[s] < MaxQueued
    /\ \E S \in SUBSET NetSkus :
          /\ S # NetSkus => faults < MaxFaults
          /\ faults' = IF S = NetSkus THEN faults ELSE faults + 1
          /\ queue' = [s \in Skus |-> IF s \in S THEN queue[s] + 1 ELSE queue[s]]
    /\ UNCHANGED <<product, configVars, marketVars, workerVars, edits>>

(* The listings a task of the SKU works on, if their mappings are active. *)
Direct(s)  == {l \in Listings : OdooSku[l] = s}
Touched(s) == Direct(s) \union
    {l \in Listings : \E i \in DOMAIN Components[l] : Components[l][i].sku = s}

(* The listings on which a task of s meets the one that v runs. *)
Meets(v, s) == UNION {Touched(s) \intersect Touched(t) : t \in job[v]}

(* The coroutine ends. *)
Forget(w) ==
    /\ pc' = [pc EXCEPT ![w] = "idle"]
    /\ job' = [job EXCEPT ![w] = {}]
    /\ todo' = [todo EXCEPT ![w] = {}]
    /\ current' = [current EXCEPT ![w] = {}]
    /\ rest' = [rest EXCEPT ![w] = <<>>]
    /\ read' = [read EXCEPT ![w] = {}]
    /\ basis' = [basis EXCEPT ![w] = {}]
    /\ beside' = [beside EXCEPT ![w] = {}]

----------------------------------------------------------------------------
(* A task *)

(* A worker takes a message; find_mappings_using_component is the first    *)
(* thing its task does.  Without a listing it is done.                     *)
Take(w, s) ==
    LET found == Touched(s) \intersect active IN
    /\ pc[w] = "idle"
    /\ queue[s] > 0
    /\ queue' = [queue EXCEPT ![s] = @ - 1]
    /\ IF found = {} THEN UNCHANGED workerVars
       ELSE /\ pc' = [pc EXCEPT ![w] = "listing"]
            /\ job' = [job EXCEPT ![w] = {s}]
            /\ todo' = [todo EXCEPT ![w] = found]
            /\ beside' = [v \in Workers |-> IF v = w THEN UNION {Meets(u, s) : u \in Workers}
                                           ELSE beside[v] \union Meets(v, s)]
            /\ UNCHANGED <<current, rest, read, basis>>
    /\ UNCHANGED <<product, configVars, marketVars, boundVars>>

(* The listings of the SKU itself come first, otherwise the order is open. *)
Nexts(w) ==
    LET own == {l \in todo[w] : OdooSku[l] \in job[w]}
    IN  IF own = {} THEN todo[w] ELSE own

(* What is to be read for a listing. *)
RowsOf(l) == IF l \in Bundles THEN Components[l] ELSE <<[sku |-> OdooSku[l], quantity |-> 1]>>

(* A simple listing has one product to read.  The components of a bundle   *)
(* are looked up, and none are found if its mapping is not active any more. *)
Open(w, l) ==
    /\ pc[w] = "listing"
    /\ l \in Nexts(w)
    /\ current' = [current EXCEPT ![w] = {l}]
    /\ LET rows == IF l \in Bundles \ active THEN <<>> ELSE RowsOf(l)
       IN  /\ rest' = [rest EXCEPT ![w] = rows]
           /\ pc' = [pc EXCEPT ![w] = IF rows = <<>> THEN "push" ELSE "product"]
    /\ UNCHANGED <<product, configVars, marketVars, queue, job, todo, read, basis,
                   beside, boundVars>>

(* What is known of the component after both reads. *)
Known(w, p, c) ==
    [sku |-> Head(rest[w]).sku, quantity |-> Head(rest[w]).quantity, product |-> p, config |-> c]

NextRow(w, p, c) ==
    /\ basis' = [basis EXCEPT ![w] = @ \union {Known(w, p, c)}]
    /\ rest' = [rest EXCEPT ![w] = Tail(@)]
    /\ read' = [read EXCEPT ![w] = {}]
    /\ pc' = [pc EXCEPT ![w] = IF Tail(rest[w]) = <<>> THEN "push" ELSE "product"]

(* A bug: a product that was read for another component is read again from *)
(* memory.                                                                 *)
LookupMemo(s) ==
    IF \E l \in Listings : \E x \in shown[l].basis : x.sku = s
    THEN (CHOOSE x \in UNION {shown[l].basis : l \in Listings} : x.sku = s).product
    ELSE product[s]

Lookup(s) == product[s]

(* A bug: the configuration is the one the process has started with. *)
SettingAtStart(s) == Configured[s]

Setting(s) == config[s]

(* get_product_marketplace_controls; a product that is not there or is     *)
(* blocked needs no configuration.                                         *)
ReadProduct(w) ==
    /\ pc[w] = "product"
    /\ LET p == Lookup(Head(rest[w]).sku) IN
       IF \E q \in p.found : ~q.blocked
       THEN /\ read' = [read EXCEPT ![w] = {p}]
            /\ pc' = [pc EXCEPT ![w] = "config"]
            /\ UNCHANGED <<basis, rest>>
       ELSE NextRow(w, p, NoConfig)
    /\ UNCHANGED <<product, configVars, marketVars, queue, job, todo, current, beside,
                   boundVars>>

ReadConfig(w) ==
    /\ pc[w] = "config"
    /\ \E p \in read[w] : NextRow(w, p, Setting(Head(rest[w]).sku))
    /\ UNCHANGED <<product, configVars, marketVars, queue, job, todo, current, beside,
                   boundVars>>

Offer(w) == [quantity |-> Quantity(basis[w]), basis |-> basis[w]]

(* The listing is done; the task ends with the last one. *)
NextListing(w) ==
    LET left == todo[w] \ current[w] IN
    \/ left = {} /\ Forget(w)
    \/ /\ left # {}
       /\ todo' = [todo EXCEPT ![w] = left]
       /\ current' = [current EXCEPT ![w] = {}]
       /\ basis' = [basis EXCEPT ![w] = {}]
       /\ pc' = [pc EXCEPT ![w] = "listing"]
       /\ UNCHANGED <<job, rest, read, beside>>

(* update_stock; a mapping that is not active may still be in the cache. *)
Push(w) ==
    /\ pc[w] = "push"
    /\ \E l \in current[w] \ (Broken \union flash) : shown' = [shown EXCEPT ![l] = Offer(w)]
    /\ NextListing(w)
    /\ UNCHANGED <<product, configVars, flash, late, queue, boundVars>>

(* Shopee answers error_item_is_on_flash_sale, which only leaves a warning. *)
PushSkipped(w) ==
    /\ pc[w] = "push"
    /\ current[w] \subseteq flash
    /\ NextListing(w)
    /\ UNCHANGED <<product, configVars, marketVars, queue, boundVars>>

(* Shopee refuses the listing, or its mapping is gone: the task ends, with *)
(* the listings after this one.                                            *)
PushRefused(w) ==
    /\ pc[w] = "push"
    /\ current[w] \subseteq Broken \union (Listings \ active)
    /\ Forget(w)
    /\ UNCHANGED <<product, configVars, marketVars, queue, boundVars>>

(* The update, when it was sent but not answered. *)
MayArrive(w) ==
    \/ UNCHANGED late
    \/ /\ pc[w] = "push"
       /\ \E l \in current[w] \ Broken : late' = late \union {<<l, Offer(w)>>}

Faulty == faults < MaxFaults /\ faults' = faults + 1

(* Any other error ends the task; an update may be under way.  The soft    *)
(* time limit does, too, or, since it leaves the coroutine on the loop,    *)
(* the coroutine goes on at any later time, as every one may here.         *)
Fail(w) ==
    /\ pc[w] # "idle"
    /\ Faulty
    /\ MayArrive(w)
    /\ Forget(w)
    /\ UNCHANGED <<product, configVars, flash, shown, queue, edits>>

(* The message of the task waits in the broker again. *)
Requeue(w) ==
    queue' = [s \in Skus |-> IF s \in job[w] THEN queue[s] + 1 ELSE queue[s]]

(* CircuitOpenError, ShopeeRateLimitError and OdooConnectionError, raised  *)
(* by a call to Odoo or Shopee, start the task again from its beginning.   *)
(* When its retries are used up it fails, as any task may.                 *)
Retry(w) ==
    /\ pc[w] \in {"product", "push"}
    /\ Faulty
    /\ Requeue(w)
    /\ Forget(w)
    /\ UNCHANGED <<product, configVars, marketVars, edits>>

(* The process is lost: the message of its task is delivered again. *)
Crash(w) ==
    /\ pc[w] # "idle"
    /\ Faulty
    /\ MayArrive(w)
    /\ Requeue(w)
    /\ Forget(w)
    /\ UNCHANGED <<product, configVars, flash, shown, edits>>

----------------------------------------------------------------------------
Work(w) ==
    \/ ReadProduct(w) \/ ReadConfig(w)
    \/ Push(w) \/ PushSkipped(w) \/ PushRefused(w)
    \/ \E l \in Listings : Open(w, l)

World ==
    \/ \E s \in Skus : OdooChange(s) \/ ConfigDelete(s) \/ \E t \in Skus : ConfigSave(s, t)
    \/ \E l \in Listings : MappingToggle(l) \/ FlashStart(l) \/ FlashEnd(l)
    \/ \E u \in late : LateArrives(u)

Next ==
    \/ World
    \/ SafetyNet
    \/ \E w \in Workers :
         \/ \E s \in Skus : Take(w, s)
         \/ Work(w) \/ Fail(w) \/ Retry(w) \/ Crash(w)

Spec == Init /\ [][Next]_vars

(* Beat keeps starting the safety net, workers keep consuming, a running   *)
(* task goes on or fails, and a flash sale ends.  Nothing is assumed of a  *)
(* late update.                                                            *)
Fairness ==
    /\ WF_vars(SafetyNet)
    /\ WF_vars(\E w \in Workers, s \in Skus : Take(w, s))
    /\ \A w \in Workers : WF_vars(Work(w))
    /\ WF_vars(\E l \in Listings : FlashEnd(l))

FairSpec == Spec /\ Fairness

----------------------------------------------------------------------------
(* Properties *)

(* An offer is covered by the stock of every component it was computed     *)
(* from, and leaves none out.                                              *)
CoveredOffer(l, o) ==
    o.quantity # 0 =>
        /\ \A i \in DOMAIN RowsOf(l) : \E x \in o.basis :
              x.sku = RowsOf(l)[i].sku /\ x.quantity = RowsOf(l)[i].quantity
        /\ \A x \in o.basis : \E p \in x.product.found :
              /\ ~p.blocked
              /\ p.buffer \in Percents \union {NoBuffer} => o.quantity * Units(x) <= p.stock

(* What Shopee offers of a listing was covered by all of its components,   *)
(* whatever the rounding of two floats, missing and blocked products,      *)
(* negative stock, tasks cut short and late updates; unless somebody gave  *)
(* a product in Odoo a buffer that is no percentage, which the code takes  *)
(* as it is.                                                               *)
Covered == \A l \in Listings : CoveredOffer(l, shown[l])

(* A push never goes back to older stock of a product than Shopee has      *)
(* already been told, unless another task worked on the listing at the     *)
(* same time: whatever failed, was retried, delivered again or came late   *)
(* before, nothing that was read then outlives its task.                   *)
NoRollback ==
    [][\A l \in Listings :
         shown'[l] # shown[l] /\ late' = late /\ (\A w \in Workers : l \notin beside[w]) =>
            \A x \in shown[l].basis, y \in shown'[l].basis :
               x.sku = y.sku => x.product.ver <= y.product.ver]_vars

(* What the listing should offer now. *)
Target(l) ==
    Quantity({[sku |-> RowsOf(l)[i].sku, quantity |-> RowsOf(l)[i].quantity,
               product |-> product[RowsOf(l)[i].sku], config |-> config[RowsOf(l)[i].sku]] :
              i \in DOMAIN RowsOf(l)})

(* Some task works on the listing and on none that ends it. *)
Served(l) ==
    /\ l \in active \ Broken
    /\ \E s \in SkusOf(l) : Touched(s) \intersect active \intersect Broken = {}

(* The safety net repairs what overlapping tasks, late updates, lost       *)
(* tasks, flash sales and edits did: once products and settings stay as    *)
(* they are, Shopee offers what they allow, for ever.                      *)
Settles == <>[](\A l \in Listings : Served(l) => shown[l].quantity = Target(l))
=============================================================================
