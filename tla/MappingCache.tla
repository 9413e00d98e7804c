---------------------------- MODULE MappingCache ----------------------------
(***************************************************************************)
(* The product mappings and their copies in Redis. Operators save and      *)
(* delete mappings (config_admin.py), each in one transaction that is      *)
(* followed by invalidations; readers look a slot of the cache up, query   *)
(* the database when it is empty and fill it (mapping_service.py). A slot  *)
(* is the key of a mapping (platform and SKU), or the id of one, which     *)
(* holds the components of the bundle.                                     *)
(***************************************************************************)
EXTENDS FiniteSets, Integers, Sequences

CONSTANTS Operators,   \* requests of the configuration UI at a time
          Readers,     \* coroutines that look slots up
          Keys,        \* pairs of platform and platform_sku_id
          Ids,         \* ids of mappings, also of those yet to be created
          NoKey,       \* a mapping without platform_sku_id
          TTL,         \* CACHE_TTL
          MaxRead,     \* ticks a task lasts; its coroutine may outlive it
          MaxSaves,    \* bound: saves and deletions
          MaxFaults    \* bound: invalidations that fail

ASSUME MappingCacheAssumption ==
    /\ NoKey \notin Keys
    /\ Keys \cap Ids = {}
    /\ Ids # {}
    /\ {TTL, MaxSaves} \subseteq Nat \ {0}
    /\ {MaxRead, MaxFaults} \subseteq Nat

VARIABLES row,         \* the committed row of each id
          exists,      \* ids that have a row
          known,       \* ids that were given out
          comps,       \* the saves whose components are stored for an id
          cached,      \* what Redis holds in a slot
          life,        \* ticks until the slot expires, 0: it is empty
          op,          \* what each operator's request does
          rd,          \* what each reader does
          saves,       \* saves and deletions so far
          faults,      \* invalidations that failed
          \* history
          excused,     \* slots whose content may be outdated
          slow,        \* slots filled by a coroutine that outlived its task
          doubled,     \* ids saved twice at a time, once without a lock
          quiet        \* ticks since the last commit, up to Settled

dbVars == <<row, exists, known, comps>>
redisVars == <<cached, life>>
boundVars == <<saves, faults>>
vars == <<dbVars, redisVars, op, rd, boundVars, excused, slow, doubled, quiet>>

Slots   == Keys \union Ids
SaveNos == 0 .. MaxSaves
Settled == TTL + MaxRead

(* ver stands for every column but the key: it is the number of the save   *)
(* that wrote them, or 0 if they say that the mapping is not active.       *)
Rows  == [key : Keys \union {NoKey}, ver : SaveNos]
Blank == [key |-> NoKey, ver |-> 0]

(* What a slot may hold: a mapping, or the components of a bundle. *)
Contents == SUBSET (Ids \X SaveNos)

Requests == [at : {"idle", "loaded", "flushed", "committed"},
             id : Ids, kind : {"save", "create", "delete"}, was : Rows, new : Rows, no : SaveNos,
             seen : SUBSET SaveNos, left : Seq(Slots)]

Lookups == [at : {"idle", "missed", "read"}, slot : Slots, found : Contents,
            age : 0 .. MaxRead + 1]

NoRequest ==
    [at |-> "idle", id |-> CHOOSE i \in Ids : TRUE, kind |-> "save", was |-> Blank,
     new |-> Blank, no |-> 0, seen |-> {}, left |-> <<>>]

NoLookup ==
    [at |-> "idle", slot |-> CHOOSE i \in Ids : TRUE, found |-> {}, age |-> 0]

(* The type of every variable. *)
TypeOK ==
    /\ row \in [Ids -> Rows]
    /\ exists \subseteq known /\ known \subseteq Ids
    /\ comps \in [Ids -> SUBSET SaveNos]
    /\ cached \in [Slots -> Contents]
    /\ life \in [Slots -> Nat]
    /\ op \in [Operators -> Requests]
    /\ rd \in [Readers -> Lookups]
    /\ saves \in SaveNos
    /\ faults \in 0 .. MaxFaults
    /\ excused \subseteq Slots /\ slow \subseteq Slots
    /\ doubled \subseteq Ids
    /\ quiet \in 0 .. Settled

Init ==
    /\ \E i \in Ids, k \in Keys :
         /\ row = [j \in Ids |-> IF j = i THEN [key |-> k, ver |-> 1] ELSE Blank]
         /\ exists = {i}
         /\ comps = [j \in Ids |-> IF j = i THEN {1} ELSE {}]
    /\ known = exists
    /\ cached = [s \in Slots |-> {}]
    /\ life = [s \in Slots |-> 0]
    /\ op = [a \in Operators |-> NoRequest]
    /\ rd = [r \in Readers |-> NoLookup]
    /\ saves = 1
    /\ faults = 0
    /\ excused = {} /\ slow = {} /\ doubled = {}
    /\ quiet = 0

(* What the queries behind a slot return: the active mapping with the key, *)
(* the components with the mapping's id.                                   *)
Content(s) ==
    IF s \in Keys
    THEN {<<i, row[i].ver>> : i \in {j \in exists : row[j].key = s /\ row[j].ver # 0}}
    ELSE {<<s, n>> : n \in comps[s]}

(***************************************************************************)
(* Readers.                                                                *)
(***************************************************************************)

(* A GET that misses: of a key, or of the components of a mapping that an  *)
(* earlier lookup or list_active_for_platform has returned. A hit changes  *)
(* nothing.                                                                *)
Get(r, s) ==
    /\ rd[r].at = "idle"
    /\ s \in Keys \union known
    /\ life[s] = 0
    /\ rd' = [rd EXCEPT ![r] = [NoLookup EXCEPT !.at = "missed", !.slot = s]]
    /\ UNCHANGED <<dbVars, redisVars, op, boundVars, excused, slow, doubled, quiet>>

(* The query. A key without an active mapping is not cached. *)
Select(r) ==
    /\ rd[r].at = "missed"
    /\ LET found == Content(rd[r].slot)
       IN  rd' = [rd EXCEPT ![r] =
                    IF rd[r].slot \in Keys /\ found = {} THEN NoLookup
                    ELSE [@ EXCEPT !.at = "read", !.found = found, !.age = 0]]
    /\ UNCHANGED <<dbVars, redisVars, op, boundVars, excused, slow, doubled, quiet>>

(* A bug: the lifetime is in another unit. *)
FillLifeLong == TTL + MaxRead + 1

FillLife == TTL

(* SETEX. The fill may be outdated, or come after the task's end. *)
Fill(r) ==
    /\ rd[r].at = "read"
    /\ LET s == rd[r].slot
       IN  /\ cached' = [cached EXCEPT ![s] = rd[r].found]
           /\ life' = [life EXCEPT ![s] = FillLife]
           /\ IF rd[r].found = Content(s)
              THEN excused' = excused \ {s} /\ slow' = slow \ {s}
              ELSE /\ excused' = excused \union {s}
                   /\ slow' = IF rd[r].age > MaxRead THEN slow \union {s} ELSE slow \ {s}
    /\ rd' = [rd EXCEPT ![r] = NoLookup]
    /\ UNCHANGED <<dbVars, op, boundVars, doubled, quiet>>

(* Redis or the database fails, or the process dies. *)
ReaderFails(r) ==
    /\ rd[r].at # "idle"
    /\ rd' = [rd EXCEPT ![r] = NoLookup]
    /\ UNCHANGED <<dbVars, redisVars, op, boundVars, excused, slow, doubled, quiet>>

(***************************************************************************)
(* Operators: products_save and products_delete.                           *)
(***************************************************************************)

(* A bug: nothing is flushed before the commit, and no row locked. *)
LocksNothing(a) == FALSE

Changes(o) == o.kind = "create" \/ o.new # o.was

(* The flush of a save that changes the row locks it until the save ends. *)
Locks(a) == op[a].at = "flushed" /\ Changes(op[a])

LockedByOther(a, i) == \E b \in Operators \ {a} : op[b].id = i /\ Locks(b)

Begin(a, i, kind, was, new) ==
    /\ op[a].at = "idle"
    /\ saves < MaxSaves
    /\ saves' = saves + 1
    /\ op' = [op EXCEPT ![a] = [NoRequest EXCEPT !.at = "loaded", !.id = i, !.kind = kind,
                                    !.was = was, !.new = new, !.no = saves + 1]]
    /\ UNCHANGED <<row, exists, comps, redisVars, rd, faults, excused, slow, doubled, quiet>>

(* The form of a mapping, with or without a change of its row. *)
BeginSave(a, i) ==
    /\ i \in exists
    /\ \E k \in Keys \union {NoKey}, v \in {0, row[i].ver, saves + 1} :
         Begin(a, i, "save", row[i], [key |-> k, ver |-> v])
    /\ UNCHANGED known

(* The form of a new mapping; its id comes from a sequence. *)
BeginCreate(a, i) ==
    /\ i \in Ids \ known
    /\ \E k \in Keys \union {NoKey}, v \in {0, saves + 1} :
         Begin(a, i, "create", Blank, [key |-> k, ver |-> v])
    /\ known' = known \union {i}

BeginDelete(a, i) ==
    /\ i \in exists
    /\ Begin(a, i, "delete", row[i], row[i])
    /\ UNCHANGED known

(* Another mapping has the key, or a save that has not ended takes it: the *)
(* unique constraint fails or waits.                                       *)
KeyTaken(a, k) ==
    /\ k \notin {NoKey, op[a].was.key}
    /\ \/ \E j \in exists \ {op[a].id} : row[j].key = k
       \/ \E b \in Operators \ {a} : Locks(b) /\ op[b].id # op[a].id /\ op[b].new.key = k

(* INSERT, or UPDATE of the columns that change, which waits for the row;  *)
(* then the query of the components that are to be replaced.               *)
Flush(a) ==
    /\ op[a].at = "loaded" /\ op[a].kind # "delete"
    /\ Changes(op[a]) =>
         /\ op[a].kind = "save" => op[a].id \in exists
         /\ ~LockedByOther(a, op[a].id)
         /\ ~KeyTaken(a, op[a].new.key)
    /\ op' = [op EXCEPT ![a].at = "flushed", ![a].seen = comps[op[a].id]]
    /\ UNCHANGED <<dbVars, redisVars, rd, boundVars, excused, slow, doubled, quiet>>

(* What an UPDATE leaves in a column: a value that did not change against  *)
(* the one that was loaded is not written.                                 *)
Written(was, new, current) == IF new = was THEN current ELSE new

WrittenRow(o) ==
    [key |-> Written(o.was.key, o.new.key, row[o.id].key),
     ver |-> Written(o.was.ver, o.new.ver, row[o.id].ver)]

(* A bug: a mapping without a key is invalidated too. *)
OutdatedAlways(o) ==
    (IF o.was.key \notin {NoKey, o.new.key} THEN <<o.was.key>> ELSE <<>>) \o <<o.new.key, o.id>>

(* A bug: only the new key is invalidated. *)
OutdatedNew(o) == (IF o.new.key # NoKey THEN <<o.new.key>> ELSE <<>>) \o <<o.id>>

(* The slots to invalidate, in this order. *)
Outdated(o) ==
    (IF o.was.key \notin {NoKey, o.new.key} THEN <<o.was.key>> ELSE <<>>)
      \o (IF o.new.key # NoKey THEN <<o.new.key>> ELSE <<>>) \o <<o.id>>

(* The row has another key than the request has loaded: it invalidates the *)
(* wrong slot.                                                             *)
Moved(o) == IF row[o.id].key \in {NoKey, o.was.key} THEN {} ELSE {row[o.id].key}

Filled(S) == {s \in S : life[s] > 0}

FlushedOther(a) == \E b \in Operators \ {a} : op[b].id = op[a].id /\ op[b].at = "flushed"

Committed(a) ==
    /\ op' = [op EXCEPT ![a] = [NoRequest EXCEPT !.at = "committed", !.left = Outdated(op[a])]]
    /\ excused' = excused \union Filled(Moved(op[a]))
    /\ quiet' = 0
    /\ UNCHANGED <<known, redisVars, rd, boundVars, slow>>

(* COMMIT of a save: the row, the components that were selected deleted,   *)
(* those of the form inserted, for which the mapping must exist.           *)
SaveCommit(a) ==
    LET o == op[a]
        i == o.id
    IN  /\ o.at = "flushed"
        /\ o.kind = "save" => i \in exists
        /\ row' = [row EXCEPT ![i] = WrittenRow(o)]
        /\ exists' = exists \union {i}
        /\ comps' = [comps EXCEPT ![i] = (@ \ o.seen) \union {o.no}]
        /\ doubled' = IF ~Changes(o) /\ (comps[i] # o.seen \/ FlushedOther(a))
                      THEN doubled \union {i} ELSE doubled
        /\ Committed(a)

(* DELETE and COMMIT; the components go with the row. *)
DeleteCommit(a) ==
    LET i == op[a].id
    IN  /\ op[a].at = "loaded" /\ op[a].kind = "delete"
        /\ ~LockedByOther(a, i)
        /\ row' = [row EXCEPT ![i] = Blank]
        /\ exists' = exists \ {i}
        /\ comps' = [comps EXCEPT ![i] = {}]
        /\ Committed(a)
        /\ UNCHANGED doubled

(* A constraint, a deadlock or a lost connection: the request fails. *)
RequestFails(a) ==
    /\ op[a].at \in {"loaded", "flushed"}
    /\ op' = [op EXCEPT ![a] = NoRequest]
    /\ UNCHANGED <<dbVars, redisVars, rd, boundVars, excused, slow, doubled, quiet>>

(* DEL of one slot. *)
Invalidate(a) ==
    /\ op[a].at = "committed"
    /\ LET s == Head(op[a].left)
           rest == Tail(op[a].left)
       IN  /\ cached' = [cached EXCEPT ![s] = {}]
           /\ life' = [life EXCEPT ![s] = 0]
           /\ excused' = excused \ {s}
           /\ slow' = slow \ {s}
           /\ op' = [op EXCEPT ![a] = IF rest = <<>> THEN NoRequest ELSE [@ EXCEPT !.left = rest]]
    /\ UNCHANGED <<dbVars, rd, boundVars, doubled, quiet>>

Pending(a) == {op[a].left[n] : n \in 1 .. Len(op[a].left)}

(* Redis fails, which is only logged, or the process dies. *)
InvalidateFails(a) ==
    /\ op[a].at = "committed"
    /\ faults < MaxFaults
    /\ faults' = faults + 1
    /\ excused' = excused \union Filled(Pending(a))
    /\ op' = [op EXCEPT ![a] = NoRequest]
    /\ UNCHANGED <<dbVars, redisVars, rd, saves, slow, doubled, quiet>>

(***************************************************************************)
(* Time.                                                                   *)
(***************************************************************************)

Later(n, limit) == IF n < limit THEN n + 1 ELSE n

Tick ==
    /\ life' = [s \in Slots |-> IF life[s] > 0 THEN life[s] - 1 ELSE 0]
    /\ cached' = [s \in Slots |-> IF life[s] > 1 THEN cached[s] ELSE {}]
    /\ rd' = [r \in Readers |->
                IF rd[r].at = "read" THEN [rd[r] EXCEPT !.age = Later(@, MaxRead + 1)] ELSE rd[r]]
    /\ quiet' = Later(quiet, Settled)
    /\ excused' = {s \in excused : life[s] > 1}
    /\ slow' = {s \in slow : life[s] > 1}
    /\ UNCHANGED <<dbVars, op, boundVars, doubled>>

Request(a) ==
    \/ \E i \in Ids : BeginSave(a, i) \/ BeginCreate(a, i) \/ BeginDelete(a, i)
    \/ Flush(a) \/ SaveCommit(a) \/ DeleteCommit(a)
    \/ RequestFails(a) \/ Invalidate(a) \/ InvalidateFails(a)

Lookup(r) == (\E s \in Slots : Get(r, s)) \/ Select(r) \/ Fill(r) \/ ReaderFails(r)

Next == (\E a \in Operators : Request(a)) \/ (\E r \in Readers : Lookup(r)) \/ Tick

Spec == Init /\ [][Next]_vars

(***************************************************************************)
(* Properties.                                                             *)
(***************************************************************************)

Outdates(s) == life[s] > 0 /\ cached[s] # Content(s)

(* What is cached is what the database has, or the request that changed it *)
(* is still to delete it; excused are the fill of a reader whose query is  *)
(* older than the change, a DEL that failed, and a request that did not    *)
(* see that another one had moved the mapping to another key.              *)
CacheCoherent ==
    \A s \in Slots : Outdates(s) => s \in excused \/ \E a \in Operators : s \in Pending(a)

(* Whatever failed or raced, nothing outdated is cached a lifetime of an   *)
(* entry and the time of a task after the last change, but for the fill of *)
(* a coroutine that outlived its task.                                     *)
FreshAfterTTL == quiet = Settled => \A s \in Slots : Outdates(s) => s \in slow

(* The components of a mapping are those of one save, although requests    *)
(* overlap, unless one of them changed no column of the row and so locked  *)
(* nothing.                                                                *)
ComponentsOfOneSave == \A i \in exists \ doubled : Cardinality(comps[i]) = 1

=============================================================================
