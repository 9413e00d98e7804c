------------------------- MODULE MappingCacheProofs -------------------------
(***************************************************************************)
(* TLAPS proofs about MappingCache, for any requests, readers, keys and    *)
(* ids, any lifetime of an entry and any value of the bounds.              *)
(***************************************************************************)
EXTENDS MappingCache, FiniteSetTheorems, SequenceTheorems, TLAPS

(* A request has slots left to invalidate exactly after its commit, and    *)
(* until then an id that was given out.                                    *)
Shape ==
    \A a \in Operators :
        /\ op[a].at = "committed" <=> op[a].left # <<>>
        /\ op[a].at \in {"loaded", "flushed"} => op[a].id \in known

TInv == TypeOK /\ Shape

(* The values of requests and readers at rest have their types. *)
LEMMA IdleTypes == Blank \in Rows /\ NoRequest \in Requests /\ NoLookup \in Lookups
<1>1. Blank \in Rows
  BY MappingCacheAssumption DEF Blank, Rows, SaveNos
<1>2. (CHOOSE i \in Ids : TRUE) \in Ids
  BY MappingCacheAssumption
<1>3. NoRequest \in Requests
  BY <1>1, <1>2, MappingCacheAssumption DEF NoRequest, Requests, SaveNos, Slots
<1>4. NoLookup \in Lookups
  BY <1>2, MappingCacheAssumption DEF NoLookup, Lookups, Slots, Contents
<1> QED
  BY <1>1, <1>3, <1>4

(* The elements of a sequence. *)
Elements(s) == {s[n] : n \in 1 .. Len(s)}

(* A concatenation has the elements of both sequences. *)
LEMMA ElementsOfConcat ==
    ASSUME NEW S, NEW s \in Seq(S), NEW t \in Seq(S)
    PROVE  /\ s \o t \in Seq(S)
           /\ Len(s \o t) = Len(s) + Len(t)
           /\ Elements(s \o t) = Elements(s) \union Elements(t)
<1>1. /\ Len(s) \in Nat /\ Len(t) \in Nat
      /\ s \o t \in Seq(S) /\ Len(s \o t) = Len(s) + Len(t)
      /\ \A n \in 1 .. Len(s) + Len(t) :
           (s \o t)[n] = IF n <= Len(s) THEN s[n] ELSE t[n - Len(s)]
  BY ConcatProperties, LenProperties
<1>2. ASSUME NEW x \in Elements(s \o t) PROVE x \in Elements(s) \union Elements(t)
  <2>1. PICK n \in 1 .. Len(s) + Len(t) : x = (s \o t)[n]
    BY <1>1, <1>2 DEF Elements
  <2>2. CASE n <= Len(s)
    <3>1. n \in 1 .. Len(s) /\ x = s[n]
      BY <1>1, <2>1, <2>2
    <3> QED
      BY <3>1 DEF Elements
  <2>3. CASE n > Len(s)
    <3>1. n - Len(s) \in 1 .. Len(t) /\ x = t[n - Len(s)]
      BY <1>1, <2>1, <2>3
    <3> QED
      BY <3>1 DEF Elements
  <2> QED
    BY <1>1, <2>2, <2>3
<1>3. ASSUME NEW x \in Elements(s) PROVE x \in Elements(s \o t)
  <2>1. PICK n \in 1 .. Len(s) : x = s[n]
    BY <1>3 DEF Elements
  <2>2. n \in 1 .. Len(s) + Len(t) /\ (s \o t)[n] = x
    BY <1>1, <2>1
  <2> QED
    BY <1>1, <2>2 DEF Elements
<1>4. ASSUME NEW x \in Elements(t) PROVE x \in Elements(s \o t)
  <2>1. PICK n \in 1 .. Len(t) : x = t[n]
    BY <1>4 DEF Elements
  <2> DEFINE m == Len(s) + n
  <2>2. m \in 1 .. Len(s) + Len(t) /\ ~(m <= Len(s)) /\ m - Len(s) = n
    BY <1>1, <2>1
  <2>3. (s \o t)[m] = x
    BY <1>1, <2>1, <2>2
  <2> QED
    BY <1>1, <2>2, <2>3 DEF Elements
<1> QED
  BY <1>1, <1>2, <1>3, <1>4

(* A sequence of no or one element. *)
LEMMA ElementsOfShort ==
    ASSUME NEW S, NEW x \in S
    PROVE  /\ <<>> \in Seq(S) /\ Len(<<>>) = 0 /\ Elements(<<>>) = {}
           /\ <<x>> \in Seq(S) /\ Len(<<x>>) = 1 /\ Elements(<<x>>) = {x}
BY DEF Elements

(* What a request invalidates: the key it has loaded, the one it has       *)
(* written, and the components.                                            *)
LEMMA OutdatedSlots ==
    ASSUME NEW o \in Requests
    PROVE  /\ Outdated(o) \in Seq(Slots)
           /\ Outdated(o) # <<>>
           /\ Elements(Outdated(o)) = ({o.was.key, o.new.key} \ {NoKey}) \union {o.id}
<1>1. /\ o.id \in Slots
      /\ o.was.key \in Slots \union {NoKey} /\ o.new.key \in Slots \union {NoKey}
  BY DEF Requests, Rows, Slots
<1> DEFINE old == IF o.was.key \notin {NoKey, o.new.key} THEN <<o.was.key>> ELSE <<>>
           new == IF o.new.key # NoKey THEN <<o.new.key>> ELSE <<>>
<1>2. Outdated(o) = (old \o new) \o <<o.id>>
  BY DEF Outdated
<1>3. /\ old \in Seq(Slots) /\ Len(old) \in Nat
      /\ Elements(old) = {o.was.key} \ {NoKey, o.new.key}
  <2>1. CASE o.was.key \notin {NoKey, o.new.key}
    <3>1. old = <<o.was.key>> /\ o.was.key \in Slots
      BY <1>1, <2>1
    <3>2. {o.was.key} \ {NoKey, o.new.key} = {o.was.key}
      BY <2>1
    <3> QED
      BY <3>1, <3>2, ElementsOfShort
  <2>2. CASE o.was.key \in {NoKey, o.new.key}
    <3>1. old = <<>> /\ {o.was.key} \ {NoKey, o.new.key} = {}
      BY <2>2
    <3> QED
      BY <1>1, <3>1, ElementsOfShort
  <2> QED
    BY <2>1, <2>2
<1>4. /\ new \in Seq(Slots) /\ Len(new) \in Nat
      /\ Elements(new) = {o.new.key} \ {NoKey}
  <2>1. CASE o.new.key # NoKey
    <3>1. new = <<o.new.key>> /\ o.new.key \in Slots
      BY <1>1, <2>1
    <3>2. {o.new.key} \ {NoKey} = {o.new.key}
      BY <2>1
    <3> QED
      BY <3>1, <3>2, ElementsOfShort
  <2>2. CASE o.new.key = NoKey
    <3>1. new = <<>> /\ {o.new.key} \ {NoKey} = {}
      BY <2>2
    <3> QED
      BY <1>1, <3>1, ElementsOfShort
  <2> QED
    BY <2>1, <2>2
<1>5. /\ <<o.id>> \in Seq(Slots) /\ Len(<<o.id>>) = 1 /\ Elements(<<o.id>>) = {o.id}
  BY <1>1, ElementsOfShort
<1> HIDE DEF old, new
<1>6. /\ old \o new \in Seq(Slots) /\ Len(old \o new) = Len(old) + Len(new)
      /\ Elements(old \o new) = Elements(old) \union Elements(new)
  BY <1>3, <1>4, ElementsOfConcat
<1> DEFINE both == old \o new
           one == <<o.id>>
<1> HIDE DEF both, one
<1>7. /\ Outdated(o) \in Seq(Slots) /\ Len(Outdated(o)) = Len(both) + 1
      /\ Elements(Outdated(o)) = Elements(both) \union {o.id}
  <2>1. both \in Seq(Slots) /\ one \in Seq(Slots)
    BY <1>5, <1>6 DEF both, one
  <2>2. Len(one) = 1 /\ Elements(one) = {o.id}
    BY <1>5 DEF one
  <2>3. /\ both \o one \in Seq(Slots) /\ Len(both \o one) = Len(both) + Len(one)
        /\ Elements(both \o one) = Elements(both) \union Elements(one)
    BY <2>1, ElementsOfConcat
  <2>4. Outdated(o) = both \o one
    BY <1>2 DEF both, one
  <2> QED
    BY <2>2, <2>3, <2>4
<1>8. Outdated(o) # <<>>
  <2>1. Len(both) \in Nat
    BY <1>3, <1>4, <1>6 DEF both
  <2> QED
    BY <1>7, <2>1
<1> QED
  BY <1>3, <1>4, <1>6, <1>7, <1>8 DEF both

(* A query returns what a slot may hold. *)
LEMMA ContentType ==
    ASSUME TypeOK, NEW s \in Slots
    PROVE  Content(s) \in Contents
<1>1. CASE s \in Keys
  BY <1>1 DEF TypeOK, Content, Contents, Rows
<1>2. CASE s \notin Keys
  BY <1>2 DEF TypeOK, Content, Contents, Slots
<1> QED
  BY <1>1, <1>2

(* The row that a save leaves behind. *)
LEMMA WrittenType ==
    ASSUME TypeOK, NEW o \in Requests
    PROVE  WrittenRow(o) \in Rows
<1>1. o.was \in Rows /\ o.new \in Rows /\ row[o.id] \in Rows
  BY DEF TypeOK, Requests
<1> QED
  BY <1>1 DEF WrittenRow, Written, Rows

(* The database is as Init says, nothing is cached and nobody at work. *)
LEMMA TypeInit == Init => TInv
<1> SUFFICES ASSUME Init PROVE TypeOK /\ Shape
  BY DEF TInv
<1> USE MappingCacheAssumption
<1>1. row \in [Ids -> Rows] /\ exists \subseteq Ids
  <2>1. PICK i \in Ids, k \in Keys :
          /\ row = [j \in Ids |-> IF j = i THEN [key |-> k, ver |-> 1] ELSE Blank]
          /\ exists = {i}
    BY DEF Init
  <2>2. 1 \in SaveNos
    BY DEF SaveNos, Init
  <2> QED
    BY <2>1, <2>2, IdleTypes DEF Rows
<1>2. /\ comps \in [Ids -> SUBSET SaveNos]
      /\ saves \in SaveNos /\ faults \in 0 .. MaxFaults /\ quiet \in 0 .. Settled
  BY DEF Init, SaveNos, Settled
<1>3. /\ cached \in [Slots -> Contents] /\ life \in [Slots -> Nat]
      /\ known = exists /\ excused = {} /\ slow = {} /\ doubled = {}
  BY DEF Init, Contents
<1>4. /\ op \in [Operators -> Requests] /\ rd \in [Readers -> Lookups]
  BY IdleTypes DEF Init
<1>5. Shape
  BY DEF Init, Shape, NoRequest
<1> QED
  BY <1>1, <1>2, <1>3, <1>4, <1>5 DEF TypeOK

(* A request is put into another state, which keeps its type and shape. *)
LEMMA RequestType ==
    ASSUME TInv, NEW a \in Operators, NEW o \in Requests, op' = [op EXCEPT ![a] = o],
           known \subseteq known',
           o.at = "committed" <=> o.left # <<>>,
           o.at \in {"loaded", "flushed"} => o.id \in known'
    PROVE  op' \in [Operators -> Requests] /\ Shape'
BY DEF TInv, TypeOK, Shape

(* The head of a sequence and the elements of its tail are its elements. *)
LEMMA ElementsOfTail ==
    ASSUME NEW S, NEW s \in Seq(S), s # <<>>
    PROVE  /\ Head(s) \in S /\ Tail(s) \in Seq(S)
           /\ Elements(s) = {Head(s)} \union Elements(Tail(s))
<1>1. /\ Len(s) \in Nat \ {0} /\ Head(s) = s[1] /\ Head(s) \in S
      /\ Tail(s) \in Seq(S) /\ Len(Tail(s)) = Len(s) - 1
      /\ \A n \in 1 .. Len(s) - 1 : Tail(s)[n] = s[n + 1]
  BY HeadTailProperties, EmptySeq, LenProperties
<1>2. ASSUME NEW x \in Elements(s) PROVE x \in {Head(s)} \union Elements(Tail(s))
  <2>1. PICK n \in 1 .. Len(s) : x = s[n]
    BY <1>2 DEF Elements
  <2>2. CASE n = 1
    BY <1>1, <2>1, <2>2
  <2>3. CASE n # 1
    <3>1. n - 1 \in 1 .. Len(Tail(s)) /\ Tail(s)[n - 1] = x
      BY <1>1, <2>1, <2>3
    <3> QED
      BY <3>1 DEF Elements
  <2> QED
    BY <2>2, <2>3
<1>3. Head(s) \in Elements(s)
  BY <1>1 DEF Elements
<1>4. ASSUME NEW x \in Elements(Tail(s)) PROVE x \in Elements(s)
  <2>1. PICK n \in 1 .. Len(s) - 1 : x = Tail(s)[n]
    BY <1>1, <1>4 DEF Elements
  <2>2. n + 1 \in 1 .. Len(s) /\ s[n + 1] = x
    BY <1>1, <2>1
  <2> QED
    BY <2>2 DEF Elements
<1> QED
  BY <1>1, <1>2, <1>3, <1>4

(* A request begins with the form of a mapping. *)
LEMMA BeginType ==
    ASSUME TInv, NEW a \in Operators, NEW i \in Ids, NEW kind \in {"save", "create", "delete"},
           NEW was \in Rows, NEW new \in Rows, Begin(a, i, kind, was, new),
           known \subseteq known', known' \subseteq Ids, i \in known'
    PROVE  TInv'
<1> USE DEF redisVars
<1>1. saves' \in SaveNos /\ saves + 1 \in SaveNos
  BY MappingCacheAssumption DEF TInv, TypeOK, Begin, SaveNos
<1> DEFINE o == [NoRequest EXCEPT !.at = "loaded", !.id = i, !.kind = kind,
                                  !.was = was, !.new = new, !.no = saves + 1]
<1>2. o \in Requests /\ o.at = "loaded" /\ o.id = i /\ o.left = <<>>
  BY <1>1, IdleTypes DEF NoRequest, Requests
<1>3. op' = [op EXCEPT ![a] = o]
  BY DEF Begin
<1> HIDE DEF o
<1>4. op' \in [Operators -> Requests] /\ Shape'
  BY <1>2, <1>3, RequestType
<1> QED
  BY <1>1, <1>4 DEF TInv, TypeOK, Begin

(* What the commit does with the request, the history and the clock. *)
LEMMA CommittedType ==
    ASSUME TInv, NEW a \in Operators, op[a].at \in {"loaded", "flushed"}, Committed(a)
    PROVE  /\ op' \in [Operators -> Requests] /\ Shape'
           /\ excused' \subseteq Slots /\ quiet' \in 0 .. Settled
<1> DEFINE o == [NoRequest EXCEPT !.at = "committed", !.left = Outdated(op[a])]
<1>1. op[a] \in Requests
  BY DEF TInv, TypeOK
<1>2. o \in Requests /\ o.at = "committed" /\ o.left # <<>>
  BY <1>1, IdleTypes, OutdatedSlots DEF NoRequest, Requests
<1>3. op' = [op EXCEPT ![a] = o]
  BY DEF Committed
<1> HIDE DEF o
<1>4. op' \in [Operators -> Requests] /\ Shape'
  BY <1>2, <1>3, RequestType DEF Committed
<1>5. Moved(op[a]) \subseteq Slots
  BY <1>1 DEF TInv, TypeOK, Moved, Requests, Rows, Slots
<1>6. excused' \subseteq Slots /\ quiet' \in 0 .. Settled
  BY <1>5, MappingCacheAssumption DEF TInv, TypeOK, Committed, Filled, Settled
<1> QED
  BY <1>4, <1>6

(* Every step keeps the types and the shape of the requests. *)
LEMMA TypeStep == TInv /\ [Next]_vars => TInv'
<1> SUFFICES ASSUME TInv, [Next]_vars PROVE TInv'
  OBVIOUS
<1> USE MappingCacheAssumption DEF dbVars, redisVars, boundVars
<1>0. TypeOK /\ Shape
  BY DEF TInv
<1>1. ASSUME NEW a \in Operators, NEW i \in Ids, BeginSave(a, i) PROVE TInv'
  <2>1. PICK k \in Keys \union {NoKey}, v \in {0, row[i].ver, saves + 1} :
          Begin(a, i, "save", row[i], [key |-> k, ver |-> v])
    BY <1>1 DEF BeginSave
  <2>2. row[i] \in Rows /\ [key |-> k, ver |-> v] \in Rows
    BY <1>0, <2>1 DEF TypeOK, Rows, SaveNos, Begin
  <2> QED
    BY <1>0, <1>1, <2>1, <2>2, BeginType DEF BeginSave, TypeOK
<1>2. ASSUME NEW a \in Operators, NEW i \in Ids, BeginCreate(a, i) PROVE TInv'
  <2>1. PICK k \in Keys \union {NoKey}, v \in {0, saves + 1} :
          Begin(a, i, "create", Blank, [key |-> k, ver |-> v])
    BY <1>2 DEF BeginCreate
  <2>2. [key |-> k, ver |-> v] \in Rows
    BY <1>0, <2>1 DEF TypeOK, Rows, SaveNos, Begin
  <2>3. known \subseteq known' /\ known' \subseteq Ids /\ i \in known'
    BY <1>0, <1>2 DEF BeginCreate, TypeOK
  <2> QED
    BY <2>1, <2>2, <2>3, IdleTypes, BeginType
<1>3. ASSUME NEW a \in Operators, NEW i \in Ids, BeginDelete(a, i) PROVE TInv'
  BY <1>0, <1>3, BeginType DEF BeginDelete, TypeOK
<1>4. ASSUME NEW a \in Operators, Flush(a) PROVE TInv'
  <2> DEFINE o == [op[a] EXCEPT !.at = "flushed", !.seen = comps[op[a].id]]
  <2>1. op[a] \in Requests /\ op[a].at = "loaded" /\ op[a].id \in Ids
    BY <1>0, <1>4 DEF TypeOK, Flush, Requests
  <2>2. comps[op[a].id] \in SUBSET SaveNos
    BY <1>0, <2>1 DEF TypeOK
  <2>3. o \in Requests /\ o.at = "flushed" /\ o.left = op[a].left /\ o.id = op[a].id
    BY <2>1, <2>2 DEF Requests
  <2>4. op' = [op EXCEPT ![a] = o]
    BY <1>0, <1>4 DEF Flush, TypeOK
  <2>5. o.left = <<>> /\ o.id \in known'
    BY <1>0, <1>4, <2>1, <2>3 DEF Shape, Flush
  <2> HIDE DEF o
  <2>6. op' \in [Operators -> Requests] /\ Shape'
    BY <1>4, <2>3, <2>4, <2>5, RequestType DEF Flush
  <2> QED
    BY <1>0, <1>4, <2>6 DEF TInv, TypeOK, Flush
<1>5. ASSUME NEW a \in Operators, SaveCommit(a) PROVE TInv'
  <2>1. op[a] \in Requests /\ op[a].id \in known /\ op[a].at = "flushed"
    BY <1>0, <1>5 DEF TypeOK, Shape, SaveCommit
  <2>2. /\ op' \in [Operators -> Requests] /\ Shape'
        /\ excused' \subseteq Slots /\ quiet' \in 0 .. Settled
    BY <1>5, <2>1, CommittedType DEF SaveCommit
  <2>3. WrittenRow(op[a]) \in Rows /\ op[a].id \in Ids /\ op[a].no \in SaveNos
    BY <1>0, <2>1, WrittenType DEF Requests
  <2>4. /\ row' \in [Ids -> Rows] /\ exists' \subseteq known' /\ known' \subseteq Ids
        /\ comps' \in [Ids -> SUBSET SaveNos] /\ doubled' \subseteq Ids
    BY <1>0, <1>5, <2>1, <2>3 DEF TypeOK, SaveCommit, Committed
  <2> QED
    BY <1>0, <1>5, <2>2, <2>4 DEF TInv, TypeOK, SaveCommit, Committed
<1>6. ASSUME NEW a \in Operators, DeleteCommit(a) PROVE TInv'
  <2>1. op[a] \in Requests /\ op[a].at = "loaded" /\ op[a].id \in Ids
    BY <1>0, <1>6 DEF TypeOK, DeleteCommit, Requests
  <2>2. /\ op' \in [Operators -> Requests] /\ Shape'
        /\ excused' \subseteq Slots /\ quiet' \in 0 .. Settled
    BY <1>6, <2>1, CommittedType DEF DeleteCommit
  <2>3. /\ row' \in [Ids -> Rows] /\ exists' \subseteq known' /\ known' \subseteq Ids
        /\ comps' \in [Ids -> SUBSET SaveNos]
    BY <1>0, <1>6, <2>1, IdleTypes DEF TypeOK, DeleteCommit, Committed
  <2> QED
    BY <1>0, <1>6, <2>2, <2>3 DEF TInv, TypeOK, DeleteCommit, Committed
<1>7. ASSUME NEW a \in Operators, RequestFails(a) PROVE TInv'
  <2>1. NoRequest.at = "idle" /\ NoRequest.left = <<>>
    BY DEF NoRequest
  <2>2. op' \in [Operators -> Requests] /\ Shape'
    BY <1>7, <2>1, IdleTypes, RequestType DEF RequestFails
  <2> QED
    BY <1>0, <1>7, <2>2 DEF TInv, TypeOK, RequestFails
<1>8. ASSUME NEW a \in Operators, Invalidate(a) PROVE TInv'
  <2> DEFINE s == Head(op[a].left)
             rest == Tail(op[a].left)
             o == [op[a] EXCEPT !.left = rest]
  <2>1. /\ op[a] \in Requests /\ op[a].at = "committed"
        /\ op[a].left \in Seq(Slots) /\ op[a].left # <<>>
    BY <1>0, <1>8 DEF TypeOK, Shape, Invalidate, Requests
  <2>2. s \in Slots /\ rest \in Seq(Slots)
    BY <2>1, ElementsOfTail
  <2> HIDE DEF s, rest
  <2>3. o \in Requests /\ o.at = "committed" /\ o.left = rest
    BY <2>1, <2>2 DEF Requests
  <2>4. op' = [op EXCEPT ![a] = IF rest = <<>> THEN NoRequest ELSE o]
    BY <1>0, <1>8 DEF Invalidate, TypeOK, rest
  <2> HIDE DEF o
  <2>5. op' \in [Operators -> Requests] /\ Shape'
    <3>1. NoRequest.at = "idle" /\ NoRequest.left = <<>>
      BY DEF NoRequest
    <3>2. CASE rest = <<>>
      BY <1>8, <2>4, <3>1, <3>2, IdleTypes, RequestType DEF Invalidate
    <3>3. CASE rest # <<>>
      BY <1>8, <2>3, <2>4, <3>3, RequestType DEF Invalidate
    <3> QED
      BY <3>2, <3>3
  <2>6. /\ cached' = [cached EXCEPT ![s] = {}] /\ life' = [life EXCEPT ![s] = 0]
        /\ excused' \subseteq excused /\ slow' \subseteq slow
    BY <1>8 DEF Invalidate, s
  <2>7. cached' \in [Slots -> Contents] /\ life' \in [Slots -> Nat]
    BY <1>0, <2>2, <2>6 DEF TypeOK, Contents
  <2> QED
    BY <1>0, <1>8, <2>5, <2>6, <2>7 DEF TInv, TypeOK, Invalidate
<1>9. ASSUME NEW a \in Operators, InvalidateFails(a) PROVE TInv'
  <2>1. NoRequest.at = "idle" /\ NoRequest.left = <<>>
    BY DEF NoRequest
  <2>2. op' \in [Operators -> Requests] /\ Shape'
    BY <1>9, <2>1, IdleTypes, RequestType DEF InvalidateFails
  <2>3. Pending(a) \subseteq Slots
    BY <1>0 DEF Pending, TypeOK, Requests
  <2>4. excused' \subseteq Slots /\ faults' \in 0 .. MaxFaults
    BY <1>0, <1>9, <2>3 DEF TypeOK, InvalidateFails, Filled
  <2> QED
    BY <1>0, <1>9, <2>2, <2>4 DEF TInv, TypeOK, InvalidateFails
<1>10. ASSUME NEW r \in Readers, NEW s \in Slots, Get(r, s) PROVE TInv'
  <2>1. [NoLookup EXCEPT !.at = "missed", !.slot = s] \in Lookups
    BY IdleTypes DEF NoLookup, Lookups
  <2>2. rd' \in [Readers -> Lookups]
    BY <1>0, <1>10, <2>1 DEF TypeOK, Get
  <2> QED
    BY <1>0, <1>10, <2>2 DEF TInv, TypeOK, Shape, Get
<1>11. ASSUME NEW r \in Readers, Select(r) PROVE TInv'
  <2> DEFINE found == Content(rd[r].slot)
             l == [rd[r] EXCEPT !.at = "read", !.found = found, !.age = 0]
  <2>1. rd[r] \in Lookups /\ rd[r].slot \in Slots
    BY <1>0 DEF TypeOK, Lookups
  <2>2. found \in Contents
    BY <1>0, <2>1, ContentType
  <2> HIDE DEF found
  <2>3. l \in Lookups
    <3>1. 0 \in 0 .. MaxRead + 1
      OBVIOUS
    <3> QED
      BY <2>1, <2>2, <3>1 DEF Lookups
  <2>4. rd' = [rd EXCEPT ![r] = IF rd[r].slot \in Keys /\ found = {} THEN NoLookup ELSE l]
    BY <1>0, <1>11 DEF Select, TypeOK, found
  <2> HIDE DEF l
  <2>5. rd' \in [Readers -> Lookups]
    BY <1>0, <2>3, <2>4, IdleTypes DEF TypeOK
  <2> QED
    BY <1>0, <1>11, <2>5 DEF TInv, TypeOK, Shape, Select
<1>12. ASSUME NEW r \in Readers, Fill(r) PROVE TInv'
  <2>1. rd[r].slot \in Slots /\ rd[r].found \in Contents
    BY <1>0 DEF TypeOK, Lookups
  <2>2. /\ cached' \in [Slots -> Contents] /\ life' \in [Slots -> Nat]
        /\ excused' \subseteq Slots /\ slow' \subseteq Slots
    BY <1>0, <1>12, <2>1 DEF TypeOK, Fill, FillLife
  <2>3. rd' \in [Readers -> Lookups]
    BY <1>0, <1>12, IdleTypes DEF TypeOK, Fill
  <2> QED
    BY <1>0, <1>12, <2>2, <2>3 DEF TInv, TypeOK, Shape, Fill
<1>13. ASSUME NEW r \in Readers, ReaderFails(r) PROVE TInv'
  <2>1. rd' \in [Readers -> Lookups]
    BY <1>0, <1>13, IdleTypes DEF TypeOK, ReaderFails
  <2> QED
    BY <1>0, <1>13, <2>1 DEF TInv, TypeOK, Shape, ReaderFails
<1>14. ASSUME Tick PROVE TInv'
  <2>1. ASSUME NEW r \in Readers
        PROVE  [rd[r] EXCEPT !.age = Later(@, MaxRead + 1)] \in Lookups
    BY <1>0 DEF TypeOK, Lookups, Later
  <2>2. rd' \in [Readers -> Lookups]
    BY <1>0, <1>14, <2>1 DEF TypeOK, Tick
  <2>3. /\ cached' \in [Slots -> Contents] /\ life' \in [Slots -> Nat]
        /\ excused' \subseteq Slots /\ slow' \subseteq Slots
    BY <1>0, <1>14 DEF TypeOK, Tick, Contents
  <2>4. quiet' \in 0 .. Settled
    BY <1>0, <1>14 DEF TypeOK, Tick, Later, Settled
  <2> QED
    BY <1>0, <1>14, <2>2, <2>3, <2>4 DEF TInv, TypeOK, Shape, Tick
<1>15. ASSUME UNCHANGED vars PROVE TInv'
  BY <1>0, <1>15 DEF TInv, TypeOK, Shape, vars, Settled
<1> QED
  BY <1>1, <1>2, <1>3, <1>4, <1>5, <1>6, <1>7, <1>8, <1>9, <1>10, <1>11, <1>12, <1>13, <1>14,
     <1>15 DEF Next, Request, Lookup

(* Every variable keeps its type, in every state that can be reached. *)
THEOREM TypeCorrect == Spec => []TypeOK
<1>1. TInv => TypeOK
  BY DEF TInv
<1> QED
  BY <1>1, TypeInit, TypeStep, PTL DEF Spec

(***************************************************************************)
(* CacheCoherent is inductive.                                             *)
(***************************************************************************)

(* A step that changes neither the database nor the cache, and no request  *)
(* that has committed, keeps the cache coherent.                           *)
LEMMA CoherentKept ==
    ASSUME CacheCoherent, UNCHANGED <<row, exists, comps, cached, life>>,
           excused \subseteq excused',
           \A a \in Operators : op[a].left # <<>> =>
              op'[a].left = op[a].left \/ Filled(Pending(a)) \subseteq excused'
    PROVE  CacheCoherent'
<1> SUFFICES ASSUME NEW s \in Slots, Outdates(s)', s \notin excused'
             PROVE  \E a \in Operators : s \in Pending(a)'
  BY DEF CacheCoherent
<1>1. Outdates(s) /\ s \notin excused /\ life[s] > 0
  BY DEF Outdates, Content
<1>2. PICK a \in Operators : s \in Pending(a)
  BY <1>1 DEF CacheCoherent
<1>3. op[a].left # <<>>
  BY <1>2 DEF Pending
<1>4. s \in Filled(Pending(a))
  BY <1>1, <1>2 DEF Filled
<1>5. op'[a].left = op[a].left
  BY <1>3, <1>4
<1> QED
  BY <1>2, <1>5 DEF Pending

(* A commit outdates the components of its mapping and the keys the row    *)
(* had and has; it invalidates those that no other request has moved.      *)
LEMMA CommittedCoherent ==
    ASSUME TInv, CacheCoherent, NEW a \in Operators, op[a].at \in {"loaded", "flushed"},
           Committed(a),
           \A s \in Slots : Content(s)' # Content(s) =>
              \/ s = op[a].id
              \/ s \in Keys /\ s \in {row[op[a].id].key, WrittenRow(op[a]).key}
    PROVE  CacheCoherent'
<1> DEFINE o == op[a]
<1>1. TypeOK /\ Shape /\ o \in Requests /\ o.left = <<>>
  BY DEF TInv, TypeOK, Shape
<1>2. UNCHANGED <<cached, life>> /\ excused' = excused \union Filled(Moved(o))
  BY DEF Committed, redisVars
<1>3. op' = [op EXCEPT ![a] = op'[a]] /\ op'[a].left = Outdated(o)
  BY <1>1 DEF Committed, TypeOK, NoRequest
<1>4. Pending(a)' = Elements(Outdated(o))
  BY <1>3 DEF Pending, Elements
<1>5. Pending(a)' = ({o.was.key, o.new.key} \ {NoKey}) \union {o.id}
  BY <1>1, <1>4, OutdatedSlots
<1> SUFFICES ASSUME NEW s \in Slots, Outdates(s)', s \notin excused'
             PROVE  \E b \in Operators : s \in Pending(b)'
  BY DEF CacheCoherent
<1>6. s \notin Filled(Moved(o)) /\ life[s] > 0 /\ s \notin Moved(o)
  BY <1>2 DEF Outdates, Filled
<1>7. CASE Content(s)' = Content(s)
  <2>1. Outdates(s) /\ s \notin excused
    BY <1>2, <1>7 DEF Outdates
  <2>2. PICK b \in Operators : s \in Pending(b)
    BY <2>1 DEF CacheCoherent
  <2>3. b # a
    BY <1>1, <2>2 DEF Pending
  <2>4. op'[b] = op[b]
    BY <1>1, <1>3, <2>3 DEF TypeOK
  <2> QED
    BY <2>2, <2>4 DEF Pending
<1>8. CASE Content(s)' # Content(s)
  <2>1. CASE s = o.id
    BY <1>5, <2>1
  <2>2. CASE s \in Keys /\ s \in {row[o.id].key, WrittenRow(o).key}
    <3>1. s # NoKey
      BY <2>2, MappingCacheAssumption
    <3>2. WrittenRow(o).key \in {o.new.key, row[o.id].key}
      BY DEF WrittenRow, Written
    <3>3. s = row[o.id].key => s = o.was.key
      BY <1>6, <3>1 DEF Moved
    <3>4. s \in {o.was.key, o.new.key}
      BY <2>2, <3>2, <3>3
    <3> QED
      BY <1>5, <3>1, <3>4
  <2> QED
    BY <1>8, <2>1, <2>2
<1> QED
  BY <1>7, <1>8

(* Every step keeps the cache coherent. *)
LEMMA CoherentStep == TInv /\ CacheCoherent /\ [Next]_vars => CacheCoherent'
<1> SUFFICES ASSUME TInv, CacheCoherent, [Next]_vars PROVE CacheCoherent'
  OBVIOUS
<1> USE DEF dbVars, redisVars, boundVars
<1>0. TypeOK /\ Shape
  BY DEF TInv
<1>1. ASSUME NEW a \in Operators, NEW i, NEW kind, NEW was, NEW new,
             Begin(a, i, kind, was, new)
      PROVE  CacheCoherent'
  <2>1. op[a].left = <<>>
    BY <1>0, <1>1 DEF Shape, Begin
  <2>2. \A b \in Operators : b # a => op'[b] = op[b]
    BY <1>0, <1>1 DEF TypeOK, Begin
  <2> QED
    BY <1>1, <2>1, <2>2, CoherentKept DEF Begin
<1>2. ASSUME NEW a \in Operators, Flush(a) PROVE CacheCoherent'
  <2>1. op[a].left = <<>>
    BY <1>0, <1>2 DEF Shape, Flush
  <2>2. \A b \in Operators : b # a => op'[b] = op[b]
    BY <1>0, <1>2 DEF TypeOK, Flush
  <2> QED
    BY <1>2, <2>1, <2>2, CoherentKept DEF Flush
<1>3. ASSUME NEW a \in Operators, SaveCommit(a) PROVE CacheCoherent'
  <2>1. op[a] \in Requests /\ op[a].id \in Ids /\ op[a].at = "flushed"
    BY <1>0, <1>3 DEF TypeOK, Requests, SaveCommit
  <2>2. ASSUME NEW s \in Slots, Content(s)' # Content(s), s # op[a].id
        PROVE  s \in Keys /\ s \in {row[op[a].id].key, WrittenRow(op[a]).key}
    <3>1. s \in Keys
      BY <1>0, <1>3, <2>1, <2>2 DEF TypeOK, SaveCommit, Content, Slots
    <3>2. \A j \in Ids : j # op[a].id => row'[j] = row[j] /\ (j \in exists' <=> j \in exists)
      BY <1>0, <1>3, <2>1 DEF TypeOK, SaveCommit
    <3>3. row'[op[a].id] = WrittenRow(op[a])
      BY <1>0, <1>3, <2>1 DEF TypeOK, SaveCommit
    <3>4. exists \subseteq Ids /\ exists' \subseteq Ids
      BY <1>0, <1>3, <2>1 DEF TypeOK, SaveCommit
    <3>5. ASSUME s \notin {row[op[a].id].key, WrittenRow(op[a]).key} PROVE FALSE
      <4>1. \A j \in Ids : (j \in exists /\ row[j].key = s /\ row[j].ver # 0)
                            <=> (j \in exists' /\ row'[j].key = s /\ row'[j].ver # 0)
        BY <3>2, <3>3, <3>5
      <4>2. {j \in exists : row[j].key = s /\ row[j].ver # 0}
              = {j \in exists' : row'[j].key = s /\ row'[j].ver # 0}
        BY <3>4, <4>1
      <4>3. \A j \in {k \in exists : row[k].key = s /\ row[k].ver # 0} : row'[j] = row[j]
        BY <3>2, <3>4, <3>5
      <4>4. Content(s)' = Content(s)
        BY <3>1, <4>2, <4>3 DEF Content
      <4> QED
        BY <2>2, <4>4
    <3> QED
      BY <3>1, <3>5
  <2> QED
    BY <1>3, <2>1, <2>2, CommittedCoherent DEF SaveCommit
<1>4. ASSUME NEW a \in Operators, DeleteCommit(a) PROVE CacheCoherent'
  <2>1. op[a] \in Requests /\ op[a].id \in Ids /\ op[a].at = "loaded"
    BY <1>0, <1>4 DEF TypeOK, Requests, DeleteCommit
  <2>2. ASSUME NEW s \in Slots, Content(s)' # Content(s), s # op[a].id
        PROVE  s \in Keys /\ s = row[op[a].id].key
    <3>1. s \in Keys
      BY <1>0, <1>4, <2>1, <2>2 DEF TypeOK, DeleteCommit, Content, Slots
    <3>2. /\ \A j \in Ids : j # op[a].id => row'[j] = row[j]
          /\ exists' = exists \ {op[a].id} /\ exists \subseteq Ids
      BY <1>0, <1>4, <2>1 DEF TypeOK, DeleteCommit
    <3>3. ASSUME s # row[op[a].id].key PROVE FALSE
      <4>1. {j \in exists : row[j].key = s /\ row[j].ver # 0}
              = {j \in exists' : row'[j].key = s /\ row'[j].ver # 0}
        BY <3>2, <3>3
      <4>2. \A j \in {k \in exists : row[k].key = s /\ row[k].ver # 0} : row'[j] = row[j]
        BY <3>2, <3>3
      <4>3. Content(s)' = Content(s)
        BY <3>1, <4>1, <4>2 DEF Content
      <4> QED
        BY <2>2, <4>3
    <3> QED
      BY <3>1, <3>3
  <2> QED
    BY <1>4, <2>1, <2>2, CommittedCoherent DEF DeleteCommit
<1>5. ASSUME NEW a \in Operators, RequestFails(a) PROVE CacheCoherent'
  <2>1. op[a].left = <<>>
    BY <1>0, <1>5 DEF Shape, RequestFails
  <2>2. \A b \in Operators : b # a => op'[b] = op[b]
    BY <1>0, <1>5 DEF TypeOK, RequestFails
  <2> QED
    BY <1>5, <2>1, <2>2, CoherentKept DEF RequestFails
<1>6. ASSUME NEW a \in Operators, Invalidate(a) PROVE CacheCoherent'
  <2> DEFINE h == Head(op[a].left)
  <2>1. op[a].left \in Seq(Slots) /\ op[a].left # <<>> /\ h \in Slots
    BY <1>0, <1>6, ElementsOfTail DEF TypeOK, Requests, Shape, Invalidate
  <2>2. Pending(a) = {h} \union Elements(Tail(op[a].left))
    BY <2>1, ElementsOfTail DEF Pending, Elements
  <2>3. op'[a].left = Tail(op[a].left) /\ \A b \in Operators : b # a => op'[b] = op[b]
    <3>1. NoRequest.left = <<>>
      BY DEF NoRequest
    <3> DEFINE o == [op[a] EXCEPT !.left = Tail(op[a].left)]
    <3>2. op[a] \in Requests /\ o.left = Tail(op[a].left)
      BY <1>0 DEF TypeOK, Requests
    <3>3. op' = [op EXCEPT ![a] = IF Tail(op[a].left) = <<>> THEN NoRequest ELSE o]
      BY <1>0, <1>6 DEF TypeOK, Invalidate
    <3> HIDE DEF o
    <3> QED
      BY <1>0, <3>1, <3>2, <3>3 DEF TypeOK
  <2>4. Pending(a)' = Elements(Tail(op[a].left))
    BY <2>3 DEF Pending, Elements
  <2>5. /\ cached' = [cached EXCEPT ![h] = {}] /\ life' = [life EXCEPT ![h] = 0]
        /\ excused' = excused \ {h} /\ UNCHANGED <<row, exists, comps>>
    BY <1>6 DEF Invalidate
  <2> HIDE DEF h
  <2> SUFFICES ASSUME NEW s \in Slots, Outdates(s)', s \notin excused'
               PROVE  \E b \in Operators : s \in Pending(b)'
    BY DEF CacheCoherent
  <2>6. s # h
    BY <1>0, <2>1, <2>5 DEF Outdates, TypeOK
  <2>7. Outdates(s) /\ s \notin excused
    BY <1>0, <2>5, <2>6 DEF Outdates, TypeOK, Content
  <2>8. PICK b \in Operators : s \in Pending(b)
    BY <2>7 DEF CacheCoherent
  <2>9. s \in Pending(b)'
    <3>1. CASE b = a
      BY <2>2, <2>4, <2>6, <2>8, <3>1
    <3>2. CASE b # a
      BY <2>3, <2>8, <3>2 DEF Pending
    <3> QED
      BY <3>1, <3>2
  <2> QED
    BY <2>9
<1>7. ASSUME NEW a \in Operators, InvalidateFails(a) PROVE CacheCoherent'
  <2>1. \A b \in Operators : b # a => op'[b] = op[b]
    BY <1>0, <1>7 DEF TypeOK, InvalidateFails
  <2> QED
    BY <1>7, <2>1, CoherentKept DEF InvalidateFails
<1>8. ASSUME NEW r \in Readers, (\E s \in Slots : Get(r, s)) \/ Select(r) \/ ReaderFails(r)
      PROVE  CacheCoherent'
  <2>1. UNCHANGED <<row, exists, comps, cached, life, op, excused>>
    BY <1>8 DEF Get, Select, ReaderFails
  <2> QED
    BY <2>1, CoherentKept
<1>9. ASSUME NEW r \in Readers, Fill(r) PROVE CacheCoherent'
  <2> DEFINE f == rd[r].slot
  <2>1. /\ cached' = [cached EXCEPT ![f] = rd[r].found] /\ life' = [life EXCEPT ![f] = FillLife]
        /\ excused' = IF rd[r].found = Content(f) THEN excused \ {f} ELSE excused \union {f}
        /\ UNCHANGED <<row, exists, comps, op>> /\ f \in Slots
    BY <1>0, <1>9 DEF Fill, TypeOK, Lookups
  <2> HIDE DEF f
  <2> SUFFICES ASSUME NEW s \in Slots, Outdates(s)', s \notin excused'
               PROVE  \E b \in Operators : s \in Pending(b)'
    BY DEF CacheCoherent
  <2>2. Content(s)' = Content(s) /\ \A b \in Operators : Pending(b)' = Pending(b)
    BY <2>1 DEF Content, Pending
  <2>3. s # f
    BY <1>0, <2>1, <2>2 DEF Outdates, TypeOK
  <2>4. Outdates(s) /\ s \notin excused
    BY <1>0, <2>1, <2>2, <2>3 DEF Outdates, TypeOK
  <2> QED
    BY <2>2, <2>4 DEF CacheCoherent
<1>10. ASSUME Tick PROVE CacheCoherent'
  <2> SUFFICES ASSUME NEW s \in Slots, Outdates(s)', s \notin excused'
               PROVE  \E b \in Operators : s \in Pending(b)'
    BY DEF CacheCoherent
  <2>1. Content(s)' = Content(s) /\ \A b \in Operators : Pending(b)' = Pending(b)
    BY <1>10 DEF Tick, Content, Pending
  <2>2. life[s] \in Nat /\ life'[s] > 0
    BY <1>0 DEF TypeOK, Outdates
  <2>3. life[s] > 1
    BY <1>10, <2>2 DEF Tick
  <2>4. cached'[s] = cached[s] /\ (s \in excused => s \in excused')
    BY <1>10, <2>3 DEF Tick
  <2>5. Outdates(s) /\ s \notin excused
    BY <2>1, <2>2, <2>3, <2>4 DEF Outdates
  <2> QED
    BY <2>1, <2>5 DEF CacheCoherent
<1>11. ASSUME UNCHANGED vars PROVE CacheCoherent'
  BY <1>11, CoherentKept DEF vars
<1> QED
  BY <1>1, <1>2, <1>3, <1>4, <1>5, <1>6, <1>7, <1>8, <1>9, <1>10, <1>11
  DEF Next, Request, Lookup, BeginSave, BeginCreate, BeginDelete

(* Whatever is outdated in the cache is about to be deleted, or was filled *)
(* by a query older than the change, or could not be deleted, or belongs   *)
(* to a key that another request took from the mapping: for any number of  *)
(* requests and readers, and any lifetime.                                 *)
THEOREM CoherentAlways == Spec => []CacheCoherent
<1>1. Init => CacheCoherent
  BY DEF Init, CacheCoherent, Outdates
<1> QED
  BY <1>1, TypeInit, TypeStep, CoherentStep, PTL DEF Spec

(***************************************************************************)
(* FreshAfterTTL.                                                          *)
(***************************************************************************)

(* A reader is about to store what the database no longer says. *)
OldRead(r) == rd[r].at = "read" /\ rd[r].found # Content(rd[r].slot)

(* An outdated entry ends in time, and such a reader has not queried after *)
(* the last change.                                                        *)
FreshInv ==
    /\ \A s \in Slots : life[s] <= TTL
    /\ \A s \in Slots : Outdates(s) => s \in slow \/ life[s] + quiet <= Settled
    /\ \A r \in Readers : OldRead(r) => rd[r].age > MaxRead \/ quiet <= rd[r].age

(* A step that changes neither data, nor time, nor readers. *)
LEMMA FreshKept ==
    ASSUME FreshInv, UNCHANGED <<row, exists, comps, cached, life, rd, slow, quiet>>
    PROVE  FreshInv'
BY DEF FreshInv, OldRead, Outdates, Content

(* Without a change of the data, a reader's answer is old if it was.       *)
LEMMA OldReadKept ==
    ASSUME UNCHANGED <<row, exists, comps>>, NEW r \in Readers
    PROVE  OldRead(r)' <=> rd'[r].at = "read" /\ rd'[r].found # Content(rd'[r].slot)
BY DEF OldRead, Content

(* After a commit the time of an entry and that of a query begin anew. *)
LEMMA FreshCommitted ==
    ASSUME TypeOK, FreshInv, NEW a \in Operators, Committed(a)
    PROVE  FreshInv'
<1>1. quiet' = 0 /\ UNCHANGED <<life, rd>>
  BY DEF Committed, redisVars
<1>2. ASSUME NEW s \in Slots PROVE life[s] + 0 <= Settled
  BY MappingCacheAssumption DEF TypeOK, FreshInv, Settled
<1>3. ASSUME NEW r \in Readers PROVE 0 <= rd[r].age
  BY MappingCacheAssumption DEF TypeOK, Lookups
<1> QED
  BY <1>1, <1>2, <1>3 DEF FreshInv

(* Every step keeps it. *)
LEMMA FreshStep == TInv /\ FreshInv /\ [Next]_vars => FreshInv'
<1> SUFFICES ASSUME TypeOK, FreshInv, [Next]_vars PROVE FreshInv'
  BY DEF TInv
<1> USE MappingCacheAssumption DEF dbVars, redisVars, boundVars
<1>1. ASSUME NEW a \in Operators, Request(a) PROVE FreshInv'
  <2>1. CASE (\E i \in Ids : BeginSave(a, i) \/ BeginCreate(a, i) \/ BeginDelete(a, i))
              \/ Flush(a) \/ RequestFails(a) \/ InvalidateFails(a)
    <3>1. UNCHANGED <<row, exists, comps, cached, life, rd, slow, quiet>>
      BY <2>1 DEF BeginSave, BeginCreate, BeginDelete, Begin, Flush, RequestFails, InvalidateFails
    <3> QED
      BY <3>1, FreshKept
  <2>2. CASE SaveCommit(a) \/ DeleteCommit(a)
    BY <2>2, FreshCommitted DEF SaveCommit, DeleteCommit
  <2>3. CASE Invalidate(a)
    <3> DEFINE h == Head(op[a].left)
    <3>1. /\ cached' = [cached EXCEPT ![h] = {}] /\ life' = [life EXCEPT ![h] = 0]
          /\ slow' = slow \ {h} /\ UNCHANGED <<row, exists, comps, rd, quiet>>
      BY <2>3 DEF Invalidate
    <3> HIDE DEF h
    <3>2. ASSUME NEW s \in Slots
          PROVE  life'[s] <= TTL /\ (Outdates(s)' => s \in slow' \/ life'[s] + quiet' <= Settled)
      <4>1. CASE s = h
        BY <3>1, <4>1 DEF TypeOK, Outdates
      <4>2. CASE s # h
        BY <3>1, <4>2 DEF TypeOK, Outdates, Content, FreshInv
      <4> QED
        BY <4>1, <4>2
    <3>3. \A r \in Readers : OldRead(r)' <=> OldRead(r)
      BY <3>1, OldReadKept DEF OldRead
    <3> QED
      BY <3>1, <3>2, <3>3 DEF FreshInv
  <2> QED
    BY <1>1, <2>1, <2>2, <2>3 DEF Request
<1>2. ASSUME NEW r \in Readers, Lookup(r) PROVE FreshInv'
  <2>1. UNCHANGED <<row, exists, comps, quiet>> /\ \A q \in Readers : q # r => rd'[q] = rd[q]
    BY <1>2 DEF Lookup, Get, Select, Fill, ReaderFails, TypeOK
  <2>2. \A s \in Slots : Content(s)' = Content(s)
    BY <2>1 DEF Content
  <2>3. ~OldRead(r)'
    <3>1. rd[r] \in Lookups /\ NoLookup.at = "idle"
      BY DEF TypeOK, Lookups, NoLookup
    <3>2. CASE \E s \in Slots : Get(r, s)
      <4>1. PICK s \in Slots :
              rd' = [rd EXCEPT ![r] = [NoLookup EXCEPT !.at = "missed", !.slot = s]]
        BY <3>2 DEF Get
      <4>2. [NoLookup EXCEPT !.at = "missed", !.slot = s].at = "missed"
        BY DEF NoLookup
      <4> QED
        BY <4>1, <4>2 DEF TypeOK, OldRead
    <3>3. CASE Fill(r) \/ ReaderFails(r)
      <4>1. rd' = [rd EXCEPT ![r] = NoLookup]
        BY <3>3 DEF Fill, ReaderFails
      <4> QED
        BY <3>1, <4>1 DEF TypeOK, OldRead
    <3>4. CASE Select(r)
      <4> DEFINE found == Content(rd[r].slot)
                 l == [rd[r] EXCEPT !.at = "read", !.found = found, !.age = 0]
      <4>1. l.found = found /\ l.slot = rd[r].slot
        BY <3>1 DEF Lookups
      <4>2. rd' = [rd EXCEPT ![r] = IF rd[r].slot \in Keys /\ found = {} THEN NoLookup ELSE l]
        BY <3>4 DEF Select, TypeOK
      <4> HIDE DEF l
      <4>3. rd'[r] = NoLookup \/ rd'[r] = l
        BY <4>2 DEF TypeOK
      <4> QED
        BY <2>1, <3>1, <4>1, <4>3, OldReadKept
    <3> QED
      BY <1>2, <3>2, <3>3, <3>4 DEF Lookup
  <2>4. ASSUME NEW q \in Readers, OldRead(q)' PROVE rd'[q].age > MaxRead \/ quiet' <= rd'[q].age
    <3>1. q # r
      BY <2>3, <2>4
    <3>2. rd'[q] = rd[q] /\ OldRead(q)
      BY <2>1, <2>4, <3>1, OldReadKept DEF OldRead
    <3> QED
      BY <2>1, <3>2 DEF FreshInv
  <2>5. ASSUME NEW s \in Slots
        PROVE  life'[s] <= TTL /\ (Outdates(s)' => s \in slow' \/ life'[s] + quiet' <= Settled)
    <3>1. CASE UNCHANGED <<cached, life, slow>>
      BY <2>1, <2>2, <3>1 DEF FreshInv, Outdates
    <3>2. CASE Fill(r)
      <4> DEFINE f == rd[r].slot
      <4>1. /\ cached' = [cached EXCEPT ![f] = rd[r].found] /\ life' = [life EXCEPT ![f] = TTL]
            /\ rd[r].at = "read" /\ rd[r].age \in Nat /\ f \in Slots
            /\ rd[r].found = Content(f) => slow' = slow \ {f}
            /\ rd[r].found # Content(f) =>
                 slow' = IF rd[r].age > MaxRead THEN slow \union {f} ELSE slow \ {f}
        BY <3>2 DEF Fill, FillLife, TypeOK, Lookups
      <4>2. CASE s # f
        <5>1. life'[s] = life[s] /\ cached'[s] = cached[s] /\ (s \in slow => s \in slow')
          BY <4>1, <4>2 DEF TypeOK
        <5> QED
          BY <2>1, <2>2, <5>1 DEF FreshInv, Outdates
      <4>3. CASE s = f
        <5>1. life'[s] = TTL /\ cached'[s] = rd[r].found
          BY <4>1, <4>3 DEF TypeOK
        <5>2. CASE rd[r].found = Content(f)
          BY <2>2, <4>3, <5>1, <5>2 DEF Outdates
        <5>3. CASE rd[r].found # Content(f)
          <6>1. rd[r].age > MaxRead \/ quiet <= rd[r].age
            BY <4>1, <5>3 DEF FreshInv, OldRead
          <6>2. CASE rd[r].age > MaxRead
            BY <4>1, <4>3, <5>1, <5>3, <6>2
          <6>3. CASE ~(rd[r].age > MaxRead)
            <7>1. quiet <= MaxRead /\ quiet \in Nat
              BY <4>1, <6>1, <6>3 DEF TypeOK, Settled
            <7> QED
              BY <2>1, <5>1, <7>1 DEF Settled
          <6> QED
            BY <6>2, <6>3
        <5> QED
          BY <5>2, <5>3
      <4> QED
        BY <4>2, <4>3
    <3> QED
      BY <1>2, <3>1, <3>2 DEF Lookup, Get, Select, ReaderFails
  <2> QED
    BY <2>4, <2>5 DEF FreshInv
<1>3. ASSUME Tick PROVE FreshInv'
  <2>1. UNCHANGED <<row, exists, comps>> /\ \A s \in Slots : Content(s)' = Content(s)
    BY <1>3 DEF Tick, Content
  <2>2. quiet' \in Nat /\ quiet \in Nat /\ quiet' <= quiet + 1
    BY <1>3 DEF Tick, Later, TypeOK, Settled
  <2>3. ASSUME NEW s \in Slots
        PROVE  life'[s] <= TTL /\ (Outdates(s)' => s \in slow' \/ life'[s] + quiet' <= Settled)
    <3>1. life[s] \in Nat /\ life[s] <= TTL /\ life'[s] = (IF life[s] > 0 THEN life[s] - 1 ELSE 0)
      BY <1>3 DEF Tick, TypeOK, FreshInv
    <3>2. ASSUME Outdates(s)' PROVE s \in slow' \/ life'[s] + quiet' <= Settled
      <4>1. life[s] > 1
        BY <3>1, <3>2 DEF Outdates
      <4>2. cached'[s] = cached[s] /\ (s \in slow => s \in slow')
        BY <1>3, <4>1 DEF Tick
      <4>3. Outdates(s)
        BY <2>1, <3>1, <3>2, <4>1, <4>2 DEF Outdates
      <4>4. s \in slow \/ life[s] + quiet <= Settled
        BY <4>3 DEF FreshInv
      <4> QED
        BY <2>2, <3>1, <4>1, <4>2, <4>4 DEF Settled
    <3> QED
      BY <3>1, <3>2
  <2>4. ASSUME NEW r \in Readers, OldRead(r)'
        PROVE  rd'[r].age > MaxRead \/ quiet' <= rd'[r].age
    <3> DEFINE l == [rd[r] EXCEPT !.age = Later(rd[r].age, MaxRead + 1)]
    <3>1. rd[r] \in Lookups /\ rd[r].age \in 0 .. MaxRead + 1 /\ rd[r].slot \in Slots
      BY DEF TypeOK, Lookups
    <3>2. rd'[r] = IF rd[r].at = "read" THEN l ELSE rd[r]
      BY <1>3 DEF Tick
    <3>3. /\ l.at = rd[r].at /\ l.found = rd[r].found /\ l.slot = rd[r].slot
          /\ l.age = Later(rd[r].age, MaxRead + 1)
      BY <3>1 DEF Lookups
    <3> HIDE DEF l
    <3>4. rd[r].at = "read" /\ rd'[r] = l
      BY <2>4, <3>2, <3>3 DEF OldRead
    <3>5. OldRead(r)
      BY <2>1, <2>4, <3>3, <3>4, OldReadKept DEF OldRead
    <3>6. rd[r].age > MaxRead \/ quiet <= rd[r].age
      BY <3>5 DEF FreshInv
    <3> QED
      BY <2>2, <3>1, <3>3, <3>4, <3>6 DEF Later
  <2> QED
    BY <2>3, <2>4 DEF FreshInv
<1>4. ASSUME UNCHANGED vars PROVE FreshInv'
  BY <1>4, FreshKept DEF vars
<1> QED
  BY <1>1, <1>2, <1>3, <1>4 DEF Next

(* Whatever failed or raced, the cache shows nothing outdated a lifetime   *)
(* and the time of a task after the last change, but for the fill of a     *)
(* coroutine that outlived its task: for any lifetime and any task.        *)
THEOREM FreshAlways == Spec => []FreshAfterTTL
<1>1. Init => FreshInv
  <2> SUFFICES ASSUME Init PROVE FreshInv
    OBVIOUS
  <2>1. \A s \in Slots : life[s] = 0
    BY DEF Init
  <2>2. \A r \in Readers : rd[r].at = "idle"
    BY DEF Init, NoLookup
  <2> QED
    BY <2>1, <2>2, MappingCacheAssumption DEF FreshInv, OldRead, Outdates
<1>2. TypeOK /\ FreshInv => FreshAfterTTL
  BY MappingCacheAssumption DEF TypeOK, FreshInv, FreshAfterTTL, Settled, Outdates
<1>3. TInv => TypeOK
  BY DEF TInv
<1> QED
  BY <1>1, <1>2, <1>3, TypeInit, TypeStep, FreshStep, PTL DEF Spec

(***************************************************************************)
(* ComponentsOfOneSave.                                                    *)
(***************************************************************************)

(* A request that has not ended. *)
Open(a) == op[a].at \in {"loaded", "flushed"}

(* The components of a mapping are those of one save, and of a mapping     *)
(* that is not there, none.                                                *)
OneSave ==
    /\ \A i \in exists \ doubled : \E n \in SaveNos : comps[i] = {n}
    /\ \A i \in Ids \ exists : comps[i] = {}

(* The id of a mapping that is being created is nobody else's. *)
NewIds ==
    \A a \in Operators :
      Open(a) /\ op[a].kind = "create" =>
        /\ op[a].id \notin exists
        /\ \A b \in Operators \ {a} : Open(b) => op[b].id # op[a].id

(* A row is locked once, and whoever locks it has seen its components.     *)
LocksKept ==
    \A a \in Operators : Locks(a) =>
      /\ op[a].id \notin doubled => op[a].seen = comps[op[a].id]
      /\ ~LockedByOther(a, op[a].id)

CompInv == OneSave /\ NewIds /\ LocksKept

(* A step that ends requests or leaves them alone, and stores nothing. *)
LEMMA CompKept ==
    ASSUME CompInv, UNCHANGED <<exists, comps, doubled>>,
           \A a \in Operators : op'[a] = op[a] \/ op'[a].at \in {"idle", "committed"}
    PROVE  CompInv'
<1>1. OneSave'
  BY DEF CompInv, OneSave
<1>2. \A a \in Operators : (Open(a)' => op'[a] = op[a] /\ Open(a))
                           /\ (Locks(a)' => op'[a] = op[a] /\ Locks(a))
  BY DEF Open, Locks, Changes
<1>3. NewIds'
  <2>1. ASSUME NEW a \in Operators, Open(a)', op'[a].kind = "create"
        PROVE  /\ op'[a].id \notin exists'
               /\ \A b \in Operators \ {a} : Open(b)' => op'[b].id # op'[a].id
    <3>1. op'[a] = op[a] /\ Open(a) /\ op[a].kind = "create"
      BY <1>2, <2>1
    <3>2. op[a].id \notin exists /\ \A b \in Operators \ {a} : Open(b) => op[b].id # op[a].id
      BY <3>1 DEF CompInv, NewIds
    <3> QED
      BY <1>2, <3>1, <3>2
  <2> QED
    BY <2>1 DEF NewIds
<1>4. LocksKept'
  <2>1. ASSUME NEW a \in Operators, Locks(a)'
        PROVE  /\ op'[a].id \notin doubled' => op'[a].seen = comps'[op'[a].id]
               /\ \A b \in Operators \ {a} : ~(op'[b].id = op'[a].id /\ Locks(b)')
    <3>1. op'[a] = op[a] /\ Locks(a)
      BY <1>2, <2>1
    <3>2. /\ op[a].id \notin doubled => op[a].seen = comps[op[a].id]
          /\ \A b \in Operators \ {a} : ~(op[b].id = op[a].id /\ Locks(b))
      BY <3>1 DEF CompInv, LocksKept, LockedByOther
    <3> QED
      BY <1>2, <3>1, <3>2
  <2> QED
    BY <2>1 DEF LocksKept, LockedByOther
<1> QED
  BY <1>1, <1>3, <1>4 DEF CompInv

(* A request begins: with the id of a mapping, or with a new one. *)
LEMMA CompBegin ==
    ASSUME TInv, CompInv, NEW a \in Operators, NEW i \in Ids,
           NEW kind \in {"save", "create", "delete"}, NEW was, NEW new,
           Begin(a, i, kind, was, new),
           kind = "create" => i \notin known,
           kind # "create" => i \in exists
    PROVE  CompInv'
<1>1. TypeOK /\ Shape
  BY DEF TInv
<1> DEFINE o == [NoRequest EXCEPT !.at = "loaded", !.id = i, !.kind = kind,
                                  !.was = was, !.new = new, !.no = saves + 1]
<1>2. o.at = "loaded" /\ o.id = i /\ o.kind = kind
  BY DEF NoRequest
<1>3. op' = [op EXCEPT ![a] = o]
  BY DEF Begin
<1> HIDE DEF o
<1>4. /\ op'[a] = o /\ \A b \in Operators : b # a => op'[b] = op[b]
      /\ UNCHANGED <<exists, comps, doubled>>
  BY <1>1, <1>3 DEF TypeOK, Begin
<1>5. /\ \A b \in Operators : b # a => (Open(b)' <=> Open(b)) /\ (Locks(b)' <=> Locks(b))
      /\ ~Locks(a)'
  BY <1>2, <1>4 DEF Open, Locks, Changes
<1>6. NewIds'
  <2>1. \A b \in Operators : Open(b) => op[b].id \in known
    BY <1>1 DEF Shape, Open
  <2>2. kind = "create" => i \notin exists /\ \A b \in Operators : Open(b) => op[b].id # i
    BY <1>1, <2>1 DEF TypeOK
  <2>3. \A b \in Operators : Open(b) /\ op[b].kind = "create" => op[b].id # i
    BY <2>1, <2>2 DEF CompInv, NewIds
  <2>4. ASSUME NEW b \in Operators, Open(b)', op'[b].kind = "create"
        PROVE  /\ op'[b].id \notin exists'
               /\ \A c \in Operators \ {b} : Open(c)' => op'[c].id # op'[b].id
    <3>1. CASE b = a
      BY <1>2, <1>4, <1>5, <2>2, <2>4, <3>1
    <3>2. CASE b # a
      BY <1>2, <1>4, <1>5, <2>3, <2>4, <3>2 DEF CompInv, NewIds
    <3> QED
      BY <3>1, <3>2
  <2> QED
    BY <2>4 DEF NewIds
<1>7. LocksKept'
  BY <1>4, <1>5 DEF CompInv, LocksKept, LockedByOther
<1>8. OneSave'
  BY <1>4 DEF CompInv, OneSave
<1> QED
  BY <1>6, <1>7, <1>8 DEF CompInv

(* Every step keeps it. *)
LEMMA CompStep == TInv /\ CompInv /\ [Next]_vars => CompInv'
<1> SUFFICES ASSUME TInv, CompInv, [Next]_vars PROVE CompInv'
  OBVIOUS
<1> USE DEF dbVars, redisVars, boundVars
<1>0. TypeOK /\ Shape /\ OneSave /\ NewIds /\ LocksKept
  BY DEF TInv, CompInv
<1>1. ASSUME NEW a \in Operators, NEW i \in Ids,
             BeginSave(a, i) \/ BeginCreate(a, i) \/ BeginDelete(a, i)
      PROVE  CompInv'
  BY <1>1, CompBegin DEF BeginSave, BeginCreate, BeginDelete
<1>2. ASSUME NEW a \in Operators, Flush(a) PROVE CompInv'
  <2> DEFINE o == [op[a] EXCEPT !.at = "flushed", !.seen = comps[op[a].id]]
  <2>1. op[a] \in Requests /\ op[a].at = "loaded"
    BY <1>0, <1>2 DEF TypeOK, Flush
  <2>2. /\ o.at = "flushed" /\ o.id = op[a].id /\ o.kind = op[a].kind /\ o.was = op[a].was
        /\ o.new = op[a].new /\ o.seen = comps[op[a].id]
    BY <2>1 DEF Requests
  <2>3. op' = [op EXCEPT ![a] = o]
    BY <1>0, <1>2 DEF Flush, TypeOK
  <2> HIDE DEF o
  <2>4. /\ op'[a] = o /\ \A b \in Operators : b # a => op'[b] = op[b]
        /\ UNCHANGED <<exists, comps, doubled>>
    BY <1>0, <1>2, <2>3 DEF TypeOK, Flush
  <2>5. /\ \A b \in Operators : (Open(b)' <=> Open(b)) /\ op'[b].id = op[b].id
                                /\ op'[b].kind = op[b].kind
        /\ \A b \in Operators : b # a => (Locks(b)' <=> Locks(b))
        /\ Locks(a)' => ~LockedByOther(a, op[a].id)
    BY <1>2, <2>1, <2>2, <2>4 DEF Open, Locks, Changes, Flush
  <2>6. OneSave' /\ NewIds'
    BY <1>0, <2>4, <2>5 DEF OneSave, NewIds
  <2>7. LocksKept'
    <3>1. ASSUME NEW b \in Operators, Locks(b)', op'[b].id \notin doubled'
          PROVE  op'[b].seen = comps'[op'[b].id]
      <4>1. CASE b = a
        BY <2>2, <2>4, <4>1
      <4>2. CASE b # a
        BY <1>0, <2>4, <2>5, <3>1, <4>2 DEF LocksKept
      <4> QED
        BY <4>1, <4>2
    <3>2. ASSUME NEW b \in Operators, NEW c \in Operators, b # c, Locks(b)', Locks(c)'
          PROVE  op'[b].id # op'[c].id
      <4>1. CASE b = a \/ c = a
        BY <2>5, <3>2, <4>1 DEF LockedByOther
      <4>2. CASE b # a /\ c # a
        BY <1>0, <2>5, <3>2, <4>2 DEF LocksKept, LockedByOther
      <4> QED
        BY <4>1, <4>2
    <3> QED
      BY <3>1, <3>2 DEF LocksKept, LockedByOther
  <2> QED
    BY <2>6, <2>7 DEF CompInv
<1>3. ASSUME NEW a \in Operators, SaveCommit(a) \/ DeleteCommit(a) PROVE CompInv'
  <2> DEFINE i == op[a].id
  <2>1. op[a] \in Requests /\ i \in Ids /\ op[a].no \in SaveNos /\ Open(a)
    BY <1>0, <1>3 DEF TypeOK, Requests, SaveCommit, DeleteCommit, Open
  <2>2. /\ \A b \in Operators : b # a => op'[b] = op[b]
        /\ op'[a].at = "committed"
    <3> DEFINE o == [NoRequest EXCEPT !.at = "committed", !.left = Outdated(op[a])]
    <3>1. op' = [op EXCEPT ![a] = o]
      BY <1>3 DEF SaveCommit, DeleteCommit, Committed
    <3>2. o.at = "committed"
      BY DEF NoRequest
    <3> HIDE DEF o
    <3> QED
      BY <1>0, <3>1, <3>2 DEF TypeOK
  <2>3. /\ \A b \in Operators : b # a => (Open(b)' <=> Open(b)) /\ (Locks(b)' <=> Locks(b))
        /\ ~Open(a)' /\ ~Locks(a)'
    BY <2>2 DEF Open, Locks, Changes
  <2>4. /\ \A j \in Ids : j # i => comps'[j] = comps[j] /\ (j \in exists' <=> j \in exists)
                                  /\ (j \in doubled' <=> j \in doubled)
        /\ doubled \subseteq doubled' /\ exists' \subseteq Ids
    BY <1>0, <1>3, <2>1 DEF TypeOK, SaveCommit, DeleteCommit
  <2>5. i \notin exists' => comps'[i] = {}
    BY <1>0, <1>3, <2>1 DEF TypeOK, SaveCommit, DeleteCommit
  <2>6. ASSUME i \in exists', i \notin doubled' PROVE \E n \in SaveNos : comps'[i] = {n}
    <3>1. SaveCommit(a)
      BY <1>3, <2>6 DEF DeleteCommit
    <3>2. op[a].seen = comps[i]
      <4>1. CASE Changes(op[a])
        BY <1>0, <2>4, <2>6, <3>1, <4>1 DEF LocksKept, Locks, SaveCommit
      <4>2. CASE ~Changes(op[a])
        BY <2>6, <3>1, <4>2 DEF SaveCommit
      <4> QED
        BY <4>1, <4>2
    <3>3. comps'[i] = {op[a].no}
      BY <1>0, <2>1, <3>1, <3>2 DEF TypeOK, SaveCommit
    <3> QED
      BY <2>1, <3>3
  <2>7. OneSave'
    BY <1>0, <2>4, <2>5, <2>6 DEF OneSave
  <2>8. NewIds'
    <3>1. ASSUME NEW b \in Operators, Open(b)', op'[b].kind = "create"
          PROVE  /\ op'[b].id \notin exists'
                 /\ \A c \in Operators \ {b} : Open(c)' => op'[c].id # op'[b].id
      <4>1. b # a /\ op'[b] = op[b] /\ Open(b) /\ op[b].id \in Ids
        BY <1>0, <2>2, <2>3, <3>1 DEF TypeOK, Requests
      <4>2. op[b].id \notin exists /\ op[b].id # i
        BY <1>0, <2>1, <3>1, <4>1 DEF NewIds
      <4>3. \A c \in Operators \ {b} : Open(c)' => op'[c].id # op[b].id
        BY <1>0, <2>2, <2>3, <3>1, <4>1 DEF NewIds
      <4> QED
        BY <2>4, <4>1, <4>2, <4>3
    <3> QED
      BY <3>1 DEF NewIds
  <2>9. LocksKept'
    <3>1. ASSUME NEW b \in Operators, Locks(b)', op'[b].id \notin doubled'
          PROVE  op'[b].seen = comps'[op'[b].id]
      <4>1. b # a /\ op'[b] = op[b] /\ Locks(b) /\ op[b].id \in Ids
        BY <1>0, <2>2, <2>3, <3>1 DEF TypeOK, Requests
      <4>2. op[b].id # i
        <5>1. ASSUME op[b].id = i PROVE FALSE
          <6>1. LockedByOther(a, i)
            BY <4>1, <5>1 DEF LockedByOther
          <6>2. SaveCommit(a) /\ ~Changes(op[a])
            BY <1>0, <1>3, <6>1 DEF DeleteCommit, SaveCommit, LocksKept, Locks
          <6>3. FlushedOther(a)
            BY <4>1, <5>1 DEF FlushedOther, Locks
          <6>4. i \in doubled'
            BY <6>2, <6>3 DEF SaveCommit
          <6> QED
            BY <3>1, <4>1, <5>1, <6>4
        <5> QED
          BY <5>1
      <4> QED
        BY <1>0, <2>4, <3>1, <4>1, <4>2 DEF LocksKept
    <3>2. ASSUME NEW b \in Operators, Locks(b)' PROVE ~LockedByOther(b, op[b].id)' /\ op'[b] = op[b]
      BY <1>0, <2>2, <2>3, <3>2 DEF LocksKept, LockedByOther
    <3> QED
      BY <3>1, <3>2 DEF LocksKept, LockedByOther
  <2> QED
    BY <2>7, <2>8, <2>9 DEF CompInv
<1>4. ASSUME NEW a \in Operators, RequestFails(a) \/ InvalidateFails(a) PROVE CompInv'
  <2>1. \A b \in Operators : op'[b] = op[b] \/ op'[b].at = "idle"
    BY <1>0, <1>4 DEF TypeOK, RequestFails, InvalidateFails, NoRequest
  <2> QED
    BY <1>4, <2>1, CompKept DEF RequestFails, InvalidateFails
<1>5. ASSUME NEW a \in Operators, Invalidate(a) PROVE CompInv'
  <2> DEFINE o == [op[a] EXCEPT !.left = Tail(op[a].left)]
  <2>1. o.at = "committed" /\ NoRequest.at = "idle"
    BY <1>0, <1>5 DEF TypeOK, Requests, Invalidate, NoRequest
  <2>2. op' = [op EXCEPT ![a] = IF Tail(op[a].left) = <<>> THEN NoRequest ELSE o]
    BY <1>0, <1>5 DEF Invalidate, TypeOK
  <2> HIDE DEF o
  <2>3. \A b \in Operators : op'[b] = op[b] \/ op'[b].at \in {"idle", "committed"}
    BY <1>0, <2>1, <2>2 DEF TypeOK
  <2> QED
    BY <1>5, <2>3, CompKept DEF Invalidate
<1>6. ASSUME (\E r \in Readers : Lookup(r)) \/ Tick \/ UNCHANGED vars PROVE CompInv'
  <2>1. UNCHANGED <<op, exists, comps, doubled>>
    BY <1>6 DEF Lookup, Get, Select, Fill, ReaderFails, Tick, vars
  <2> QED
    BY <2>1, CompKept
<1> QED
  BY <1>1, <1>2, <1>3, <1>4, <1>5, <1>6 DEF Next, Request

(* Overlapping requests never mix the components of a bundle, unless one   *)
(* of them changed no column of the row: for any number of requests.       *)
THEOREM OneSaveAlways == Spec => []ComponentsOfOneSave
<1>1. Init => CompInv
  <2> SUFFICES ASSUME Init PROVE CompInv
    OBVIOUS
  <2>1. PICK i \in Ids :
          exists = {i} /\ comps = [j \in Ids |-> IF j = i THEN {1} ELSE {}]
    BY DEF Init
  <2>2. 1 \in SaveNos
    BY MappingCacheAssumption DEF SaveNos
  <2>3. OneSave
    BY <2>1, <2>2 DEF OneSave
  <2>4. \A a \in Operators : ~Open(a) /\ ~Locks(a)
    BY DEF Init, NoRequest, Open, Locks
  <2> QED
    BY <2>3, <2>4 DEF CompInv, NewIds, LocksKept
<1>2. CompInv => ComponentsOfOneSave
  BY FS_Singleton DEF CompInv, OneSave, ComponentsOfOneSave
<1> QED
  BY <1>1, <1>2, TypeInit, TypeStep, CompStep, PTL DEF Spec

=============================================================================
