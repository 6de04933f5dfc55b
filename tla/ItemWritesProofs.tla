-------------------------- MODULE ItemWritesProofs --------------------------
(***************************************************************************)
(* Theorems about ItemWrites, for every set of items, titles, separators,  *)
(* requests and writers and every order in which the index is built: items *)
(* and writers stay what they are meant to be, the index is exact, item    *)
(* and field addresses agree, a write changes nothing but the fields it    *)
(* names, and what was written is what a read of its address gives.        *)
(***************************************************************************)
EXTENDS ItemLemmas

-----------------------------------------------------------------------------
(* What the variables hold.                                                *)

\* No item is one of the items' records.
LEMMA AbsentIsItem == Absent \in Items /\ Absent.version = 0
  <1>1. <<>> \in Seq(Sections) /\ <<>> \in Seq(Fields)
    OBVIOUS
  <1> QED
    BY <1>1 DEF Absent, Items

\* The empty sequence has no places.
LEMMA EmptyHasNoPlaces == DOMAIN <<>> = {}
  <1>1. <<>> = [k \in {} |-> k]
    OBVIOUS
  <1> QED
    BY <1>1

\* An item of any title without fields is well formed.
LEMMA EmptyIsWellFormed ==
    ASSUME NEW t \in Titles \cup {""}
    PROVE  WellFormed([Absent EXCEPT !.title = t]) /\ [Absent EXCEPT !.title = t].title = t
  <1> DEFINE e == [Absent EXCEPT !.title = t]
  <1>1. Absent \in Items /\ Absent.sections = <<>> /\ Absent.fields = <<>>
    BY AbsentIsItem DEF Absent
  <1>2. e \in Items /\ e.title = t /\ e.sections = Absent.sections /\ e.fields = Absent.fields
    BY <1>1 DEF Items
  <1> HIDE DEF e
  <1> QED
    BY <1>1, <1>2, EmptyHasNoPlaces DEF WellFormed, FieldsOf, ToSet, e

\* Every stored item is an item's record.
LEMMA StoredIsItem ==
    ASSUME NEW item, Stored(item)
    PROVE  item \in Items /\ item.version \in Nat /\ (item # Absent => WellFormed(item) /\ item.title \in Titles)
  BY AbsentIsItem DEF Stored, WellFormed, Items

\* A well-formed item of a title is stored at any version.
LEMMA VersionedIs ==
    ASSUME NEW item, WellFormed(item), item.title \in Titles, NEW v \in Nat \ {0}
    PROVE  LET new == [item EXCEPT !.version = v]
           IN  Stored(new) /\ new # Absent /\ new.version = v
  <1> DEFINE new == [item EXCEPT !.version = v]
  <1>1. item \in Items
    BY DEF WellFormed
  <1>2. /\ new \in Items /\ new.version = v /\ new.title = item.title
        /\ new.sections = item.sections /\ new.fields = item.fields
    BY <1>1 DEF Items
  <1> HIDE DEF new
  <1>3. WellFormed(new)
    BY <1>2 DEF WellFormed, FieldsOf
  <1>4. new # Absent
    BY <1>2, AbsentIsItem
  <1> QED
    BY <1>2, <1>3, <1>4 DEF Stored, new

\* Another title makes a stored item another stored item.
LEMMA RenamedIs ==
    ASSUME NEW item, Stored(item), item # Absent, NEW t \in Titles
    PROVE  Stored([item EXCEPT !.title = t, !.version = item.version + 1])
  <1> DEFINE v == item.version + 1
             new == [item EXCEPT !.title = t, !.version = v]
  <1>1. item \in Items /\ WellFormed(item) /\ v \in Nat /\ v > 0
    BY StoredIsItem
  <1> HIDE DEF v
  <1>2. /\ new \in Items /\ new.version = v /\ new.title = t
        /\ new.sections = item.sections /\ new.fields = item.fields
    BY <1>1 DEF Items
  <1> HIDE DEF new
  <1>3. WellFormed(new) /\ new.version > 0
    BY <1>1, <1>2 DEF WellFormed, FieldsOf
  <1> QED
    BY <1>2, <1>3 DEF Stored, new, v

\* So does another value of a field.
LEMMA EditedIs ==
    ASSUME NEW item, Stored(item), item # Absent, NEW n \in DOMAIN item.fields
    PROVE  Stored([item EXCEPT !.fields[n].value = "edited", !.version = item.version + 1])
  <1> DEFINE f == [item.fields[n] EXCEPT !.value = "edited"]
             gs == [item.fields EXCEPT ![n] = f]
             v == item.version + 1
             new == [item EXCEPT !.fields = gs, !.version = v]
  <1>1. item \in Items /\ WellFormed(item) /\ v \in Nat /\ v > 0
    BY StoredIsItem
  <1> HIDE DEF v
  <1>2. item.fields \in Seq(Fields) /\ item.fields[n] \in Fields
    <2>1. item.fields \in Seq(Fields)
      BY <1>1 DEF Items
    <2> QED
      BY <2>1
  <1>3. f \in Fields /\ f.section = item.fields[n].section
    <2>1. "edited" \in Values
      BY NamesAssumption
    <2> QED
      BY <1>2, <2>1 DEF Fields
  <1> HIDE DEF f
  <1>4. /\ gs \in Seq(Fields) /\ DOMAIN gs = DOMAIN item.fields
        /\ \A m \in DOMAIN item.fields : gs[m].section = item.fields[m].section
    BY <1>2, <1>3
  <1> HIDE DEF gs
  <1>5. /\ new \in Items /\ new.version = v /\ new.title = item.title
        /\ new.sections = item.sections /\ new.fields = gs
    BY <1>1, <1>4 DEF Items
  <1>6. new = [item EXCEPT !.fields[n].value = "edited", !.version = item.version + 1]
    BY <1>1 DEF f, gs, v, Items
  <1> HIDE DEF new
  <1>7. WellFormed(new)
    <2>1. \A m \in DOMAIN gs : gs[m].section = 0 \/ \E s \in ToSet(new.sections) : s.id = gs[m].section
      <3>1. \A m \in DOMAIN item.fields :
               item.fields[m].section = 0 \/ \E s \in ToSet(item.sections) : s.id = item.fields[m].section
        BY <1>1 DEF WellFormed, FieldsOf, ToSet
      <3> QED
        BY <1>4, <1>5, <3>1
    <2>2. \A x \in FieldsOf(new) : x.section = 0 \/ \E s \in ToSet(new.sections) : s.id = x.section
      BY <1>5, <2>1 DEF FieldsOf, ToSet
    <2> QED
      BY <1>1, <1>5, <2>2 DEF WellFormed
  <1>8. Stored(new)
    BY <1>1, <1>5, <1>7, StoredIsItem DEF Stored
  <1> QED
    BY <1>6, <1>8

\* A rebuilt index names items that are held.
LEMMA RebuiltIsTyped ==
    ASSUME NEW items, NEW rx \in Separators \cup {Unset}, NEW paths \in Rebuilt(items, rx)
    PROVE  \A key \in DOMAIN paths : paths[key] \in Held(items)
  <1>1. CASE rx = Unset
    <2>1. paths = <<>>
      BY <1>1, RebuiltUnset
    <2> QED
      BY <2>1
  <1>2. CASE rx # Unset
    <2>1. paths = ExactOf(items, rx)
      BY <1>2, RebuiltIsExact
    <2> DEFINE keys == [i \in Held(items) |-> KeyOf(items, rx, i)]
               alone == {i \in Held(items) : \A j \in Held(items) \ {i} : keys[j] # keys[i]}
    <2>2. paths = [key \in {keys[i] : i \in alone} |-> CHOOSE i \in alone : keys[i] = key]
      BY <2>1 DEF ExactOf
    <2>3. \A i \in alone : i \in Held(items)
      OBVIOUS
    <2> HIDE DEF alone, keys
    <2>4. ASSUME NEW key \in DOMAIN paths PROVE paths[key] \in alone
      BY <2>2
    <2> QED
      BY <2>3, <2>4
  <1> QED
    BY <1>1, <1>2

\* A writer's record, of no particular step.
Records == [pc : Pcs, req : Requests \cup {Idle.req}, rx : Separators \cup {Unset},
            item : Ids \cup {NotFound, Ambiguous}, writes : Seq(Writes), cur : Items, out : Items,
            touched : BOOLEAN]

\* A writer that does nothing yet, and one that failed.
LEMMA IdleIsOK == WriterOK(Idle) /\ WriterOK([Idle EXCEPT !.pc = "failed"])
  <1>1. <<>> \in Seq(Writes)
    OBVIOUS
  <1>2. Idle \in Records /\ Idle.pc = "idle"
    BY <1>1, AbsentIsItem DEF Idle, Records, Pcs
  <1>3. [Idle EXCEPT !.pc = "failed"] \in Records /\ [Idle EXCEPT !.pc = "failed"].pc = "failed"
    BY <1>2 DEF Records, Pcs
  <1> QED
    BY <1>2, <1>3 DEF WriterOK, Records

\* What a step of one writer leaves of all of them.
LEMMA GoesIs ==
    ASSUME DOMAIN writer = Writers, \A v \in Writers : WriterOK(writer[v]),
           NEW w \in Writers, NEW me, Goes(w, me), me.pc # "failed" => WriterOK(me)
    PROVE  /\ DOMAIN writer' = Writers /\ \A v \in Writers : WriterOK(writer'[v])
           /\ \A v \in Writers \ {w} : writer'[v] = writer[v]
           /\ writer'[w] = IF me.pc = "failed" THEN [Idle EXCEPT !.pc = "failed"] ELSE me
  <1> DEFINE new == IF me.pc = "failed" THEN [Idle EXCEPT !.pc = "failed"] ELSE me
  <1>1. writer' = [writer EXCEPT ![w] = new]
    BY DEF Goes
  <1>2. WriterOK(new)
    BY IdleIsOK
  <1> HIDE DEF new
  <1>3. DOMAIN writer' = Writers /\ writer'[w] = new /\ \A v \in Writers \ {w} : writer'[v] = writer[v]
    BY <1>1
  <1>4. \A v \in Writers : WriterOK(writer'[v])
    BY <1>2, <1>3
  <1> QED
    BY <1>3, <1>4 DEF new

\* What an outside change leaves of a writer: all but the mark that its copy is old.
LEMMA TouchingIs ==
    ASSUME DOMAIN writer = Writers, \A v \in Writers : WriterOK(writer[v]), NEW i, NEW w \in Writers
    PROVE  /\ DOMAIN Touching(i) = Writers
           /\ WriterOK(Touching(i)[w])
           /\ Touching(i)[w].pc = writer[w].pc /\ Touching(i)[w].item = writer[w].item
           /\ Touching(i)[w].cur = writer[w].cur /\ Touching(i)[w].out = writer[w].out
           /\ Touching(i)[w].writes = writer[w].writes /\ Touching(i)[w].req = writer[w].req
           /\ writer[w].pc = "put" /\ writer[w].item = i => Touching(i)[w].touched
           /\ ~(writer[w].pc = "put" /\ writer[w].item = i) => Touching(i)[w] = writer[w]
  <1> DEFINE me == writer[w]
             new == [me EXCEPT !.touched = TRUE]
  <1>1. Touching(i)[w] = (IF me.pc = "put" /\ me.item = i THEN new ELSE me) /\ DOMAIN Touching(i) = Writers
    BY DEF Touching
  <1>2. WriterOK(me) /\ me \in Records
    BY DEF WriterOK, Records
  <1> HIDE DEF me
  <1>3. /\ new \in Records /\ new.pc = me.pc /\ new.req = me.req /\ new.rx = me.rx /\ new.item = me.item
        /\ new.writes = me.writes /\ new.cur = me.cur /\ new.out = me.out /\ new.touched
    BY <1>2 DEF Records
  <1> HIDE DEF new
  <1>4. WriterOK(new)
    BY <1>2, <1>3 DEF WriterOK, Records
  <1> QED
    BY <1>1, <1>2, <1>3, <1>4 DEF me

\* The bounds are numbers.
LEMMA BoundsAreNumbers == MaxEdits \in Nat /\ MaxRewrites \in Nat
  BY NamesAssumption

\* What is left of the variables by a step that leaves the stores and the index.
LEMMA TypeOKParts ==
    ASSUME TypeOK
    PROVE  /\ DOMAIN server = Ids /\ DOMAIN replica = Ids /\ IndexTyped
           /\ \A i \in Ids : Stored(server[i]) /\ Stored(replica[i])
           /\ DOMAIN writer = Writers /\ \A w \in Writers : WriterOK(writer[w]) /\ writer[w] \in Records
           /\ pathSplit \in Separators \cup {Unset} /\ cycle \in Separators \cup {Unset, NoCycle}
           /\ edits \in 0 .. MaxEdits /\ rewrites \in 0 .. MaxRewrites
  BY DEF TypeOK, IndexTyped, WriterOK, Records

\* A step of a writer alone keeps the types if it leaves its own record in order.
LEMMA WriterMoves ==
    ASSUME TypeOK, NEW w \in Writers, NEW me, Goes(w, me), me.pc # "failed" => WriterOK(me),
           Elsewhere, UNCHANGED <<server, replica, splitPaths>>
    PROVE  TypeOK'
  <1>1. DOMAIN writer' = Writers /\ \A v \in Writers : WriterOK(writer'[v])
    BY GoesIs DEF TypeOK
  <1> QED
    BY <1>1 DEF TypeOK, Elsewhere, Held

\* A request is taken.
LEMMA BeginTypes ==
    ASSUME TypeOK, NEW w \in Writers, beginWrite(w)
    PROVE  TypeOK'
  <1>1. PICK req \in Requests : Goes(w, [writer[w] EXCEPT !.pc = "locate", !.req = req, !.rx = pathSplit])
    BY DEF beginWrite
  <1> DEFINE me == [writer[w] EXCEPT !.pc = "locate", !.req = req, !.rx = pathSplit]
  <1>2. writer[w] \in Records /\ pathSplit \in Separators \cup {Unset}
    BY TypeOKParts
  <1>3. me \in Records /\ me.pc = "locate" /\ me.req = req
    BY <1>2 DEF Records, Pcs
  <1>4. Goes(w, me)
    BY <1>1
  <1> HIDE DEF me
  <1>5. WriterOK(me)
    BY <1>3 DEF WriterOK, Records
  <1> QED
    BY <1>4, <1>5, WriterMoves DEF beginWrite

\* An address is resolved.
LEMMA LocateTypes ==
    ASSUME TypeOK, NEW w \in Writers, locateItem(w)
    PROVE  TypeOK'
  <1> DEFINE at == Target(w)
             pc == CASE at.item \in Ids -> "fetch"
                     [] at.item = Ambiguous -> "failed"
                     [] at.item = NotFound /\ writer[w].pc = "locate" -> "missed"
                     [] OTHER -> IF Creates(writer[w].req) THEN "create" ELSE "failed"
             me == [writer[w] EXCEPT !.item = at.item, !.writes = at.writes, !.pc = pc]
  <1>1. writer[w] \in Records /\ writer[w].req \in Requests /\ writer[w].pc \in {"locate", "missed"} /\ IndexTyped
    BY TypeOKParts DEF locateItem, WriterOK
  <1>2. at.item \in Resolved /\ at.writes \in Seq(Writes)
    BY <1>1, TargetIs DEF Parsed
  <1>3. Goes(w, me)
    BY DEF locateItem
  <1>4. pc \in {"fetch", "failed", "missed", "create"}
    <2> HIDE DEF at
    <2> QED
      OBVIOUS
  <1>5. pc = "fetch" => at.item \in Ids
    <2> HIDE DEF at
    <2> QED
      OBVIOUS
  <1>6. pc = "create" => Creates(writer[w].req)
    <2> HIDE DEF at
    <2> QED
      OBVIOUS
  <1> HIDE DEF at, pc
  <1>7. me \in Records /\ me.pc = pc /\ me.req = writer[w].req /\ me.item = at.item
    BY <1>1, <1>2, <1>4 DEF Records, Pcs, Resolved
  <1> HIDE DEF me
  <1>8. WriterOK(me)
    BY <1>1, <1>4, <1>5, <1>6, <1>7 DEF WriterOK, Records
  <1> QED
    BY <1>3, <1>8, WriterMoves DEF locateItem

\* An item is fetched.
LEMMA FetchTypes ==
    ASSUME TypeOK, NEW w \in Writers, fetchFresh(w)
    PROVE  TypeOK'
  <1> DEFINE cur == server[writer[w].item]
             goes == cur # Absent /\ KnownTypes(writer[w].writes)
             me == [writer[w] EXCEPT !.pc = IF goes THEN "put" ELSE "failed", !.cur = cur]
  <1>1. writer[w] \in Records /\ writer[w].item \in Ids /\ writer[w].req \in Requests
    BY TypeOKParts DEF fetchFresh, WriterOK
  <1>2. Stored(cur) /\ cur \in Items
    BY <1>1, TypeOKParts, StoredIsItem
  <1>3. Goes(w, me)
    BY DEF fetchFresh, Fetched
  <1> HIDE DEF cur
  <1>4. goes \in BOOLEAN
    OBVIOUS
  <1>5. goes => cur # Absent /\ KnownTypes(writer[w].writes)
    OBVIOUS
  <1> HIDE DEF goes
  <1>6. /\ me \in Records /\ me.pc = (IF goes THEN "put" ELSE "failed") /\ me.req = writer[w].req
        /\ me.item = writer[w].item /\ me.cur = cur /\ me.writes = writer[w].writes
    BY <1>1, <1>2, <1>4 DEF Records, Pcs
  <1> HIDE DEF me
  <1>7. me.pc # "failed" => WriterOK(me)
    BY <1>1, <1>2, <1>5, <1>6 DEF WriterOK, Records
  <1> QED
    BY <1>3, <1>7, WriterMoves DEF fetchFresh

\* What a merge yields can be stored.
LEMMA MergedIsStored ==
    ASSUME NEW cur, WellFormed(cur), cur.title \in Titles,
           NEW writes \in Seq(Writes), KnownTypes(writes), NEW v \in Nat \ {0}
    PROVE  LET out == [applyFields(cur, writes) EXCEPT !.version = v]
           IN  Stored(out) /\ out # Absent /\ out \in Items
  <1>1. WellFormed(applyFields(cur, writes)) /\ applyFields(cur, writes).title \in Titles
    BY ApplyWellFormed
  <1> QED
    BY <1>1, VersionedIs, StoredIsItem

\* The merged item is sent and stored.
LEMMA PutTypes ==
    ASSUME TypeOK, NEW w \in Writers, PutItem(w)
    PROVE  TypeOK'
  <1> DEFINE i == writer[w].item
             v == server[i].version + 1
             out == [applyFields(writer[w].cur, writer[w].writes) EXCEPT !.version = v]
             me == [writer[w] EXCEPT !.pc = "apply", !.out = out]
  <1>1. /\ writer[w] \in Records /\ writer[w].pc = "put" /\ i \in Ids /\ writer[w].req \in Requests
        /\ writer[w].cur # Absent /\ Stored(writer[w].cur) /\ KnownTypes(writer[w].writes)
        /\ writer[w].writes \in Seq(Writes)
    BY TypeOKParts DEF PutItem, WriterOK, Records
  <1>2. v \in Nat \ {0}
    <2>1. server[i].version \in Nat
      BY <1>1, TypeOKParts, StoredIsItem
    <2> QED
      BY <2>1
  <1>3. Stored(out) /\ out # Absent /\ out \in Items
    <2>1. WellFormed(writer[w].cur) /\ writer[w].cur.title \in Titles
      BY <1>1, StoredIsItem
    <2> HIDE DEF v
    <2> QED
      BY <1>1, <1>2, <2>1, MergedIsStored
  <1>4. /\ server' = [server EXCEPT ![i] = out]
        /\ writer' = [Touching(i) EXCEPT ![w] = me]
        /\ Elsewhere /\ UNCHANGED <<replica, splitPaths>>
    BY DEF PutItem
  <1> HIDE DEF out, v
  <1>5. me \in Records /\ me.pc = "apply" /\ me.req = writer[w].req /\ me.item = i /\ me.out = out
    BY <1>1, <1>3 DEF Records, Pcs
  <1> HIDE DEF me
  <1>6. WriterOK(me)
    BY <1>1, <1>3, <1>5 DEF WriterOK, Records
  <1>7. DOMAIN Touching(i) = Writers /\ \A u \in Writers : WriterOK(Touching(i)[u])
    BY TypeOKParts, TouchingIs
  <1>8. DOMAIN writer' = Writers /\ \A u \in Writers : WriterOK(writer'[u])
    BY <1>4, <1>6, <1>7
  <1>9. DOMAIN server' = Ids /\ \A j \in Ids : Stored(server'[j])
    <2> HIDE DEF i
    <2> QED
      BY <1>1, <1>3, <1>4, TypeOKParts
  <1> QED
    BY <1>4, <1>8, <1>9 DEF TypeOK, Elsewhere, Held

\* A new item is sent and stored.
LEMMA CreateTypes ==
    ASSUME TypeOK, NEW w \in Writers, CreateItem(w)
    PROVE  TypeOK'
  <1> DEFINE i == NewId[w]
             empty == [Absent EXCEPT !.title = writer[w].req.addr[1]]
             out == [applyFields(empty, writer[w].writes) EXCEPT !.version = 1]
             me == [writer[w] EXCEPT !.pc = "apply", !.item = i, !.cur = empty, !.out = out]
  <1>1. /\ writer[w] \in Records /\ writer[w].req \in Requests /\ Creates(writer[w].req)
        /\ KnownTypes(writer[w].writes) /\ writer[w].writes \in Seq(Writes)
    BY TypeOKParts DEF CreateItem, WriterOK, Records
  <1>2. i \in Ids
    BY StoresAssumption
  <1>3. WellFormed(empty) /\ empty.title \in Titles /\ empty \in Items
    <2>1. writer[w].req.addr[1] \in Titles
      BY <1>1, RequestsAssumption
    <2> QED
      BY <2>1, EmptyIsWellFormed DEF WellFormed
  <1>4. /\ server' = [server EXCEPT ![i] = out] /\ Goes(w, me)
        /\ Elsewhere /\ UNCHANGED <<replica, splitPaths>>
    BY DEF CreateItem
  <1> HIDE DEF empty
  <1>5. Stored(out) /\ out # Absent /\ out \in Items
    <2>1. 1 \in Nat \ {0}
      OBVIOUS
    <2> QED
      BY <1>1, <1>3, <2>1, MergedIsStored
  <1> HIDE DEF out, i
  <1>6. me \in Records /\ me.pc = "apply" /\ me.req = writer[w].req /\ me.item = i /\ me.out = out
    BY <1>1, <1>2, <1>3, <1>5 DEF Records, Pcs
  <1> HIDE DEF me
  <1>7. WriterOK(me)
    BY <1>1, <1>2, <1>5, <1>6 DEF WriterOK, Records
  <1>8. DOMAIN writer' = Writers /\ \A u \in Writers : WriterOK(writer'[u])
    BY <1>4, <1>7, TypeOKParts, GoesIs
  <1>9. DOMAIN server' = Ids /\ \A j \in Ids : Stored(server'[j])
    BY <1>2, <1>4, <1>5, TypeOKParts
  <1> QED
    BY <1>4, <1>8, <1>9 DEF TypeOK, Elsewhere, Held

\* A call fails.
LEMMA FailTypes ==
    ASSUME TypeOK, NEW w \in Writers, Fails(w)
    PROVE  TypeOK'
  <1> DEFINE me == [Idle EXCEPT !.pc = "failed"]
  <1>1. Goes(w, me)
    BY DEF Fails
  <1>2. WriterOK(me)
    BY IdleIsOK
  <1> HIDE DEF me
  <1> QED
    BY <1>1, <1>2, WriterMoves DEF Fails

\* The outcome is taken over into the replica, or not if that is newer.
LEMMA ApplyTypes ==
    ASSUME TypeOK, NEW w \in Writers, applyWrite(w)
    PROVE  TypeOK'
  <1> DEFINE out == writer[w].out
             i == writer[w].item
             me == [writer[w] EXCEPT !.pc = "done", !.rx = Unset]
  <1>1. /\ writer[w] \in Records /\ i \in Ids /\ writer[w].req \in Requests
        /\ writer[w].rx \in Separators \cup {Unset}
        /\ out # Absent /\ Stored(out)
    BY TypeOKParts DEF applyWrite, WriterOK, Records
  <1>2. /\ \/ UNCHANGED <<replica, splitPaths>>
           \/ replica' = [replica EXCEPT ![i] = out] /\ splitPaths' \in Rebuilt(replica', writer[w].rx)
        /\ Goes(w, me) /\ Elsewhere /\ UNCHANGED server
    BY DEF applyWrite
  <1>3. me \in Records /\ me.pc = "done" /\ me.req = writer[w].req /\ me.item = i /\ me.out = out
    BY <1>1 DEF Records, Pcs
  <1> HIDE DEF me
  <1>4. WriterOK(me)
    BY <1>1, <1>3 DEF WriterOK, Records
  <1>5. DOMAIN writer' = Writers /\ \A u \in Writers : WriterOK(writer'[u])
    BY <1>2, <1>4, TypeOKParts, GoesIs
  <1> HIDE DEF out, i
  <1>6. CASE UNCHANGED <<replica, splitPaths>>
    BY <1>2, <1>5, <1>6 DEF TypeOK, Elsewhere, Held
  <1>7. CASE replica' = [replica EXCEPT ![i] = out] /\ splitPaths' \in Rebuilt(replica', writer[w].rx)
    <2>1. DOMAIN replica' = Ids /\ \A j \in Ids : Stored(replica'[j])
      BY <1>1, <1>7, TypeOKParts
    <2>2. \A key \in DOMAIN splitPaths' : splitPaths'[key] \in Held(replica')
      BY <1>1, <1>7, RebuiltIsTyped
    <2>3. \A j \in Ids : Stored(server'[j])
      BY <1>2, TypeOKParts
    <2> QED
      BY <1>2, <1>5, <2>1, <2>2, <2>3 DEF TypeOK, Elsewhere, Held
  <1> QED
    BY <1>2, <1>6, <1>7

\* A cycle puts what 1Password holds in place.
LEMMA CycleTypes ==
    ASSUME TypeOK, CycleEnds
    PROVE  TypeOK'
  <1>1. cycle \in Separators \cup {Unset}
    BY TypeOKParts DEF CycleEnds
  <1>2. /\ cycle' = NoCycle /\ replica' = server /\ splitPaths' \in Rebuilt(server, cycle)
        /\ UNCHANGED <<server, pathSplit, writer, edits, rewrites>>
    BY DEF CycleEnds, Reindexed
  <1>3. \A key \in DOMAIN splitPaths' : splitPaths'[key] \in Held(replica')
    BY <1>1, <1>2, RebuiltIsTyped
  <1> QED
    BY <1>2, <1>3 DEF TypeOK, Held

\* 1Password is edited by others.
LEMMA ChangedTypes ==
    ASSUME TypeOK, NEW i \in Ids, NEW item, Stored(item), Changed(i, item)
    PROVE  TypeOK'
  <1>1. /\ server' = [server EXCEPT ![i] = item] /\ writer' = Touching(i) /\ edits' = edits + 1
        /\ edits < MaxEdits
        /\ UNCHANGED <<replica, splitPaths, pathSplit, cycle, rewrites>>
    BY DEF Changed
  <1>2. DOMAIN writer' = Writers /\ \A u \in Writers : WriterOK(writer'[u])
    <2>1. DOMAIN Touching(i) = Writers
      BY TypeOKParts DEF Touching
    <2>2. \A u \in Writers : WriterOK(Touching(i)[u])
      BY TypeOKParts, TouchingIs
    <2> QED
      BY <1>1, <2>1, <2>2
  <1>3. DOMAIN server' = Ids /\ \A j \in Ids : Stored(server'[j])
    BY <1>1, TypeOKParts
  <1>4. edits' \in 0 .. MaxEdits
    BY <1>1, TypeOKParts, BoundsAreNumbers
  <1> QED
    BY <1>1, <1>2, <1>3, <1>4 DEF TypeOK, Held

\* Every step.
LEMMA NextTypes ==
    ASSUME TypeOK, [Next]_vars
    PROVE  TypeOK'
  <1>1. CASE \E w \in Writers : WriterStep(w)
    BY <1>1, BeginTypes, LocateTypes, FetchTypes, PutTypes, CreateTypes, ApplyTypes, FailTypes DEF WriterStep
  <1>2. CASE \E i \in Ids : EditElsewhere(i) \/ RenameElsewhere(i) \/ RemoveElsewhere(i)
    <2>1. PICK i \in Ids : EditElsewhere(i) \/ RenameElsewhere(i) \/ RemoveElsewhere(i)
      BY <1>2
    <2>2. Stored(server[i])
      BY TypeOKParts
    <2>3. CASE EditElsewhere(i)
      <3>1. PICK n \in DOMAIN server[i].fields :
               Changed(i, [server[i] EXCEPT !.fields[n].value = "edited", !.version = server[i].version + 1])
        BY <2>3 DEF EditElsewhere
      <3>2. server[i] # Absent
        BY <3>1 DEF Changed
      <3>3. Stored([server[i] EXCEPT !.fields[n].value = "edited", !.version = server[i].version + 1])
        BY <2>2, <3>2, EditedIs
      <3> QED
        BY <3>1, <3>3, ChangedTypes
    <2>4. CASE RenameElsewhere(i)
      <3>1. PICK t \in Titles : Changed(i, [server[i] EXCEPT !.title = t, !.version = server[i].version + 1])
        BY <2>4 DEF RenameElsewhere
      <3>2. server[i] # Absent
        BY <3>1 DEF Changed
      <3>3. Stored([server[i] EXCEPT !.title = t, !.version = server[i].version + 1])
        BY <2>2, <3>2, RenamedIs
      <3> QED
        BY <3>1, <3>3, ChangedTypes
    <2>5. CASE RemoveElsewhere(i)
      BY <2>5, ChangedTypes DEF RemoveElsewhere, Stored
    <2> QED
      BY <2>1, <2>3, <2>4, <2>5
  <1>3. CASE CycleStarts
    BY <1>3 DEF CycleStarts, TypeOK, Held
  <1>4. CASE CycleEnds
    BY <1>4, CycleTypes
  <1>5. CASE WritePathSplit
    <2>1. rewrites' \in 0 .. MaxRewrites
      BY <1>5, TypeOKParts, BoundsAreNumbers DEF WritePathSplit
    <2> QED
      BY <1>5, <2>1 DEF WritePathSplit, TypeOK, Held
  <1>6. CASE UNCHANGED vars
    BY <1>6 DEF vars, TypeOK, Held
  <1> QED
    BY <1>1, <1>2, <1>3, <1>4, <1>5, <1>6 DEF Next

\* The first state.
LEMMA InitTypes ==
    ASSUME Init
    PROVE  TypeOK
  <1>1. DOMAIN server = Ids /\ \A i \in Ids : Stored(server[i])
    BY StoresAssumption DEF Init
  <1>2. \A key \in DOMAIN splitPaths : splitPaths[key] \in Held(replica)
    BY RebuiltIsTyped DEF Init
  <1>3. DOMAIN writer = Writers /\ \A w \in Writers : WriterOK(writer[w])
    BY IdleIsOK DEF Init
  <1>4. edits \in 0 .. MaxEdits /\ rewrites \in 0 .. MaxRewrites
    BY BoundsAreNumbers DEF Init
  <1> QED
    BY <1>1, <1>2, <1>3, <1>4 DEF TypeOK, Init

\* In every reachable state both stores hold well-formed items, the index names
\* items the replica holds, and a writer holds what its step needs.
THEOREM TypesKept == Spec => []TypeOK
  <1>1. Init => TypeOK
    BY InitTypes
  <1>2. TypeOK /\ [Next]_vars => TypeOK'
    BY NextTypes
  <1> QED
    BY <1>1, <1>2, PTL DEF Spec

-----------------------------------------------------------------------------
(* The index.                                                              *)

\* An index is empty, or exact under a path_split.
ExactIndex(paths, items) == paths = <<>> \/ \E rx \in Separators : paths = ExactOf(items, rx)

\* The property says so of the replica's own index.
LEMMA IndexIsExactOf == IndexIsExact <=> ExactIndex(splitPaths, replica)
  BY DEF IndexIsExact, ExactIndex, Exact, ExactOf, KeyOf

\* Rebuilding makes it so.
LEMMA RebuiltIsExactIndex ==
    ASSUME NEW items, NEW rx \in Separators \cup {Unset}, NEW paths \in Rebuilt(items, rx)
    PROVE  ExactIndex(paths, items)
  BY RebuiltIsExact, RebuiltUnset DEF ExactIndex

\* Whoever changes the replica rebuilds the index from what it then holds.
LEMMA NextExact ==
    ASSUME TypeOK, IndexIsExact, [Next]_vars
    PROVE  IndexIsExact'
  <1>1. ExactIndex(splitPaths, replica)
    BY IndexIsExactOf
  <1>2. UNCHANGED <<replica, splitPaths>> => IndexIsExact'
    <2>1. ASSUME UNCHANGED <<replica, splitPaths>> PROVE IndexIsExact'
      <3>1. ExactIndex(splitPaths', replica')
        BY <1>1, <2>1
      <3> QED
        BY <3>1 DEF IndexIsExact, ExactIndex, Exact, ExactOf, KeyOf, Held
    <2> QED
      BY <2>1
  <1>3. ASSUME NEW w \in Writers, applyWrite(w) PROVE IndexIsExact'
    <2>1. writer[w].rx \in Separators \cup {Unset}
      BY TypeOKParts DEF Records
    <2>2. CASE UNCHANGED <<replica, splitPaths>>
      BY <1>2, <2>2
    <2>3. CASE splitPaths' \in Rebuilt(replica', writer[w].rx)
      <3>1. ExactIndex(splitPaths', replica')
        BY <2>1, <2>3, RebuiltIsExactIndex
      <3> QED
        BY <3>1 DEF IndexIsExact, ExactIndex, Exact, ExactOf, KeyOf, Held
    <2> QED
      BY <1>3, <2>2, <2>3 DEF applyWrite
  <1>4. CASE CycleEnds
    <2>1. cycle \in Separators \cup {Unset} /\ replica' = server /\ splitPaths' \in Rebuilt(server, cycle)
      BY <1>4, TypeOKParts DEF CycleEnds, Reindexed
    <2>2. ExactIndex(splitPaths', replica')
      BY <2>1, RebuiltIsExactIndex
    <2> QED
      BY <2>2 DEF IndexIsExact, ExactIndex, Exact, ExactOf, KeyOf, Held
  <1>5. CASE \E w \in Writers : WriterStep(w)
    BY <1>2, <1>3, <1>5 DEF WriterStep, beginWrite, locateItem, fetchFresh, PutItem, CreateItem, Fails
  <1>6. CASE \E i \in Ids : EditElsewhere(i) \/ RenameElsewhere(i) \/ RemoveElsewhere(i)
    BY <1>2, <1>6 DEF EditElsewhere, RenameElsewhere, RemoveElsewhere, Changed
  <1>7. CASE CycleStarts \/ WritePathSplit \/ UNCHANGED vars
    BY <1>2, <1>7 DEF CycleStarts, WritePathSplit, vars
  <1> QED
    BY <1>4, <1>5, <1>6, <1>7 DEF Next

\* In every reachable state the index is exact under a path_split that was
\* configured once, whoever rebuilt it last and however the items were met.
THEOREM IndexStaysExact == Spec => []IndexIsExact
  <1>1. Init => IndexIsExact
    <2>1. ASSUME Init PROVE IndexIsExact
      <3>1. ExactIndex(splitPaths, replica)
        BY <2>1, RebuiltIsExactIndex DEF Init
      <3> QED
        BY <3>1, IndexIsExactOf
    <2> QED
      BY <2>1
  <1>2. TypeOK /\ IndexIsExact /\ [Next]_vars => IndexIsExact'
    BY NextExact
  <1> QED
    BY <1>1, <1>2, TypesKept, PTL DEF Spec

-----------------------------------------------------------------------------
(* Addresses.                                                              *)

\* A key of an exact index stands for the one held item that bears it, and every
\* held item whose split path is no other's has its key there.
LEMMA KeyIs ==
    ASSUME NEW rx \in Separators, splitPaths = Exact(rx), IndexTyped, NEW key \in DOMAIN splitPaths
    PROVE  /\ splitPaths[key] \in Held(replica)
           /\ SplitAt[rx][replica[splitPaths[key]].title] = key
           /\ \A j \in Held(replica) : SplitAt[rx][replica[j].title] = key => j = splitPaths[key]
  <1> DEFINE keys == [i \in Held(replica) |-> SplitAt[rx][replica[i].title]]
             alone == {i \in Held(replica) : \A j \in Held(replica) \ {i} : keys[j] # keys[i]}
  <1>1. splitPaths = [k \in {keys[i] : i \in alone} |-> CHOOSE i \in alone : keys[i] = k]
    BY DEF Exact
  <1>2. \A i \in alone : i \in Held(replica) /\ \A j \in Held(replica) : keys[j] = keys[i] => j = i
    OBVIOUS
  <1>3. \A i \in Held(replica) : keys[i] = SplitAt[rx][replica[i].title]
    OBVIOUS
  <1> HIDE DEF keys, alone
  <1>4. splitPaths[key] \in alone /\ keys[splitPaths[key]] = key
    BY <1>1
  <1> QED
    BY <1>2, <1>3, <1>4

\* A split path is an address, and one of a single segment is its title.
LEMMA SplitAtIs ==
    ASSUME NEW rx \in Separators, NEW t \in Titles
    PROVE  /\ SplitAt[rx][t] \in Seq(Segments) /\ SplitAt[rx][t] # <<>>
           /\ Len(SplitAt[rx][t]) = 1 => SplitAt[rx][t] = <<t>>
  <1>1. SplitAt \in [Separators -> [Titles -> Seq(Segments) \ {<<>>}]]
    BY NamesAssumption
  <1>2. SplitAt[rx][t] \in Seq(Segments) \ {<<>>}
    BY <1>1, Zenon
  <1>3. Len(SplitAt[rx][t]) = 1 => SplitAt[rx][t] = <<t>>
    BY NamesAssumption, Zenon
  <1> QED
    BY <1>2, <1>3

\* The two ways an item's address is resolved.
LEMMA ItemFromSegmentsCases ==
    ASSUME NEW segs
    PROVE  /\ Len(segs) = 1 /\ resolveItemAddress(segs[1]) # NotFound =>
                  resolveItemFromSegments(segs) = resolveItemAddress(segs[1])
           /\ ~(Len(segs) = 1 /\ resolveItemAddress(segs[1]) # NotFound) =>
                  resolveItemFromSegments(segs) =
                      IF resolveSplitPath(segs).rest = <<>> THEN resolveSplitPath(segs).id ELSE NotFound
  BY Zenon DEF resolveItemFromSegments

\* A key names the item the index has for it, unless a single segment is an item's ID.
LEMMA KeyIsAddress ==
    ASSUME TypeOK, NEW rx \in Separators, splitPaths = Exact(rx), NEW key \in DOMAIN splitPaths
    PROVE  resolveItemFromSegments(key) = splitPaths[key] \/ (Len(key) = 1 /\ key[1] \in Held(replica))
  <1> DEFINE i == splitPaths[key]
             t == replica[i].title
  <1>1. IndexTyped
    BY TypeOKParts
  <1>2. /\ i \in Held(replica) /\ SplitAt[rx][t] = key
        /\ \A j \in Held(replica) : SplitAt[rx][replica[j].title] = key => j = i
    BY <1>1, KeyIs
  <1>3. i \in Ids /\ i # NotFound
    BY <1>2, NamesAssumption DEF Held
  <1>4. t \in Titles
    BY <1>2, <1>3, TypeOKParts, StoredIsItem DEF Held
  <1>5. key \in Seq(Segments) /\ key # <<>>
    BY <1>2, <1>4, SplitAtIs
  <1>6. Taken(key) = Len(key) /\ Len(key) # 0
    <2>1. SubSeq(key, 1, Len(key)) = key /\ Len(key) \in 1 .. Len(key)
      BY <1>5
    <2>2. Taken(key) \in 0 .. Len(key) /\ Len(key) <= Taken(key)
      BY <1>5, <2>1, TakenIs
    <2> QED
      BY <1>5, <2>1, <2>2
  <1>7. resolveSplitPath(key).id = i /\ resolveSplitPath(key).rest = <<>>
    <2>1. SubSeq(key, 1, Len(key)) = key /\ SubSeq(key, Len(key) + 1, Len(key)) = <<>>
      BY <1>5
    <2>2. Taken(key) # 0
      BY <1>6
    <2>3. /\ resolveSplitPath(key).id = splitPaths[SubSeq(key, 1, Taken(key))]
          /\ resolveSplitPath(key).rest = SubSeq(key, Taken(key) + 1, Len(key))
      BY <1>1, <1>5, <2>2, SplitPathIs
    <2> QED
      BY <1>6, <2>1, <2>3
  <1>8. CASE Len(key) # 1
    <2>1. resolveItemFromSegments(key) =
             IF resolveSplitPath(key).rest = <<>> THEN resolveSplitPath(key).id ELSE NotFound
      BY <1>8, ItemFromSegmentsCases, Zenon
    <2> QED
      BY <1>7, <2>1
  <1>9. CASE Len(key) = 1 /\ key[1] \notin Held(replica)
    <2>1. key = <<t>>
      BY <1>2, <1>4, <1>9, SplitAtIs
    <2>2. \A j \in Held(replica) : replica[j].title = t => j = i
      BY <1>2
    <2>3. resolveTitle(t) = i
      BY <1>2, <2>2, TitleIs
    <2>4. resolveItemAddress(key[1]) = i
      BY <1>9, <2>1, <2>3 DEF resolveItemAddress
    <2> QED
      BY <1>3, <1>9, <2>4, ItemFromSegmentsCases, Zenon
  <1> QED
    BY <1>8, <1>9

\* A part of a sequence, of a single place, and a sequence of two.
LEMMA PartOfOne ==
    ASSUME NEW S, NEW s \in Seq(S), NEW m \in 1 .. Len(s)
    PROVE  SubSeq(s, m, m) = <<s[m]>>
  <1>1. s[m] \in S
    OBVIOUS
  <1>2. SubSeq(s, m, m) \in Seq(S) /\ Len(SubSeq(s, m, m)) = 1 /\ SubSeq(s, m, m)[1] = s[m]
    OBVIOUS
  <1>3. <<s[m]>> \in Seq(S) /\ Len(<<s[m]>>) = 1 /\ <<s[m]>>[1] = s[m]
    BY <1>1
  <1> DEFINE a == SubSeq(s, m, m)
             b == <<s[m]>>
  <1> HIDE DEF a, b
  <1>4. ASSUME a \in Seq(S), b \in Seq(S), Len(a) = 1, Len(b) = 1, a[1] = b[1] PROVE a = b
    BY <1>4
  <1> QED
    BY <1>2, <1>3, <1>4 DEF a, b

\* Two sequences of one segment make one of two.
LEMMA TwoSegments ==
    ASSUME NEW S, NEW t \in S, NEW f \in S
    PROVE  <<t>> \o <<f>> = <<t, f>>
  <1>1. /\ <<t>> \o <<f>> \in Seq(S) /\ Len(<<t>> \o <<f>>) = 2
        /\ (<<t>> \o <<f>>)[1] = t /\ (<<t>> \o <<f>>)[2] = f
    OBVIOUS
  <1>2. <<t, f>> \in Seq(S) /\ Len(<<t, f>>) = 2 /\ <<t, f>>[1] = t /\ <<t, f>>[2] = f
    OBVIOUS
  <1> DEFINE a == <<t>> \o <<f>>
             b == <<t, f>>
  <1> HIDE DEF a, b
  <1>3. ASSUME a \in Seq(S), b \in Seq(S), Len(a) = 2, Len(b) = 2, a[1] = b[1], a[2] = b[2] PROVE a = b
    BY <1>3
  <1> QED
    BY <1>1, <1>2, <1>3 DEF a, b

\* A segment more adds nothing to what the index takes, unless it makes a split path.
LEMMA TakenOfOneMore ==
    ASSUME NEW addr \in Seq(Segments), addr # <<>>, NEW f \in Segments, addr \o <<f>> \notin DOMAIN splitPaths
    PROVE  /\ addr \o <<f>> \in Seq(Segments)
           /\ Taken(addr \o <<f>>) = Taken(addr) /\ Taken(addr) \in 0 .. Len(addr)
           /\ \A n \in 0 .. Len(addr) : SubSeq(addr \o <<f>>, 1, n) = SubSeq(addr, 1, n)
           /\ SubSeq(addr \o <<f>>, Len(addr) + 1, Len(addr \o <<f>>)) = <<f>>
  <1> DEFINE segs == addr \o <<f>>
             l == Len(addr)
  <1>1. segs \in Seq(Segments) /\ Len(segs) = l + 1 /\ l \in Nat /\ l # 0
    OBVIOUS
  <1>2. \A n \in 0 .. l : SubSeq(segs, 1, n) = SubSeq(addr, 1, n)
    OBVIOUS
  <1>3. SubSeq(segs, 1, l + 1) = segs /\ SubSeq(segs, l + 1, l + 1) = <<f>>
    <2>1. segs[l + 1] = f
      OBVIOUS
    <2> HIDE DEF segs, l
    <2>2. SubSeq(segs, 1, l + 1) = segs
      BY <1>1
    <2>3. SubSeq(segs, l + 1, l + 1) = <<segs[l + 1]>>
      BY <1>1, PartOfOne
    <2> QED
      BY <2>1, <2>2, <2>3
  <1>4. segs \notin DOMAIN splitPaths
    OBVIOUS
  <1> HIDE DEF segs, l
  <1>5. /\ Taken(segs) \in 0 .. l + 1
        /\ Taken(segs) # 0 => SubSeq(segs, 1, Taken(segs)) \in DOMAIN splitPaths
        /\ \A n \in 1 .. l + 1 : SubSeq(segs, 1, n) \in DOMAIN splitPaths => n <= Taken(segs)
    BY <1>1, TakenIs
  <1>6. /\ Taken(addr) \in 0 .. l
        /\ Taken(addr) # 0 => SubSeq(addr, 1, Taken(addr)) \in DOMAIN splitPaths
        /\ \A n \in 1 .. l : SubSeq(addr, 1, n) \in DOMAIN splitPaths => n <= Taken(addr)
    BY TakenIs DEF l
  <1>7. Taken(segs) # l + 1
    <2>1. l + 1 # 0
      BY <1>1
    <2> QED
      BY <1>3, <1>4, <1>5, <2>1
  <1>8. Taken(segs) <= Taken(addr)
    <2>1. CASE Taken(segs) = 0
      BY <1>1, <1>6, <2>1
    <2>2. CASE Taken(segs) # 0
      <3>1. Taken(segs) \in 1 .. l /\ Taken(segs) \in 0 .. l
        BY <1>1, <1>5, <1>7, <2>2
      <3>2. SubSeq(addr, 1, Taken(segs)) \in DOMAIN splitPaths
        BY <1>2, <1>5, <2>2, <3>1
      <3> QED
        BY <1>6, <3>1, <3>2
    <2> QED
      BY <2>1, <2>2
  <1>9. Taken(addr) <= Taken(segs)
    <2>1. CASE Taken(addr) = 0
      BY <1>1, <1>5, <2>1
    <2>2. CASE Taken(addr) # 0
      <3>1. Taken(addr) \in 1 .. l + 1 /\ Taken(addr) \in 0 .. l
        BY <1>1, <1>6, <2>2
      <3>2. SubSeq(segs, 1, Taken(addr)) \in DOMAIN splitPaths
        BY <1>2, <1>6, <2>2, <3>1
      <3> QED
        BY <1>5, <3>1, <3>2
    <2> QED
      BY <2>1, <2>2
  <1>10. Taken(segs) = Taken(addr)
    BY <1>1, <1>5, <1>6, <1>8, <1>9
  <1> QED
    BY <1>1, <1>2, <1>3, <1>6, <1>10 DEF segs, l

\* The two ways a field's address is resolved, where a label alone is left.
LEMMA FieldAddressCases ==
    ASSUME NEW segs, NEW i \in Ids, NEW f
    PROVE  /\ resolveSplitPath(segs).id = i /\ resolveSplitPath(segs).rest = <<f>> =>
                  resolveFieldAddress(segs) = [id |-> i, section |-> TopLevel, label |-> f]
           /\ \A t : resolveSplitPath(segs).id = NotFound /\ segs = <<t, f>> /\ resolveItemAddress(t) = i =>
                  resolveFieldAddress(segs) = [id |-> i, section |-> TopLevel, label |-> f]
  <1> DEFINE Part(id, rest) ==
                IF id \notin Ids \/ Len(rest) \notin {1, 2}
                THEN [id |-> IF id \in Ids THEN NotFound ELSE id, section |-> TopLevel, label |-> TopLevel]
                ELSE [id |-> id, section |-> IF Len(rest) = 2 THEN rest[1] ELSE TopLevel, label |-> Last(rest)]
             split == resolveSplitPath(segs)
  <1>1. Part(i, <<f>>) = [id |-> i, section |-> TopLevel, label |-> f]
    <2>1. Len(<<f>>) = 1 /\ Last(<<f>>) = f
      BY DEF Last
    <2> QED
      BY <2>1
  <1>2. resolveFieldAddress(segs) =
           IF split.id # NotFound THEN Part(split.id, split.rest)
           ELSE IF Len(segs) \in {2, 3} THEN Part(resolveItemAddress(segs[1]), Tail(segs))
           ELSE Part(NotFound, <<>>)
    BY DEF resolveFieldAddress
  <1>3. i # NotFound
    BY NamesAssumption
  <1> HIDE DEF Part, split
  <1>4. ASSUME split.id = i, split.rest = <<f>>
        PROVE  resolveFieldAddress(segs) = [id |-> i, section |-> TopLevel, label |-> f]
    BY <1>1, <1>2, <1>3, <1>4
  <1>5. ASSUME NEW t, split.id = NotFound, segs = <<t, f>>, resolveItemAddress(t) = i
        PROVE  resolveFieldAddress(segs) = [id |-> i, section |-> TopLevel, label |-> f]
    <2>1. Len(segs) = 2 /\ segs[1] = t /\ Tail(segs) = <<f>>
      BY <1>5
    <2> QED
      BY <1>1, <1>2, <1>5, <2>1
  <1> QED
    BY <1>4, <1>5 DEF split

\* A key of a single segment is the title of the only item that bears it.
SingleKeys ==
    \A key \in DOMAIN splitPaths :
        key = <<key[1]>> => /\ splitPaths[key] \in Held(replica) /\ replica[splitPaths[key]].title = key[1]
                            /\ \A j \in Held(replica) : replica[j].title = key[1] => j = splitPaths[key]

\* They are in an exact index, as only a title that is not split makes one.
LEMMA SingleKeysAre ==
    ASSUME TypeOK, IndexIsExact
    PROVE  SingleKeys
  <1>1. CASE splitPaths = <<>>
    <2>1. DOMAIN splitPaths = {}
      BY <1>1, EmptyHasNoPlaces
    <2> QED
      BY <2>1 DEF SingleKeys
  <1>2. ASSUME NEW rx \in Separators, splitPaths = Exact(rx) PROVE SingleKeys
    <2>1. ASSUME NEW key \in DOMAIN splitPaths, key = <<key[1]>>
          PROVE  /\ splitPaths[key] \in Held(replica) /\ replica[splitPaths[key]].title = key[1]
                 /\ \A j \in Held(replica) : replica[j].title = key[1] => j = splitPaths[key]
      <3> DEFINE i == splitPaths[key]
                 t == replica[i].title
      <3>1. /\ i \in Held(replica) /\ SplitAt[rx][t] = key
            /\ \A j \in Held(replica) : SplitAt[rx][replica[j].title] = key => j = i
        BY <1>2, TypeOKParts, KeyIs
      <3>2. t \in Titles
        BY <3>1, TypeOKParts, StoredIsItem DEF Held
      <3>3. Len(key) = 1
        BY <2>1
      <3>4. key = <<t>>
        BY <3>1, <3>2, <3>3, SplitAtIs
      <3>5. key[1] = t
        BY <3>4
      <3> HIDE DEF i, t
      <3>6. \A j \in Held(replica) : replica[j].title = t => j = i
        BY <3>1
      <3> QED
        BY <3>1, <3>5, <3>6 DEF i, t
    <2> QED
      BY <2>1 DEF SingleKeys
  <1> QED
    BY <1>1, <1>2 DEF IndexIsExact

\* The item an item's address names is the one its field's address names.
LEMMA FieldAgrees ==
    ASSUME TypeOK, SingleKeys, NEW addr \in Seq(Segments), addr # <<>>, NEW f \in Segments,
           addr \o <<f>> \notin DOMAIN splitPaths,
           NEW i \in Ids, i = resolveItemFromSegments(addr),
           ~(addr = <<i>> /\ \E j \in Held(replica) \ {i} : replica[j].title = i)
    PROVE  resolveFieldAddress(addr \o <<f>>) = [id |-> i, section |-> TopLevel, label |-> f]
  <1> DEFINE segs == addr \o <<f>>
             n == Taken(addr)
             split == resolveSplitPath(segs)
  <1>1. IndexTyped /\ i # NotFound
    BY TypeOKParts, NamesAssumption
  <1>2. /\ segs \in Seq(Segments) /\ Taken(segs) = n /\ n \in 0 .. Len(addr)
        /\ SubSeq(segs, 1, n) = SubSeq(addr, 1, n)
        /\ SubSeq(segs, Len(addr) + 1, Len(segs)) = <<f>>
    BY TakenOfOneMore
  <1> HIDE DEF segs, n
  <1>3. /\ n = 0 => split.id = NotFound
        /\ n # 0 => split.id = splitPaths[SubSeq(addr, 1, n)] /\ split.rest = SubSeq(segs, n + 1, Len(segs))
    <2>1. /\ Taken(segs) = 0 => resolveSplitPath(segs).id = NotFound
          /\ Taken(segs) # 0 =>
                /\ resolveSplitPath(segs).id = splitPaths[SubSeq(segs, 1, Taken(segs))]
                /\ resolveSplitPath(segs).rest = SubSeq(segs, Taken(segs) + 1, Len(segs))
      <3>1. Taken(segs) = 0 => resolveSplitPath(segs).id = NotFound
        BY <1>1, <1>2, SplitPathIs
      <3>2. Taken(segs) # 0 => resolveSplitPath(segs).id = splitPaths[SubSeq(segs, 1, Taken(segs))]
        BY <1>1, <1>2, SplitPathIs, Zenon
      <3>3. Taken(segs) # 0 => resolveSplitPath(segs).rest = SubSeq(segs, Taken(segs) + 1, Len(segs))
        BY <1>1, <1>2, SplitPathIs, Zenon
      <3> QED
        BY <3>1, <3>2, <3>3
    <2> HIDE DEF split
    <2> QED
      BY <1>2, <2>1, Zenon DEF split
  <1>4. /\ n = 0 => resolveSplitPath(addr).id = NotFound
        /\ n # 0 => /\ resolveSplitPath(addr).id = splitPaths[SubSeq(addr, 1, n)]
                    /\ resolveSplitPath(addr).rest = SubSeq(addr, n + 1, Len(addr))
    BY <1>1, SplitPathIs DEF n
  <1> HIDE DEF split
  <1>5. CASE Len(addr) = 1 /\ resolveItemAddress(addr[1]) # NotFound
    <2> DEFINE t == addr[1]
    <2>1. i = resolveItemAddress(t)
      BY <1>5, ItemFromSegmentsCases, Zenon
    <2>2. addr = <<t>> /\ SubSeq(addr, 1, 1) = addr
      BY <1>5
    <2> HIDE DEF t
    <2>3. segs = <<t, f>>
      <3>1. t \in Segments
        BY <1>5 DEF t
      <3>2. <<t>> \o <<f>> = <<t, f>>
        BY <3>1, TwoSegments
      <3> QED
        BY <2>2, <3>2 DEF segs
    <2>4. CASE n = 0
      BY <1>3, <2>1, <2>3, <2>4, FieldAddressCases DEF split, segs
    <2>5. CASE n # 0
      <3>1. n = 1
        BY <1>2, <1>5, <2>5
      <3>2. addr \in DOMAIN splitPaths
        <4>1. SubSeq(addr, 1, n) \in DOMAIN splitPaths
          BY <2>5, TakenIs DEF n
        <4> QED
          BY <2>2, <3>1, <4>1
      <3> DEFINE j == splitPaths[addr]
      <3>3. split.id = j /\ split.rest = <<f>>
        <4>1. split.id = splitPaths[SubSeq(addr, 1, 1)] /\ split.rest = SubSeq(segs, 1 + 1, Len(segs))
          BY <1>3, <2>5, <3>1
        <4>2. split.rest = <<f>>
          BY <1>2, <1>5, <4>1
        <4> QED
          BY <2>2, <4>1, <4>2
      <3>4. addr[1] = t
        BY DEF t
      <3>5. /\ j \in Held(replica) /\ replica[j].title = t
            /\ \A m \in Held(replica) : replica[m].title = t => m = j
        BY <2>2, <3>2, <3>4 DEF SingleKeys
      <3> HIDE DEF j
      <3>6. CASE t \in Held(replica)
        <4>1. i = t
          BY <2>1, <3>6 DEF resolveItemAddress
        <4>2. j = i
          BY <2>2, <3>5, <4>1
        <4> QED
          BY <3>3, <4>2, FieldAddressCases DEF split, segs
      <3>7. CASE t \notin Held(replica)
        <4>1. i = resolveTitle(t)
          BY <2>1, <3>7 DEF resolveItemAddress
        <4>2. i \in Held(replica) /\ replica[i].title = t
          BY <4>1, TitleIs
        <4>3. j = i
          BY <3>5, <4>2
        <4> QED
          BY <3>3, <4>3, FieldAddressCases DEF split, segs
      <3> QED
        BY <3>6, <3>7
    <2> QED
      BY <2>4, <2>5
  <1>6. CASE ~(Len(addr) = 1 /\ resolveItemAddress(addr[1]) # NotFound)
    <2>1. i = IF resolveSplitPath(addr).rest = <<>> THEN resolveSplitPath(addr).id ELSE NotFound
      BY <1>6, ItemFromSegmentsCases, Zenon
    <2>2. n # 0 /\ i = splitPaths[SubSeq(addr, 1, n)] /\ SubSeq(addr, n + 1, Len(addr)) = <<>>
      BY <1>1, <1>4, <2>1
    <2>3. n = Len(addr)
      <3>1. ASSUME n < Len(addr) PROVE FALSE
        <4>1. Len(SubSeq(addr, n + 1, Len(addr))) = Len(addr) - n
          BY <1>2, <3>1
        <4>2. Len(<<>>) = 0
          OBVIOUS
        <4>3. Len(addr) - n = 0
          BY <2>2, <4>1, <4>2
        <4> QED
          BY <1>2, <3>1, <4>3
      <3> QED
        BY <1>2, <3>1
    <2>4. split.id = i /\ split.rest = <<f>>
      BY <1>2, <1>3, <2>2, <2>3
    <2> QED
      BY <2>4, FieldAddressCases DEF split, segs
  <1> QED
    BY <1>5, <1>6

\* In every reachable state a key of the index names its item, and an item's
\* address and the addresses of its fields name the same item.
THEOREM AddressesKeepAgreeing == Spec => []AddressesAgree
  <1>1. ASSUME TypeOK, IndexIsExact PROVE AddressesAgree
    <2>1. ASSUME NEW key \in DOMAIN splitPaths
          PROVE  \/ resolveItemFromSegments(key) = splitPaths[key]
                 \/ Len(key) = 1 /\ key[1] \in Held(replica)
      <3>1. CASE splitPaths = <<>>
        BY <2>1, <3>1, EmptyHasNoPlaces
      <3>2. ASSUME NEW rx \in Separators, splitPaths = Exact(rx)
            PROVE  \/ resolveItemFromSegments(key) = splitPaths[key]
                   \/ Len(key) = 1 /\ key[1] \in Held(replica)
        BY <1>1, <3>2, KeyIsAddress
      <3> QED
        BY <1>1, <3>1, <3>2 DEF IndexIsExact
    <2>2. ASSUME NEW addr \in ItemAddresses, NEW i \in Ids, i = resolveItemFromSegments(addr),
                 ~(addr = <<i>> /\ \E j \in Held(replica) \ {i} : replica[j].title = i),
                 NEW f \in FieldNames, addr \o <<f>> \notin DOMAIN splitPaths
          PROVE  resolveFieldAddress(addr \o <<f>>) = [id |-> i, section |-> TopLevel, label |-> f]
      <3>1. addr \in Seq(Segments) /\ addr # <<>>
        <4>1. CASE addr \in {<<t>> : t \in Titles \cap Segments}
          <5>1. PICK t \in Segments : addr = <<t>>
            BY <4>1
          <5> QED
            BY <5>1
        <4>2. CASE addr \in UNION {Range(SplitAt[rx]) : rx \in Separators}
          <5>1. PICK rx \in Separators : addr \in Range(SplitAt[rx])
            BY <4>2
          <5>2. SplitAt[rx] \in [Titles -> Seq(Segments) \ {<<>>}]
            BY NamesAssumption, Zenon
          <5>3. addr \in Seq(Segments) \ {<<>>}
            BY <5>1, <5>2, Zenon DEF Range
          <5> QED
            BY <5>3
        <4> QED
          BY <4>1, <4>2 DEF ItemAddresses
      <3>2. f \in Segments
        <4>1. Alphabet \in Seq(Segments \ {TopLevel})
          BY NamesAssumption
        <4>2. PICK k \in DOMAIN Alphabet : f = Alphabet[k]
          BY DEF FieldNames, ToSet
        <4> QED
          BY <4>1, <4>2
      <3> QED
        BY <1>1, <2>2, <3>1, <3>2, SingleKeysAre, FieldAgrees
    <2> QED
      BY <2>1, <2>2 DEF AddressesAgree
  <1> QED
    BY <1>1, TypesKept, IndexStaysExact, PTL

-----------------------------------------------------------------------------
(* What a write leaves.                                                    *)

\* Two fields of the same label and section differ in value and type at most.
LEMMA SamePlace ==
    ASSUME NEW f \in Fields, NEW g \in Fields, f.label = g.label, f.section = g.section
    PROVE  [f EXCEPT !.value = "", !.type = ""] = [g EXCEPT !.value = "", !.type = ""]
  BY DEF Fields

\* A merge keeps all but what its writes name.
LEMMA ApplyKeepsTheRest ==
    ASSUME NEW item, WellFormed(item), NEW writes \in Seq(Writes), KnownTypes(writes), NEW v \in Nat
    PROVE  KeptBut(item, [applyFields(item, writes) EXCEPT !.version = v], writes)
  <1> DEFINE x == applyFields(item, writes)
             new == [x EXCEPT !.version = v]
             N == Len(writes)
  <1>1. Kept(item, x, writes, N) /\ WellFormed(x)
    BY ApplyKeeps, ApplyWellFormed
  <1>2. x \in Items /\ item \in Items /\ item.fields \in Seq(Fields) /\ x.fields \in Seq(Fields)
    BY <1>1 DEF WellFormed, Items
  <1>3. new.title = x.title /\ new.fields = x.fields
    BY <1>2 DEF Items
  <1>4. \A l \in 1 .. N : writes[l] \in ToSet(writes)
    BY DEF ToSet
  <1> HIDE DEF x, new, N
  <1>5. ASSUME NEW n \in DOMAIN item.fields
        PROVE  /\ n \in DOMAIN new.fields
               /\ [new.fields[n] EXCEPT !.value = "", !.type = ""] = [item.fields[n] EXCEPT !.value = "", !.type = ""]
               /\ new.fields[n] # item.fields[n] =>
                   \E u \in ToSet(writes) : /\ Named(u, item, item.fields[n])
                                            /\ u.type = AsIs => new.fields[n].type = item.fields[n].type
    <2>1. /\ n \in DOMAIN x.fields
          /\ x.fields[n].label = item.fields[n].label /\ x.fields[n].section = item.fields[n].section
          /\ x.fields[n] # item.fields[n] =>
                \E l \in 1 .. N : /\ Named(writes[l], item, item.fields[n])
                                  /\ writes[l].type = AsIs => x.fields[n].type = item.fields[n].type
      BY <1>1 DEF Kept
    <2>2. x.fields[n] \in Fields /\ item.fields[n] \in Fields
      BY <1>2, <2>1
    <2>3. [x.fields[n] EXCEPT !.value = "", !.type = ""] = [item.fields[n] EXCEPT !.value = "", !.type = ""]
      BY <2>1, <2>2, SamePlace
    <2> QED
      BY <1>3, <1>4, <2>1, <2>3
  <1>6. new.title = item.title
    BY <1>1, <1>3 DEF Kept
  <1> QED
    BY <1>5, <1>6 DEF KeptBut, new, x

\* A writer that sends its copy merged holds the item as it is, unless that was
\* touched since; and nothing is stored yet under the ID of an item to come.
Fresh ==
    \A w \in Writers :
        /\ writer[w].pc = "put" /\ ~writer[w].touched => server[writer[w].item] = writer[w].cur
        /\ writer[w].pc \in {"idle", "locate", "missed", "create"} => server[NewId[w]] = Absent

\* What a step of one writer does to the record of another: nothing, or a mark.
LEMMA FreshElsewhere ==
    ASSUME TypeOK, Fresh, NEW w \in Writers, NEW me, Goes(w, me), UNCHANGED server,
           me.pc = "put" /\ ~me.touched => server[me.item] = me.cur,
           me.pc \in {"idle", "locate", "missed", "create"} => writer[w].pc \in {"idle", "locate", "missed", "create"}
    PROVE  Fresh'
  <1>1. /\ \A v \in Writers \ {w} : writer'[v] = writer[v]
        /\ writer'[w] = IF me.pc = "failed" THEN [Idle EXCEPT !.pc = "failed"] ELSE me
    BY TypeOKParts DEF Goes
  <1>2. [Idle EXCEPT !.pc = "failed"].pc = "failed"
    BY DEF Idle
  <1> DEFINE F(u, r) == /\ r.pc = "put" /\ ~r.touched => server[r.item] = r.cur
                        /\ r.pc \in {"idle", "locate", "missed", "create"} => server[NewId[u]] = Absent
  <1>3. \A v \in Writers : F(v, writer[v])
    BY DEF Fresh
  <1>4. F(w, me)
    BY <1>3
  <1>5. F(w, [Idle EXCEPT !.pc = "failed"])
    BY <1>2
  <1> HIDE DEF F
  <1>6. \A v \in Writers : F(v, writer'[v])
    BY <1>1, <1>3, <1>4, <1>5
  <1> QED
    BY <1>6 DEF Fresh, F

\* 1Password's change of one item, seen by writers whose copies are marked.
LEMMA FreshTouched ==
    ASSUME TypeOK, Fresh, NEW i \in Ids, server[i] # Absent, NEW item, server' = [server EXCEPT ![i] = item],
           NEW v \in Writers, writer'[v] = Touching(i)[v]
    PROVE  /\ writer'[v].pc = "put" /\ ~writer'[v].touched => server'[writer'[v].item] = writer'[v].cur
           /\ writer'[v].pc \in {"idle", "locate", "missed", "create"} => server'[NewId[v]] = Absent
  <1> DEFINE me == Touching(i)[v]
  <1>1. /\ me.pc = writer[v].pc /\ me.item = writer[v].item /\ me.cur = writer[v].cur
        /\ writer[v].pc = "put" /\ writer[v].item = i => me.touched
        /\ ~(writer[v].pc = "put" /\ writer[v].item = i) => me = writer[v]
    BY TypeOKParts, TouchingIs
  <1>2. /\ writer[v].pc = "put" /\ ~writer[v].touched => server[writer[v].item] = writer[v].cur
        /\ writer[v].pc \in {"idle", "locate", "missed", "create"} => server[NewId[v]] = Absent
    BY DEF Fresh
  <1>3. NewId[v] \in Ids /\ (writer[v].pc = "put" => writer[v].item \in Ids)
    BY StoresAssumption, TypeOKParts DEF WriterOK
  <1>4. \A j \in Ids \ {i} : server'[j] = server[j]
    BY TypeOKParts
  <1> HIDE DEF me
  <1>5. ASSUME me.pc = "put", ~me.touched PROVE server'[me.item] = me.cur
    <2>1. me = writer[v] /\ writer[v].item # i
      BY <1>1, <1>5
    <2> QED
      BY <1>1, <1>2, <1>3, <1>4, <1>5, <2>1
  <1>6. ASSUME me.pc \in {"idle", "locate", "missed", "create"} PROVE server'[NewId[v]] = Absent
    BY <1>1, <1>2, <1>3, <1>4, <1>6
  <1> QED
    BY <1>5, <1>6 DEF me

\* A copy is fresh when it is fetched, and stays so until its item is touched.
LEMMA NextFresh ==
    ASSUME TypeOK, Fresh, [Next]_vars
    PROVE  Fresh'
  <1>1. ASSUME NEW w \in Writers, beginWrite(w) PROVE Fresh'
    <2>1. PICK req \in Requests : Goes(w, [writer[w] EXCEPT !.pc = "locate", !.req = req, !.rx = pathSplit])
      BY <1>1 DEF beginWrite
    <2> DEFINE me == [writer[w] EXCEPT !.pc = "locate", !.req = req, !.rx = pathSplit]
    <2>2. me.pc = "locate"
      BY TypeOKParts DEF Records
    <2>3. Goes(w, me) /\ UNCHANGED server /\ writer[w].pc = "idle"
      BY <1>1, <2>1 DEF beginWrite
    <2> HIDE DEF me
    <2> QED
      BY <2>2, <2>3, FreshElsewhere
  <1>2. ASSUME NEW w \in Writers, locateItem(w) PROVE Fresh'
    <2> DEFINE pc == CASE Target(w).item \in Ids -> "fetch"
                       [] Target(w).item = Ambiguous -> "failed"
                       [] Target(w).item = NotFound /\ writer[w].pc = "locate" -> "missed"
                       [] OTHER -> IF Creates(writer[w].req) THEN "create" ELSE "failed"
               me == [writer[w] EXCEPT !.item = Target(w).item, !.writes = Target(w).writes, !.pc = pc]
    <2>1. Goes(w, me) /\ UNCHANGED server /\ writer[w].pc \in {"locate", "missed"}
      BY <1>2 DEF locateItem
    <2>2. pc # "put"
      OBVIOUS
    <2> HIDE DEF pc
    <2>3. me.pc = pc
      BY TypeOKParts DEF Records
    <2> HIDE DEF me
    <2> QED
      BY <2>1, <2>2, <2>3, FreshElsewhere
  <1>3. ASSUME NEW w \in Writers, fetchFresh(w) PROVE Fresh'
    <2> DEFINE cur == server[writer[w].item]
               goes == cur # Absent /\ KnownTypes(writer[w].writes)
               me == [writer[w] EXCEPT !.pc = IF goes THEN "put" ELSE "failed", !.cur = cur]
    <2>1. Goes(w, me) /\ UNCHANGED server
      BY <1>3 DEF fetchFresh, Fetched
    <2> HIDE DEF goes
    <2>2. me.pc \in {"put", "failed"} /\ me.item = writer[w].item /\ me.cur = server[writer[w].item]
      BY TypeOKParts DEF Records
    <2> HIDE DEF me
    <2> QED
      BY <2>1, <2>2, FreshElsewhere
  <1>4. ASSUME NEW w \in Writers, PutItem(w) PROVE Fresh'
    <2> DEFINE i == writer[w].item
               out == [applyFields(writer[w].cur, writer[w].writes) EXCEPT !.version = server[i].version + 1]
               me == [writer[w] EXCEPT !.pc = "apply", !.out = out]
    <2>1. server[i] # Absent /\ server' = [server EXCEPT ![i] = out] /\ writer' = [Touching(i) EXCEPT ![w] = me]
      BY <1>4 DEF PutItem
    <2>2. i \in Ids
      BY <1>4, TypeOKParts DEF PutItem, WriterOK
    <2> HIDE DEF out
    <2>3. me.pc = "apply"
      BY TypeOKParts DEF Records
    <2> HIDE DEF me, i
    <2>4. DOMAIN Touching(i) = Writers
      BY TypeOKParts DEF Touching
    <2>5. writer'[w].pc = "apply" /\ \A v \in Writers \ {w} : writer'[v] = Touching(i)[v]
      BY <2>1, <2>3, <2>4
    <2>6. ASSUME NEW v \in Writers
          PROVE  /\ writer'[v].pc = "put" /\ ~writer'[v].touched => server'[writer'[v].item] = writer'[v].cur
                 /\ writer'[v].pc \in {"idle", "locate", "missed", "create"} => server'[NewId[v]] = Absent
      <3>1. CASE v = w
        BY <2>5, <3>1
      <3>2. CASE v # w
        BY <2>1, <2>2, <2>5, <3>2, FreshTouched
      <3> QED
        BY <3>1, <3>2
    <2> QED
      BY <2>6 DEF Fresh
  <1>5. ASSUME NEW w \in Writers, CreateItem(w) PROVE Fresh'
    <2> DEFINE i == NewId[w]
               empty == [Absent EXCEPT !.title = writer[w].req.addr[1]]
               out == [applyFields(empty, writer[w].writes) EXCEPT !.version = 1]
               me == [writer[w] EXCEPT !.pc = "apply", !.item = i, !.cur = empty, !.out = out]
    <2>1. writer[w].pc = "create" /\ server' = [server EXCEPT ![i] = out] /\ Goes(w, me)
      BY <1>5 DEF CreateItem
    <2> HIDE DEF out, empty, i
    <2>2. me.pc = "apply"
      BY TypeOKParts DEF Records
    <2> HIDE DEF me
    <2>3. writer'[w].pc = "apply" /\ \A v \in Writers \ {w} : writer'[v] = writer[v]
      BY <2>1, <2>2, TypeOKParts DEF Goes
    <2>4. server[i] = Absent /\ \A j \in Ids \ {i} : server'[j] = server[j]
      BY <2>1, TypeOKParts DEF Fresh, i
    <2>5. ASSUME NEW v \in Writers \ {w}
          PROVE  /\ writer[v].pc = "put" /\ ~writer[v].touched => server'[writer[v].item] = writer[v].cur
                 /\ writer[v].pc \in {"idle", "locate", "missed", "create"} => server'[NewId[v]] = Absent
      <3>1. NewId[v] # i /\ NewId[v] \in Ids
        BY StoresAssumption DEF IsInjective, i
      <3>2. writer[v].pc = "put" => writer[v].item \in Ids /\ writer[v].cur # Absent
        BY TypeOKParts DEF WriterOK
      <3> QED
        BY <2>4, <3>1, <3>2 DEF Fresh
    <2> QED
      BY <2>3, <2>5 DEF Fresh
  <1>6. ASSUME NEW w \in Writers, applyWrite(w) PROVE Fresh'
    <2> DEFINE me == [writer[w] EXCEPT !.pc = "done", !.rx = Unset]
    <2>1. Goes(w, me) /\ UNCHANGED server
      BY <1>6 DEF applyWrite
    <2>2. me.pc = "done"
      BY TypeOKParts DEF Records
    <2> HIDE DEF me
    <2> QED
      BY <2>1, <2>2, FreshElsewhere
  <1>7. ASSUME NEW w \in Writers, Fails(w) PROVE Fresh'
    <2> DEFINE me == [Idle EXCEPT !.pc = "failed"]
    <2>1. Goes(w, me) /\ UNCHANGED server
      BY <1>7 DEF Fails
    <2>2. me.pc = "failed"
      BY DEF Idle
    <2> HIDE DEF me
    <2> QED
      BY <2>1, <2>2, FreshElsewhere
  <1>8. ASSUME NEW i \in Ids, NEW item, Changed(i, item) PROVE Fresh'
    <2>1. server[i] # Absent /\ server' = [server EXCEPT ![i] = item] /\ writer' = Touching(i)
      BY <1>8 DEF Changed
    <2> QED
      BY <2>1, FreshTouched DEF Fresh
  <1>9. CASE UNCHANGED <<server, writer>>
    BY <1>9 DEF Fresh
  <1>10. CASE \E w \in Writers : WriterStep(w)
    BY <1>1, <1>2, <1>3, <1>4, <1>5, <1>6, <1>7, <1>10 DEF WriterStep
  <1>11. CASE \E i \in Ids : EditElsewhere(i) \/ RenameElsewhere(i) \/ RemoveElsewhere(i)
    BY <1>8, <1>11 DEF EditElsewhere, RenameElsewhere, RemoveElsewhere
  <1>12. CASE CycleStarts \/ CycleEnds \/ WritePathSplit \/ UNCHANGED vars
    BY <1>9, <1>12 DEF CycleStarts, CycleEnds, WritePathSplit, vars
  <1> QED
    BY <1>10, <1>11, <1>12 DEF Next

\* One step of the property: an item 1Password holds is changed by the engine
\* only where a writer sends it, and then by what the writer's fields name.
LEMMA StepKeepsTheRest ==
    ASSUME TypeOK, Fresh, [Next]_vars, NEW i \in Ids, WrittenHere(i)
    PROVE  \E w \in Writers : /\ writer[w].pc = "put" /\ writer[w].item = i
                              /\ writer[w].touched \/ KeptBut(server[i], server'[i], writer[w].writes)
  <1>1. edits \in Nat /\ server[i] # Absent /\ server'[i] # server[i] /\ edits' = edits
    BY TypeOKParts, BoundsAreNumbers DEF WrittenHere
  <1>2. ASSUME NEW w \in Writers, PutItem(w)
        PROVE  \E v \in Writers : /\ writer[v].pc = "put" /\ writer[v].item = i
                                  /\ writer[v].touched \/ KeptBut(server[i], server'[i], writer[v].writes)
    <2> DEFINE k == writer[w].item
               v == server[k].version + 1
               out == [applyFields(writer[w].cur, writer[w].writes) EXCEPT !.version = v]
    <2>1. writer[w].pc = "put" /\ server' = [server EXCEPT ![k] = out]
      BY <1>2 DEF PutItem
    <2> HIDE DEF out
    <2>2. k = i /\ server'[i] = out
      BY <1>1, <2>1, TypeOKParts
    <2>3. CASE writer[w].touched
      BY <2>1, <2>2, <2>3
    <2>4. CASE ~writer[w].touched
      <3>1. server[i] = writer[w].cur
        BY <2>1, <2>2, <2>4 DEF Fresh
      <3>2. /\ WellFormed(writer[w].cur) /\ writer[w].writes \in Seq(Writes) /\ KnownTypes(writer[w].writes)
        BY <2>1, TypeOKParts, StoredIsItem DEF WriterOK, Records
      <3>3. v \in Nat
        <4>1. server[i].version \in Nat
          BY TypeOKParts, StoredIsItem
        <4> QED
          BY <2>2, <4>1
      <3> HIDE DEF v
      <3>4. KeptBut(writer[w].cur, out, writer[w].writes)
        BY <3>2, <3>3, ApplyKeepsTheRest DEF out
      <3> QED
        BY <2>1, <2>2, <3>1, <3>4
    <2> QED
      BY <2>3, <2>4
  <1>3. ASSUME NEW w \in Writers, CreateItem(w) PROVE FALSE
    <2>1. PICK out : server' = [server EXCEPT ![NewId[w]] = out]
      BY <1>3 DEF CreateItem
    <2>2. server[NewId[w]] = Absent
      BY <1>3 DEF CreateItem, Fresh
    <2> QED
      BY <1>1, <2>1, <2>2, TypeOKParts
  <1>4. ASSUME NEW j \in Ids, NEW item, Changed(j, item) PROVE FALSE
    BY <1>1, <1>4 DEF Changed
  <1>5. ~ UNCHANGED server
    BY <1>1
  <1>6. PICK w \in Writers : PutItem(w) \/ CreateItem(w)
    <2>1. ~ \E j \in Ids : EditElsewhere(j) \/ RenameElsewhere(j) \/ RemoveElsewhere(j)
      BY <1>4 DEF EditElsewhere, RenameElsewhere, RemoveElsewhere
    <2>2. \E w \in Writers : WriterStep(w)
      BY <1>5, <2>1 DEF Next, CycleStarts, CycleEnds, WritePathSplit, vars
    <2>3. PICK w \in Writers : WriterStep(w)
      BY <2>2
    <2>4. PutItem(w) \/ CreateItem(w)
      BY <1>5, <2>3 DEF WriterStep, beginWrite, locateItem, fetchFresh, applyWrite, Fails
    <2> QED
      BY <2>4
  <1> QED
    BY <1>2, <1>3, <1>6

\* No step of the engine changes anything of an item but the fields a write
\* names, unless the item was changed in 1Password after the writer fetched it.
THEOREM TheRestIsKept == Spec => KeepsTheRest
  <1>1. Init => Fresh
    <2>1. ASSUME Init PROVE Fresh
      <3>1. ASSUME NEW w \in Writers PROVE writer[w].pc = "idle" /\ server[NewId[w]] = Absent
        BY <2>1, StoresAssumption DEF Init, Idle
      <3> QED
        BY <3>1 DEF Fresh
    <2> QED
      BY <2>1
  <1>2. TypeOK /\ Fresh /\ [Next]_vars => Fresh'
    BY NextFresh
  <1> DEFINE A == \A i \in Ids : WrittenHere(i) =>
                     \E w \in Writers : /\ writer[w].pc = "put" /\ writer[w].item = i
                                        /\ writer[w].touched \/ KeptBut(server[i], server'[i], writer[w].writes)
  <1>3. TypeOK /\ Fresh /\ [Next]_vars => [A]_vars
    BY StepKeepsTheRest
  <1>4. KeepsTheRest <=> [][A]_vars
    BY PTL DEF KeepsTheRest
  <1> HIDE DEF A
  <1> QED
    BY <1>1, <1>2, <1>3, <1>4, TypesKept, PTL DEF Spec

\* What a writer sent is its copy with its fields merged.
Outcomes ==
    \A w \in Writers : writer[w].pc \in {"apply", "done"} =>
        /\ WellFormed(writer[w].cur) /\ KnownTypes(writer[w].writes)
        /\ \E v \in Nat : writer[w].out = [applyFields(writer[w].cur, writer[w].writes) EXCEPT !.version = v]

\* A record that shows such an outcome, or none yet.
Outcome(me) ==
    me.pc \in {"apply", "done"} =>
        /\ WellFormed(me.cur) /\ KnownTypes(me.writes)
        /\ \E v \in Nat : me.out = [applyFields(me.cur, me.writes) EXCEPT !.version = v]

\* A step of one writer.
LEMMA OutcomeGoes ==
    ASSUME TypeOK, Outcomes, NEW w \in Writers, NEW me, Goes(w, me), Outcome(me)
    PROVE  Outcomes'
  <1>1. /\ \A v \in Writers \ {w} : writer'[v] = writer[v]
        /\ writer'[w] = IF me.pc = "failed" THEN [Idle EXCEPT !.pc = "failed"] ELSE me
    BY TypeOKParts DEF Goes
  <1>2. [Idle EXCEPT !.pc = "failed"].pc = "failed"
    BY DEF Idle
  <1>3. Outcome([Idle EXCEPT !.pc = "failed"])
    BY <1>2 DEF Outcome
  <1>4. \A v \in Writers : Outcome(writer[v])
    BY DEF Outcomes, Outcome
  <1>5. ASSUME NEW v \in Writers PROVE Outcome(writer'[v])
    <2>1. CASE v = w
      BY <1>1, <1>3, <2>1
    <2>2. CASE v # w
      BY <1>1, <1>4, <2>2
    <2> QED
      BY <2>1, <2>2
  <1> QED
    BY <1>5 DEF Outcomes, Outcome

\* A mark changes no outcome.
LEMMA OutcomeTouched ==
    ASSUME TypeOK, Outcomes, NEW i, NEW v \in Writers
    PROVE  Outcome(Touching(i)[v])
  <1>1. /\ Touching(i)[v].pc = writer[v].pc /\ Touching(i)[v].cur = writer[v].cur
        /\ Touching(i)[v].out = writer[v].out /\ Touching(i)[v].writes = writer[v].writes
    BY TypeOKParts, TouchingIs
  <1> QED
    BY <1>1 DEF Outcomes, Outcome

\* Every step.
LEMMA NextOutcomes ==
    ASSUME TypeOK, Outcomes, [Next]_vars
    PROVE  Outcomes'
  <1>1. ASSUME NEW w \in Writers, beginWrite(w) PROVE Outcomes'
    <2>1. PICK req \in Requests : Goes(w, [writer[w] EXCEPT !.pc = "locate", !.req = req, !.rx = pathSplit])
      BY <1>1 DEF beginWrite
    <2> DEFINE me == [writer[w] EXCEPT !.pc = "locate", !.req = req, !.rx = pathSplit]
    <2>2. me.pc = "locate" /\ Goes(w, me)
      BY <2>1, TypeOKParts DEF Records
    <2> HIDE DEF me
    <2> QED
      BY <2>2, OutcomeGoes DEF Outcome
  <1>2. ASSUME NEW w \in Writers, locateItem(w) PROVE Outcomes'
    <2> DEFINE pc == CASE Target(w).item \in Ids -> "fetch"
                       [] Target(w).item = Ambiguous -> "failed"
                       [] Target(w).item = NotFound /\ writer[w].pc = "locate" -> "missed"
                       [] OTHER -> IF Creates(writer[w].req) THEN "create" ELSE "failed"
               me == [writer[w] EXCEPT !.item = Target(w).item, !.writes = Target(w).writes, !.pc = pc]
    <2>1. Goes(w, me)
      BY <1>2 DEF locateItem
    <2>2. pc \notin {"apply", "done"}
      OBVIOUS
    <2> HIDE DEF pc
    <2>3. me.pc = pc
      BY TypeOKParts DEF Records
    <2> HIDE DEF me
    <2> QED
      BY <2>1, <2>2, <2>3, OutcomeGoes DEF Outcome
  <1>3. ASSUME NEW w \in Writers, fetchFresh(w) PROVE Outcomes'
    <2> DEFINE cur == server[writer[w].item]
               goes == cur # Absent /\ KnownTypes(writer[w].writes)
               me == [writer[w] EXCEPT !.pc = IF goes THEN "put" ELSE "failed", !.cur = cur]
    <2>1. Goes(w, me)
      BY <1>3 DEF fetchFresh, Fetched
    <2> HIDE DEF goes
    <2>2. me.pc \in {"put", "failed"}
      BY TypeOKParts DEF Records
    <2> HIDE DEF me
    <2> QED
      BY <2>1, <2>2, OutcomeGoes DEF Outcome
  <1>4. ASSUME NEW w \in Writers, PutItem(w) PROVE Outcomes'
    <2> DEFINE i == writer[w].item
               v == server[i].version + 1
               out == [applyFields(writer[w].cur, writer[w].writes) EXCEPT !.version = v]
               me == [writer[w] EXCEPT !.pc = "apply", !.out = out]
    <2>1. writer[w].pc = "put" /\ writer' = [Touching(i) EXCEPT ![w] = me]
      BY <1>4 DEF PutItem
    <2>2. writer[w] \in Records /\ WellFormed(writer[w].cur) /\ KnownTypes(writer[w].writes) /\ i \in Ids
      BY <2>1, TypeOKParts, StoredIsItem DEF WriterOK
    <2>3. v \in Nat
      <3>1. server[i].version \in Nat
        BY <2>2, TypeOKParts, StoredIsItem
      <3> QED
        BY <3>1
    <2>4. out = [applyFields(writer[w].cur, writer[w].writes) EXCEPT !.version = v]
      OBVIOUS
    <2> HIDE DEF out, v
    <2>5. me.pc = "apply" /\ me.cur = writer[w].cur /\ me.writes = writer[w].writes /\ me.out = out
      BY <2>2 DEF Records
    <2> HIDE DEF me
    <2>6. Outcome(me)
      BY <2>2, <2>3, <2>4, <2>5 DEF Outcome
    <2>7. DOMAIN Touching(i) = Writers
      BY TypeOKParts DEF Touching
    <2>8. \A u \in Writers : Outcome(writer'[u])
      BY <2>1, <2>6, <2>7, OutcomeTouched
    <2> QED
      BY <2>8 DEF Outcomes, Outcome
  <1>5. ASSUME NEW w \in Writers, CreateItem(w) PROVE Outcomes'
    <2> DEFINE empty == [Absent EXCEPT !.title = writer[w].req.addr[1]]
               out == [applyFields(empty, writer[w].writes) EXCEPT !.version = 1]
               me == [writer[w] EXCEPT !.pc = "apply", !.item = NewId[w], !.cur = empty, !.out = out]
    <2>1. Goes(w, me) /\ writer[w].pc = "create" /\ KnownTypes(writer[w].writes)
      BY <1>5 DEF CreateItem
    <2>2. WellFormed(empty)
      <3>1. Creates(writer[w].req) /\ writer[w].req \in Requests
        BY <2>1, TypeOKParts DEF WriterOK
      <3>2. writer[w].req.addr[1] \in Titles
        BY <3>1, RequestsAssumption
      <3> QED
        BY <3>2, EmptyIsWellFormed
    <2> HIDE DEF empty
    <2>3. out = [applyFields(empty, writer[w].writes) EXCEPT !.version = 1] /\ 1 \in Nat
      OBVIOUS
    <2> HIDE DEF out
    <2>4. me.pc = "apply" /\ me.cur = empty /\ me.writes = writer[w].writes /\ me.out = out
      BY TypeOKParts DEF Records
    <2> HIDE DEF me
    <2>5. Outcome(me)
      BY <2>1, <2>2, <2>3, <2>4 DEF Outcome
    <2> QED
      BY <2>1, <2>5, OutcomeGoes
  <1>6. ASSUME NEW w \in Writers, applyWrite(w) PROVE Outcomes'
    <2> DEFINE me == [writer[w] EXCEPT !.pc = "done", !.rx = Unset]
    <2>1. Goes(w, me) /\ writer[w].pc = "apply"
      BY <1>6 DEF applyWrite
    <2>2. me.cur = writer[w].cur /\ me.writes = writer[w].writes /\ me.out = writer[w].out
      BY TypeOKParts DEF Records
    <2> HIDE DEF me
    <2>3. Outcome(me)
      BY <2>1, <2>2 DEF Outcomes, Outcome
    <2> QED
      BY <2>1, <2>3, OutcomeGoes
  <1>7. ASSUME NEW w \in Writers, Fails(w) PROVE Outcomes'
    <2> DEFINE me == [Idle EXCEPT !.pc = "failed"]
    <2>1. Goes(w, me)
      BY <1>7 DEF Fails
    <2>2. me.pc = "failed"
      BY DEF Idle
    <2> HIDE DEF me
    <2> QED
      BY <2>1, <2>2, OutcomeGoes DEF Outcome
  <1>8. ASSUME NEW i \in Ids, NEW item, Changed(i, item) PROVE Outcomes'
    <2>1. writer' = Touching(i)
      BY <1>8 DEF Changed
    <2>2. \A v \in Writers : Outcome(writer'[v])
      BY <2>1, OutcomeTouched
    <2> QED
      BY <2>2 DEF Outcomes, Outcome
  <1>9. CASE UNCHANGED writer
    BY <1>9 DEF Outcomes
  <1>10. CASE \E w \in Writers : WriterStep(w)
    BY <1>1, <1>2, <1>3, <1>4, <1>5, <1>6, <1>7, <1>10 DEF WriterStep
  <1>11. CASE \E i \in Ids : EditElsewhere(i) \/ RenameElsewhere(i) \/ RemoveElsewhere(i)
    BY <1>8, <1>11 DEF EditElsewhere, RenameElsewhere, RemoveElsewhere
  <1>12. CASE CycleStarts \/ CycleEnds \/ WritePathSplit \/ UNCHANGED vars
    BY <1>9, <1>12 DEF CycleStarts, CycleEnds, WritePathSplit, vars
  <1> QED
    BY <1>10, <1>11, <1>12 DEF Next

\* What has landed in a merge is read back from the outcome, at any version.
LEMMA OutcomeIsRead ==
    ASSUME NEW cur, WellFormed(cur), NEW writes, Parsed(writes), KnownTypes(writes), NEW v \in Nat,
           NEW u \in ToSet(writes), ~Shadowed(cur, u)
    PROVE  Answers([applyFields(cur, writes) EXCEPT !.version = v], u)
  <1> DEFINE x == applyFields(cur, writes)
             item == [x EXCEPT !.version = v]
             at == lookupField(item, u.section, u.label)
  <1>1. PICK l \in DOMAIN writes : u = writes[l]
    BY DEF ToSet
  <1>2. u.section = TopLevel => Clear(cur, u.label)
    BY DEF Shadowed, FieldsOf, ToSet, Clear
  <1>3. PICK p : Landed(x, u, p)
    BY <1>1, <1>2, ApplyLands
  <1>4. WellFormed(x)
    BY ApplyWellFormed DEF Parsed
  <1> HIDE DEF x
  <1>5. item \in Items /\ item.fields = x.fields /\ item.sections = x.sections
    BY <1>4 DEF WellFormed, Items
  <1> HIDE DEF item
  <1>6. WellFormed(item)
    BY <1>4, <1>5 DEF WellFormed, FieldsOf
  <1>7. \A t : SectionAt(item, t) = SectionAt(x, t)
    BY <1>5 DEF SectionAt
  <1>8. Landed(item, u, p)
    BY <1>3, <1>5, <1>7 DEF Landed
  <1>9. at = p /\ p # 0
    BY <1>6, <1>8, LandedIsRead
  <1>10. item.fields[p].value = u.value /\ u.type \in {AsIs, item.fields[p].type}
    BY <1>8 DEF Landed
  <1> HIDE DEF at
  <1> QED
    BY <1>9, <1>10 DEF Answers, at, item, x

\* A write that is done can be read back at its own address while the replica
\* holds what it left, but where a section shadows its label.
THEOREM WritesReadBack == Spec => []ReadBack
  <1>1. Init => Outcomes
    BY DEF Init, Idle, Outcomes
  <1>2. TypeOK /\ Outcomes /\ [Next]_vars => Outcomes'
    BY NextOutcomes
  <1>3. ASSUME TypeOK, Outcomes PROVE ReadBack
    <2>1. ASSUME NEW w \in Writers, InPlace(w), NEW u \in ToSet(writer[w].writes),
                 ~Shadowed(writer[w].cur, u)
          PROVE  Answers(replica[writer[w].item], u)
      <3>0. /\ writer[w].pc = "done" /\ replica[writer[w].item] = writer[w].out
            /\ Target(w) = [item |-> writer[w].item, writes |-> writer[w].writes]
        BY <2>1 DEF InPlace
      <3>1. writer[w].req \in Requests /\ IndexTyped
        BY <1>3, <3>0, TypeOKParts DEF WriterOK
      <3>2. Parsed(writer[w].writes)
        BY <3>0, <3>1, TargetIs
      <3>3. /\ WellFormed(writer[w].cur) /\ KnownTypes(writer[w].writes)
            /\ \E v \in Nat : writer[w].out = [applyFields(writer[w].cur, writer[w].writes) EXCEPT !.version = v]
        BY <1>3, <3>0 DEF Outcomes
      <3>4. PICK v \in Nat : writer[w].out = [applyFields(writer[w].cur, writer[w].writes) EXCEPT !.version = v]
        BY <3>3
      <3>5. Answers([applyFields(writer[w].cur, writer[w].writes) EXCEPT !.version = v], u)
        BY <2>1, <3>2, <3>3, OutcomeIsRead
      <3> QED
        BY <3>0, <3>4, <3>5
    <2> QED
      BY <2>1 DEF ReadBack
  <1> QED
    BY <1>1, <1>2, <1>3, TypesKept, PTL DEF Spec
=============================================================================
