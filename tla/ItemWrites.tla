----------------------------- MODULE ItemWrites -----------------------------
(* How a write of an item or of a field finds the item it is for, merges   *)
(* its fields over it and shows the outcome to reads, while 1Password is   *)
(* edited by others and path_split is rewritten.  An address is a sequence *)
(* of segments; the index of split paths is state of the replica, rebuilt  *)
(* with the path_split a writer or a cycle took before its call, so it can *)
(* be older than the configuration.                                        *)
(*                                                                         *)
(* A cycle that succeeds is taken in two steps here, CycleStarts and       *)
(* CycleEnds (its own steps are VaultReplica's), and whether a miss may    *)
(* run one is ReadPath's.  Field IDs, notes, tags, URLs and categories     *)
(* tell nothing apart here and are left out.                               *)
EXTENDS Naturals, SequencesExt

CONSTANTS
    Ids,            \* item IDs, the segments that have an ID's shape
    Titles,         \* titles an item may bear
    Segments,       \* what an address is made of
    Separators,     \* the values of path_split that are a separator
    SplitAt,        \* SplitAt[rx][t]: title t split by rx, joined and cut again at "/"
    Alphabet,       \* the section titles and labels in the order of strings
    Concealed,      \* labels whose new field is concealed
    Values,         \* what a field may hold
    TypeNames,      \* what a write may name as a field's type
    Writers,
    NewId,          \* the ID 1Password gives to the item a writer creates
    Requests,       \* what a writer may be asked
    Stores,         \* what 1Password may hold at first
    MaxEdits,       \* bound: changes made in 1Password by others
    MaxRewrites     \* bound: writes of path_split

Absent == [title |-> "", sections |-> <<>>, fields |-> <<>>, version |-> 0]
NotFound == "not found"
Ambiguous == "ambiguous"
Unset == "unset"
NoCycle == "no cycle"
TopLevel == ""
AsIs == ""
Types == {"text", "concealed"}

Names == Segments \cup {TopLevel}
Sections == [id : Nat, title : Names]
Fields == [label : Names, section : Nat, value : Values, type : Types]
Items == [title : Titles \cup {""}, version : Nat, sections : Seq(Sections), fields : Seq(Fields)]
Writes == [section : Names, label : Names, value : Values, type : TypeNames]

FieldsOf(item) == ToSet(item.fields)

\* A section has a number of its own, at most the number of sections, and every
\* field is at the top level or in a section of its item.
WellFormed(item) ==
    /\ item \in Items
    /\ \A n \in DOMAIN item.sections : item.sections[n].id \in 1 .. Len(item.sections)
    /\ \A m, n \in DOMAIN item.sections : item.sections[m].id = item.sections[n].id => m = n
    /\ \A f \in FieldsOf(item) : f.section = 0 \/ \E s \in ToSet(item.sections) : s.id = f.section

Stored(item) == item = Absent \/ (WellFormed(item) /\ item.title \in Titles /\ item.version > 0)

\* Only an upsert by a single segment that is no ID makes a new item.
Creates(req) == req.kind = "item" /\ Len(req.addr) = 1 /\ req.addr[1] \notin Ids

ItemRequests == [kind : {"item"}, addr : Seq(Segments) \ {<<>>}, body : SUBSET Writes]
FieldRequests == [kind : {"field"}, addr : Seq(Segments) \ {<<>>}, value : Values, type : TypeNames]

ASSUME NamesAssumption ==
    /\ Ids \subseteq Segments /\ IsFiniteSet(Ids)
    /\ {NotFound, Ambiguous} \cap Ids = {}
    /\ {Unset, NoCycle} \cap Separators = {} /\ "" \notin Titles /\ "edited" \in Values
    /\ Alphabet \in Seq(Segments \ {TopLevel}) /\ IsInjective(Alphabet)
    /\ SplitAt \in [Separators -> [Titles -> Seq(Segments) \ {<<>>}]]
    /\ \A rx \in Separators, t \in Titles : Len(SplitAt[rx][t]) = 1 => SplitAt[rx][t] = <<t>>
    /\ MaxEdits \in Nat /\ MaxRewrites \in Nat

\* 1Password gives each new item an ID of its own.
ASSUME StoresAssumption ==
    /\ NewId \in [Writers -> Ids] /\ IsInjective(NewId)
    /\ \A store \in Stores : /\ DOMAIN store = Ids /\ \A i \in Ids : Stored(store[i])
                             /\ \A w \in Writers : store[NewId[w]] = Absent

\* A body is an object of objects: it names a section's label once.
ASSUME RequestsAssumption ==
    /\ Requests \subseteq ItemRequests \cup FieldRequests
    /\ \A req \in Requests : /\ Creates(req) => req.addr[1] \in Titles
                             /\ req.kind = "item" =>
                                   /\ IsFiniteSet(req.body)
                                   /\ \A u \in req.body : {u.section, u.label} \subseteq ToSet(Alphabet) \cup {TopLevel}
                                   /\ \A u, v \in req.body : u.section = v.section /\ u.label = v.label => u = v

VARIABLES
    server,         \* 1Password: an item, or Absent, under every ID
    replica,        \* the replica's overview and bodies
    splitPaths,     \* the replica's index of split paths: key -> item
    pathSplit,      \* the configured path_split
    cycle,          \* NoCycle, or the path_split the cycle under way took
    writer,         \* each writer: where it is and what it holds
    edits, rewrites

vars == <<server, replica, splitPaths, pathSplit, cycle, writer, edits, rewrites>>

-----------------------------------------------------------------------------
(* The index of split paths.                                               *)

Held(items) == {i \in Ids : items[i] # Absent}

\* mutant: a dropped key is not remembered
MetForgetful(paths, key, i) ==
    [k \in DOMAIN paths \cup {key} |->
        IF k # key THEN paths[k] ELSE IF k \in DOMAIN paths /\ paths[k] # Ambiguous THEN Ambiguous ELSE i]

\* One item met by the loop: a key met for a second time is dropped and stays dropped.
Met(paths, key, i) ==
    [k \in DOMAIN paths \cup {key} |->
        IF k # key THEN paths[k] ELSE IF k \in DOMAIN paths THEN Ambiguous ELSE i]

Indexed(items, rx, order) ==
    FoldLeft(LAMBDA paths, i : Met(paths, SplitAt[rx][items[i].title], i), <<>>, order)

\* What rebuilding can yield: the loop meets the items in any order.
Rebuilt(items, rx) ==
    IF rx = Unset THEN {<<>>}
    ELSE {RestrictValues(Indexed(items, rx, order), LAMBDA id : id # Ambiguous) : order \in SetToSeqs(Held(items))}

-----------------------------------------------------------------------------
(* Addresses, resolved in the replica.                                     *)

resolveTitle(t) ==
    LET bearers == {i \in Held(replica) : replica[i].title = t}
    IN  CASE bearers = {} -> NotFound
          [] Cardinality(bearers) = 1 -> CHOOSE i \in bearers : TRUE
          [] OTHER -> Ambiguous

resolveItemAddress(addr) == IF addr \in Held(replica) THEN addr ELSE resolveTitle(addr)

\* mutant: the search goes from the shortest prefix up
TakenShortest(segs) ==
    LET hits == {n \in 1 .. Len(segs) : SubSeq(segs, 1, n) \in DOMAIN splitPaths}
    IN  IF hits = {} THEN 0 ELSE Min(hits)

\* How many segments of an address the index takes as the item: the most it can.
Taken(segs) == Max({n \in 1 .. Len(segs) : SubSeq(segs, 1, n) \in DOMAIN splitPaths} \cup {0})

resolveSplitPath(segs) ==
    LET n == Taken(segs)
    IN  IF n = 0 THEN [id |-> NotFound, rest |-> <<>>]
        ELSE [id |-> splitPaths[SubSeq(segs, 1, n)], rest |-> SubSeq(segs, n + 1, Len(segs))]

resolveItemFromSegments(segs) ==
    LET flat == IF Len(segs) = 1 THEN resolveItemAddress(segs[1]) ELSE NotFound
        split == resolveSplitPath(segs)
    IN  IF flat # NotFound THEN flat
        ELSE IF split.rest = <<>> THEN split.id ELSE NotFound

\* The item, section and label a field address stands for.
resolveFieldAddress(segs) ==
    LET split == resolveSplitPath(segs)
        Part(id, rest) ==
            IF id \notin Ids \/ Len(rest) \notin {1, 2}
            THEN [id |-> IF id \in Ids THEN NotFound ELSE id, section |-> TopLevel, label |-> TopLevel]
            ELSE [id |-> id, section |-> IF Len(rest) = 2 THEN rest[1] ELSE TopLevel, label |-> Last(rest)]
    IN  IF split.id # NotFound THEN Part(split.id, split.rest)
        ELSE IF Len(segs) \in {2, 3} THEN Part(resolveItemAddress(segs[1]), Tail(segs))
        ELSE Part(NotFound, <<>>)

-----------------------------------------------------------------------------
(* Fields.                                                                 *)

SectionAt(item, title) == SelectInSeq(item.sections, LAMBDA s : s.title = title)

\* The position of the field a read returns for a section and a label, 0 if there is none.
lookupField(item, section, label) ==
    LET s == SectionAt(item, section)
    IN  IF section # TopLevel /\ s = 0 THEN 0
        ELSE SelectInSeq(item.fields, LAMBDA f : /\ f.label = label
                                                 /\ section = TopLevel \/ f.section = item.sections[s].id)

NewSection(item, w) == w.section # TopLevel /\ SectionAt(item, w.section) = 0

\* The section a write goes to; a top-level field has section 0.
SectionFor(item, w) ==
    CASE w.section = TopLevel -> 0
      [] NewSection(item, w)  -> Len(item.sections) + 1
      [] OTHER                -> item.sections[SectionAt(item, w.section)].id

PlaceFor(item, w) == SelectInSeq(item.fields, LAMBDA f : f.label = w.label /\ f.section = SectionFor(item, w))

NewField(item, w) ==
    [label |-> w.label, section |-> SectionFor(item, w), value |-> w.value,
     type |-> IF w.type # AsIs THEN w.type ELSE IF w.label \in Concealed THEN "concealed" ELSE "text"]

Overwritten(f, w) == [f EXCEPT !.value = w.value, !.type = IF w.type = AsIs THEN f.type ELSE w.type]

Merged(item, w) ==
    LET at == PlaceFor(item, w)
    IN  [item EXCEPT
            !.sections = IF NewSection(item, w)
                         THEN Append(item.sections, [id |-> SectionFor(item, w), title |-> w.section])
                         ELSE item.sections,
            !.fields = IF at = 0 THEN Append(item.fields, NewField(item, w))
                       ELSE [item.fields EXCEPT ![at] = Overwritten(item.fields[at], w)]]

\* mutant: a new section is not added to the item
MergedSectionless(item, w) == [Merged(item, w) EXCEPT !.sections = item.sections]

MergedOver(item, w) == Merged(item, w)

KnownTypes(writes) == \A n \in DOMAIN writes : writes[n].type \in Types \cup {AsIs}

applyFields(item, writes) == FoldLeft(MergedOver, item, writes)

Place(name) == SelectInSeq(Alphabet, LAMBDA s : s = name)

SortedBy(body, Before(_, _)) ==
    CHOOSE seq \in SetToSeqs(body) : \A m, n \in DOMAIN seq : m < n => Before(seq[m], seq[n])

\* mutant: by label, and the top level's field last
parseByLabel(body) ==
    SortedBy(body, LAMBDA u, v : \/ Place(u.label) < Place(v.label)
                                 \/ u.label = v.label /\ Place(u.section) > Place(v.section))

\* The fields of a body come in no order; they are merged by section, then by label.
parseFieldWrites(body) ==
    SortedBy(body, LAMBDA u, v : \/ Place(u.section) < Place(v.section)
                                 \/ u.section = v.section /\ Place(u.label) < Place(v.label))

-----------------------------------------------------------------------------
(* The writers.                                                            *)

Idle == [pc |-> "idle", req |-> [kind |-> "none"], rx |-> Unset, item |-> NotFound, writes |-> <<>>,
         cur |-> Absent, out |-> Absent, touched |-> FALSE]

Init ==
    /\ server \in Stores
    /\ replica = server
    /\ pathSplit \in Separators \cup {Unset}
    /\ splitPaths \in Rebuilt(server, pathSplit)
    /\ cycle = NoCycle
    /\ writer = [w \in Writers |-> Idle]
    /\ edits = 0 /\ rewrites = 0

\* A writer that failed holds nothing.
Goes(w, me) == writer' = [writer EXCEPT ![w] = IF me.pc = "failed" THEN [Idle EXCEPT !.pc = "failed"] ELSE me]
Elsewhere == UNCHANGED <<pathSplit, cycle, edits, rewrites>>

\* Every writer that holds a copy of item i fetched before this change.
Touching(i) == [w \in Writers |->
    IF writer[w].pc = "put" /\ writer[w].item = i THEN [writer[w] EXCEPT !.touched = TRUE] ELSE writer[w]]

beginWrite(w) ==
    /\ writer[w].pc = "idle"
    /\ \E req \in Requests : Goes(w, [writer[w] EXCEPT !.pc = "locate", !.req = req, !.rx = pathSplit])
    /\ Elsewhere /\ UNCHANGED <<server, replica, splitPaths>>

\* What the writer's address resolves to, and the fields to merge there.
Target(w) ==
    LET req == writer[w].req
        at == resolveFieldAddress(req.addr)
    IN  IF req.kind = "item"
        THEN [item |-> resolveItemFromSegments(req.addr), writes |-> parseFieldWrites(req.body)]
        ELSE [item |-> at.id, writes |-> <<[section |-> at.section, label |-> at.label,
                                            value |-> req.value, type |-> req.type]>>]

\* The first resolution misses into a cycle, which may come to nothing; the second one decides.
locateItem(w) ==
    LET at == Target(w)
    IN  /\ writer[w].pc \in {"locate", "missed"}
        /\ Goes(w, [writer[w] EXCEPT
                !.item = at.item, !.writes = at.writes,
                !.pc = CASE at.item \in Ids -> "fetch"
                         [] at.item = Ambiguous -> "failed"
                         [] at.item = NotFound /\ @ = "locate" -> "missed"
                         [] OTHER -> IF Creates(writer[w].req) THEN "create" ELSE "failed"])
        /\ Elsewhere /\ UNCHANGED <<server, replica, splitPaths>>

\* mutant: the update starts from the replica's copy
FetchedLocally(i) == replica[i]

Fetched(i) == server[i]

fetchFresh(w) ==
    LET cur == Fetched(writer[w].item)
        goes == cur # Absent /\ KnownTypes(writer[w].writes)
    IN  /\ writer[w].pc = "fetch"
        /\ Goes(w, [writer[w] EXCEPT !.pc = IF goes THEN "put" ELSE "failed", !.cur = cur])
        /\ Elsewhere /\ UNCHANGED <<server, replica, splitPaths>>

\* 1Password stores what it is sent, over whatever it holds by then.
PutItem(w) ==
    LET i == writer[w].item
        out == [applyFields(writer[w].cur, writer[w].writes) EXCEPT !.version = server[i].version + 1]
    IN  /\ writer[w].pc = "put"
        /\ server[i] # Absent
        /\ server' = [server EXCEPT ![i] = out]
        /\ writer' = [Touching(i) EXCEPT ![w] = [writer[w] EXCEPT !.pc = "apply", !.out = out]]
        /\ Elsewhere /\ UNCHANGED <<replica, splitPaths>>

CreateItem(w) ==
    LET i == NewId[w]
        empty == [Absent EXCEPT !.title = writer[w].req.addr[1]]
        out == [applyFields(empty, writer[w].writes) EXCEPT !.version = 1]
    IN  /\ writer[w].pc = "create"
        /\ KnownTypes(writer[w].writes)
        /\ server' = [server EXCEPT ![i] = out]
        /\ Goes(w, [writer[w] EXCEPT !.pc = "apply", !.item = i, !.cur = empty, !.out = out])
        /\ Elsewhere /\ UNCHANGED <<replica, splitPaths>>

\* A call fails: 1Password refuses it, the item is gone, a type is not known,
\* or (from "apply") it was carried out and its answer lost.
Fails(w) ==
    /\ writer[w].pc \in {"fetch", "put", "create", "apply"}
    /\ Goes(w, [Idle EXCEPT !.pc = "failed"])
    /\ Elsewhere /\ UNCHANGED <<server, replica, splitPaths>>

\* A copy already held at a newer version is left alone, with its index.
applyWrite(w) ==
    LET out == writer[w].out
        i == writer[w].item
    IN  /\ writer[w].pc = "apply"
        /\ IF replica[i].version > out.version THEN UNCHANGED <<replica, splitPaths>>
           ELSE /\ replica' = [replica EXCEPT ![i] = out]
                /\ splitPaths' \in Rebuilt(replica', writer[w].rx)
        /\ Goes(w, [writer[w] EXCEPT !.pc = "done", !.rx = Unset])
        /\ Elsewhere /\ UNCHANGED server

WriterStep(w) ==
    beginWrite(w) \/ locateItem(w) \/ fetchFresh(w) \/ PutItem(w) \/ CreateItem(w) \/ applyWrite(w) \/ Fails(w)

-----------------------------------------------------------------------------
(* The others: the cycle, the configuration, people editing 1Password.     *)

\* runVaultCycle takes path_split before the cycle does anything else.
CycleStarts ==
    /\ cycle = NoCycle
    /\ cycle' = pathSplit
    /\ UNCHANGED <<server, replica, splitPaths, pathSplit, writer, edits, rewrites>>

\* mutant: a cycle that brings no change keeps the index
ReindexedOnChange == IF server = replica THEN {splitPaths} ELSE Rebuilt(server, cycle)

Reindexed == Rebuilt(server, cycle)

\* doCycle puts what it fetched in place and rebuilds the index, changed or not.
CycleEnds ==
    /\ cycle # NoCycle
    /\ cycle' = NoCycle
    /\ replica' = server
    /\ splitPaths' \in Reindexed
    /\ UNCHANGED <<server, pathSplit, writer, edits, rewrites>>

\* Rewriting the configuration swaps path_split and leaves the replica's index alone.
WritePathSplit ==
    /\ rewrites < MaxRewrites
    /\ pathSplit' \in (Separators \cup {Unset}) \ {pathSplit}
    /\ rewrites' = rewrites + 1
    /\ UNCHANGED <<server, replica, splitPaths, cycle, writer, edits>>

Changed(i, item) ==
    /\ edits < MaxEdits
    /\ server[i] # Absent
    /\ server' = [server EXCEPT ![i] = item]
    /\ writer' = Touching(i)
    /\ edits' = edits + 1
    /\ UNCHANGED <<replica, splitPaths, pathSplit, cycle, rewrites>>

EditElsewhere(i) == \E n \in DOMAIN server[i].fields :
    Changed(i, [server[i] EXCEPT !.fields[n].value = "edited", !.version = @ + 1])
RenameElsewhere(i) == \E t \in Titles \ {server[i].title} :
    Changed(i, [server[i] EXCEPT !.title = t, !.version = @ + 1])
RemoveElsewhere(i) == Changed(i, Absent)

Next ==
    \/ \E w \in Writers : WriterStep(w)
    \/ \E i \in Ids : EditElsewhere(i) \/ RenameElsewhere(i) \/ RemoveElsewhere(i)
    \/ CycleStarts \/ CycleEnds \/ WritePathSplit

\* Cycles start and end again and again (only CycleStarts and CycleEnds move
\* cycle; the governor lets them, Governor's Recovers), as they do for a vault that
\* is not left invalidated and unread; a writer may stop anywhere.
CycleGoesOn == cycle' = IF cycle = NoCycle THEN pathSplit ELSE NoCycle
Fairness == WF_cycle(CycleGoesOn)

Spec == Init /\ [][Next]_vars /\ Fairness

-----------------------------------------------------------------------------
(* Properties.                                                             *)

(* Both sides hold well-formed items (a field's section is one of its      *)
(* item's, applyFields, writes.go:298), the index names items the replica  *)
(* holds, and a writer that merges holds the item its address named.       *)
Pcs == {"idle", "locate", "missed", "fetch", "create", "put", "apply", "done", "failed"}
WriterOK(me) ==
    /\ me \in [pc : Pcs, req : Requests \cup {Idle.req}, rx : Separators \cup {Unset},
               item : Ids \cup {NotFound, Ambiguous}, writes : Seq(Writes), cur : Items, out : Items,
               touched : BOOLEAN]
    /\ me.pc \notin {"idle", "failed"} => me.req \in Requests
    /\ me.pc = "create" => Creates(me.req)
    /\ me.pc \in {"fetch", "put", "apply", "done"} => me.item \in Ids
    /\ me.pc = "put" => me.cur # Absent /\ Stored(me.cur) /\ KnownTypes(me.writes)
    /\ me.pc \in {"apply", "done"} => me.out # Absent /\ Stored(me.out)
TypeOK ==
    /\ DOMAIN server = Ids /\ DOMAIN replica = Ids
    /\ \A i \in Ids : Stored(server[i]) /\ Stored(replica[i])
    /\ \A key \in DOMAIN splitPaths : splitPaths[key] \in Held(replica)
    /\ pathSplit \in Separators \cup {Unset} /\ cycle \in Separators \cup {Unset, NoCycle}
    /\ DOMAIN writer = Writers /\ \A w \in Writers : WriterOK(writer[w])
    /\ edits \in 0 .. MaxEdits /\ rewrites \in 0 .. MaxRewrites

(* What a field write or an item write was acknowledged for is what a read *)
(* of the same address gives while the replica holds what the write left:  *)
(* the write and the read pick the field by rules of their own             *)
(* (applyFields, writes.go:298; lookupField, paths_field.go:150).  They    *)
(* differ where a label is asked for without its section and the item      *)
(* already bore it in one: that the documents promise it there too is      *)
(* ReadBackAlways.                                                         *)
Shadowed(cur, u) == u.section = TopLevel /\ \E f \in FieldsOf(cur) : f.label = u.label /\ f.section # 0
Answers(item, u) ==
    LET at == lookupField(item, u.section, u.label)
    IN  at # 0 /\ item.fields[at].value = u.value /\ u.type \in {AsIs, item.fields[at].type}
\* The replica holds what w wrote, and its address still means what it meant to w.
InPlace(w) ==
    LET me == writer[w]
    IN  /\ me.pc = "done" /\ replica[me.item] = me.out
        /\ Target(w) = [item |-> me.item, writes |-> me.writes]
ReadBack ==
    \A w \in Writers : InPlace(w) =>
        \A u \in ToSet(writer[w].writes) :
            Shadowed(writer[w].cur, u) \/ Answers(replica[writer[w].item], u)

(* A write changes nothing of an item but the fields it names: title and   *)
(* other fields stay with value and type, and a named field keeps its type *)
(* unless the write names one (writes.go:293).  The exception is the       *)
(* update whose item changed in 1Password after fetchFresh: PutItem sends  *)
(* the whole item and undoes that change (writes.go:404, writes.go:546),   *)
(* where the documents promise otherwise (NeverDropsData).                 *)
Named(u, item, f) ==
    /\ u.label = f.label
    /\ IF u.section = TopLevel THEN f.section = 0
       ELSE \E s \in ToSet(item.sections) : s.id = f.section /\ s.title = u.section
KeptBut(old, new, writes) ==
    /\ new.title = old.title
    /\ \A n \in DOMAIN old.fields :
        /\ n \in DOMAIN new.fields
        /\ [new.fields[n] EXCEPT !.value = "", !.type = ""] = [old.fields[n] EXCEPT !.value = "", !.type = ""]
        /\ new.fields[n] # old.fields[n] =>
            \E u \in ToSet(writes) : /\ Named(u, old, old.fields[n])
                                     /\ u.type = AsIs => new.fields[n].type = old.fields[n].type
\* 1Password is changed by a writer, not by others.
WrittenHere(i) == server[i] # Absent /\ server'[i] # server[i] /\ edits' = edits
KeepsTheRest ==
    [][\A i \in Ids : WrittenHere(i) =>
        \E w \in Writers : /\ writer[w].pc = "put" /\ writer[w].item = i
                           /\ writer[w].touched \/ KeptBut(server[i], server'[i], writer[w].writes)]_vars

(* The index holds a split path exactly if one item bears it, however the  *)
(* loop meets the items (replica.go:287), under a path_split that was      *)
(* configured once: never one of several items, and never a key short.     *)
Exact(rx) ==
    LET keys == [i \in Held(replica) |-> SplitAt[rx][replica[i].title]]
        alone == {i \in Held(replica) : \A j \in Held(replica) \ {i} : keys[j] # keys[i]}
    IN  [key \in {keys[i] : i \in alone} |-> CHOOSE i \in alone : keys[i] = key]
IndexIsExact == splitPaths = <<>> \/ \E rx \in Separators : splitPaths = Exact(rx)

(* A split path in the index names its item, and the item an item address  *)
(* names (paths_item.go:124) is the one its field's address names          *)
(* (paths_field.go:111), though one looks at titles first and the other at *)
(* split paths.  It is not where the title is also another item's ID, nor  *)
(* where the field's name makes the address a split path of its own.       *)
ItemAddresses == {<<t>> : t \in Titles \cap Segments} \cup UNION {Range(SplitAt[rx]) : rx \in Separators}
FieldNames == ToSet(Alphabet)
AddressesAgree ==
    /\ \A key \in DOMAIN splitPaths : \/ resolveItemFromSegments(key) = splitPaths[key]
                                      \/ Len(key) = 1 /\ key[1] \in Held(replica)
    /\ \A addr \in ItemAddresses :
           LET i == resolveItemFromSegments(addr)
           IN  i \in Ids =>
                   \/ addr = <<i>> /\ \E j \in Held(replica) \ {i} : replica[j].title = i
                   \/ \A f \in FieldNames :
                       \/ resolveFieldAddress(addr \o <<f>>) = [id |-> i, section |-> TopLevel, label |-> f]
                       \/ addr \o <<f>> \in DOMAIN splitPaths

(* A path_split that is written takes effect (config.go:197): it reaches   *)
(* the index, though nothing rebuilds the index when it is written, and a  *)
(* writer or a cycle that took the older one may still rebuild with it.    *)
SplitTakesEffect ==
    <>[](splitPaths = IF pathSplit = Unset THEN <<>> ELSE Exact(pathSplit))

-----------------------------------------------------------------------------
(* What the documents say and the code does not do.                        *)

(* docs/plans/2026-11-04-item-writes.md:38-39 "so an immediate read returns *)
(* the new value": ReadBack with no exception.                             *)
ReadBackAlways ==
    \A w \in Writers : InPlace(w) =>
        \A u \in ToSet(writer[w].writes) : Answers(replica[writer[w].item], u)

(* docs/plans/2026-11-04-item-writes.md:22-23 "a write never drops data it *)
(* was not told about": KeepsTheRest with no exception.                    *)
NeverDropsData ==
    [][\A i \in Ids : WrittenHere(i) =>
        \E w \in Writers : /\ writer[w].pc = "put" /\ writer[w].item = i
                           /\ KeptBut(server[i], server'[i], writer[w].writes)]_vars
=============================================================================
