----------------------------- MODULE ItemLemmas -----------------------------
(***************************************************************************)
(* The operators ItemWrites is built from: what the loop over the items    *)
(* leaves in the index of split paths, what an address resolves to, in     *)
(* which order a body's fields are merged, and what merging them does to   *)
(* an item.  Each holds for all arguments, whatever the system did before. *)
(***************************************************************************)
EXTENDS ItemWrites, InductionLemmas

-----------------------------------------------------------------------------
(* The loop that builds the index (rebuildIndexesLocked, replica.go:284).  *)

KeyOf(items, rx, i) == SplitAt[rx][items[i].title]

\* h[m] is the index after m places of an order.
Loop(h, items, rx, order, n) ==
    /\ h[0] = <<>>
    /\ \A m \in 1 .. n : h[m] = Met(h[m - 1], KeyOf(items, rx, order[m]), order[m])

\* The fold meets the items one after the other, the first place first.
LEMMA IndexedSteps ==
    ASSUME NEW items, NEW rx, NEW n \in Nat, NEW order \in [1 .. n -> Ids]
    PROVE  \E h : Loop(h, items, rx, order, n) /\ Indexed(items, rx, order) = h[n]
  <1> DEFINE ks == {KeyOf(items, rx, i) : i \in Ids}
             ids == Ids \cup {Ambiguous}
             X == UNION {[D -> ids] : D \in SUBSET ks}
             st == [m \in 1 .. n |-> [p \in X |-> Met(p, KeyOf(items, rx, order[m]), order[m])]]
             Step(k) == [s \in SUBSET DOMAIN order |->
                            IF s = {} THEN <<>>
                            ELSE LET x == Max(s)
                                 IN  Met(k[s \ {x}], SplitAt[rx][items[order[x]].title], order[x])]
             iter == CHOOSE k : k = Step(k)
  <1>1. <<>> \in X
    <2>1. <<>> \in [{} -> ids]
      OBVIOUS
    <2> QED
      BY <2>1
  <1>2. ASSUME NEW p \in X, NEW i \in Ids PROVE Met(p, KeyOf(items, rx, i), i) \in X
    <2>1. PICK D \in SUBSET ks : p \in [D -> ids]
      OBVIOUS
    <2> DEFINE key == KeyOf(items, rx, i)
    <2>2. D \cup {key} \in SUBSET ks
      OBVIOUS
    <2> HIDE DEF key, ks
    <2>3. Met(p, key, i) \in [D \cup {key} -> ids]
      BY <2>1 DEF Met
    <2> QED
      BY <2>2, <2>3 DEF key
  <1>3. st \in [1 .. n -> [X -> X]]
    <2> HIDE DEF X
    <2> QED
      BY <1>2
  <1>4. PICK g : Folding(g, n, X, <<>>, st)
    <2> DEFINE base == <<>>
    <2>1. base \in X
      BY <1>1
    <2> HIDE DEF X, st, base
    <2>2. \E g : Folding(g, n, X, base, st)
      BY <1>3, <2>1, FoldExists
    <2> QED
      BY <2>2 DEF base
  <1>5. DOMAIN order = 1 .. n
    OBVIOUS
  <1>6. \A T \in SUBSET (1 .. n) : T # {} => Max(T) \in T
    <2>1. \A T \in SUBSET (1 .. n) : T \in SUBSET (0 .. n)
      OBVIOUS
    <2> QED
      BY <2>1, MaxIsLargest
  <1>7. g = Step(g)
    <2>1. ASSUME NEW T \in SUBSET (1 .. n) PROVE g[T] = Step(g)[T]
      <3>1. CASE T = {}
        BY <1>4, <1>5, <3>1 DEF Folding
      <3>2. CASE T # {}
        <4>1. Max(T) \in 1 .. n /\ g[T \ {Max(T)}] \in X
          <5> HIDE DEF X
          <5> QED
            BY <1>4, <1>6, <3>2 DEF Folding
        <4>2. g[T] = Met(g[T \ {Max(T)}], KeyOf(items, rx, order[Max(T)]), order[Max(T)])
          <5> HIDE DEF X
          <5> QED
            BY <1>4, <3>2, <4>1 DEF Folding
        <4> QED
          BY <1>5, <3>2, <4>2 DEF KeyOf
      <3> QED
        BY <3>1, <3>2
    <2>2. g = [T \in SUBSET (1 .. n) |-> g[T]] /\ Step(g) = [T \in SUBSET (1 .. n) |-> Step(g)[T]]
      BY <1>4, <1>5 DEF Folding
    <2> HIDE DEF Step
    <2> QED
      BY <2>1, <2>2
  <1>8. iter = Step(iter)
    <2> HIDE DEF Step
    <2> QED
      BY <1>7, Zenon
  <1>9. Indexed(items, rx, order) = iter[DOMAIN order]
    BY DEF Indexed, FoldLeft, MapThenFoldSet
  <1> HIDE DEF iter
  <1> DEFINE h == [m \in 0 .. n |-> iter[1 .. m]]
  <1>10. h[0] = <<>>
    <2>1. 1 .. 0 = {}
      OBVIOUS
    <2> QED
      BY <1>8, <2>1
  <1>11. ASSUME NEW m \in 1 .. n PROVE h[m] = Met(h[m - 1], KeyOf(items, rx, order[m]), order[m])
    <2> DEFINE T == 1 .. m
    <2>1. m \in T /\ T \in SUBSET (1 .. n) /\ T \in SUBSET (0 .. n)
      <3>1. \A x \in T : x \in 1 .. n /\ x \in 0 .. n
        OBVIOUS
      <3>2. m \in T
        OBVIOUS
      <3> HIDE DEF T
      <3> QED
        BY <3>1, <3>2
    <2>4. T \ {m} = 1 .. m - 1
      OBVIOUS
    <2>5. m \in 0 .. n /\ m - 1 \in 0 .. n
      OBVIOUS
    <2>2. Max(T) = m
      <3>1. Max(T) \in T /\ Max(T) >= m
        <4> HIDE DEF T
        <4> QED
          BY <2>1, MaxIsLargest
      <3> QED
        BY <3>1
    <2>3. iter[T] = Met(iter[T \ {m}], SplitAt[rx][items[order[m]].title], order[m])
      <3> HIDE DEF T
      <3> QED
        BY <1>5, <1>8, <2>1, <2>2
    <2> QED
      BY <2>4, <2>5, <2>3 DEF KeyOf
  <1> HIDE DEF h
  <1>12. Indexed(items, rx, order) = h[n]
    BY <1>5, <1>9 DEF h
  <1> QED
    BY <1>10, <1>11, <1>12 DEF Loop

\* What the loop holds after m places: each key met, with the item that bears
\* it or, if several did, Ambiguous.
Met1To(p, items, rx, order, m) ==
    /\ p = [k \in DOMAIN p |-> p[k]]
    /\ DOMAIN p = {KeyOf(items, rx, order[l]) : l \in 1 .. m}
    /\ \A l \in 1 .. m :
        p[KeyOf(items, rx, order[l])] =
            IF \E j \in 1 .. m : j # l /\ KeyOf(items, rx, order[j]) = KeyOf(items, rx, order[l])
            THEN Ambiguous ELSE order[l]

\* One more place.
LEMMA MetOneMore ==
    ASSUME NEW items, NEW rx, NEW order, NEW m \in Nat \ {0}, NEW p, Met1To(p, items, rx, order, m - 1)
    PROVE  Met1To(Met(p, KeyOf(items, rx, order[m]), order[m]), items, rx, order, m)
  <1> DEFINE key(l) == KeyOf(items, rx, order[l])
             q == Met(p, key(m), order[m])
             prev == 1 .. m - 1
             next == 1 .. m
  <1>1. next = prev \cup {m} /\ m \notin prev
    OBVIOUS
  <1>2. /\ DOMAIN p = {key(l) : l \in prev}
        /\ \A l \in prev : p[key(l)] = IF \E j \in prev : j # l /\ key(j) = key(l) THEN Ambiguous ELSE order[l]
    BY DEF Met1To
  <1>3. /\ DOMAIN q = DOMAIN p \cup {key(m)}
        /\ \A k \in DOMAIN p : k # key(m) => q[k] = p[k]
        /\ q[key(m)] = IF key(m) \in DOMAIN p THEN Ambiguous ELSE order[m]
    BY DEF Met
  <1>4. q = [k \in DOMAIN q |-> q[k]]
    BY DEF Met
  <1> HIDE DEF key, q, prev, next
  <1>5. DOMAIN q = {key(l) : l \in next}
    BY <1>1, <1>2, <1>3
  <1>6. ASSUME NEW l \in next
        PROVE  q[key(l)] = IF \E j \in next : j # l /\ key(j) = key(l) THEN Ambiguous ELSE order[l]
    <2>1. CASE l = m
      <3>1. key(m) \in DOMAIN p <=> \E j \in next : j # m /\ key(j) = key(m)
        BY <1>1, <1>2
      <3> QED
        BY <1>3, <2>1, <3>1
    <2>2. CASE l # m /\ key(l) = key(m)
      <3>1. l \in prev /\ m \in next
        BY <1>1, <2>2
      <3>2. key(m) \in DOMAIN p
        BY <1>2, <2>2, <3>1
      <3> QED
        BY <1>3, <2>2, <3>1, <3>2
    <2>3. CASE l # m /\ key(l) # key(m)
      <3>1. l \in prev
        BY <1>1, <2>3
      <3>2. q[key(l)] = p[key(l)]
        BY <1>2, <1>3, <2>3, <3>1
      <3>3. (\E j \in next : j # l /\ key(j) = key(l)) <=> \E j \in prev : j # l /\ key(j) = key(l)
        BY <1>1, <2>3
      <3> QED
        BY <1>2, <3>1, <3>2, <3>3
    <2> QED
      BY <2>1, <2>2, <2>3
  <1> QED
    BY <1>4, <1>5, <1>6 DEF Met1To, key, q, next

\* The whole loop.
LEMMA IndexedIs ==
    ASSUME NEW items, NEW rx, NEW n \in Nat, NEW order \in [1 .. n -> Ids]
    PROVE  Met1To(Indexed(items, rx, order), items, rx, order, n)
  <1>0. PICK h : Loop(h, items, rx, order, n) /\ Indexed(items, rx, order) = h[n]
    BY IndexedSteps
  <1>1. /\ h[0] = <<>>
        /\ \A m \in 1 .. n : h[m] = Met(h[m - 1], KeyOf(items, rx, order[m]), order[m])
        /\ Indexed(items, rx, order) = h[n]
    BY <1>0 DEF Loop
  <1> DEFINE Good == {m \in 0 .. n : Met1To(h[m], items, rx, order, m)}
  <1>2. 0 \in Good
    <2>1. 1 .. 0 = {}
      OBVIOUS
    <2>2. <<>> = [k \in {} |-> k] /\ DOMAIN <<>> = {}
      OBVIOUS
    <2> QED
      BY <1>1, <2>1, <2>2 DEF Met1To
  <1>3. ASSUME NEW m \in 0 .. n - 1, m \in Good PROVE m + 1 \in Good
    <2> DEFINE k == m + 1
    <2>1. k \in Nat \ {0} /\ k \in 1 .. n /\ k \in 0 .. n /\ k - 1 = m
      OBVIOUS
    <2> HIDE DEF k
    <2>2. Met1To(h[k - 1], items, rx, order, k - 1)
      BY <1>3, <2>1
    <2>3. Met1To(h[k], items, rx, order, k)
      BY <1>1, <2>1, <2>2, MetOneMore, SMTT(30)
    <2>4. k \in Good
      BY <2>1, <2>3
    <2> QED
      BY <2>4 DEF k
  <1>4. n \in Good
    <2>1. n \in 0 .. n
      OBVIOUS
    <2> HIDE DEF Good
    <2> QED
      BY <1>2, <1>3, <2>1, RangeInductive
  <1> QED
    BY <1>1, <1>4

\* An order of all the items of a finite set goes through each of them once.
LEMMA OrdersAreBijections ==
    ASSUME NEW S, IsFiniteSet(S), NEW order \in SetToSeqs(S)
    PROVE  /\ Cardinality(S) \in Nat
           /\ order \in [1 .. Cardinality(S) -> S]
           /\ \A l, j \in 1 .. Cardinality(S) : l # j => order[l] # order[j]
           /\ \A x \in S : \E l \in 1 .. Cardinality(S) : order[l] = x
  <1> DEFINE n == Cardinality(S)
             D == 1 .. n
  <1>1. n \in Nat
    BY FS_CardinalityType
  <1>2. order \in [D -> S] /\ \A l, j \in D : l # j => order[l] # order[j]
    BY DEF SetToSeqs
  <1>3. Cardinality(D) = n
    BY <1>1, FS_Interval
  <1> HIDE DEF D
  <1>4. order \in Injection(D, S)
    BY <1>2 DEF Injection, IsInjective
  <1>5. order \in Surjection(D, S)
    BY <1>3, <1>4, FS_Injection
  <1>6. \A x \in S : \E l \in D : order[l] = x
    BY <1>5 DEF Surjection
  <1> QED
    BY <1>1, <1>2, <1>6 DEF D

\* Exact, of any items.
ExactOf(items, rx) ==
    LET keys == [i \in Held(items) |-> KeyOf(items, rx, i)]
        alone == {i \in Held(items) : \A j \in Held(items) \ {i} : keys[j] # keys[i]}
    IN  [key \in {keys[i] : i \in alone} |-> CHOOSE i \in alone : keys[i] = key]

\* Whatever the order, what is left of the loop's outcome is the exact index.
LEMMA RebuiltIsExact ==
    ASSUME NEW items, NEW rx, rx # Unset, NEW paths \in Rebuilt(items, rx)
    PROVE  paths = ExactOf(items, rx)
  <1> DEFINE H == Held(items)
             n == Cardinality(H)
  <1>1. PICK order \in SetToSeqs(H) : paths = RestrictValues(Indexed(items, rx, order), LAMBDA id : id # Ambiguous)
    BY DEF Rebuilt
  <1>2. IsFiniteSet(H) /\ H \subseteq Ids
    <2>1. H \in SUBSET Ids
      BY DEF Held
    <2> QED
      BY <2>1, NamesAssumption, FS_Subset
  <1> DEFINE p == Indexed(items, rx, order)
             key(l) == KeyOf(items, rx, order[l])
             keys == [i \in H |-> KeyOf(items, rx, i)]
             alone == {i \in H : \A j \in H \ {i} : keys[j] # keys[i]}
             D == 1 .. n
             kept == {k \in DOMAIN p : p[k] # Ambiguous}
  <1>3. paths = [k \in kept |-> p[k]]
    BY <1>1 DEF RestrictValues, Restrict
  <1>4. /\ n \in Nat /\ order \in [D -> H]
        /\ \A l, j \in D : l # j => order[l] # order[j]
        /\ \A x \in H : \E l \in D : order[l] = x
    <2> HIDE DEF H
    <2> QED
      BY <1>1, <1>2, OrdersAreBijections
  <1>5. /\ DOMAIN p = {key(l) : l \in D}
        /\ \A l \in D : p[key(l)] = IF \E j \in D : j # l /\ key(j) = key(l) THEN Ambiguous ELSE order[l]
    <2>1. order \in [1 .. n -> Ids]
      BY <1>2, <1>4
    <2>2. Met1To(p, items, rx, order, n)
      BY <1>4, <2>1, IndexedIs
    <2> QED
      BY <2>2 DEF Met1To
  <1>6. \A l \in D : order[l] \in H /\ keys[order[l]] = key(l)
    BY <1>4
  <1>7. Ambiguous \notin H
    BY <1>2, NamesAssumption
  <1>8. \A x \in H : \E l \in D : order[l] = x
    BY <1>4
  <1>9. \A l, j \in D : l # j => order[l] # order[j]
    BY <1>4
  <1>10. ExactOf(items, rx) = [k \in {keys[i] : i \in alone} |-> CHOOSE i \in alone : keys[i] = k]
    BY DEF ExactOf
  <1>11. alone = {i \in H : \A j \in H \ {i} : keys[j] # keys[i]}
    OBVIOUS
  <1>12. kept = {k \in DOMAIN p : p[k] # Ambiguous}
    OBVIOUS
  <1> HIDE DEF H, n, p, key, keys, alone, D, kept
  <1>13. ASSUME NEW l \in D
         PROVE  order[l] \in alone <=> ~ \E j \in D : j # l /\ key(j) = key(l)
    <2>1. ASSUME NEW j \in D, j # l, key(j) = key(l) PROVE order[l] \notin alone
      BY <1>6, <1>9, <1>11, <2>1
    <2>2. ASSUME order[l] \notin alone PROVE \E j \in D : j # l /\ key(j) = key(l)
      <3>1. PICK x \in H \ {order[l]} : keys[x] = keys[order[l]]
        BY <1>6, <1>11, <2>2
      <3>2. PICK j \in D : order[j] = x
        BY <1>8
      <3> QED
        BY <1>6, <3>1, <3>2
    <2> QED
      BY <2>1, <2>2
  <1>14. \A l \in D : p[key(l)] = IF order[l] \in alone THEN order[l] ELSE Ambiguous
    BY <1>5, <1>13
  <1>15. kept = {keys[i] : i \in alone}
    <2>1. ASSUME NEW k \in kept PROVE k \in {keys[i] : i \in alone}
      <3>1. PICK l \in D : k = key(l)
        BY <1>5, <1>12
      <3>2. order[l] \in alone
        BY <1>12, <1>14, <3>1
      <3> QED
        BY <1>6, <3>1, <3>2
    <2>2. ASSUME NEW i \in alone PROVE keys[i] \in kept
      <3>1. i \in H
        BY <1>11
      <3>2. PICK l \in D : order[l] = i
        BY <1>8, <3>1
      <3>3. keys[i] = key(l) /\ key(l) \in DOMAIN p /\ p[key(l)] = i
        BY <1>5, <1>6, <1>14, <3>2
      <3> QED
        BY <1>7, <1>12, <3>1, <3>3
    <2> QED
      BY <2>1, <2>2
  <1>16. ASSUME NEW k \in kept PROVE p[k] = CHOOSE i \in alone : keys[i] = k
    <2>1. PICK l \in D : k = key(l)
      BY <1>5, <1>12
    <2>2. order[l] \in alone /\ keys[order[l]] = k /\ p[k] = order[l]
      BY <1>6, <1>12, <1>14, <2>1
    <2>3. \A i \in alone : keys[i] = k => i = order[l]
      BY <1>11, <2>2
    <2> QED
      BY <2>2, <2>3
  <1> QED
    BY <1>3, <1>10, <1>15, <1>16

\* With path_split unset the index is empty.
LEMMA RebuiltUnset ==
    ASSUME NEW items, NEW paths \in Rebuilt(items, Unset)
    PROVE  paths = <<>>
  BY DEF Rebuilt

-----------------------------------------------------------------------------
(* One field merged over an item (writes.go applyFields, the loop's body). *)

\* What the first match in a sequence is, or that there is none.
LEMMA SectionAtIs ==
    ASSUME NEW item, item.sections \in Seq(Sections), NEW t
    PROVE  LET s == SectionAt(item, t)
           IN  \/ s = 0 /\ \A n \in 1 .. Len(item.sections) : item.sections[n].title # t
               \/ /\ s \in 1 .. Len(item.sections) /\ item.sections[s].title = t
                  /\ \A n \in 1 .. s - 1 : item.sections[n].title # t
  <1> DEFINE I == {n \in 1 .. Len(item.sections) : item.sections[n].title = t}
  <1>1. SectionAt(item, t) = IF I # {} THEN Min(I) ELSE 0
    BY DEF SectionAt, SelectInSeq
  <1>2. I \in SUBSET Nat
    OBVIOUS
  <1>3. CASE I = {}
    BY <1>1, <1>3
  <1>4. CASE I # {}
    <2>1. Min(I) \in I /\ \A x \in I : Min(I) <= x
      BY <1>2, <1>4, MinIsSmallest
    <2>2. \A n \in 1 .. Min(I) - 1 : item.sections[n].title # t
      BY <2>1
    <2> QED
      BY <1>1, <1>4, <2>1, <2>2
  <1> QED
    BY <1>3, <1>4

\* The place is that of the first field with the write's label in that section.
LEMMA PlaceForIs ==
    ASSUME NEW item, item.fields \in Seq(Fields), NEW w
    PROVE  LET at == PlaceFor(item, w)
               Hit(f) == f.label = w.label /\ f.section = SectionFor(item, w)
           IN  \/ at = 0 /\ \A n \in 1 .. Len(item.fields) : ~ Hit(item.fields[n])
               \/ /\ at \in 1 .. Len(item.fields) /\ Hit(item.fields[at])
                  /\ \A n \in 1 .. at - 1 : ~ Hit(item.fields[n])
  <1> DEFINE I == {n \in 1 .. Len(item.fields) : /\ item.fields[n].label = w.label
                                                 /\ item.fields[n].section = SectionFor(item, w)}
  <1>1. PlaceFor(item, w) = IF I # {} THEN Min(I) ELSE 0
    BY DEF PlaceFor, SelectInSeq
  <1>2. I \in SUBSET Nat
    OBVIOUS
  <1>3. CASE I = {}
    BY <1>1, <1>3
  <1>4. CASE I # {}
    <2>1. Min(I) \in I /\ \A x \in I : Min(I) <= x
      BY <1>2, <1>4, MinIsSmallest
    <2>2. \A n \in 1 .. Min(I) - 1 : n \notin I
      BY <2>1
    <2>3. \A n \in 1 .. Min(I) - 1 : n \in 1 .. Len(item.fields)
      BY <2>1
    <2>4. PlaceFor(item, w) = Min(I)
      BY <1>1, <1>4
    <2> QED
      BY <2>1, <2>2, <2>3, <2>4
  <1> QED
    BY <1>3, <1>4

\* A write leaves title and version, adds a section at the end if its own is
\* missing, and overwrites its field's value and type or adds it at the end.
LEMMA MergedIs ==
    ASSUME NEW item \in Items, NEW w
    PROVE  LET at == PlaceFor(item, w)
               new == Merged(item, w)
           IN  /\ new.title = item.title /\ new.version = item.version
               /\ new.sections = IF NewSection(item, w)
                                 THEN Append(item.sections, [id |-> SectionFor(item, w), title |-> w.section])
                                 ELSE item.sections
               /\ new.fields = IF at = 0 THEN Append(item.fields, NewField(item, w))
                               ELSE [item.fields EXCEPT ![at] = Overwritten(item.fields[at], w)]
               /\ new.sections \in Seq(Sections) /\ new.fields \in Seq(Fields) => new \in Items
  <1> DEFINE at == PlaceFor(item, w)
             A == IF NewSection(item, w)
                  THEN Append(item.sections, [id |-> SectionFor(item, w), title |-> w.section]) ELSE item.sections
             B == IF at = 0 THEN Append(item.fields, NewField(item, w))
                  ELSE [item.fields EXCEPT ![at] = Overwritten(item.fields[at], w)]
  <1>1. Merged(item, w) = [item EXCEPT !.sections = A, !.fields = B]
    BY DEF Merged
  <1> HIDE DEF A, B
  <1>2. /\ Merged(item, w).title = item.title /\ Merged(item, w).version = item.version
        /\ Merged(item, w).sections = A /\ Merged(item, w).fields = B
        /\ A \in Seq(Sections) /\ B \in Seq(Fields) => Merged(item, w) \in Items
    BY <1>1 DEF Items
  <1> QED
    BY <1>2 DEF A, B

\* The section a write goes to is one of the merged item's, or the top level.
LEMMA SectionForIs ==
    ASSUME NEW item \in Items, NEW w \in Writes,
           \A n \in DOMAIN item.sections : item.sections[n].id \in 1 .. Len(item.sections),
           \A m, n \in DOMAIN item.sections : item.sections[m].id = item.sections[n].id => m = n
    PROVE  LET new == Merged(item, w)
           IN  /\ new.sections \in Seq(Sections)
               /\ \A m, n \in DOMAIN new.sections : new.sections[m].id = new.sections[n].id => m = n
               /\ Len(new.sections) \in {Len(item.sections), Len(item.sections) + 1}
               /\ \A n \in DOMAIN item.sections : n \in DOMAIN new.sections /\ new.sections[n] = item.sections[n]
               /\ \A n \in DOMAIN new.sections : new.sections[n].id \in 1 .. Len(new.sections)
               /\ w.section = TopLevel => SectionFor(item, w) = 0
               /\ w.section # TopLevel =>
                    /\ SectionFor(item, w) \in 1 .. Len(new.sections)
                    /\ \E n \in DOMAIN new.sections : new.sections[n] = [id |-> SectionFor(item, w), title |-> w.section]
  <1> DEFINE ss == item.sections
             new == Merged(item, w)
             k == SectionFor(item, w)
             s == SectionAt(item, w.section)
  <1>1. ss \in Seq(Sections) /\ Len(ss) \in Nat /\ DOMAIN ss = 1 .. Len(ss) /\ w.section \in Names
    <2>1. ss \in Seq(Sections)
      BY DEF Items
    <2>2. w.section \in Names
      BY DEF Writes
    <2> HIDE DEF ss
    <2> QED
      BY <2>1, <2>2
  <1>2. new.sections = IF NewSection(item, w) THEN Append(ss, [id |-> k, title |-> w.section]) ELSE ss
    BY MergedIs
  <1>3. \A n \in 1 .. Len(ss) : ss[n].id \in 1 .. Len(ss) /\ ss[n] \in Sections
    BY <1>1
  <1>7. \A m, n \in 1 .. Len(ss) : ss[m].id = ss[n].id => m = n
    BY <1>1
  <1>4. CASE w.section = TopLevel
    <2>1. k = 0 /\ ~NewSection(item, w)
      BY <1>4 DEF SectionFor, NewSection
    <2> QED
      BY <1>1, <1>2, <1>3, <1>4, <1>7, <2>1
  <1>5. CASE NewSection(item, w)
    <2>1. w.section # TopLevel /\ k = Len(ss) + 1
      BY <1>5 DEF SectionFor, NewSection
    <2> DEFINE added == [id |-> k, title |-> w.section]
    <2>2. added \in Sections /\ added.id = Len(ss) + 1
      BY <1>1, <2>1 DEF Sections
    <2>3. new.sections = Append(ss, added)
      BY <1>2, <1>5
    <2> HIDE DEF added, ss, new
    <2>4. /\ new.sections \in Seq(Sections) /\ Len(new.sections) = Len(ss) + 1
          /\ \A n \in 1 .. Len(ss) : new.sections[n] = ss[n]
          /\ new.sections[Len(ss) + 1] = added
      BY <1>1, <2>2, <2>3
    <2>5. \A n \in 1 .. Len(new.sections) : new.sections[n].id \in 1 .. Len(new.sections)
      <3>1. ASSUME NEW n \in 1 .. Len(new.sections) PROVE new.sections[n].id \in 1 .. Len(new.sections)
        <4>1. CASE n = Len(ss) + 1
          BY <1>1, <2>2, <2>4, <4>1
        <4>2. CASE n # Len(ss) + 1
          <5>1. n \in 1 .. Len(ss)
            BY <1>1, <2>4, <4>2
          <5> QED
            BY <1>1, <1>3, <2>4, <5>1
        <4> QED
          BY <4>1, <4>2
      <3> QED
        BY <3>1
    <2>6. \A m, n \in 1 .. Len(new.sections) : new.sections[m].id = new.sections[n].id => m = n
      <3>1. ASSUME NEW m \in 1 .. Len(new.sections), NEW n \in 1 .. Len(new.sections),
                   new.sections[m].id = new.sections[n].id, m < n
            PROVE  FALSE
        <4>1. m \in 1 .. Len(ss)
          BY <1>1, <2>4, <3>1
        <4>2. CASE n = Len(ss) + 1
          BY <1>3, <2>2, <2>4, <3>1, <4>1, <4>2
        <4>3. CASE n # Len(ss) + 1
          <5>1. n \in 1 .. Len(ss)
            BY <1>1, <2>4, <4>3
          <5> QED
            BY <1>7, <2>4, <3>1, <4>1, <5>1
        <4> QED
          BY <4>2, <4>3
      <3>2. \A m, n \in 1 .. Len(new.sections) : m # n => m < n \/ n < m
        BY <2>4
      <3> QED
        BY <3>1, <3>2
    <2>7. DOMAIN new.sections = 1 .. Len(new.sections) /\ k \in 1 .. Len(new.sections)
      BY <1>1, <2>1, <2>4
    <2>8. \A m, n \in DOMAIN new.sections : new.sections[m].id = new.sections[n].id => m = n
      BY <2>6, <2>7, Zenon
    <2>9. \A n \in DOMAIN new.sections : new.sections[n].id \in 1 .. Len(new.sections)
      BY <2>5, <2>7, Zenon
    <2>10. \E n \in DOMAIN new.sections : new.sections[n] = added
      BY <1>1, <2>4, <2>7
    <2>11. \A n \in DOMAIN ss : n \in DOMAIN new.sections /\ new.sections[n] = ss[n]
      BY <1>1, <2>4, <2>7
    <2> HIDE DEF k
    <2> QED
      BY <2>1, <2>4, <2>7, <2>8, <2>9, <2>10, <2>11 DEF added, ss, new, k
  <1>6. CASE w.section # TopLevel /\ s # 0
    <2>1. k = ss[s].id /\ ~NewSection(item, w)
      BY <1>6 DEF SectionFor, NewSection
    <2>2. s \in 1 .. Len(ss) /\ ss[s].title = w.section
      BY <1>1, <1>6, SectionAtIs
    <2>3. ss[s] = [id |-> k, title |-> w.section]
      BY <1>3, <2>1, <2>2 DEF Sections
    <2>4. new.sections = ss
      BY <1>2, <2>1
    <2>5. k \in 1 .. Len(ss)
      BY <1>3, <2>1, <2>2
    <2>6. \A m, n \in DOMAIN ss : ss[m].id = ss[n].id => m = n
      BY <1>1, <1>7, Zenon
    <2>7. \A n \in DOMAIN ss : ss[n].id \in 1 .. Len(ss)
      BY <1>1, <1>3
    <2>8. s \in DOMAIN ss
      BY <1>1, <2>2
    <2> HIDE DEF ss, k, s, new
    <2> QED
      BY <1>1, <1>6, <2>3, <2>4, <2>5, <2>6, <2>7, <2>8 DEF ss, new, k
  <1> QED
    BY <1>4, <1>5, <1>6 DEF NewSection

\* The same, of a well-formed item.
LEMMA SectionForWellFormed ==
    ASSUME NEW item, WellFormed(item), NEW w \in Writes
    PROVE  LET ts == Merged(item, w).sections
           IN  /\ SectionFor(item, w) \in Nat
               /\ ts \in Seq(Sections)
               /\ \A m \in DOMAIN item.sections : m \in DOMAIN ts /\ ts[m] = item.sections[m]
               /\ \A m \in DOMAIN ts : ts[m].id \in 1 .. Len(ts)
               /\ \A m, n \in DOMAIN ts : ts[m].id = ts[n].id => m = n
               /\ SectionFor(item, w) = 0 \/ \E m \in DOMAIN ts : ts[m].id = SectionFor(item, w)
  <1> DEFINE ts == Merged(item, w).sections
             k == SectionFor(item, w)
  <1>1. /\ item \in Items
        /\ \A n \in DOMAIN item.sections : item.sections[n].id \in 1 .. Len(item.sections)
        /\ \A m, n \in DOMAIN item.sections : item.sections[m].id = item.sections[n].id => m = n
    BY DEF WellFormed
  <1>2. /\ ts \in Seq(Sections)
        /\ \A m \in DOMAIN item.sections : m \in DOMAIN ts /\ ts[m] = item.sections[m]
        /\ \A m \in DOMAIN ts : ts[m].id \in 1 .. Len(ts)
        /\ \A m, n \in DOMAIN ts : ts[m].id = ts[n].id => m = n
    BY <1>1, SectionForIs
  <1>3. w.section = TopLevel => k = 0
    BY <1>1, SectionForIs
  <1>4. w.section # TopLevel => /\ k \in 1 .. Len(ts)
                                /\ \E m \in DOMAIN ts : ts[m] = [id |-> k, title |-> w.section]
    BY <1>1, SectionForIs
  <1> HIDE DEF ts, k
  <1>5. k \in Nat
    BY <1>2, <1>3, <1>4
  <1>6. k = 0 \/ \E m \in DOMAIN ts : ts[m].id = k
    BY <1>3, <1>4
  <1> QED
    BY <1>2, <1>5, <1>6 DEF ts, k

\* What a write leaves of a field: its label and section, and its type unless it names one.
LEMMA OverwrittenIs ==
    ASSUME NEW f \in Fields, NEW w \in Writes, w.type \in Types \cup {AsIs}
    PROVE  /\ Overwritten(f, w) \in Fields
           /\ Overwritten(f, w).label = f.label /\ Overwritten(f, w).section = f.section
           /\ Overwritten(f, w).value = w.value
           /\ Overwritten(f, w).type = IF w.type = AsIs THEN f.type ELSE w.type
  <1>1. AsIs \notin Types
    BY DEF AsIs, Types
  <1> QED
    BY <1>1 DEF Overwritten, Fields, Writes

\* A new field is a field.
LEMMA NewFieldIs ==
    ASSUME NEW item, NEW w \in Writes, w.type \in Types \cup {AsIs}, SectionFor(item, w) \in Nat
    PROVE  NewField(item, w) \in Fields
  <1>1. "concealed" \in Types /\ "text" \in Types
    BY DEF Types
  <1> QED
    BY <1>1 DEF NewField, Fields, Writes

\* The fields of a merged item: those of the item, in their places, but for the
\* write's own, which is there with the write's value and type.
LEMMA MergedFields ==
    ASSUME NEW item, WellFormed(item), NEW w \in Writes, w.type \in Types \cup {AsIs}
    PROVE  LET new == Merged(item, w)
               at == PlaceFor(item, w)
               place == IF at = 0 THEN Len(item.fields) + 1 ELSE at
           IN  /\ new.fields \in Seq(Fields)
               /\ DOMAIN new.fields = DOMAIN item.fields \cup {place}
               /\ \A n \in DOMAIN item.fields : n # place => new.fields[n] = item.fields[n]
               /\ new.fields[place] = IF at = 0 THEN NewField(item, w) ELSE Overwritten(item.fields[at], w)
               /\ new.fields[place].label = w.label /\ new.fields[place].section = SectionFor(item, w)
               /\ new.fields[place].value = w.value
  <1> DEFINE fs == item.fields
             at == PlaceFor(item, w)
             gs == Merged(item, w).fields
             k == SectionFor(item, w)
  <1>1. item \in Items
    BY DEF WellFormed
  <1>2. fs \in Seq(Fields)
    BY <1>1 DEF Items
  <1>3. k \in Nat
    BY SectionForWellFormed
  <1>4. gs = IF at = 0 THEN Append(fs, NewField(item, w)) ELSE [fs EXCEPT ![at] = Overwritten(fs[at], w)]
    BY <1>1, MergedIs
  <1>5. \/ at = 0
        \/ at \in 1 .. Len(fs) /\ fs[at].label = w.label /\ fs[at].section = k
    BY <1>2, PlaceForIs
  <1>6. NewField(item, w) \in Fields
    BY <1>3, NewFieldIs
  <1>7. NewField(item, w).label = w.label /\ NewField(item, w).section = k /\ NewField(item, w).value = w.value
    BY DEF NewField
  <1> HIDE DEF fs, at, gs, k
  <1>8. CASE at = 0
    <2>1. gs = Append(fs, NewField(item, w))
      BY <1>4, <1>8
    <2>2. /\ gs \in Seq(Fields) /\ DOMAIN gs = DOMAIN fs \cup {Len(fs) + 1}
          /\ \A n \in DOMAIN fs : gs[n] = fs[n]
          /\ gs[Len(fs) + 1] = NewField(item, w)
      BY <1>2, <1>6, <2>1
    <2> QED
      BY <1>7, <1>8, <2>2 DEF fs, at, gs, k
  <1>9. CASE at \in 1 .. Len(fs) /\ fs[at].label = w.label /\ fs[at].section = k
    <2>1. fs[at] \in Fields /\ at # 0
      BY <1>2, <1>9
    <2> DEFINE f == Overwritten(fs[at], w)
    <2>2. f \in Fields /\ f.label = w.label /\ f.section = k /\ f.value = w.value
      BY <1>9, <2>1, OverwrittenIs
    <2>3. gs = [fs EXCEPT ![at] = f]
      BY <1>4, <2>1
    <2> HIDE DEF f
    <2>4. /\ gs \in Seq(Fields) /\ DOMAIN gs = DOMAIN fs \cup {at}
          /\ \A n \in DOMAIN fs : n # at => gs[n] = fs[n]
          /\ gs[at] = f
      <3>1. at \in DOMAIN fs /\ DOMAIN fs \cup {at} = DOMAIN fs
        <4>1. at \in DOMAIN fs
          BY <1>2, <1>9
        <4> QED
          BY <4>1, Zenon
      <3>2. DOMAIN gs = DOMAIN fs /\ gs[at] = f /\ \A n \in DOMAIN fs : n # at => gs[n] = fs[n]
        BY <2>3, <3>1
      <3>3. gs \in Seq(Fields)
        BY <1>2, <1>9, <2>2, <2>3
      <3> QED
        BY <3>1, <3>2, <3>3
    <2> QED
      BY <2>1, <2>2, <2>4 DEF fs, at, gs, k, f
  <1> QED
    BY <1>5, <1>8, <1>9

\* A merged item is well formed, with title and version as they were.
LEMMA MergedWellFormed ==
    ASSUME NEW item, WellFormed(item), NEW w \in Writes, w.type \in Types \cup {AsIs}
    PROVE  /\ WellFormed(Merged(item, w))
           /\ Merged(item, w).title = item.title /\ Merged(item, w).version = item.version
  <1> DEFINE new == Merged(item, w)
             k == SectionFor(item, w)
             ss == item.sections
             ts == new.sections
             fs == item.fields
             gs == new.fields
             place == IF PlaceFor(item, w) = 0 THEN Len(fs) + 1 ELSE PlaceFor(item, w)
  <1>1. item \in Items /\ \A n \in DOMAIN ss : ss[n].id \in 1 .. Len(ss)
    BY DEF WellFormed
  <1>2. \A n \in DOMAIN fs : fs[n].section = 0 \/ \E m \in DOMAIN ss : ss[m].id = fs[n].section
    BY DEF WellFormed, FieldsOf, ToSet
  <1>3. /\ ts \in Seq(Sections)
        /\ \A m \in DOMAIN ss : m \in DOMAIN ts /\ ts[m] = ss[m]
        /\ \A m \in DOMAIN ts : ts[m].id \in 1 .. Len(ts)
        /\ \A m, n \in DOMAIN ts : ts[m].id = ts[n].id => m = n
        /\ k = 0 \/ \E m \in DOMAIN ts : ts[m].id = k
    BY SectionForWellFormed
  <1>4. /\ gs \in Seq(Fields) /\ DOMAIN gs = DOMAIN fs \cup {place}
        /\ \A n \in DOMAIN fs : n # place => gs[n] = fs[n]
        /\ gs[place].section = k
    BY MergedFields
  <1>5. new \in Items /\ new.title = item.title /\ new.version = item.version
    BY <1>1, <1>3, <1>4, MergedIs
  <1> HIDE DEF new, k, ss, ts, fs, gs, place
  <1>6. ASSUME NEW n \in DOMAIN gs PROVE gs[n].section = 0 \/ \E m \in DOMAIN ts : ts[m].id = gs[n].section
    <2>1. CASE n = place
      BY <1>3, <1>4, <2>1
    <2>2. CASE n # place
      BY <1>2, <1>3, <1>4, <2>2
    <2> QED
      BY <2>1, <2>2
  <1> QED
    BY <1>3, <1>5, <1>6 DEF WellFormed, FieldsOf, ToSet, new, ts, gs

-----------------------------------------------------------------------------
(* All of a request's fields merged (writes.go applyFields).               *)

\* The items a merge over an item goes through.
Variants(item) == {x \in Items : WellFormed(x) /\ x.title = item.title /\ x.version = item.version}

\* h[m] is the item after m writes.
Merging(h, item, writes) ==
    /\ h \in [0 .. Len(writes) -> Variants(item)]
    /\ h[0] = item
    /\ \A m \in 1 .. Len(writes) : h[m] = Merged(h[m - 1], writes[m])

\* The fold merges one write after the other, the first one first.
LEMMA ApplySteps ==
    ASSUME NEW item, WellFormed(item), NEW writes \in Seq(Writes), KnownTypes(writes)
    PROVE  \E h : Merging(h, item, writes) /\ applyFields(item, writes) = h[Len(writes)]
  <1> DEFINE n == Len(writes)
             X == Variants(item)
             st == [m \in 1 .. n |-> [x \in X |-> Merged(x, writes[m])]]
             Step(k) == [s \in SUBSET DOMAIN writes |->
                            IF s = {} THEN item
                            ELSE LET x == Max(s) IN MergedOver(k[s \ {x}], writes[x])]
             iter == CHOOSE k : k = Step(k)
  <1>1. n \in Nat /\ DOMAIN writes = 1 .. n
    OBVIOUS
  <1>2. item \in X
    BY DEF Variants, WellFormed
  <1>3. ASSUME NEW x \in X, NEW m \in 1 .. n PROVE Merged(x, writes[m]) \in X
    <2>1. writes[m] \in Writes /\ writes[m].type \in Types \cup {AsIs}
      BY <1>1 DEF KnownTypes
    <2>2. WellFormed(x) /\ x.title = item.title /\ x.version = item.version
      BY DEF Variants
    <2>3. WellFormed(Merged(x, writes[m])) /\ Merged(x, writes[m]).title = item.title
          /\ Merged(x, writes[m]).version = item.version
      BY <2>1, <2>2, MergedWellFormed
    <2> QED
      BY <2>3 DEF Variants, WellFormed
  <1>4. st \in [1 .. n -> [X -> X]]
    <2> HIDE DEF X, n
    <2> QED
      BY <1>3
  <1>5. PICK g : Folding(g, n, X, item, st)
    <2> HIDE DEF X, n, st
    <2> QED
      BY <1>1, <1>2, <1>4, FoldExists
  <1>6. \A T \in SUBSET (1 .. n) : T # {} => Max(T) \in T
    <2>1. \A T \in SUBSET (1 .. n) : T \in SUBSET (0 .. n)
      OBVIOUS
    <2> HIDE DEF n
    <2> QED
      BY <1>1, <2>1, MaxIsLargest
  <1>7. g = Step(g)
    <2>1. ASSUME NEW T \in SUBSET (1 .. n) PROVE g[T] = Step(g)[T]
      <3>1. CASE T = {}
        BY <1>1, <1>5, <3>1 DEF Folding
      <3>2. CASE T # {}
        <4>1. Max(T) \in 1 .. n /\ g[T \ {Max(T)}] \in X
          <5> HIDE DEF X, n, st
          <5> QED
            BY <1>5, <1>6, <3>2 DEF Folding
        <4>2. g[T] = Merged(g[T \ {Max(T)}], writes[Max(T)])
          <5> HIDE DEF X, n
          <5> QED
            BY <1>5, <3>2, <4>1 DEF Folding
        <4> QED
          BY <1>1, <3>2, <4>2 DEF MergedOver
      <3> QED
        BY <3>1, <3>2
    <2>2. g = [T \in SUBSET (1 .. n) |-> g[T]] /\ Step(g) = [T \in SUBSET (1 .. n) |-> Step(g)[T]]
      BY <1>1, <1>5 DEF Folding
    <2> HIDE DEF Step
    <2> QED
      BY <2>1, <2>2
  <1>8. iter = Step(iter)
    <2> HIDE DEF Step
    <2> QED
      BY <1>7, Zenon
  <1>9. applyFields(item, writes) = iter[DOMAIN writes]
    BY DEF applyFields, FoldLeft, MapThenFoldSet
  <1> HIDE DEF iter
  <1> DEFINE h == [m \in 0 .. n |-> iter[1 .. m]]
  <1>10. h[0] = item
    <2>1. 1 .. 0 = {}
      OBVIOUS
    <2> QED
      BY <1>8, <2>1
  <1>11. ASSUME NEW m \in 1 .. n PROVE h[m] = Merged(h[m - 1], writes[m])
    <2> DEFINE T == 1 .. m
    <2>1. m \in T /\ T \in SUBSET (1 .. n) /\ T \in SUBSET (0 .. n)
      <3>1. \A x \in T : x \in 1 .. n /\ x \in 0 .. n
        OBVIOUS
      <3>2. m \in T
        OBVIOUS
      <3> HIDE DEF T
      <3> QED
        BY <3>1, <3>2
    <2>2. Max(T) = m
      <3>1. Max(T) \in T /\ Max(T) >= m
        <4> HIDE DEF T, n
        <4> QED
          BY <1>1, <2>1, MaxIsLargest
      <3> QED
        BY <3>1
    <2>3. iter[T] = MergedOver(iter[T \ {m}], writes[m])
      <3> HIDE DEF T
      <3> QED
        BY <1>1, <1>8, <2>1, <2>2
    <2>4. T \ {m} = 1 .. m - 1
      OBVIOUS
    <2>5. m \in 0 .. n /\ m - 1 \in 0 .. n
      OBVIOUS
    <2> QED
      BY <2>3, <2>4, <2>5 DEF MergedOver
  <1>12. applyFields(item, writes) = h[n]
    BY <1>1, <1>9
  <1>13. DOMAIN h = 0 .. n
    OBVIOUS
  <1>14. h = [m \in 0 .. n |-> h[m]]
    OBVIOUS
  <1> HIDE DEF h, X, n
  <1> DEFINE Good == {m \in 0 .. n : h[m] \in X}
  <1>15. \A m \in 0 .. n : m \in Good
    <2>1. 0 \in Good
      BY <1>1, <1>2, <1>10
    <2>2. ASSUME NEW m \in 0 .. n - 1, m \in Good PROVE m + 1 \in Good
      <3>1. m + 1 \in 1 .. n /\ m + 1 \in 0 .. n /\ (m + 1) - 1 = m
        BY <1>1
      <3>2. h[m + 1] = Merged(h[m], writes[m + 1])
        BY <1>11, <3>1
      <3> QED
        BY <1>3, <2>2, <3>1, <3>2
    <2> HIDE DEF Good
    <2> QED
      BY <1>1, <2>1, <2>2, RangeInductive
  <1>16. h \in [0 .. n -> X]
    BY <1>14, <1>15
  <1>17. Merging(h, item, writes)
    BY <1>10, <1>11, <1>16 DEF Merging, X, n
  <1> QED
    BY <1>12, <1>17 DEF n

\* What applyFields makes of a well-formed item is well formed.
LEMMA ApplyWellFormed ==
    ASSUME NEW item, WellFormed(item), NEW writes \in Seq(Writes), KnownTypes(writes)
    PROVE  LET new == applyFields(item, writes)
           IN  WellFormed(new) /\ new.title = item.title /\ new.version = item.version
  <1>1. PICK h : Merging(h, item, writes) /\ applyFields(item, writes) = h[Len(writes)]
    BY ApplySteps
  <1>2. Len(writes) \in 0 .. Len(writes)
    OBVIOUS
  <1>3. applyFields(item, writes) \in Variants(item)
    BY <1>1, <1>2 DEF Merging
  <1> QED
    BY <1>3 DEF Variants

-----------------------------------------------------------------------------
(* The order of a request's fields (writes.go parseFieldWrites).           *)

SortNames == ToSet(Alphabet) \cup {TopLevel}

\* A name's place is its own, and the top level's is before all others.
LEMMA PlaceIs ==
    /\ \A name \in SortNames : Place(name) \in Nat
    /\ Place(TopLevel) = 0
    /\ \A a, b \in SortNames : Place(a) = Place(b) => a = b
  <1> DEFINE I(name) == {n \in 1 .. Len(Alphabet) : Alphabet[n] = name}
  <1>1. \A name : Place(name) = IF I(name) # {} THEN Min(I(name)) ELSE 0
    BY DEF Place, SelectInSeq
  <1>2. /\ Alphabet \in Seq(Segments \ {TopLevel}) /\ IsInjective(Alphabet)
        /\ DOMAIN Alphabet = 1 .. Len(Alphabet) /\ Len(Alphabet) \in Nat
    <2>1. Alphabet \in Seq(Segments \ {TopLevel}) /\ IsInjective(Alphabet)
      BY NamesAssumption
    <2> QED
      BY <2>1
  <1>3. I(TopLevel) = {}
    BY <1>2
  <1>4. ASSUME NEW name \in ToSet(Alphabet)
        PROVE  Place(name) \in 1 .. Len(Alphabet) /\ Alphabet[Place(name)] = name
    <2>1. I(name) # {}
      BY <1>2 DEF ToSet
    <2>2. I(name) \in SUBSET Nat
      OBVIOUS
    <2>3. Min(I(name)) \in I(name)
      <3> HIDE DEF I
      <3> QED
        BY <2>1, <2>2, MinIsSmallest
    <2> QED
      BY <1>1, <2>1, <2>3
  <1>5. Place(TopLevel) = 0
    BY <1>1, <1>3
  <1>6. \A name \in ToSet(Alphabet) : Place(name) \in Nat /\ Place(name) # 0
    BY <1>2, <1>4
  <1>7. ASSUME NEW a \in SortNames, NEW b \in SortNames, Place(a) = Place(b) PROVE a = b
    <2>1. CASE a \in ToSet(Alphabet) /\ b \in ToSet(Alphabet)
      BY <1>4, <1>7, <2>1
    <2>2. CASE a = TopLevel \/ b = TopLevel
      BY <1>5, <1>6, <1>7, <2>2 DEF SortNames
    <2> QED
      BY <2>1, <2>2 DEF SortNames
  <1> QED
    BY <1>5, <1>6, <1>7 DEF SortNames

\* What the writes of one request are, in the order they are merged: no two
\* name the same field, and those of the top level come first.
Parsed(writes) ==
    /\ writes \in Seq(Writes)
    /\ \A m, n \in DOMAIN writes :
          writes[m].section = writes[n].section /\ writes[m].label = writes[n].label => m = n
    /\ \A m, n \in DOMAIN writes : m < n /\ writes[n].section = TopLevel => writes[m].section = TopLevel

\* A body can be put in order, and its order is that.
LEMMA ParseIs ==
    ASSUME NEW req \in Requests, req.kind = "item"
    PROVE  Parsed(parseFieldWrites(req.body)) /\ ToSet(parseFieldWrites(req.body)) = req.body
  <1> DEFINE body == req.body
             Before(u, v) == \/ Place(u.section) < Place(v.section)
                             \/ u.section = v.section /\ Place(u.label) < Place(v.label)
             R == {p \in body \X body : Before(p[1], p[2])}
             ws == parseFieldWrites(body)
             n == Cardinality(body)
  <1>1. body \in SUBSET Writes /\ IsFiniteSet(body)
    <2>1. req \in ItemRequests \cup FieldRequests /\ IsFiniteSet(body)
      BY RequestsAssumption
    <2> QED
      BY <2>1 DEF ItemRequests, FieldRequests
  <1>2. \A u \in body : u.section \in SortNames /\ u.label \in SortNames
    BY RequestsAssumption DEF SortNames
  <1>3. \A u, v \in body : u.section = v.section /\ u.label = v.label => u = v
    BY RequestsAssumption
  <1>4. /\ \A name \in SortNames : Place(name) \in Nat
        /\ Place(TopLevel) = 0
        /\ \A a, b \in SortNames : Place(a) = Place(b) => a = b
    BY PlaceIs
  <1> HIDE DEF body
  <1>5. \A u, v \in body : u # v => Before(u, v) \/ Before(v, u)
    BY <1>2, <1>3, <1>4
  <1>6. \A u, v, x \in body : Before(u, v) /\ Before(v, x) => Before(u, x)
    BY <1>2, <1>4
  <1>7. \A u, v \in body : <<u, v>> \in R <=> Before(u, v)
    OBVIOUS
  <1>8. PICK f \in [1 .. n -> body] :
           \A i, j \in 1 .. n : /\ i # j => f[i] # f[j]
                                /\ i < j => <<f[i], f[j]>> \in R
    <2> HIDE DEF R, Before
    <2>1. \A u, v \in body : u # v => <<u, v>> \in R \/ <<v, u>> \in R
      BY <1>5, <1>7
    <2>2. \A u, v, x \in body : <<u, v>> \in R /\ <<v, x>> \in R => <<u, x>> \in R
      BY <1>6, <1>7
    <2> QED
      BY <1>1, <2>1, <2>2, SortedExists
  <1>9. f \in SetToSeqs(body) /\ \A i, j \in DOMAIN f : i < j => Before(f[i], f[j])
    <2>1. f \in SetToSeqs(body)
      BY <1>8 DEF SetToSeqs
    <2> HIDE DEF Before, R
    <2>2. \A i, j \in DOMAIN f : i < j => Before(f[i], f[j])
      BY <1>7, <1>8
    <2> QED
      BY <2>1, <2>2
  <1>10. ws = CHOOSE seq \in SetToSeqs(body) : \A i, j \in DOMAIN seq : i < j => Before(seq[i], seq[j])
    BY DEF parseFieldWrites, SortedBy
  <1>11. ws \in SetToSeqs(body) /\ \A i, j \in DOMAIN ws : i < j => Before(ws[i], ws[j])
    <2> HIDE DEF Before, ws
    <2> QED
      BY <1>9, <1>10
  <1> HIDE DEF ws
  <1>12. /\ n \in Nat /\ ws \in [1 .. n -> body]
         /\ \A i, j \in 1 .. n : i # j => ws[i] # ws[j]
         /\ \A u \in body : \E i \in 1 .. n : ws[i] = u
    BY <1>1, <1>11, OrdersAreBijections
  <1> HIDE DEF n
  <1>13. ws \in Seq(Writes) /\ DOMAIN ws = 1 .. n
    BY <1>1, <1>12
  <1>14. \A i, j \in DOMAIN ws : ws[i].section = ws[j].section /\ ws[i].label = ws[j].label => i = j
    BY <1>3, <1>12
  <1>15. \A i, j \in DOMAIN ws : i < j /\ ws[j].section = TopLevel => ws[i].section = TopLevel
    <2>1. ASSUME NEW i \in DOMAIN ws, NEW j \in DOMAIN ws, i < j, ws[j].section = TopLevel
          PROVE  ws[i].section = TopLevel
      <3>1. ws[i].section \in SortNames /\ ws[j].section \in SortNames /\ TopLevel \in SortNames
        BY <1>2, <1>12 DEF SortNames
      <3>2. Place(ws[i].section) < Place(ws[j].section) \/ ws[i].section = ws[j].section
        BY <1>11, <2>1
      <3> QED
        BY <1>4, <2>1, <3>1, <3>2
    <2> QED
      BY <2>1
  <1>16. ToSet(ws) = body
    BY <1>12 DEF ToSet
  <1> QED
    BY <1>13, <1>14, <1>15, <1>16 DEF Parsed, ws, body

-----------------------------------------------------------------------------
(* Addresses, resolved in the replica (paths_item.go, paths_field.go).     *)

\* The index names items the replica holds.
IndexTyped == \A key \in DOMAIN splitPaths : splitPaths[key] \in Held(replica)

\* What an address resolves to.
Resolved == Ids \cup {NotFound, Ambiguous}

\* The index takes the longest prefix of an address that is a split path, or none.
LEMMA TakenIs ==
    ASSUME NEW segs \in Seq(Segments)
    PROVE  /\ Taken(segs) \in 0 .. Len(segs)
           /\ Taken(segs) # 0 => SubSeq(segs, 1, Taken(segs)) \in DOMAIN splitPaths
           /\ \A n \in 1 .. Len(segs) : SubSeq(segs, 1, n) \in DOMAIN splitPaths => n <= Taken(segs)
  <1> DEFINE T == {n \in 1 .. Len(segs) : SubSeq(segs, 1, n) \in DOMAIN splitPaths} \cup {0}
             len == Len(segs)
  <1>1. len \in Nat
    OBVIOUS
  <1>2. T \in SUBSET (0 .. len) /\ T # {}
    <2> HIDE DEF len
    <2> QED
      BY <1>1 DEF len
  <1>3. Max(T) \in T /\ \A n \in T : Max(T) >= n
    <2> HIDE DEF T, len
    <2> QED
      BY <1>1, <1>2, MaxIsLargest
  <1>4. Taken(segs) = Max(T)
    BY DEF Taken
  <1>5. Taken(segs) \in 0 .. len /\ \A n \in T : n <= Taken(segs)
    <2> HIDE DEF T, len
    <2> QED
      BY <1>1, <1>2, <1>3, <1>4
  <1>6. Taken(segs) # 0 => SubSeq(segs, 1, Taken(segs)) \in DOMAIN splitPaths
    BY <1>3, <1>4
  <1> QED
    BY <1>5, <1>6

\* A title resolves to the one item that bears it; it is ambiguous or not found
\* if there is not exactly one.
LEMMA TitleIs ==
    ASSUME NEW t
    PROVE  /\ resolveTitle(t) \in Resolved
           /\ resolveTitle(t) \in Ids =>
                 /\ resolveTitle(t) \in Held(replica) /\ replica[resolveTitle(t)].title = t
                 /\ \A i \in Held(replica) : replica[i].title = t => i = resolveTitle(t)
           /\ \A i \in Held(replica) :
                 replica[i].title = t /\ (\A j \in Held(replica) : replica[j].title = t => j = i) => resolveTitle(t) = i
  <1> DEFINE B == {i \in Held(replica) : replica[i].title = t}
  <1>1. IsFiniteSet(B) /\ B \subseteq Ids
    <2>1. B \in SUBSET Ids
      BY DEF Held
    <2> QED
      BY <2>1, NamesAssumption, FS_Subset
  <1>2. resolveTitle(t) = CASE B = {} -> NotFound
                            [] Cardinality(B) = 1 -> CHOOSE i \in B : TRUE
                            [] OTHER -> Ambiguous
    BY DEF resolveTitle
  <1>3. \A i \in B : i \in Held(replica) /\ replica[i].title = t
    OBVIOUS
  <1>4. \A i \in Held(replica) : replica[i].title = t => i \in B
    OBVIOUS
  <1>5. NotFound \notin Ids /\ Ambiguous \notin Ids
    BY NamesAssumption
  <1> HIDE DEF B
  <1>6. CASE B = {}
    <2>1. resolveTitle(t) = NotFound
      BY <1>2, <1>6
    <2> QED
      BY <1>4, <1>5, <1>6, <2>1 DEF Resolved
  <1>7. CASE Cardinality(B) = 1
    <2>1. PICK x : B = {x}
      BY <1>1, <1>7, FS_Singleton
    <2>2. resolveTitle(t) = x
      BY <1>2, <1>7, <2>1
    <2> QED
      BY <1>1, <1>3, <1>4, <2>1, <2>2 DEF Resolved
  <1>8. CASE B # {} /\ Cardinality(B) # 1
    <2>1. resolveTitle(t) = Ambiguous
      BY <1>2, <1>8
    <2>2. ~ \E x : B = {x}
      BY <1>1, <1>8, FS_Singleton
    <2>3. \A i \in B : \E j \in B : j # i
      BY <2>2
    <2> QED
      BY <1>3, <1>4, <1>5, <2>1, <2>3 DEF Resolved
  <1> QED
    BY <1>6, <1>7, <1>8

\* A single segment resolves to an item of that ID or of that title.
LEMMA ItemAddressIs ==
    ASSUME NEW t
    PROVE  resolveItemAddress(t) \in Resolved
  BY TitleIs DEF resolveItemAddress, Held, Resolved

\* An address whose split path is not taken, and one whose is.
LEMMA SplitPathIs ==
    ASSUME NEW segs \in Seq(Segments), IndexTyped
    PROVE  /\ Taken(segs) = 0 => resolveSplitPath(segs) = [id |-> NotFound, rest |-> <<>>]
           /\ Taken(segs) # 0 =>
                 /\ resolveSplitPath(segs).id = splitPaths[SubSeq(segs, 1, Taken(segs))]
                 /\ resolveSplitPath(segs).rest = SubSeq(segs, Taken(segs) + 1, Len(segs))
           /\ resolveSplitPath(segs).id \in Ids \cup {NotFound}
           /\ resolveSplitPath(segs).rest \in Seq(Segments)
  <1>1. Taken(segs) \in 0 .. Len(segs) /\ (Taken(segs) # 0 => SubSeq(segs, 1, Taken(segs)) \in DOMAIN splitPaths)
    BY TakenIs
  <1> DEFINE n == Taken(segs)
  <1>2. resolveSplitPath(segs) =
           IF n = 0 THEN [id |-> NotFound, rest |-> <<>>]
           ELSE [id |-> splitPaths[SubSeq(segs, 1, n)], rest |-> SubSeq(segs, n + 1, Len(segs))]
    BY DEF resolveSplitPath
  <1>3. n # 0 => splitPaths[SubSeq(segs, 1, n)] \in Ids
    BY <1>1 DEF IndexTyped, Held
  <1>4. n # 0 => SubSeq(segs, n + 1, Len(segs)) \in Seq(Segments)
    BY <1>1
  <1>5. <<>> \in Seq(Segments)
    OBVIOUS
  <1> HIDE DEF n
  <1> QED
    BY <1>2, <1>3, <1>4, <1>5 DEF n

\* An item's address names an item, or tells why not.
LEMMA ItemFromSegmentsIs ==
    ASSUME NEW segs \in Seq(Segments), IndexTyped
    PROVE  resolveItemFromSegments(segs) \in Resolved
  <1>1. resolveSplitPath(segs).id \in Ids \cup {NotFound}
    BY SplitPathIs
  <1>2. resolveItemAddress(segs[1]) \in Resolved
    BY ItemAddressIs
  <1> QED
    BY <1>1, <1>2 DEF resolveItemFromSegments, Resolved

\* A field's address names an item, or tells why not, with a section and a label.
LEMMA FieldAddressIs ==
    ASSUME NEW segs \in Seq(Segments), segs # <<>>, IndexTyped
    PROVE  resolveFieldAddress(segs) \in [id : Resolved, section : Names, label : Names]
  <1> DEFINE Part(id, rest) ==
                IF id \notin Ids \/ Len(rest) \notin {1, 2}
                THEN [id |-> IF id \in Ids THEN NotFound ELSE id, section |-> TopLevel, label |-> TopLevel]
                ELSE [id |-> id, section |-> IF Len(rest) = 2 THEN rest[1] ELSE TopLevel, label |-> Last(rest)]
             out == [id : Resolved, section : Names, label : Names]
             split == resolveSplitPath(segs)
  <1>1. ASSUME NEW id \in Resolved, NEW rest \in Seq(Segments) PROVE Part(id, rest) \in out
    <2>1. CASE id \notin Ids \/ Len(rest) \notin {1, 2}
      BY <2>1 DEF Resolved, Names
    <2>2. CASE id \in Ids /\ Len(rest) \in {1, 2}
      <3>1. rest[1] \in Names /\ Last(rest) \in Names
        BY <2>2 DEF Names, Last
      <3> QED
        BY <2>2, <3>1 DEF Names
    <2> QED
      BY <2>1, <2>2
  <1>2. split.id \in Ids \cup {NotFound} /\ split.rest \in Seq(Segments)
    BY SplitPathIs
  <1>3. Part(split.id, split.rest) \in out
    <2>1. split.id \in Resolved
      BY <1>2 DEF Resolved
    <2> HIDE DEF Part, out, split
    <2> QED
      BY <1>1, <1>2, <2>1
  <1>4. Part(resolveItemAddress(segs[1]), Tail(segs)) \in out
    <2>1. resolveItemAddress(segs[1]) \in Resolved /\ Tail(segs) \in Seq(Segments)
      BY ItemAddressIs
    <2> HIDE DEF Part, out
    <2> QED
      BY <1>1, <2>1
  <1>5. Part(NotFound, <<>>) \in out
    <2>1. NotFound \in Resolved /\ <<>> \in Seq(Segments)
      BY DEF Resolved
    <2> HIDE DEF Part, out
    <2> QED
      BY <1>1, <2>1
  <1>6. resolveFieldAddress(segs) =
           IF split.id # NotFound THEN Part(split.id, split.rest)
           ELSE IF Len(segs) \in {2, 3} THEN Part(resolveItemAddress(segs[1]), Tail(segs))
           ELSE Part(NotFound, <<>>)
    BY DEF resolveFieldAddress
  <1> HIDE DEF Part, split
  <1> QED
    BY <1>3, <1>4, <1>5, <1>6

\* What a writer's address stands for: an item, or why there is none, and the
\* fields to merge, no two of them the same, the top level's first.
LEMMA TargetIs ==
    ASSUME NEW w, writer[w].req \in Requests, IndexTyped
    PROVE  /\ Target(w).item \in Resolved
           /\ Parsed(Target(w).writes)
  <1> DEFINE req == writer[w].req
             at == resolveFieldAddress(req.addr)
             single == [section |-> at.section, label |-> at.label, value |-> req.value, type |-> req.type]
  <1>1. req \in ItemRequests \cup FieldRequests
    BY RequestsAssumption
  <1>2. req.addr \in Seq(Segments) /\ req.addr # <<>>
    BY <1>1 DEF ItemRequests, FieldRequests
  <1>3. CASE req.kind = "item"
    <2>1. Target(w) = [item |-> resolveItemFromSegments(req.addr), writes |-> parseFieldWrites(req.body)]
      BY <1>3 DEF Target
    <2> QED
      BY <1>2, <1>3, <2>1, ItemFromSegmentsIs, ParseIs
  <1>4. CASE req.kind # "item"
    <2>1. Target(w) = [item |-> at.id, writes |-> <<single>>]
      BY <1>4 DEF Target
    <2>2. req.value \in Values /\ req.type \in TypeNames
      BY <1>1, <1>4 DEF ItemRequests, FieldRequests
    <2>3. at.id \in Resolved /\ at.section \in Names /\ at.label \in Names
      BY <1>2, FieldAddressIs
    <2>4. single \in Writes
      BY <2>2, <2>3 DEF Writes
    <2> HIDE DEF single
    <2>5. Parsed(<<single>>)
      BY <2>4 DEF Parsed
    <2> QED
      BY <2>1, <2>3, <2>5
  <1> QED
    BY <1>3, <1>4

-----------------------------------------------------------------------------
(* What a merge leaves of an item, and where the fields it names are read. *)

\* What one write does to the fields there are: it touches none but its own.
LEMMA MergedTouches ==
    ASSUME NEW item, WellFormed(item), NEW w \in Writes, w.type \in Types \cup {AsIs},
           NEW n \in DOMAIN item.fields
    PROVE  LET new == Merged(item, w)
           IN  /\ n \in DOMAIN new.fields
               /\ new.fields[n].label = item.fields[n].label /\ new.fields[n].section = item.fields[n].section
               /\ new.fields[n] # item.fields[n] =>
                     /\ item.fields[n].label = w.label /\ item.fields[n].section = SectionFor(item, w)
                     /\ w.type = AsIs => new.fields[n].type = item.fields[n].type
  <1> DEFINE at == PlaceFor(item, w)
             place == IF at = 0 THEN Len(item.fields) + 1 ELSE at
             fs == item.fields
             gs == Merged(item, w).fields
             k == SectionFor(item, w)
  <1>1. fs \in Seq(Fields)
    BY DEF WellFormed, Items
  <1>2. /\ DOMAIN gs = DOMAIN fs \cup {place}
        /\ \A m \in DOMAIN fs : m # place => gs[m] = fs[m]
        /\ gs[place] = IF at = 0 THEN NewField(item, w) ELSE Overwritten(fs[at], w)
        /\ gs[place].label = w.label /\ gs[place].section = k
    BY MergedFields
  <1>3. \/ at = 0
        \/ at \in 1 .. Len(fs) /\ fs[at].label = w.label /\ fs[at].section = k
    BY <1>1, PlaceForIs
  <1> HIDE DEF at, fs, gs, k
  <1>4. n \in DOMAIN fs
    BY DEF fs
  <1>5. CASE n # place
    BY <1>2, <1>4, <1>5 DEF fs, gs, k
  <1>6. CASE n = place
    <2>1. at # 0 /\ n = at
      <3>1. n # Len(item.fields) + 1
        BY <1>1, <1>4 DEF fs
      <3> QED
        BY <1>6, <3>1
    <2>2. fs[n] \in Fields /\ fs[n].label = w.label /\ fs[n].section = k
      BY <1>1, <1>3, <1>4, <2>1
    <2>3. gs[n] = Overwritten(fs[n], w)
      BY <1>2, <1>6, <2>1
    <2>4. gs[n].label = fs[n].label /\ gs[n].section = fs[n].section
          /\ (w.type = AsIs => gs[n].type = fs[n].type)
      BY <2>2, <2>3, OverwrittenIs
    <2> QED
      BY <1>2, <1>4, <2>2, <2>4 DEF fs, gs, k
  <1> QED
    BY <1>5, <1>6

\* The section a write goes to, of the two kinds.
LEMMA SectionForCases ==
    ASSUME NEW item, WellFormed(item), NEW w \in Writes
    PROVE  LET ss == item.sections
               s == SectionAt(item, w.section)
           IN  /\ w.section = TopLevel => SectionFor(item, w) = 0
               /\ w.section # TopLevel /\ s = 0 =>
                     /\ SectionFor(item, w) = Len(ss) + 1
                     /\ \A n \in DOMAIN ss : ss[n].title # w.section
               /\ w.section # TopLevel /\ s # 0 =>
                     /\ s \in DOMAIN ss /\ ss[s].title = w.section /\ ss[s].id = SectionFor(item, w)
                     /\ \A n \in 1 .. s - 1 : ss[n].title # w.section
                     /\ SectionFor(item, w) \in 1 .. Len(ss)
  <1> DEFINE ss == item.sections
             s == SectionAt(item, w.section)
             k == SectionFor(item, w)
  <1>1. ss \in Seq(Sections) /\ \A n \in DOMAIN ss : ss[n].id \in 1 .. Len(ss)
    BY DEF WellFormed, Items
  <1>2. \/ s = 0 /\ \A n \in 1 .. Len(ss) : ss[n].title # w.section
        \/ s \in 1 .. Len(ss) /\ ss[s].title = w.section /\ \A n \in 1 .. s - 1 : ss[n].title # w.section
    BY <1>1, SectionAtIs
  <1>3. /\ w.section = TopLevel => k = 0
        /\ w.section # TopLevel /\ s = 0 => k = Len(ss) + 1
        /\ w.section # TopLevel /\ s # 0 => k = ss[s].id
    BY DEF SectionFor, NewSection
  <1> HIDE DEF ss, s, k
  <1>4. DOMAIN ss = 1 .. Len(ss)
    BY <1>1
  <1> QED
    BY <1>1, <1>2, <1>3, <1>4 DEF ss, s, k

\* What is left of an item's title, sections and fields after the first m
\* writes: each field has its label and section, and is as it was but for a
\* write that names it.
Kept(item, x, writes, m) ==
    /\ x.title = item.title
    /\ \A n \in DOMAIN item.sections : n \in DOMAIN x.sections /\ x.sections[n] = item.sections[n]
    /\ \A n \in DOMAIN item.fields :
          /\ n \in DOMAIN x.fields
          /\ x.fields[n].label = item.fields[n].label /\ x.fields[n].section = item.fields[n].section
          /\ x.fields[n] # item.fields[n] =>
                \E l \in 1 .. m : /\ Named(writes[l], item, item.fields[n])
                                  /\ writes[l].type = AsIs => x.fields[n].type = item.fields[n].type

\* A write that goes to the section of one of the item's own fields names it.
LEMMA GoesToIsNamed ==
    ASSUME NEW item, WellFormed(item), NEW x, WellFormed(x), NEW w \in Writes, NEW n \in DOMAIN item.fields,
           \A p \in DOMAIN item.sections : p \in DOMAIN x.sections /\ x.sections[p] = item.sections[p],
           item.fields[n].label = w.label, item.fields[n].section = SectionFor(x, w)
    PROVE  Named(w, item, item.fields[n])
  <1> DEFINE f == item.fields[n]
             s == SectionAt(x, w.section)
             xs == x.sections
             ss == item.sections
             k == SectionFor(x, w)
  <1>1. f.section = 0 \/ \E p \in DOMAIN ss : ss[p].id = f.section
    BY DEF WellFormed, FieldsOf, ToSet
  <1>2. /\ ss \in Seq(Sections) /\ xs \in Seq(Sections)
        /\ \A p \in DOMAIN ss : ss[p].id \in 1 .. Len(ss)
        /\ \A p, q \in DOMAIN xs : xs[p].id = xs[q].id => p = q
    BY DEF WellFormed, Items
  <1>3. \A p \in DOMAIN ss : p \in DOMAIN xs /\ xs[p] = ss[p]
    OBVIOUS
  <1>4. /\ w.section = TopLevel => k = 0
        /\ w.section # TopLevel /\ s = 0 => k = Len(xs) + 1
        /\ w.section # TopLevel /\ s # 0 =>
              s \in DOMAIN xs /\ xs[s].title = w.section /\ xs[s].id = k /\ k \in 1 .. Len(xs)
    BY SectionForCases
  <1>5. f.section = k /\ w.label = f.label
    OBVIOUS
  <1> HIDE DEF f, s, xs, ss, k
  <1>6. Len(ss) \in Nat /\ Len(xs) \in Nat /\ DOMAIN ss = 1 .. Len(ss) /\ DOMAIN xs = 1 .. Len(xs)
    BY <1>2
  <1>7. Len(ss) <= Len(xs)
    <2>1. CASE Len(ss) = 0
      BY <1>6, <2>1
    <2>2. CASE Len(ss) # 0
      <3>1. Len(ss) \in DOMAIN ss
        BY <1>6, <2>2
      <3>2. Len(ss) \in DOMAIN xs
        BY <1>3, <3>1
      <3> QED
        BY <1>6, <3>2
    <2> QED
      BY <2>1, <2>2
  <1>8. CASE w.section = TopLevel
    BY <1>4, <1>5, <1>8 DEF Named, f
  <1>9. CASE w.section # TopLevel
    <2>1. k # 0
      BY <1>4, <1>6, <1>9
    <2>2. PICK p \in DOMAIN ss : ss[p].id = k
      BY <1>1, <1>5, <2>1
    <2>3. k \in 1 .. Len(ss)
      BY <1>2, <2>2
    <2>4. s # 0
      <3>1. k # Len(xs) + 1
        BY <1>6, <1>7, <2>3
      <3> QED
        BY <1>4, <1>9, <3>1
    <2>5. p = s /\ ss[p].title = w.section
      BY <1>2, <1>3, <1>4, <1>9, <2>2, <2>4
    <2>6. \E y \in ToSet(ss) : y.id = f.section /\ y.title = w.section
      BY <1>5, <2>2, <2>5 DEF ToSet
    <2> QED
      BY <1>5, <1>9, <2>6 DEF Named, f, ss
  <1> QED
    BY <1>8, <1>9

\* One more write.
LEMMA KeptMore ==
    ASSUME NEW item, WellFormed(item), NEW x, WellFormed(x), NEW writes, NEW m \in Nat \ {0},
           writes[m] \in Writes, writes[m].type \in Types \cup {AsIs}, Kept(item, x, writes, m - 1)
    PROVE  Kept(item, Merged(x, writes[m]), writes, m)
  <1> DEFINE w == writes[m]
             y == Merged(x, w)
             fs == item.fields
  <1>1. y.title = x.title
    BY MergedWellFormed
  <1>2. \A n \in DOMAIN item.sections : n \in DOMAIN x.sections /\ x.sections[n] = item.sections[n]
    BY DEF Kept
  <1>3. \A n \in DOMAIN x.sections : n \in DOMAIN y.sections /\ y.sections[n] = x.sections[n]
    BY SectionForWellFormed
  <1>4. ASSUME NEW n \in DOMAIN fs
        PROVE  /\ n \in DOMAIN y.fields
               /\ y.fields[n].label = fs[n].label /\ y.fields[n].section = fs[n].section
               /\ y.fields[n] # fs[n] =>
                     \E l \in 1 .. m : /\ Named(writes[l], item, fs[n])
                                       /\ writes[l].type = AsIs => y.fields[n].type = fs[n].type
    <2>1. /\ n \in DOMAIN x.fields
          /\ x.fields[n].label = fs[n].label /\ x.fields[n].section = fs[n].section
          /\ x.fields[n] # fs[n] =>
                \E l \in 1 .. m - 1 : /\ Named(writes[l], item, fs[n])
                                      /\ writes[l].type = AsIs => x.fields[n].type = fs[n].type
      BY DEF Kept
    <2>2. /\ n \in DOMAIN y.fields
          /\ y.fields[n].label = x.fields[n].label /\ y.fields[n].section = x.fields[n].section
          /\ y.fields[n] # x.fields[n] =>
                /\ x.fields[n].label = w.label /\ x.fields[n].section = SectionFor(x, w)
                /\ w.type = AsIs => y.fields[n].type = x.fields[n].type
      BY <2>1, MergedTouches
    <2>3. \A l \in 1 .. m - 1 : l \in 1 .. m
      OBVIOUS
    <2>4. m \in 1 .. m
      OBVIOUS
    <2>5. y.fields[n] # x.fields[n] => Named(w, item, fs[n])
      BY <1>2, <2>1, <2>2, GoesToIsNamed
    <2> HIDE DEF y, w, fs
    <2>6. CASE y.fields[n] = x.fields[n]
      BY <2>1, <2>2, <2>3, <2>6
    <2>7. CASE y.fields[n] # x.fields[n] /\ (x.fields[n] = fs[n] \/ w.type # AsIs)
      BY <2>1, <2>2, <2>4, <2>5, <2>7 DEF w
    <2>8. CASE y.fields[n] # x.fields[n] /\ x.fields[n] # fs[n] /\ w.type = AsIs
      BY <2>1, <2>2, <2>3, <2>8
    <2> QED
      BY <2>1, <2>2, <2>6, <2>7, <2>8
  <1>5. x.title = item.title
    BY DEF Kept
  <1> HIDE DEF w, y, fs
  <1> QED
    BY <1>1, <1>2, <1>3, <1>4, <1>5 DEF Kept, w, y, fs

\* All of them.
LEMMA ApplyKeeps ==
    ASSUME NEW item, WellFormed(item), NEW writes \in Seq(Writes), KnownTypes(writes)
    PROVE  Kept(item, applyFields(item, writes), writes, Len(writes))
  <1> DEFINE N == Len(writes)
  <1>1. PICK h : Merging(h, item, writes) /\ applyFields(item, writes) = h[N]
    BY ApplySteps
  <1>2. N \in Nat /\ \A m \in 1 .. N : writes[m] \in Writes /\ writes[m].type \in Types \cup {AsIs}
    BY DEF KnownTypes
  <1>3. /\ \A m \in 0 .. N : WellFormed(h[m])
        /\ h[0] = item
        /\ \A m \in 1 .. N : h[m] = Merged(h[m - 1], writes[m])
    BY <1>1 DEF Merging, Variants
  <1> HIDE DEF N
  <1> DEFINE Good == {m \in 0 .. N : Kept(item, h[m], writes, m)}
  <1>4. 0 \in Good
    BY <1>2, <1>3 DEF Kept
  <1>5. ASSUME NEW m \in 0 .. N - 1, m \in Good PROVE m + 1 \in Good
    <2> DEFINE j == m + 1
    <2>1. j \in Nat \ {0} /\ j \in 1 .. N /\ j \in 0 .. N /\ j - 1 = m /\ m \in 0 .. N
      BY <1>2
    <2> HIDE DEF j
    <2>2. Kept(item, h[j - 1], writes, j - 1) /\ WellFormed(h[j - 1])
      BY <1>3, <1>5, <2>1
    <2>3. Kept(item, Merged(h[j - 1], writes[j]), writes, j)
      BY <1>2, <2>1, <2>2, KeptMore
    <2>4. j \in Good
      BY <1>3, <2>1, <2>3
    <2> QED
      BY <2>4 DEF j
  <1>6. N \in Good
    <2>1. N \in 0 .. N
      BY <1>2
    <2> HIDE DEF Good
    <2> QED
      BY <1>2, <1>4, <1>5, <2>1, RangeInductive
  <1> QED
    BY <1>1, <1>6 DEF N

\* Where a write left its field: it is the first that a read of the same section
\* and label meets, with the write's value, and its type if it names one.
Landed(item, u, p) ==
    /\ p \in DOMAIN item.fields
    /\ item.fields[p].label = u.label /\ item.fields[p].value = u.value
    /\ u.type \in {AsIs, item.fields[p].type}
    /\ u.section = TopLevel => /\ item.fields[p].section = 0
                               /\ \A n \in 1 .. p - 1 : item.fields[n].label # u.label
    /\ u.section # TopLevel =>
          LET s == SectionAt(item, u.section)
          IN  /\ s # 0 /\ item.fields[p].section = item.sections[s].id
              /\ \A n \in 1 .. p - 1 : item.fields[n].label = u.label => item.fields[n].section # item.sections[s].id

\* Reading finds it.
LEMMA LandedIsRead ==
    ASSUME NEW item, WellFormed(item), NEW u, NEW p, Landed(item, u, p)
    PROVE  lookupField(item, u.section, u.label) = p /\ p # 0
  <1> DEFINE s == SectionAt(item, u.section)
             I == {n \in 1 .. Len(item.fields) :
                      /\ item.fields[n].label = u.label
                      /\ u.section = TopLevel \/ item.fields[n].section = item.sections[s].id}
  <1>1. item.fields \in Seq(Fields)
    BY DEF WellFormed, Items
  <1>2. u.section # TopLevel => s # 0
    BY DEF Landed
  <1>3. lookupField(item, u.section, u.label) = IF I # {} THEN Min(I) ELSE 0
    BY <1>2 DEF lookupField, SelectInSeq
  <1>4. p \in 1 .. Len(item.fields) /\ p \in I
    BY <1>1 DEF Landed
  <1>5. \A n \in 1 .. p - 1 : n \notin I
    BY DEF Landed
  <1>6. I \in SUBSET Nat
    OBVIOUS
  <1> HIDE DEF I
  <1>7. Min(I) \in I /\ Min(I) <= p
    BY <1>4, <1>6, MinIsSmallest
  <1>8. Min(I) \in Nat /\ Min(I) # 0 /\ Min(I) \notin 1 .. p - 1
    <2>1. Min(I) \in 1 .. Len(item.fields)
      BY <1>7 DEF I
    <2> QED
      BY <1>5, <1>7, <2>1
  <1>9. Min(I) = p
    BY <1>4, <1>7, <1>8
  <1> QED
    BY <1>3, <1>4, <1>8, <1>9

\* A section that is found is found at the same place after a write.
LEMMA SectionStays ==
    ASSUME NEW item, WellFormed(item), NEW w \in Writes, NEW t, SectionAt(item, t) # 0
    PROVE  LET s == SectionAt(item, t)
               new == Merged(item, w)
           IN  SectionAt(new, t) = s /\ s \in DOMAIN item.sections /\ new.sections[s] = item.sections[s]
                  /\ item.sections[s].title = t
  <1> DEFINE ss == item.sections
             ts == Merged(item, w).sections
             s == SectionAt(item, t)
             r == SectionAt(Merged(item, w), t)
  <1>1. ss \in Seq(Sections) /\ ts \in Seq(Sections) /\ \A n \in DOMAIN ss : n \in DOMAIN ts /\ ts[n] = ss[n]
    BY SectionForWellFormed DEF WellFormed, Items
  <1>2. s \in 1 .. Len(ss) /\ ss[s].title = t /\ \A n \in 1 .. s - 1 : ss[n].title # t
    BY <1>1, SectionAtIs
  <1>3. \/ r = 0 /\ \A n \in 1 .. Len(ts) : ts[n].title # t
        \/ r \in 1 .. Len(ts) /\ ts[r].title = t /\ \A n \in 1 .. r - 1 : ts[n].title # t
    BY <1>1, SectionAtIs
  <1> HIDE DEF ss, ts, s, r
  <1>4. s \in DOMAIN ss /\ s \in 1 .. Len(ts) /\ ts[s] = ss[s]
    BY <1>1, <1>2
  <1>5. r \in 1 .. Len(ts) /\ ts[r].title = t /\ \A n \in 1 .. r - 1 : ts[n].title # t
    BY <1>2, <1>3, <1>4
  <1>6. ~ (s < r)
    BY <1>2, <1>4, <1>5
  <1>7. ~ (r < s)
    <2>1. ASSUME r < s PROVE FALSE
      <3>1. r \in 1 .. s - 1 /\ r \in DOMAIN ss
        BY <1>1, <1>2, <1>5, <2>1
      <3> QED
        BY <1>1, <1>2, <1>5, <3>1
    <2> QED
      BY <2>1
  <1>8. r = s
    BY <1>2, <1>5, <1>6, <1>7
  <1> QED
    BY <1>2, <1>4, <1>8 DEF ss, ts, s, r

\* The section a write went to is found by its title.
LEMMA SectionIsFound ==
    ASSUME NEW item, WellFormed(item), NEW w \in Writes, w.section # TopLevel
    PROVE  LET new == Merged(item, w)
               r == SectionAt(new, w.section)
           IN  r # 0 /\ new.sections[r].id = SectionFor(item, w)
  <1> DEFINE ss == item.sections
             ts == Merged(item, w).sections
             s == SectionAt(item, w.section)
             r == SectionAt(Merged(item, w), w.section)
             k == SectionFor(item, w)
  <1>1. CASE s # 0
    <2>1. r = s /\ ts[s] = ss[s]
      BY <1>1, SectionStays
    <2>2. ss[s].id = k
      BY <1>1, SectionForCases
    <2> QED
      BY <1>1, <2>1, <2>2
  <1>2. CASE s = 0
    <2>1. item \in Items /\ ss \in Seq(Sections) /\ ts \in Seq(Sections)
      BY SectionForWellFormed DEF WellFormed, Items
    <2>2. NewSection(item, w) /\ \A n \in DOMAIN ss : ss[n].title # w.section
      BY <1>2, SectionForCases DEF NewSection
    <2> DEFINE added == [id |-> k, title |-> w.section]
    <2>3. ts = Append(ss, added)
      BY <2>1, <2>2, MergedIs
    <2>4. k \in Nat /\ added \in Sections /\ added.id = k /\ added.title = w.section
      BY SectionForWellFormed DEF Sections, Writes
    <2> HIDE DEF added, ss, ts, k
    <2>5. /\ Len(ts) = Len(ss) + 1 /\ Len(ss) \in Nat /\ ts[Len(ss) + 1] = added
          /\ \A n \in 1 .. Len(ss) : ts[n] = ss[n] /\ n \in DOMAIN ss
      BY <2>1, <2>3, <2>4
    <2>6. \/ r = 0 /\ \A n \in 1 .. Len(ts) : ts[n].title # w.section
          \/ r \in 1 .. Len(ts) /\ ts[r].title = w.section
      BY <2>1, SectionAtIs DEF ts
    <2> HIDE DEF r
    <2>7. \A n \in 1 .. Len(ts) : ts[n].title = w.section => n = Len(ss) + 1
      BY <2>2, <2>5
    <2>8. Len(ss) + 1 \in 1 .. Len(ts) /\ ts[Len(ss) + 1].title = w.section
      BY <2>4, <2>5
    <2>9. r = Len(ss) + 1
      BY <2>6, <2>7, <2>8
    <2> QED
      BY <2>4, <2>5, <2>9 DEF ts, r, k
  <1> QED
    BY <1>1, <1>2

\* No field of a label is in a section.
Clear(item, label) == \A n \in DOMAIN item.fields : item.fields[n].label = label => item.fields[n].section = 0

\* Fields written at the top level leave it so.
LEMMA ClearStays ==
    ASSUME NEW item, WellFormed(item), NEW w \in Writes, w.type \in Types \cup {AsIs},
           w.section = TopLevel, NEW label, Clear(item, label)
    PROVE  Clear(Merged(item, w), label)
  <1> DEFINE fs == item.fields
             gs == Merged(item, w).fields
             place == IF PlaceFor(item, w) = 0 THEN Len(fs) + 1 ELSE PlaceFor(item, w)
  <1>1. /\ DOMAIN gs = DOMAIN fs \cup {place}
        /\ \A n \in DOMAIN fs : n # place => gs[n] = fs[n]
        /\ gs[place].section = SectionFor(item, w)
    BY MergedFields
  <1>2. SectionFor(item, w) = 0
    BY SectionForCases
  <1>3. \A n \in DOMAIN fs : fs[n].label = label => fs[n].section = 0
    BY DEF Clear
  <1> HIDE DEF fs, gs, place
  <1>4. \A n \in DOMAIN gs : gs[n].label = label => gs[n].section = 0
    BY <1>1, <1>2, <1>3
  <1> QED
    BY <1>4 DEF Clear, gs

\* A write lands, at the top level if no field of its label is in a section.
LEMMA MergedLands ==
    ASSUME NEW item, WellFormed(item), NEW u \in Writes, u.type \in Types \cup {AsIs},
           u.section = TopLevel => Clear(item, u.label)
    PROVE  \E p : Landed(Merged(item, u), u, p)
  <1> DEFINE new == Merged(item, u)
             fs == item.fields
             gs == new.fields
             at == PlaceFor(item, u)
             k == SectionFor(item, u)
             p == IF at = 0 THEN Len(fs) + 1 ELSE at
             r == SectionAt(new, u.section)
  <1>1. fs \in Seq(Fields)
    BY DEF WellFormed, Items
  <1>2. /\ gs \in Seq(Fields) /\ DOMAIN gs = DOMAIN fs \cup {p}
        /\ \A n \in DOMAIN fs : n # p => gs[n] = fs[n]
        /\ gs[p] = IF at = 0 THEN NewField(item, u) ELSE Overwritten(fs[at], u)
        /\ gs[p].label = u.label /\ gs[p].section = k
        /\ gs[p].value = u.value
    BY MergedFields
  <1>3. \/ at = 0 /\ \A n \in 1 .. Len(fs) : ~(fs[n].label = u.label /\ fs[n].section = k)
        \/ /\ at \in 1 .. Len(fs) /\ fs[at] \in Fields
           /\ \A n \in 1 .. at - 1 : ~(fs[n].label = u.label /\ fs[n].section = k)
    BY <1>1, PlaceForIs
  <1>4. NewField(item, u).type = IF u.type # AsIs THEN u.type ELSE IF u.label \in Concealed THEN "concealed" ELSE "text"
    BY DEF NewField
  <1>5. u.section = TopLevel => k = 0 /\ Clear(item, u.label)
    BY SectionForCases
  <1>6. u.section # TopLevel => r # 0 /\ new.sections[r].id = k
    BY SectionIsFound
  <1> HIDE DEF new, fs, gs, at, k, r
  <1>7. u.type \in {AsIs, gs[p].type}
    <2>1. CASE at = 0
      BY <1>2, <1>4, <2>1
    <2>2. CASE at # 0
      <3>1. Overwritten(fs[at], u).type = IF u.type = AsIs THEN fs[at].type ELSE u.type
        BY <1>3, <2>2, OverwrittenIs
      <3> QED
        BY <1>2, <2>2, <3>1
    <2> QED
      BY <2>1, <2>2
  <1>8. \A n \in 1 .. p - 1 : n \in DOMAIN fs /\ gs[n] = fs[n] /\ ~(gs[n].label = u.label /\ gs[n].section = k)
    <2>1. CASE at = 0
      BY <1>1, <1>2, <1>3, <2>1
    <2>2. CASE at # 0
      BY <1>1, <1>2, <1>3, <2>2
    <2> QED
      BY <2>1, <2>2
  <1> HIDE DEF p
  <1>9. p \in DOMAIN gs
    BY <1>2
  <1>10. u.section = TopLevel => gs[p].section = 0 /\ \A n \in 1 .. p - 1 : gs[n].label # u.label
    BY <1>2, <1>5, <1>8 DEF Clear, fs
  <1>11. u.section # TopLevel =>
            /\ r # 0 /\ gs[p].section = new.sections[r].id
            /\ \A n \in 1 .. p - 1 : gs[n].label = u.label => gs[n].section # new.sections[r].id
    BY <1>2, <1>6, <1>8
  <1>12. Landed(new, u, p)
    BY <1>2, <1>7, <1>9, <1>10, <1>11 DEF Landed, gs, r
  <1> QED
    BY <1>12 DEF new

\* What has landed stays where it is while other fields are written.
LEMMA LandedStays ==
    ASSUME NEW item, WellFormed(item), NEW u \in Writes, NEW p, Landed(item, u, p),
           NEW w \in Writes, w.type \in Types \cup {AsIs}, w.section # u.section \/ w.label # u.label
    PROVE  Landed(Merged(item, w), u, p)
  <1> DEFINE new == Merged(item, w)
             fs == item.fields
             gs == new.fields
             ss == item.sections
             s == SectionAt(item, u.section)
             q == SectionAt(item, w.section)
             k == SectionFor(item, w)
  <1>1. fs \in Seq(Fields) /\ ss \in Seq(Sections) /\ gs \in Seq(Fields)
    BY MergedFields DEF WellFormed, Items
  <1>2. ASSUME NEW n \in DOMAIN fs
        PROVE  /\ n \in DOMAIN gs /\ gs[n].label = fs[n].label /\ gs[n].section = fs[n].section
               /\ gs[n] # fs[n] => fs[n].label = w.label /\ fs[n].section = k
    BY MergedTouches
  <1>3. /\ p \in DOMAIN fs /\ fs[p].label = u.label /\ fs[p].value = u.value
        /\ u.type \in {AsIs, fs[p].type}
        /\ u.section = TopLevel => fs[p].section = 0 /\ \A n \in 1 .. p - 1 : fs[n].label # u.label
        /\ u.section # TopLevel =>
              /\ s # 0 /\ fs[p].section = ss[s].id
              /\ \A n \in 1 .. p - 1 : fs[n].label = u.label => fs[n].section # ss[s].id
    BY DEF Landed
  <1>4. s # 0 => SectionAt(new, u.section) = s /\ s \in DOMAIN ss /\ new.sections[s] = ss[s] /\ ss[s].title = u.section
    BY SectionStays
  <1>5. /\ w.section = TopLevel => k = 0
        /\ w.section # TopLevel /\ q = 0 => k = Len(ss) + 1
        /\ w.section # TopLevel /\ q # 0 =>
              q \in DOMAIN ss /\ ss[q].title = w.section /\ ss[q].id = k /\ k \in 1 .. Len(ss)
    BY SectionForCases
  <1>6. /\ \A n \in DOMAIN ss : ss[n].id \in 1 .. Len(ss)
        /\ \A m, n \in DOMAIN ss : ss[m].id = ss[n].id => m = n
    BY DEF WellFormed
  <1>7. Len(ss) \in Nat /\ DOMAIN fs = 1 .. Len(fs)
    BY <1>1
  <1> HIDE DEF new, fs, gs, ss, s, q, k
  <1>8. gs[p] = fs[p]
    <2>1. ASSUME gs[p] # fs[p] PROVE FALSE
      <3>1. u.label = w.label /\ fs[p].section = k
        BY <1>2, <1>3, <2>1
      <3>2. w.section # u.section
        BY <3>1
      <3>3. CASE u.section = TopLevel
        BY <1>3, <1>5, <1>7, <3>1, <3>2, <3>3
      <3>4. CASE u.section # TopLevel
        <4>1. s \in DOMAIN ss /\ ss[s].id = k /\ k \in 1 .. Len(ss) /\ ss[s].title = u.section
          BY <1>3, <1>4, <1>6, <3>1, <3>4
        <4>2. w.section # TopLevel /\ q # 0
          BY <1>5, <1>7, <4>1
        <4>3. q = s
          BY <1>5, <1>6, <4>1, <4>2
        <4> QED
          BY <1>5, <3>2, <4>1, <4>2, <4>3
      <3> QED
        BY <3>3, <3>4
    <2> QED
      BY <2>1
  <1>9. \A n \in 1 .. p - 1 : n \in DOMAIN fs
    BY <1>3, <1>7
  <1>10. \A n \in 1 .. p - 1 : gs[n].label = fs[n].label /\ gs[n].section = fs[n].section
    BY <1>2, <1>9
  <1>11. p \in DOMAIN gs
    BY <1>2, <1>3
  <1>12. u.section = TopLevel => gs[p].section = 0 /\ \A n \in 1 .. p - 1 : gs[n].label # u.label
    BY <1>3, <1>8, <1>10
  <1>13. u.section # TopLevel =>
            /\ SectionAt(new, u.section) = s /\ s # 0 /\ gs[p].section = new.sections[s].id
            /\ \A n \in 1 .. p - 1 : gs[n].label = u.label => gs[n].section # new.sections[s].id
    BY <1>3, <1>4, <1>8, <1>10
  <1>14. Landed(new, u, p)
    BY <1>3, <1>8, <1>11, <1>12, <1>13 DEF Landed, gs
  <1> QED
    BY <1>14 DEF new

\* Every write of a request has landed when all are merged.
LEMMA ApplyLands ==
    ASSUME NEW item, WellFormed(item), NEW writes, Parsed(writes), KnownTypes(writes), NEW l \in DOMAIN writes,
           writes[l].section = TopLevel => Clear(item, writes[l].label)
    PROVE  \E p : Landed(applyFields(item, writes), writes[l], p)
  <1> DEFINE N == Len(writes)
             u == writes[l]
  <1>0. writes \in Seq(Writes)
    BY DEF Parsed
  <1>1. PICK h : Merging(h, item, writes) /\ applyFields(item, writes) = h[N]
    BY <1>0, ApplySteps
  <1>2. /\ N \in Nat /\ l \in 1 .. N /\ DOMAIN writes = 1 .. N
        /\ \A m \in 1 .. N : writes[m] \in Writes /\ writes[m].type \in Types \cup {AsIs}
    BY <1>0 DEF KnownTypes
  <1>3. /\ \A m \in 0 .. N : WellFormed(h[m])
        /\ h[0] = item
        /\ \A m \in 1 .. N : h[m] = Merged(h[m - 1], writes[m])
    BY <1>1 DEF Merging, Variants
  <1>4. /\ \A m \in 1 .. N : m < l /\ u.section = TopLevel => writes[m].section = TopLevel
        /\ \A m \in 1 .. N : m # l => writes[m].section # u.section \/ writes[m].label # u.label
    BY <1>2 DEF Parsed
  <1>5. u.section = TopLevel => Clear(item, u.label)
    OBVIOUS
  <1>6. u \in Writes /\ u.type \in Types \cup {AsIs}
    BY <1>2
  <1> HIDE DEF N, u
  <1> DEFINE Before == {m \in 0 .. l - 1 : u.section = TopLevel => Clear(h[m], u.label)}
  <1>7. l - 1 \in Before
    <2>1. 0 \in Before
      BY <1>2, <1>3, <1>5
    <2>2. ASSUME NEW m \in 0 .. (l - 1) - 1, m \in Before PROVE m + 1 \in Before
      <3> DEFINE j == m + 1
      <3>1. j \in 1 .. N /\ j < l /\ j - 1 = m /\ m \in 0 .. N /\ j \in 0 .. l - 1
        BY <1>2
      <3> HIDE DEF j
      <3>2. h[j] = Merged(h[m], writes[j]) /\ WellFormed(h[m])
        BY <1>3, <3>1
      <3>3. u.section = TopLevel => Clear(h[j], u.label)
        BY <1>2, <1>4, <2>2, <3>1, <3>2, ClearStays
      <3>4. j \in Before
        BY <3>1, <3>3
      <3> QED
        BY <3>4 DEF j
    <2>3. l - 1 \in Nat /\ l - 1 \in 0 .. l - 1
      BY <1>2
    <2> HIDE DEF Before
    <2> QED
      BY <2>1, <2>2, <2>3, RangeInductive
  <1>8. PICK p : Landed(h[l], u, p)
    <2>1. l - 1 \in 0 .. N
      BY <1>2
    <2>2. h[l] = Merged(h[l - 1], u) /\ WellFormed(h[l - 1])
      BY <1>2, <1>3, <2>1 DEF u
    <2> QED
      BY <1>6, <1>7, <2>2, MergedLands
  <1> DEFINE After == {m \in 0 .. N : m < l \/ Landed(h[m], u, p)}
  <1>9. N \in After
    <2>1. 0 \in After
      BY <1>2
    <2>2. ASSUME NEW m \in 0 .. N - 1, m \in After PROVE m + 1 \in After
      <3> DEFINE j == m + 1
      <3>1. j \in 1 .. N /\ j - 1 = m /\ m \in 0 .. N /\ j \in 0 .. N /\ (m < l <=> j <= l)
        BY <1>2
      <3> HIDE DEF j
      <3>2. h[j] = Merged(h[m], writes[j]) /\ WellFormed(h[m])
        BY <1>3, <3>1
      <3>3. CASE j < l
        BY <3>1, <3>3
      <3>4. CASE j = l
        BY <1>8, <3>1, <3>4
      <3>5. CASE j > l
        <4>1. Landed(h[m], u, p)
          BY <1>2, <2>2, <3>1, <3>5
        <4>2. writes[j] \in Writes /\ writes[j].type \in Types \cup {AsIs} /\ j # l
          BY <1>2, <3>1, <3>5
        <4>3. Landed(h[j], u, p)
          BY <1>4, <1>6, <3>1, <3>2, <4>1, <4>2, LandedStays
        <4> QED
          BY <3>1, <4>3
      <3>6. j \in After
        BY <1>2, <3>1, <3>3, <3>4, <3>5
      <3> QED
        BY <3>6 DEF j
    <2>3. N \in 0 .. N
      BY <1>2
    <2> HIDE DEF After
    <2> QED
      BY <1>2, <2>1, <2>2, <2>3, RangeInductive
  <1>10. Landed(h[N], u, p)
    BY <1>2, <1>9
  <1> QED
    BY <1>1, <1>10 DEF u
=============================================================================
