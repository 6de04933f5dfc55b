---------------------------- MODULE MCItemWrites ----------------------------
(* Small instances of ItemWrites for TLC.  The titles "a", "a.b" and "a/b" *)
(* make the split path a/b one that two items can bear, and the path of a  *)
(* field "b" of the item "a"; "i2" is an item's ID and a title.            *)
EXTENDS ItemWrites

MCSplitAt == "." :> ("a" :> <<"a">> @@ "a.b" :> <<"a", "b">> @@ "a/b" :> <<"a", "b">> @@ "i2" :> <<"i2">>)
MCAlphabet == <<"b", "password">>
MCNewId == "w1" :> "n1" @@ "w2" :> "n2"

Item(title, fields) ==
    [title |-> title, sections |-> <<[id |-> 1, title |-> "b"]>>, fields |-> fields, version |-> 1]
Top == [label |-> "password", section |-> 0, value |-> "old", type |-> "text"]
InSection == [Top EXCEPT !.section = 1]
MCStores == {"i1" :> Item("a", <<Top>>) @@ "i2" :> Item("a/b", <<InSection>>) @@ "n1" :> Absent @@ "n2" :> Absent}

Upsert(addr, body) == [kind |-> "item", addr |-> addr, body |-> body]
FieldWrite(addr, type) == [kind |-> "field", addr |-> addr, value |-> "new", type |-> type]
Put(section, label, type) == [section |-> section, label |-> label, value |-> "put", type |-> type]
MCRequests ==
    {Upsert(<<"a.b">>, {Put("", "password", ""), [Put("b", "password", "text") EXCEPT !.value = "other"]}),
     Upsert(<<"a", "b">>, {Put("", "password", "file")}),
     FieldWrite(<<"i2", "password">>, ""),
     FieldWrite(<<"a", "b", "password">>, "")}

\* At first path_split is unset; the one rewrite sets it.
MCInit == Init /\ pathSplit = Unset
MCSpec == MCInit /\ [][Next]_vars /\ Fairness
=============================================================================
