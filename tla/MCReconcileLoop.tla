--------------------------- MODULE MCReconcileLoop ---------------------------
(* Small instances of the reconcile loop: four hosts in two zones, three   *)
(* slots of which two are anchors.  A host's attribute is the zone it is   *)
(* labelled with; 3 is zone 2 with the label the super selector looks for. *)
EXTENDS ReconcileLoop

Loop == {"loop"}

AllHosts == 1..4

\* Offsets that differ between pairings.
Offsets == [k \in {<<1, 1>>, <<1, 2>>, <<2, 2>>} |-> k[1] + k[2]]

At(zone) == [attr |-> zone, addr |-> 1]
Full       == [h \in AllHosts |-> At(IF h <= 2 THEN 1 ELSE IF h = 3 THEN 2 ELSE 3)]
Without(h) == [g \in AllHosts \ {h} |-> Full[g]]
Near       == [h \in {1, 2} |-> Full[h]]
Moved      == [Full EXCEPT ![2].attr = 2]

ByLabel  == <<1, 2, 2>>
TwoZones == {<<1, 2>>}
AllPairs == {<<1, 1>>, <<1, 2>>, <<2, 2>>}

Plain == [rule |-> ByLabel, filter |-> TwoZones, count |-> 3, percent |-> 50,
          rounding |-> "up", superHosts |-> 0, superMax |-> 1,
          selector |-> {3}, reuse |-> TRUE, intra |-> FALSE,
          maxPairings |-> 9, hold |-> 1]

NoReuse == [Plain EXCEPT !.percent = 40, !.rounding = "down", !.reuse = FALSE]
Intra   == [Plain EXCEPT !.filter = {<<2, 2>>}, !.intra = TRUE]
Super   == [Plain EXCEPT !.count = 1, !.superHosts = 1]
Grown   == [Plain EXCEPT !.count = 4, !.percent = 25]
Limited == [Plain EXCEPT !.filter = AllPairs, !.intra = TRUE, !.maxPairings = 2]

JustPlain == {Plain}
Varied    == {Plain, NoReuse, Intra, Super}
Limiting  == {Plain, Grown, Limited}

Churn    == {Full, Without(1), Near, Moved}
Blink    == {Full, Near}
JustFull == {Full}
=============================================================================
