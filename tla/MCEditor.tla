------------------------------ MODULE MCEditor ------------------------------
(* Instances of Editor for TLC: a catalog of a container, a plain component *)
(* that is municipally editable, and one that may appear once; the chart is *)
(* no longer registered.                                                    *)
EXTENDS EditorProperties

Catalog   == {"box", "note", "booking"}
Nesting    == [t \in Catalog |-> IF t = "box" THEN {"box", "note"} ELSE {}]
Blueprints == [t \in Catalog |->
                 <<[type |-> t, depth |-> 0]>> \o
                 (IF t = "box" THEN <<[type |-> "note", depth |-> 1]>> ELSE <<>>)]

N(k, type, depth) ==
    [id |-> <<0, k>>, type |-> type, depth |-> depth, text |-> 0, visible |-> TRUE]

\* A container in another; a filled one; one with a booking after it; one that holds a
\* chart with a text, and is full once another text is written.
Nested  == <<N(1, "box", 0), N(2, "box", 1)>>
Written == <<N(1, "box", 0), N(2, "note", 1)>>
Booked  == <<N(1, "box", 0), N(2, "booking", 0)>>
Stale   == <<N(1, "box", 0), N(2, "note", 1), [N(3, "chart", 1) EXCEPT !.text = 1]>>

Session(page, full, does, n) == [page |-> page, full |-> full, does |-> does, edits |-> n]

\* Arranging a page with drags, saving it, and filling it in while it is saved; the
\* latter and a try to arrange also by an editor who may not; more edits than the
\* history holds.
Sittings == {Session(Nested,  TRUE,  {"arrange", "drag"}, 2),
             Session(Booked,  TRUE,  {"arrange", "drag"}, 2),
             Session(Booked,  TRUE,  {"arrange", "save"}, 2),
             Session(Stale,   TRUE,  {"arrange", "save"}, 1),
             Session(Written, TRUE,  {"fill", "save"}, 1),
             Session(Written, FALSE, {"fill", "save"}, 2),
             Session(Stale,   FALSE, {"fill", "save"}, 1),
             Session(Written, FALSE, {"arrange", "drag", "save"}, 1),
             Session(Written, TRUE,  {"fill"}, 3)}
=============================================================================
