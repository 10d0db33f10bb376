------------------------------- MODULE MCQpack -------------------------------
EXTENDS Qpack

Field(n, v) == [name |-> n, value |-> v]
A1 == Field("a", "1")
A2 == Field("a", "2")
B1 == Field("b", "1")
Path == Field(":path", "/x")       \* its name is in the static table
Get == Field(":method", "GET")     \* in the static table

MCFields == {A1, A2, B1, Path, Get}
MCmem_size == [f \in MCFields |-> IF f = Path THEN 39 ELSE 34]
MCStaticFields == {Get}
MCStaticNames == {":path", ":method"}

(* Two small entries fit the table, or one large: everything is evicted    *)
(* soon, names and fields recur, and counts wrap around.                   *)
MCLists == {<<A1>>, <<A2, B1>>, <<B1, A1>>, <<Get, Path>>}
MCSingles == {<<A1>>, <<A2>>, <<B1>>}
=============================================================================
