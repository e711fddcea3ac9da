------------------------------ MODULE MCMultiplex ------------------------------
(* Small instances of Multiplex: 32 kbit/s EEP 3-A twice, and what may     *)
(* become of it.                                                           *)
EXTENDS Multiplex

S(scid, sad, stl, tpl) == [scid |-> scid, sad |-> sad, stl |-> stl, tpl |-> tpl]

First == S(1, 0, 12, 34)
Second == S(2, 24, 12, 34)
E(mid, stc) == [mid |-> mid, stc |-> stc]

Base == E(1, <<First, Second>>)

(* A stream more; none.                                                    *)
Numbered == {E(1, <<First, Second, S(3, 48, 12, 34)>>), E(1, <<>>)}

(* The first twice as long; the second with better protection.             *)
Sized == {E(1, <<S(1, 0, 24, 34), S(2, 48, 12, 34)>>), E(1, <<First, S(2, 24, 12, 33)>>)}

(* Other identifier and address; UEP 3, which takes 24 units as well.      *)
SameSize == {E(1, <<First, S(5, 100, 12, 34)>>), E(1, <<First, S(2, 24, 12, 2)>>)}

Every == {Base} \cup Numbered \cup Sized \cup SameSize \cup {E(3, <<First, Second>>)}

SizePreserving == {Base} \cup SameSize
=============================================================================
