---------------------------- MODULE MCMetaStore ----------------------------
(* Two rows: a negative zero, which is looked up by either zero, and a     *)
(* number below it; two texts, so that tokens come in either order.        *)
EXTENDS MetaStore

MCColumns == <<"FLOAT", "TEXT", "INT">>
MCRows == {<<FloatV(-1), TextV("a"), IntV(1)>>, <<FloatV(-3), TextV("b"), IntV(-1)>>}
MCProbes == {IntV(0), IntV(-1), FloatV(-1), FloatV(0), FloatV(1), FloatV(-3), NaN,
             TextV("a"), TextV("b"), TextV("c")}
=============================================================================
