------------------------------ MODULE MCUserData ------------------------------
(***************************************************************************)
(* UserData with a writer and a reader, data areas of four bytes and FIFOs *)
(* of two: lines shorter and longer than the area, single words, delays.   *)
(***************************************************************************)
EXTENDS UserData

I(op, arg) == [op |-> op, arg |-> arg, delay |-> 0]
Op(op) == I(op, None)
Late(i, n) == [i EXCEPT !.delay = n]

Pair(w, r) == [u \in {"up0", "up1"} |-> IF u = "up0" THEN w ELSE r]

Lines == <<I("data_set", <<"a", "b", ".">>), Op("data_write"),
           I("data_set", <<"b", ".">>), Late(Op("data_write"), 1), Op("repeat")>>
LongLines == <<I("data_set", <<"a", "b", "a", "b", "a">>), Op("data_write"), Op("data_clear"),
               Op("repeat")>>
Singles == <<I("write", "a"), Late(I("write", "."), 2), Op("pin"), Op("repeat")>>

ReadLines == <<Op("data_clear"), Op("data_readln"), Op("data_print"), Op("repeat")>>
ReadAll == <<Late(Op("data_read"), 2), Op("data_print"), Op("repeat")>>
ReadVars == <<I("read", "v"), I("print", "v"), I("read", "undefined"), Op("data_readln"), Op("exit")>>

MCPrograms == {Pair(w, r) : w \in {Lines, LongLines, Singles}, r \in {ReadLines, ReadAll, ReadVars}}
              \cup {Pair(<<I("write", "b"), I("write", "a")>>, <<I("read", "v")>>)}
MCUPs == {"up0", "up1"}
MCVars == {"v"}
MCValues == {"a", "b", ".", "NUL"}
=============================================================================
