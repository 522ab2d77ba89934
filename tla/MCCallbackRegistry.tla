------------------------- MODULE MCCallbackRegistry -------------------------
(* A two-byte input, up to two nested limits, bit groups of two bytes, and   *)
(* handed states good and bad for every check of Reader::restore.            *)
EXTENDS CallbackRegistry

MCSizes == 0..(Size + 1)
MCWidths == {9, 16, 65}
MCOrders == {"Big"}

Handing(pos, limit, limits, bits) ==
    [New EXCEPT !.pos = pos, !.limit = limit, !.limits = limits, !.bits = bits]

MCHanded == {
    Handing(2, 1, <<2>>, 0),          \* cursor past the limit
    Handing(0, 3, <<>>, 0),           \* limit past the input
    Handing(0, 2, <<>>, 65),          \* more bits than a container holds
    Handing(0, 1, <<>>, 0),           \* no limit pushed, yet not the root's
    Handing(0, 1, <<3>>, 0),          \* outer limit past the input
    Handing(0, 1, <<1>>, 0),          \* outermost limit not the input
    Handing(0, 1, <<2, 0>>, 0),       \* limits that do not nest
    Handing(0, 1, <<1, 2>>, 0),       \* limits in the wrong order
    Handing(0, 1, <<2, 2>>, 9) }      \* accepted, in the middle of a bit group
=============================================================================
