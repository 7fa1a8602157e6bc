------------------------------ MODULE MCFrontEnd -------------------------------
EXTENDS FrontEnd

Native(tag, size) ==
    [src |-> 0, dst |-> 1, tag |-> tag, size |-> size, type |-> "NATIVE"]

\* Two sizes of one tag, and a collective with the same tag beyond the range.
Keys == {Native(1, 1), Native(1, 2), [Native(3, 1) EXCEPT !.type = "COLLECTIVE"]}
=============================================================================
