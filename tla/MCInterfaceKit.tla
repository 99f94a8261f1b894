--------------------------- MODULE MCInterfaceKit ---------------------------
(* InterfaceKit on small instances. *)
EXTENDS InterfaceKit

CONSTANTS o1, o2, s1, s2

Of(echo, awdc, rat, one) == [echo |-> echo, awdc |-> awdc, ratio |-> rat, one |-> one]

\* 8/8/8 and 8/8/8 with LCD from versions 900 and 200 on.
Kind888 == Of(TRUE, TRUE, TRUE, FALSE)
\* 2/2/2.
Kind222 == Of(TRUE, FALSE, TRUE, FALSE)
\* 0/16/16, 0/0/4, 0/8/8 and 0/5/7 that do not report their outputs.
KindPlain == Of(FALSE, FALSE, FALSE, FALSE)
\* 4/8/8.
Kind488 == Of(FALSE, FALSE, FALSE, TRUE)

AllAtOnce == {Kind888, Kind222, KindPlain}
With222 == {Kind222, KindPlain}
Only488 == {Kind488}

\* One change but for 8/8/8, or for the plain kind only, or none.
OneChange == [k \in Kinds |-> IF k = Kind888 THEN 0 ELSE 1]
PlainChange == [k \in Kinds |-> IF k = KindPlain THEN 1 ELSE 0]
NoChange == [k \in Kinds |-> 0]
=============================================================================
