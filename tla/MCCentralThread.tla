--------------------------- MODULE MCCentralThread ---------------------------
(* Instances of CentralThread for TLC. *)
EXTENDS CentralThread, TLC

CONSTANTS h1, h2, d1, d2

\* Each handle opened by the serial number of a device of its own.
OwnSerial == h1 :> {d1} @@ h2 :> {d2}

\* Both handles opened by the serial number of one device.
SameSerial == h1 :> {d1} @@ h2 :> {d1}

\* A handle that is opened by one serial number or the other, and a handle
\* beside it.
Reopened == h1 :> {d1, d2} @@ h2 :> {d2}

\* Two handles opened for any device.
BothAny == h1 :> {AnyPhidget} @@ h2 :> {AnyPhidget}

\* Two handles of one class that may be opened either way.
EitherWay == h1 :> {d1, d2, AnyPhidget} @@ h2 :> {d1, d2, AnyPhidget}

CentralSymmetry == Permutations(Centrals)
=============================================================================
