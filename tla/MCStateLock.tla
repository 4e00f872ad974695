----------------------------- MODULE MCStateLock -----------------------------
(***************************************************************************)
(* Small instances of StateLock.                                           *)
(***************************************************************************)
EXTENDS StateLock

CONSTANTS p1, p2, p3, u1, u2

ThreePlans == {p1, p2, p3}
OneUri == {u1}
TwoUris == {u1, u2}

=============================================================================
