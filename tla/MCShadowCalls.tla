--------------------------- MODULE MCShadowCalls ---------------------------
(***************************************************************************)
(* The constants of ShadowCalls for TLC: a window of two bars, deliveries  *)
(* of one bar twice, with another close, with another reference and late,  *)
(* a quote, a bar of a second instrument and one out of scope.             *)
(***************************************************************************)
EXTENDS ShadowCalls

Seen(k, i, t, r, v, n) ==
    [kind |-> k, instrument |-> i, time |-> t, received |-> r, value |-> v, reference |-> n]

MCObservations ==
    {Seen("bar", 1, 1, 2, 2, 1), Seen("bar", 1, 1, 3, 2, 0), Seen("bar", 1, 1, 4, 1, 2),
     Seen("bar", 1, 2, 3, 1, 3), Seen("bar", 1, 2, 4, 1, 3),
     Seen("quote", 1, 1, 2, 1, 4), Seen("quote", 1, 2, 3, 1, 5),
     Seen("bar", 2, 2, 3, 1, 6), Seen("bar", 3, 1, 2, 1, 7)}
=============================================================================
