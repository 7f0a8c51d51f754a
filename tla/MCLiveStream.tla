---------------------------- MODULE MCLiveStream ----------------------------
(***************************************************************************)
(* The constants of LiveStream for TLC: frames with a bar, with bars of    *)
(* an instrument nobody asked for and of the future, with something else,  *)
(* and with an error of the provider.                                      *)
(***************************************************************************)
EXTENDS LiveStream

Bar(t) == [kind |-> "bar", instrument |-> 1, time |-> t, value |-> 1, reference |-> t]

MCFrames ==
    {<<Bar(1)>>, <<[kind |-> "junk"], Bar(2)>>, <<Bar(1), [kind |-> "error"]>>,
     <<[Bar(1) EXCEPT !.instrument = 2]>>}

MCObservations ==
    {TranslatedAt(p, t) : p \in {Bar(1), Bar(2)}, t \in Times} \ {None}
=============================================================================
