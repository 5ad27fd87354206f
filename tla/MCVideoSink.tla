----------------------------- MODULE MCVideoSink ------------------------------
(* Model-checking instance of VideoSink: files put together from a long start *)
(* code and a few pieces.                                                    *)
EXTENDS VideoSink

LongStart == <<0, 0, 0, 1>>
ShortStart == <<0, 0, 1>>
Slice == 65       \* type 1, below 128
SliceStart == 136 \* type 8 (a picture parameter set), 128 or more
Sps == 103        \* type 7

Pieces == {<<0>>, <<Slice>>, <<SliceStart>>, <<Sps, 1>>, ShortStart}

Joined(s) == s[1] \o s[2] \o s[3]

MCInputs ==
  {start \o LongStart \o <<Slice>> \o Joined(s) \o ShortStart \o end :
     start \in {<< >>, <<0>>},
     s \in [1 .. 3 -> Pieces],
     end \in {<<Slice, SliceStart, Slice>>, <<Slice>>}}
==============================================================================
