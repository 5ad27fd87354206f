------------------------------ MODULE MCOnDemand ------------------------------
(* An instance of OnDemand for TLC: two clients, one track and the name of   *)
(* one that is not there, a transport of each kind, a port that is odd as    *)
(* given and busy now and then.                                              *)
EXTENDS OnDemand

CONSTANTS s1, s2

Movie == <<"movie">>
MCUrls ==
  {[pre |-> Movie, suf |-> TrackName(1)], [pre |-> Movie, suf |-> TrackName(2)],
   [pre |-> << >>, suf |-> Movie], [pre |-> Movie, suf |-> <<"nosuch">>],
   [pre |-> <<"other">>, suf |-> TrackName(1)]}

MCTransports ==
  {<< <<"other">>, <<"client_port", 5, 6>> >>,   \* RTP over UDP
   << <<"client_port", 7>> >>,                   \* the port behind it is 0
   << <<"raw">>, <<"client_port", 4>> >>,
   << <<"client_port", 0>> >>,
   << <<"tcp">>, <<"interleaved", 0, 1>> >>}
===============================================================================
