--------------------------- MODULE MCRtspConnection ---------------------------
(* An instance of RtspConnection: requests of five to seven bytes, some with  *)
(* a body of one, one too long for the buffer, and one whose handler writes   *)
(* no response.                                                              *)
EXTENDS RtspConnection

Short == [text |-> 0, body |-> 0, answers |-> TRUE]
Long == [text |-> 2, body |-> 0, answers |-> TRUE]
WithBody == [text |-> 0, body |-> 1, answers |-> TRUE]
TooLong == [text |-> 13, body |-> 0, answers |-> TRUE]
Mute == [text |-> 1, body |-> 0, answers |-> FALSE]

MCClients ==
  [requests : {<<a, b>> : a \in {Short, Long, WithBody, TooLong, Mute},
                          b \in {Short, Long, WithBody, Mute}}
              \cup {<<Short, Mute, Long>>},
   patient : {TRUE}]
  \cup [requests : {<<a, b, c>> : a \in {Short, Long}, b \in {Short, Long}, c \in {Short, Long}},
        patient : {FALSE}]
  \cup {[requests |-> <<Short, Short, Short, Short>>, patient |-> FALSE],
        [requests |-> <<Short, Mute, Long>>, patient |-> FALSE]}
==============================================================================
