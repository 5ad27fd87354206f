------------------------------ MODULE RtspHeaders -----------------------------
(***************************************************************************)
(* What the server makes of the headers of a request (livemedia/           *)
(* rtsp_server.c, rtsp_common.c).  A header is the sequence of its fields. *)
(***************************************************************************)
EXTENDS Integers, SequencesExt

CONSTANT PortMod \* a port number has 2^16 values
ASSUME PortAssumption == PortMod \in Nat /\ PortMod > 1

NoChannel == 255
ByteMod == 256

(* The transport a client gets that says nothing. *)
DefaultTransport ==
  [mode |-> "udp", rtp_port |-> 0, rtcp_port |-> 1,
   rtp_channel |-> NoChannel, rtcp_channel |-> NoChannel]

(* Fields: <<"tcp">>, <<"raw">>, <<"client_port", p>>, <<"client_port", p, q>>, *)
(* <<"interleaved", c, d>>, and <<"other">>, which includes the destination, *)
(* for it is put aside, and "ttl=", for the format has no "=".               *)
TransportField(t, field) ==
  CASE field[1] = "tcp" -> [t EXCEPT !.mode = "tcp"]
    [] field[1] = "raw" -> [t EXCEPT !.mode = "raw"]
    [] field[1] = "client_port" ->
         [t EXCEPT !.rtp_port = field[2],
                   !.rtcp_port = IF t.mode = "raw" THEN 0
                                 ELSE IF Len(field) = 3 THEN field[3]
                                 ELSE (field[2] + 1) % PortMod]
    [] field[1] = "interleaved" ->
         [t EXCEPT !.rtp_channel = field[2] % ByteMod, !.rtcp_channel = field[3] % ByteMod]
    [] OTHER -> t

(* parse_transport_header(): the fields in their order. *)
ParseTransport(fields) == FoldLeft(TransportField, DefaultTransport, fields)
===============================================================================
