----------------------------- MODULE MCTransport -----------------------------
(* An instance of Transport for TLC: one call after the handshake, queues of one or two
   entries, as the sizes of the cfg say. *)
EXTENDS Transport
=============================================================================
