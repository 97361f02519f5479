---------------------------- MODULE MCDogStatsD ----------------------------
(* Instance of DogStatsD: a packet of each shape, so that an empty          *)
(* datagram, an undecodable one and a packet of mixed lines all occur, with *)
(* a channel that overflows.                                                *)
EXTENDS DogStatsD

MCPackets == 1..4

MCLines ==
  [p \in MCPackets |->
     CASE p = 1 -> <<"metric", "ignored", "metric">>
       [] p = 2 -> <<"malformed", "metric">>
       [] p = 3 -> <<"ignored">>
       [] p = 4 -> <<>>]

MCNonUtf8 == {3}

=============================================================================
