----------------------------- MODULE MCDatagram -----------------------------
(* Instances of Datagram for TLC.  Fragments are of two bytes, so that one  *)
(* message takes a single packet, which it fills exactly, the other two.    *)
EXTENDS Datagram

MCByte == 1..5
MCMessage == {<<1, 2>>, <<3, 4, 5>>}

\* The client sends one message after another, the server a stream of updates.
MCStreamReliable == [e \in Endpoint |-> IF e = "client" THEN 2 ELSE 0]
MCStreamUnreliable == [e \in Endpoint |-> IF e = "client" THEN 0 ELSE 2]

MCNone == [e \in Endpoint |-> 0]
=============================================================================
