----------------------------- MODULE MCFramedConn -----------------------------
(* FramedConn for TLC: four-valued bytes, two-byte lengths, and packets    *)
(* below, at and above the limits of SendPacket and Marshal.               *)
EXTENDS FramedConn

Payloads == {<<>>, <<1>>, <<0, 3>>, <<2, 0, 1>>, <<0, 0, 0, 0, 0, 0, 0, 0>>}

MCOutgoing == {[version |-> 1, fields |-> f, payload |-> p, signature |-> 3] :
                  f \in {0, 2}, p \in Payloads}
=============================================================================
