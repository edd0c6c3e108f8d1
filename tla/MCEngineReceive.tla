-------------------------- MODULE MCEngineReceive --------------------------
(* The receiving half of one engine: any decodable fragment of Data or Log
   messages, among them ones that are too long, that contradict an earlier
   fragment about the length, or that ask for no ACK; and poll. *)
EXTENDS Engine

MCSeed == [p \in Peers |-> 0]

MCFragments ==
    {f \in [type: MessageTypes, id: MessageId, index: {0, 1}, len: 1 .. MAX_MESSAGE_BYTES + 1,
            offset: {0, 1}, size: {1}, ack_eliciting: BOOLEAN, body: Bodies] :
        /\ f.index = f.offset
        /\ f.offset + f.size <= f.len
        /\ f.type = "log" => ~f.ack_eliciting}

MCIncoming == MCFragments \cup {Pong}
=============================================================================
