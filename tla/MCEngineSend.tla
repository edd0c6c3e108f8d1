---------------------------- MODULE MCEngineSend ----------------------------
(* The sending half of one engine: any calls to send, send_log, send_ping and
   poll, and any ACK, whether or not the packet it names was ever sent. *)
EXTENDS Engine

MCSeed == [p \in Peers |-> 1]
MCIncoming == [type: {"ack"}, id: MessageId, index: {0, 1}] \cup {Ping}
=============================================================================
