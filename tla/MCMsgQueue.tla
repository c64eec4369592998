---------------------------- MODULE MCMsgQueue ----------------------------
(* A ring that holds up to four frames, and packets of different lengths    *)
(* with each kind of byte: plain, one that must be escaped, and the codes    *)
(* the marks are escaped to.                                                 *)
EXTENDS MsgQueue

MCPackets == { <<48>>, <<126>>, <<93, 127>>, <<125, 48, 94, 95>> }

=============================================================================
