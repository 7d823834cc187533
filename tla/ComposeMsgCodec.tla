--------------------------- MODULE ComposeMsgCodec ---------------------------
(* The message lz_receive queues for a composer (compose_msg_codec.rs): the  *)
(* packet's nonce and source, the amount credited, then the sender and the   *)
(* caller's bytes as the packet carried them.                                *)
EXTENDS Bytes

NONCE_OFFSET == 0
SRC_EID_OFFSET == 8
AMOUNT_LD_OFFSET == 12
COMPOSE_FROM_OFFSET == 20
COMPOSE_MSG_OFFSET == 52

encode(n, eid, ld, msg) ==
    to_be_bytes(n, 8) \o to_be_bytes(eid, 4) \o to_be_bytes(ld, 8) \o msg

nonce(message) == from_be_bytes(slice(message, NONCE_OFFSET, SRC_EID_OFFSET))

src_eid(message) == from_be_bytes(slice(message, SRC_EID_OFFSET, AMOUNT_LD_OFFSET))

amount_ld(message) == from_be_bytes(slice(message, AMOUNT_LD_OFFSET, COMPOSE_FROM_OFFSET))

compose_from(message) == slice(message, COMPOSE_FROM_OFFSET, COMPOSE_MSG_OFFSET)

compose_msg(message) ==
    IF Len(message) > COMPOSE_MSG_OFFSET THEN suffix(message, COMPOSE_MSG_OFFSET) ELSE <<>>

=============================================================================
