------------------------------ MODULE MsgCodec ------------------------------
(* The message an OFT sends (msg_codec.rs): recipient, amount in shared      *)
(* decimals and, when it is composed, the sender and the caller's bytes.     *)
EXTENDS Bytes

SEND_TO_OFFSET == 0
SEND_AMOUNT_SD_OFFSET == 32
COMPOSE_MSG_OFFSET == 40

encode(to, sd, sender, msg) ==
    to \o to_be_bytes(sd, 8) \o (IF msg = None THEN <<>> ELSE sender \o msg)

send_to(message) == slice(message, SEND_TO_OFFSET, SEND_AMOUNT_SD_OFFSET)

amount_sd(message) == from_be_bytes(slice(message, SEND_AMOUNT_SD_OFFSET, COMPOSE_MSG_OFFSET))

\* Mutant: the composed part is taken to begin behind the sender.
compose_msg_bare(message) ==
    IF Len(message) > COMPOSE_MSG_OFFSET + 32 THEN suffix(message, COMPOSE_MSG_OFFSET + 32)
    ELSE None

\* The sender and the caller's bytes; a message without them ends here.
compose_msg(message) ==
    IF Len(message) > COMPOSE_MSG_OFFSET THEN suffix(message, COMPOSE_MSG_OFFSET) ELSE None

=============================================================================
