-------------------------------- MODULE Bytes --------------------------------
(* Integers as big-endian byte strings, and slices with Rust's bounds.       *)
EXTENDS Integers, Sequences, FiniteSetsExt

CONSTANTS
    ByteBase,   \* 256 in the code
    None        \* Option::None

Byte == 0..(ByteBase - 1)

\* n.to_be_bytes() of an integer of width bytes.
to_be_bytes(n, width) ==
    [i \in 1..width |-> (n \div ByteBase^(width - i)) % ByteBase]

from_be_bytes(bytes) ==
    MapThenSumSet(LAMBDA i : bytes[i] * ByteBase^(Len(bytes) - i), DOMAIN bytes)

\* message[from..to] and message[from..].
slice(message, from, to) == SubSeq(message, from + 1, to)

suffix(message, from) == SubSeq(message, from + 1, Len(message))

=============================================================================
