----------------------------- MODULE OFTOptions -----------------------------
(***************************************************************************)
(* Execution options of a message: what a peer enforces and what a caller  *)
(* adds (state/peer_config.rs).  The option bytes are LayerZero's: of them *)
(* only the type and the options they hold matter here.                    *)
(***************************************************************************)
EXTENDS Naturals

CONSTANTS OptionItems   \* execution options, by name

\* Option bytes: a type (0 when empty) and the options it holds.
Options == [type : 0..3, opts : SUBSET OptionItems]

NoOptions == [type |-> 0, opts |-> {}]

(* External: oapp::options.                                                *)

assert_type_3(options) == options.type = 3

CanCombine(enforced, extra) ==
    enforced = NoOptions \/ extra = NoOptions \/ assert_type_3(extra)

combine_options(enforced, extra) ==
    IF enforced = NoOptions THEN extra
    ELSE IF extra = NoOptions THEN enforced
    ELSE [enforced EXCEPT !.opts = enforced.opts \cup extra.opts]

\* Mutant: the options of the two kinds of message are swapped.
get_enforced_options_swapped(peer, compose) ==
    IF compose THEN peer.send ELSE peer.send_and_call

get_enforced_options(peer, compose) == IF compose THEN peer.send_and_call ELSE peer.send

=============================================================================
