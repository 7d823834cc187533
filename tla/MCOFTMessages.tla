---------------------------- MODULE MCOFTMessages ----------------------------
(* Values for the constants of OFTMessages that a cfg file cannot write.     *)
EXTENDS OFTMessages

MCStore == [oft_type |-> "Adapter", ld2sd_rate |-> 2, default_fee_bps |-> 0]

gas == [type |-> 3, opts |-> {"gas"}]
value == [type |-> 3, opts |-> {"value"}]

Plain == [paused |-> FALSE, peer_address |-> "peer", fee_bps |-> None,
          fee |-> NoTransferFee, send |-> gas, send_and_call |-> value]

\* A cross-chain fee and a transfer fee; a pause and another peer.
MCConfigs == {Plain, [Plain EXCEPT !.fee_bps = 1, !.fee = [bps |-> 1, max |-> 1]],
              [Plain EXCEPT !.paused = TRUE, !.peer_address = "other"]}

\* Addresses with different bytes in every place that a wrong offset could take.
MCRecipients == {[i \in 1..32 |-> i % 2]}
MCSigners == {[i \in 1..32 |-> (i \div 3) % 2]}

MCPayloads == {None, <<>>, <<1, 0, 0>>}
MCExtras == {NoOptions, gas, [type |-> 1, opts |-> {"legacy"}]}

=============================================================================
