-------------------------- MODULE MCEthosExecutor --------------------------
(* Instances of EthosExecutor for TLC. *)
EXTENDS EthosExecutor

CONSTANTS t1, t2

MCThreads == {t1, t2}

File(regions, input, output) ==
    [sound |-> TRUE, cmd_size |-> 1, sram_size |-> 1, regions |-> regions,
     input_region |-> input[1], input_offset |-> input[2], input_elements |-> input[3],
     output_region |-> output[1], output_offset |-> output[2], output_elements |-> output[3]]

(* Tensors that fit exactly, do not, or whose end wraps at MaxU32; regions *)
(* shared and separate, missing, empty and too many.                       *)
MCFiles ==
    LET Tensors == {<<0, 0, 2>>, <<1, 1, 2>>, <<1, 7, 2>>, <<2, 0, 1>>, <<0, 0, 0>>}
    IN  {File(r, i, o) : r \in {<<2>>, <<2, 3>>, <<2, 3, 1>>, <<2, 0>>, <<>>}, i, o \in Tensors}
        \cup {[File(<<2>>, <<0, 0, 2>>, <<0, 0, 2>>) EXCEPT !.sound = FALSE]}

MCNodes == {<<"ethosu">>, <<"gpu", "ethosu">>, <<"forbidden", "ethosu">>, <<>>}
=============================================================================
