----------------------------- MODULE MCCollect -----------------------------
(* Values for the constants of Collect that a .cfg cannot write. *)
EXTENDS CollectImpl, TLC

PlainConfig == [retention |-> <<>>, compression |-> ""]
OneConfig == {PlainConfig}
TwoConfigs == {PlainConfig, [retention |-> <<7>>, compression |-> "lz4"]}

AnyWindow == {[window |-> w, internal |-> FALSE] : w \in BOOLEAN}
Sampled == {[window |-> TRUE, internal |-> FALSE]}
AnyOptions == [window : BOOLEAN, internal : BOOLEAN]

\* No definition tells one broker from another.
BrokerSymmetry == Permutations(Brokers)
=============================================================================
