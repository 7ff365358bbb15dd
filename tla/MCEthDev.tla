------------------------------ MODULE MCEthDev ------------------------------
(* add_timestamps comes second in its list; port 1 does not exist.          *)
EXTENDS EthDev

MCRxCallbacks == <<"count", "add_timestamps">>

MCTxCallbacks == <<"calc_latency">>
=============================================================================
