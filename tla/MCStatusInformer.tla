-------------------------- MODULE MCStatusInformer --------------------------
(* Instances of StatusInformer for TLC: the node informer, whose events    *)
(* trigger requests, and the broker informer, whose store gates them.      *)
EXTENDS StatusInformer

MCInformers == <<"node", "broker">>
=============================================================================
