-------------------------- MODULE TableParameters --------------------------
(* What the routing tables of all nodes have in common (src/src/routing.rs). *)
CONSTANTS
    Bits,               \* length of an id: 160
    ksize,              \* k
    ReplacementFactor,  \* max_replacement_nodes / ksize: 5
    SplitModulus,       \* 5, in the split condition
    StaleAfterFailures, \* STALE_AFTER_FAILURES: 5
    None                \* no oldest contact to ping
=============================================================================
