----------------------------- MODULE MCTestbed -----------------------------
(***************************************************************************)
(* Testbed for TLC: one configuration of each kind.                        *)
(***************************************************************************)
EXTENDS Testbed

Good == [mechanism |-> "shim", reuse |-> "none", wellformed |-> TRUE,
         burst |-> 1, max_burst |-> 1, max_pods |-> 3]

MCConfigs ==
    { [Good EXCEPT !.mechanism = m] : m \in Mechanisms \cup {"crossdc"} }
    \cup { [Good EXCEPT !.mechanism = "modelstore", !.reuse = r] : r \in Reuses }
    \cup { [Good EXCEPT !.max_pods = 1], [Good EXCEPT !.burst = 2] }
=============================================================================
