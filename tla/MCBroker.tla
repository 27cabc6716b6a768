------------------------------ MODULE MCBroker ------------------------------
(***************************************************************************)
(* Small instances of Broker: one MCP with the full number of faults, or   *)
(* two of them with a single fault.                                        *)
(***************************************************************************)
EXTENDS Broker

MCInit ==
    /\ Init
    /\ \/ proc[1] = "new" /\ (\A m \in Mcp \ {1} : proc[m] = "exited") /\ faults = 0
       \/ (\A m \in Mcp : proc[m] = "new") /\ faults = MaxFaults - 1

MCSpec == MCInit /\ [][Next]_vars
MCFairSpec == MCSpec /\ DaemonFairness
=============================================================================
