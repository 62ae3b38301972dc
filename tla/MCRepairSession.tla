-------------------------- MODULE MCRepairSession --------------------------
(* A small plant for RepairSession: the machines of MCMesLine.             *)
EXTENDS RepairSession

CONSTANTS A, B, overheat, lowpress, precharge, hot, anomaly, temp, press, s1

MCCause == [f \in Faults |-> IF f = overheat THEN B ELSE A]
OneCause == [f \in Faults |-> A]
MCCode == [f \in Faults |-> CASE f = overheat -> hot [] f = lowpress -> anomaly [] OTHER -> NoCode]
MCSignal == [f \in Faults |-> IF f = overheat THEN temp ELSE press]

=============================================================================
