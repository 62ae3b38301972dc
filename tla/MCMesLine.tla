----------------------------- MODULE MCMesLine -----------------------------
(* A small plant for MesLine: equipment A with two unauthored alarms and a *)
(* silent deviation, B with an authored alarm, and a holding scenario.     *)
EXTENDS MesLine

CONSTANTS A, B, overheat, trip, lowpress, precharge, qhold, scrap, hot, anomaly, temp, press

MCCause == [f \in Faults |-> IF f \in {overheat, qhold} THEN B ELSE A]
MCCode == [f \in Faults |-> CASE f = overheat -> hot [] f = trip -> hot [] f = lowpress -> anomaly
                              [] OTHER -> NoCode]
MCSignal == [f \in Faults |-> CASE f = overheat -> temp [] f \in {lowpress, precharge} -> press
                                [] f = trip -> temp [] OTHER -> NoSignal]

=============================================================================
