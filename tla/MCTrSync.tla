------------------------------ MODULE MCTrSync ------------------------------
(* Instances of TrSync for TLC: two micro-controllers. *)
EXTENDS TrSync, TLC

CONSTANTS e, s

\* int(report_ticks * i / 2 + .5), for the i-th of two trsyncs
MCOffset == e :> 0 @@ s :> (ReportTicks + 1) \div 2
=============================================================================
