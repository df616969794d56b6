------------------------ MODULE MCCollectorWorker ------------------------
(***************************************************************************)
(* An instance of CollectorWorker for TLC: the two jobs, and enough        *)
(* attempts for the delay to reach its cap.                                *)
(***************************************************************************)
EXTENDS CollectorWorker

MCQueryJobs == {"collector_queries"}
MCJobs == {"collector_runtime"} \cup MCQueryJobs

==========================================================================
