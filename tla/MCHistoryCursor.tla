-------------------------- MODULE MCHistoryCursor --------------------------
(* Instances of HistoryCursor for TLC: a lookback of no message at all would *)
(* leave a lost update behind the cursor whatever the pages do.              *)
EXTENDS HistoryCursor

ASSUME 0 \notin Lookbacks
=============================================================================
