------------------------------ MODULE MCClient ------------------------------
(***************************************************************************)
(* UploadClient for TLC: two queued files, one entry.  An entry and the    *)
(* queue share nothing but the network, so a behaviour follows one of      *)
(* them, the queue with at most QueueFaults of the faults.                 *)
(***************************************************************************)
EXTENDS UploadClient

CONSTANTS i1, i2, e1, p1, p2, QueueFaults

VARIABLE way

WayInit == ClientInit /\ way \in {"entry", "outbox"}
WayNext ==
    \/ way = "entry" /\ (EntryNext \/ GoOnline) /\ UNCHANGED way
    \/ way = "outbox" /\ OutboxNext /\ faults' <= QueueFaults /\ UNCHANGED way
WaySpec == WayInit /\ [][WayNext]_<<way, clientVars>> /\ (way = "outbox" => FlushFairness)
=============================================================================
