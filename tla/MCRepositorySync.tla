-------------------------- MODULE MCRepositorySync --------------------------
(* Small instances of RepositorySync for TLC. *)
EXTENDS RepositorySync

CONSTANTS s1, s2

OneSource  == {s1}
TwoSources == {s1, s2}

NoFaults   == {}
\* Replies are lost, cleanups fail, and so does the transaction of a DELETE.
AllFaults  == {"lost_ack", "sweep", "delete"}
LostAck    == {"lost_ack"}
DeleteFault == {"delete"}
=============================================================================
