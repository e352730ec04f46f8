-------------------------- MODULE SnapshotRegister --------------------------
(***************************************************************************)
(* What a snapshot store promises, with no files in it: one durable world, *)
(* identified by its history of payloads.  It is only ever replaced by a   *)
(* child of itself, and a caller is told COMMITTED only of the world that  *)
(* is durable at that moment.                                              *)
(***************************************************************************)
EXTENDS Naturals, SequencesExt

VARIABLES
    head,     \* the durable snapshot, <<>> before the first
    acked     \* the snapshots acknowledged to a caller

registerVars == <<head, acked>>

Init ==
    /\ head = <<>>
    /\ acked = {}

Install ==
    /\ head' # <<>>
    /\ Front(head') = head
    /\ UNCHANGED acked

Acknowledge ==
    /\ head # <<>>
    /\ acked' = acked \cup {head}
    /\ UNCHANGED head

Next == Install \/ Acknowledge

Spec == Init /\ [][Next]_registerVars

=============================================================================
