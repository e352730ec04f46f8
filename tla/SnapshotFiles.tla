--------------------------- MODULE SnapshotFiles ---------------------------
(***************************************************************************)
(* The data of the atomic snapshot store: snapshot envelopes, the content  *)
(* of the candidate files, the rule that selects the durable world among   *)
(* them, and the verification of the lineage records.                      *)
(*                                                                         *)
(* A snapshot's identity is a SHA-256 over its generation, its parent's    *)
(* identity, its payload and its checkpoint (snapshot-envelope.js).  Taken *)
(* as collision free, that identity determines the payloads of the whole   *)
(* parent chain, so a snapshot is modelled as the non-empty sequence of    *)
(* payloads from generation 1 up to itself: its generation is the length,  *)
(* its parent is the Front, and two snapshots are equal iff their          *)
(* snapshotIds are.                                                        *)
(***************************************************************************)
EXTENDS Naturals, SequencesExt

CONSTANT Worlds    \* the serialized worlds a caller may save

\* Token 0 stands for "checkpoint: null", the unleased compatibility API.
Payload == [world : Worlds, token : Nat]

Generation(s) == Len(s)
FencingToken(s) == Last(s).token

-----------------------------------------------------------------------------
\* File contents: absent, present but rejected by validateAtomicSnapshotText
\* (empty or half written), or a valid envelope.
Missing  == [exists |-> FALSE, snap |-> <<>>]
Torn     == [exists |-> TRUE,  snap |-> <<>>]
Holds(s) == [exists |-> TRUE,  snap |-> s]

Content == [exists : BOOLEAN, snap : Seq(Payload)]

IsValid(c) == c.snap # <<>>

CandidateRoles == {"primary", "backup", "temp", "recoveryTemp"}
TransientRoles == {"temp", "recoveryTemp"}
AllPaths       == CandidateRoles \cup {"backupTemp"}

-----------------------------------------------------------------------------
\* Fault: the policy fences committed generations as well.
FencesEverything(role, s, policy) ==
    policy = 0 \/ FencingToken(s) = 0 \/ FencingToken(s) >= policy

\* writerLeaseCandidatePolicy: an uncommitted candidate of a lower fencing
\* token is not eligible.  Policy 0 stands for candidatePolicy: null.
Eligible(role, s, policy) ==
    \/ policy = 0
    \/ role \notin TransientRoles
    \/ FencingToken(s) = 0
    \/ FencingToken(s) >= policy

Valid(fs) == {fs[r].snap : r \in {q \in CandidateRoles : IsValid(fs[q])}}

EligibleValid(fs, policy) ==
    {fs[r].snap : r \in {q \in CandidateRoles :
                            IsValid(fs[q]) /\ Eligible(q, fs[q].snap, policy)}}

\* Fault: the oldest candidate wins.
Lowest(fs, policy) ==
    {s \in EligibleValid(fs, policy) :
        \A u \in EligibleValid(fs, policy) : Generation(s) <= Generation(u)}

\* The valid and eligible candidates of the highest generation.
Highest(fs, policy) ==
    {s \in EligibleValid(fs, policy) :
        \A u \in EligibleValid(fs, policy) : Generation(u) <= Generation(s)}

Conflict(fs, policy) == \E s, u \in Highest(fs, policy) : s # u

\* The role priority orders candidates of one identity, hence of one text: all
\* that depends on it is whether the primary already holds the selection.
Selected(fs, policy) == CHOOSE s \in Highest(fs, policy) : TRUE

AnyExisting(fs) == \E r \in CandidateRoles : fs[r].exists

FencedTransientsOnly(fs, policy) ==
    /\ policy # 0
    /\ Valid(fs) # {}
    /\ EligibleValid(fs, policy) = {}
    /\ \A r \in CandidateRoles : IsValid(fs[r]) => r \in TransientRoles

-----------------------------------------------------------------------------
\* Lineage.  A record holds the identity, the parent and the token of one
\* snapshot and the id of the parent's record; all of it follows from the
\* snapshot, so a set of snapshots stands for a set of records.
Ancestor(s, g) == SubSeq(s, 1, g)

ChainRecorded(recs, s) == \A g \in 1..Len(s) : Ancestor(s, g) \in recs

\* No token regression, and no unfenced generation after a fenced one.
FencingProgress(s) ==
    \A g, h \in 1..Len(s) : g < h => s[g].token <= s[h].token

\* The first g generations of s need no reconciliation: the walk from the head
\* stops at the first ancestor that has a record.
RecordedUpTo(recs, s, g) ==
    /\ g = 0 \/ Ancestor(s, g) \in recs
    /\ \A h \in (g+1)..Len(s) : Ancestor(s, h) \notin recs

\* Every ancestor the walk needs an envelope for must be a valid candidate.
ReconciliationGap(recs, fs, s) ==
    \E g \in 0..Len(s) :
        /\ RecordedUpTo(recs, s, g)
        /\ \E h \in (g+1)..(Len(s) - 1) : Ancestor(s, h) \notin Valid(fs)

-----------------------------------------------------------------------------
(***************************************************************************)
(* The part of an inductive invariant that speaks of the files alone: what *)
(* they offer at every instant, whatever was interrupted before, to a      *)
(* store that keeps its promises about the acknowledged snapshots acks.    *)
(***************************************************************************)
IsChild(s, p) == s # <<>> /\ Front(s) = p

Consistent(fs, acks) ==
    /\ \A p \in AllPaths : IsValid(fs[p]) => fs[p].exists
    /\ \A r \in {"primary", "backup"} : fs[r].exists => IsValid(fs[r])
    /\ IsPrefix(fs["backup"].snap, fs["primary"].snap)
    /\ IsValid(fs["temp"]) =>
          \/ fs["temp"].snap = fs["primary"].snap
          \/ IsChild(fs["temp"].snap, fs["primary"].snap)
    /\ IsValid(fs["recoveryTemp"]) =>
          /\ IsChild(fs["recoveryTemp"].snap, fs["primary"].snap)
          /\ IsValid(fs["temp"]) => fs["temp"].snap = fs["recoveryTemp"].snap
    /\ \A a \in acks : a # <<>> /\ IsPrefix(a, fs["primary"].snap)

=============================================================================
