------------------------ MODULE SnapshotFiles_proofs ------------------------
(***************************************************************************)
(* Facts about snapshots and candidate files, for the proofs about the     *)
(* modules that change them.                                               *)
(***************************************************************************)
EXTENDS SnapshotFiles, SequenceTheorems, TLAPS

-----------------------------------------------------------------------------
(***************************************************************************)
(* Histories of payloads: prefixes, children and ancestors.                *)
(***************************************************************************)
LEMMA AppendIsChild ==
    ASSUME NEW S, NEW s \in Seq(S), NEW p \in S
    PROVE  /\ Append(s, p) \in Seq(S)
           /\ IsChild(Append(s, p), s)
    <1>1. /\ Append(s, p) \in Seq(S)
          /\ Append(s, p) # <<>>
          /\ Front(Append(s, p)) = s
        BY DEF Front
    <1>2. QED BY <1>1 DEF IsChild

LEMMA InitialSegment ==
    ASSUME NEW S, NEW t \in Seq(S), NEW g \in 0..Len(t)
    PROVE  /\ SubSeq(t, 1, g) \in Seq(S)
           /\ Len(SubSeq(t, 1, g)) = g
           /\ IsPrefix(SubSeq(t, 1, g), t)
    <1>1. SubSeq(t, 1, g) \in Seq(S) /\ Len(SubSeq(t, 1, g)) = g OBVIOUS
    <1>2. SubSeq(SubSeq(t, 1, g), 1, g) = SubSeq(t, 1, g) BY <1>1
    <1>3. QED BY <1>1, <1>2 DEF IsPrefix

LEMMA FrontIsShorter ==
    ASSUME NEW S, NEW t \in Seq(S), t # <<>>
    PROVE  /\ Front(t) \in Seq(S)
           /\ Len(Front(t)) = Len(t) - 1
           /\ IsPrefix(Front(t), t)
    <1>1. Len(t) \in Nat /\ Len(t) # 0 BY EmptySeq, LenProperties
    <1>2. Len(t) - 1 \in 0..Len(t) BY <1>1
    <1>3. QED BY <1>2, InitialSegment DEF Front

LEMMA ChildIsLonger ==
    ASSUME NEW S, NEW p \in Seq(S), NEW s \in Seq(S), IsChild(s, p)
    PROVE  /\ s # <<>>
           /\ Len(s) = Len(p) + 1
           /\ IsPrefix(p, s)
    <1>1. s # <<>> /\ Front(s) = p BY DEF IsChild
    <1>2. Len(s) \in Nat OBVIOUS
    <1>3. QED BY <1>1, <1>2, FrontIsShorter

LEMMA PrefixReflexive ==
    ASSUME NEW S, NEW s \in Seq(S)
    PROVE  IsPrefix(s, s) /\ IsPrefix(<<>>, s)
    BY DEF IsPrefix

LEMMA PrefixTransitive ==
    ASSUME NEW S, NEW s \in Seq(S), NEW t \in Seq(S), NEW u \in Seq(S),
           IsPrefix(s, t), IsPrefix(t, u)
    PROVE  IsPrefix(s, u)
    BY DEF IsPrefix

LEMMA LongestPrefix ==
    ASSUME NEW S, NEW s \in Seq(S), NEW t \in Seq(S),
           IsPrefix(s, t), Len(s) >= Len(t)
    PROVE  s = t
    BY DEF IsPrefix

LEMMA AncestorIsHistory ==
    ASSUME NEW S, NEW s \in Seq(S), NEW g \in 0..Len(s)
    PROVE  Ancestor(s, g) \in Seq(S)
    BY InitialSegment DEF Ancestor

-----------------------------------------------------------------------------
(***************************************************************************)
(* Candidates and the selection among them.                                *)
(***************************************************************************)
LEMMA ContentTypes ==
    /\ Missing \in Content
    /\ Torn \in Content
    /\ \A s \in Seq(Payload) : Holds(s) \in Content
    BY DEF Missing, Torn, Holds, Content

LEMMA HighestTypes ==
    ASSUME NEW fs \in [AllPaths -> Content], NEW policy
    PROVE  /\ EligibleValid(fs, policy) \subseteq Seq(Payload) \ {<<>>}
           /\ Highest(fs, policy) \subseteq EligibleValid(fs, policy)
    BY DEF EligibleValid, Highest, IsValid, Content, CandidateRoles, AllPaths

\* Among four candidates one has the highest generation, so a selection that
\* finds an eligible candidate finds a highest one.
LEMMA HighestExists ==
    ASSUME NEW fs \in [AllPaths -> Content], NEW policy,
           EligibleValid(fs, policy) # {}
    PROVE  Highest(fs, policy) # {}
    <1> DEFINE ok(r) == IsValid(fs[r]) /\ Eligible(r, fs[r].snap, policy)
               g(r)  == IF ok(r) THEN Len(fs[r].snap) ELSE 0
    <1>1. \A r \in CandidateRoles : fs[r].snap \in Seq(Payload)
        BY DEF Content, CandidateRoles, AllPaths
    <1>2. \A r \in CandidateRoles : g(r) \in Nat
        BY <1>1
    <1>3. \E m \in CandidateRoles : \A r \in CandidateRoles : g(r) <= g(m)
        <2> HIDE DEF g
        <2>1. QED BY <1>2 DEF CandidateRoles
    <1>4. PICK m \in CandidateRoles : \A r \in CandidateRoles : g(r) <= g(m)
        BY <1>3
    <1>5. PICK q \in CandidateRoles : ok(q)
        BY DEF EligibleValid
    <1>6. g(q) > 0
        BY <1>1, <1>5 DEF IsValid
    <1>7. g(m) > 0
        <2> HIDE DEF g
        <2>1. QED BY <1>2, <1>4, <1>6
    <1>8. ok(m)
        BY <1>7
    <1>9. \A u \in EligibleValid(fs, policy) : Generation(u) <= Generation(fs[m].snap)
        <2>1. SUFFICES ASSUME NEW r \in CandidateRoles, ok(r)
                       PROVE  Len(fs[r].snap) <= Len(fs[m].snap)
            BY DEF EligibleValid, Generation
        <2>2. g(r) = Len(fs[r].snap) /\ g(m) = Len(fs[m].snap)
            BY <2>1, <1>8
        <2>3. QED BY <2>2, <1>4
    <1>10. fs[m].snap \in EligibleValid(fs, policy)
        BY <1>8 DEF EligibleValid
    <1>11. QED BY <1>9, <1>10 DEF Highest

LEMMA SelectedIsHighest ==
    ASSUME NEW fs \in [AllPaths -> Content], NEW policy,
           EligibleValid(fs, policy) # {}
    PROVE  Selected(fs, policy) \in Highest(fs, policy)
    BY HighestExists DEF Selected

LEMMA SnapTypes ==
    ASSUME NEW fs \in [AllPaths -> Content]
    PROVE  \A p \in AllPaths : fs[p] \in Content /\ fs[p].snap \in Seq(Payload)
    <1>1. \A c \in Content : c.snap \in Seq(Payload) BY DEF Content
    <1>2. QED BY <1>1

LEMMA PrimaryIsEligible ==
    ASSUME NEW fs, NEW policy, fs["primary"].snap # <<>>
    PROVE  fs["primary"].snap \in EligibleValid(fs, policy)
    BY DEF EligibleValid, Eligible, IsValid, CandidateRoles, TransientRoles

\* A reader of consistent files finds the primary, or the one child of it that
\* an interrupted save left behind.
LEMMA HighestOnDisk ==
    ASSUME NEW fs \in [AllPaths -> Content], NEW acks, Consistent(fs, acks),
           NEW policy, NEW s \in Highest(fs, policy)
    PROVE  \/ s = fs["primary"].snap
           \/ /\ IsChild(s, fs["primary"].snap)
              /\ IsValid(fs["temp"]) => s = fs["temp"].snap
              /\ ~IsValid(fs["temp"]) => s = fs["recoveryTemp"].snap
    <1>1. PICK r \in CandidateRoles : s = fs[r].snap /\ IsValid(fs[r])
        BY DEF Highest, EligibleValid
    <1>2. CASE r \in {"primary", "temp", "recoveryTemp"}
        BY <1>1, <1>2 DEF Consistent
    <1>3. CASE r = "backup"
        <2> DEFINE primary == fs["primary"].snap
        <2>1. /\ s \in Seq(Payload) /\ primary \in Seq(Payload)
              /\ IsPrefix(s, primary) /\ s # <<>>
            BY <1>1, <1>3, SnapTypes DEF AllPaths, CandidateRoles, Consistent, IsValid
        <2>2. Len(s) <= Len(primary) /\ Len(s) # 0
            BY <2>1, EmptySeq, LenProperties DEF IsPrefix
        <2>3. primary # <<>>
            BY <2>1, <2>2, EmptySeq, LenProperties
        <2>4. Len(primary) <= Len(s)
            BY <2>3, PrimaryIsEligible DEF Highest, Generation
        <2>5. QED BY <2>1, <2>4, LongestPrefix
    <1>4. QED BY <1>2, <1>3 DEF CandidateRoles

LEMMA ConsistentHasNoConflict ==
    ASSUME NEW fs \in [AllPaths -> Content], NEW acks, Consistent(fs, acks), NEW policy
    PROVE  ~Conflict(fs, policy)
    <1>1. SUFFICES ASSUME NEW s \in Highest(fs, policy), NEW u \in Highest(fs, policy), s # u
                   PROVE  FALSE
        BY DEF Conflict
    <1> DEFINE primary == fs["primary"].snap
    <1>2. s \in Seq(Payload) /\ u \in Seq(Payload) /\ primary \in Seq(Payload)
        BY HighestTypes, SnapTypes DEF AllPaths, CandidateRoles
    <1>3. Len(s) = Len(u)
        BY <1>2, LenProperties DEF Highest, Generation
    <1>4. ~(s = primary /\ IsChild(u, primary)) /\ ~(u = primary /\ IsChild(s, primary))
        BY <1>2, <1>3, ChildIsLonger, LenProperties
    <1>5. QED BY <1>1, <1>4, HighestOnDisk

LEMMA ConsistentKeepsAcked ==
    ASSUME NEW fs \in [AllPaths -> Content], NEW acks \in SUBSET Seq(Payload),
           Consistent(fs, acks), NEW policy, NEW a \in acks
    PROVE  /\ EligibleValid(fs, policy) # {}
           /\ \A s \in Highest(fs, policy) : IsPrefix(a, s)
    <1> DEFINE primary == fs["primary"].snap
    <1>1. a \in Seq(Payload) /\ a # <<>> /\ IsPrefix(a, primary) /\ primary \in Seq(Payload)
        BY SnapTypes DEF Consistent, AllPaths, CandidateRoles
    <1>2. primary # <<>>
        BY <1>1, EmptySeq, LenProperties DEF IsPrefix
    <1>3. ASSUME NEW s \in Highest(fs, policy) PROVE IsPrefix(a, s)
        <2>1. s \in Seq(Payload)
            BY HighestTypes
        <2>2. CASE IsChild(s, primary)
            BY <1>1, <2>1, <2>2, ChildIsLonger, PrefixTransitive
        <2>3. QED BY <1>1, <2>2, HighestOnDisk
    <1>4. QED BY <1>2, <1>3, PrimaryIsEligible

\* A selected snapshot is the primary, or the child of it that the transient
\* files agree on; when nothing is eligible there is no primary.
LEMMA SelectionOnDisk ==
    ASSUME NEW fs \in [AllPaths -> Content], NEW acks, Consistent(fs, acks),
           NEW policy, EligibleValid(fs, policy) # {}
    PROVE  LET s == Selected(fs, policy) IN
             \/ s = fs["primary"].snap /\ fs["primary"] = Holds(s)
             \/ /\ IsChild(s, fs["primary"].snap)
                /\ IsValid(fs["temp"]) => fs["temp"].snap = s
    <1> DEFINE s == Selected(fs, policy)
    <1>1. s \in Highest(fs, policy) /\ s \in EligibleValid(fs, policy)
        BY SelectedIsHighest, HighestTypes
    <1>2. s # <<>>
        BY <1>1, HighestTypes
    <1>3. ASSUME s = fs["primary"].snap PROVE fs["primary"] = Holds(s)
        <2>1. fs["primary"].exists /\ fs["primary"].snap = s
            BY <1>2, <1>3 DEF Consistent, IsValid, AllPaths, CandidateRoles
        <2>2. fs["primary"] \in Content
            BY SnapTypes DEF AllPaths, CandidateRoles
        <2>3. QED BY <2>1, <2>2 DEF Content, Holds
    <1> HIDE DEF s
    <1>4. QED BY <1>1, <1>3, HighestOnDisk DEF s

-----------------------------------------------------------------------------
(***************************************************************************)
(* The changes a save or a recovery makes to consistent files: gs is what  *)
(* the files fs are turned into.                                           *)
(***************************************************************************)

\* Transient files are deleted or opened.
LEMMA ConsistentAfterClearing ==
    ASSUME NEW fs, NEW gs, NEW acks, Consistent(fs, acks),
           \A q \in AllPaths : \/ gs[q] = fs[q]
                               \/ /\ q \in TransientRoles \cup {"backupTemp"}
                                  /\ gs[q] \in {Missing, Torn}
    PROVE  Consistent(gs, acks)
    <1>1. \A q \in AllPaths : IsValid(gs[q]) => gs[q] = fs[q]
        BY DEF Missing, Torn, IsValid
    <1>2. \A r \in {"primary", "backup"} : gs[r] = fs[r]
        BY DEF AllPaths, CandidateRoles, TransientRoles
    <1>3. QED BY <1>1, <1>2 DEF Consistent, AllPaths, CandidateRoles

\* A child of the primary reaches the temp of a save or of a promotion.
LEMMA ConsistentAfterWriting ==
    ASSUME NEW fs, NEW gs, NEW acks, Consistent(fs, acks), NEW s,
           IsChild(s, fs["primary"].snap), NEW p \in TransientRoles,
           gs[p] = Holds(s), \A q \in AllPaths \ {p} : gs[q] = fs[q],
           \A q \in TransientRoles \ {p} :
               IsValid(fs[q]) => q = "temp" /\ fs[q].snap = s
    PROVE  Consistent(gs, acks)
    <1>1. gs["primary"] = fs["primary"] /\ gs["backup"] = fs["backup"]
        BY DEF AllPaths, CandidateRoles, TransientRoles
    <1>2. gs[p].exists /\ gs[p].snap = s
        BY DEF Holds
    <1>3. QED BY <1>1, <1>2 DEF Consistent, IsValid, AllPaths, CandidateRoles, TransientRoles

\* The copy for the backup changes, which no reader sees.
LEMMA ConsistentAfterCopying ==
    ASSUME NEW fs, NEW gs, NEW acks, Consistent(fs, acks),
           \A q \in CandidateRoles : gs[q] = fs[q],
           IsValid(gs["backupTemp"]) => gs["backupTemp"].exists
    PROVE  Consistent(gs, acks)
    BY DEF Consistent, AllPaths, CandidateRoles

\* The backup becomes the primary's double.
LEMMA ConsistentAfterBackup ==
    ASSUME NEW fs \in [AllPaths -> Content], NEW gs, NEW acks, Consistent(fs, acks),
           \A q \in CandidateRoles \ {"backup"} : gs[q] = fs[q],
           gs["backup"] = fs["primary"], gs["backupTemp"] = Missing
    PROVE  Consistent(gs, acks)
    <1>1. fs["primary"].snap \in Seq(Payload)
        BY SnapTypes DEF AllPaths, CandidateRoles
    <1>2. IsPrefix(gs["backup"].snap, gs["primary"].snap)
        BY <1>1, PrefixReflexive DEF CandidateRoles
    <1>3. QED BY <1>2 DEF Consistent, IsValid, Missing, AllPaths, CandidateRoles

\* A child takes the primary's place, and the temps agree with it or are gone.
LEMMA ConsistentAfterInstall ==
    ASSUME NEW fs \in [AllPaths -> Content], NEW gs, NEW acks \in SUBSET Seq(Payload),
           Consistent(fs, acks), NEW s \in Seq(Payload), IsChild(s, fs["primary"].snap),
           gs["primary"] = Holds(s), ~IsValid(gs["recoveryTemp"]),
           IsValid(gs["temp"]) => gs["temp"] = fs["temp"] /\ fs["temp"].snap = s,
           \A q \in {"backup", "backupTemp"} : gs[q] = fs[q]
    PROVE  Consistent(gs, acks)
    <1> DEFINE primary == fs["primary"].snap
    <1>1. /\ primary \in Seq(Payload)
          /\ s # <<>> /\ IsPrefix(primary, s) /\ gs["primary"].snap = s /\ gs["primary"].exists
        BY SnapTypes, ChildIsLonger DEF Holds, AllPaths, CandidateRoles
    <1>2. IsPrefix(gs["backup"].snap, s)
        <2>1. fs["backup"].snap \in Seq(Payload) /\ IsPrefix(fs["backup"].snap, primary)
            BY SnapTypes DEF Consistent, AllPaths, CandidateRoles
        <2>2. QED BY <1>1, <2>1, PrefixTransitive
    <1>3. ASSUME NEW a \in acks PROVE a # <<>> /\ IsPrefix(a, s)
        <2>1. a \in Seq(Payload) /\ a # <<>> /\ IsPrefix(a, primary)
            BY DEF Consistent
        <2>2. QED BY <1>1, <2>1, PrefixTransitive
    <1>4. \A p \in AllPaths : IsValid(gs[p]) => gs[p].exists
        BY <1>1 DEF Consistent, AllPaths, CandidateRoles
    <1>5. QED BY <1>1, <1>2, <1>3, <1>4 DEF Consistent, IsValid

\* A snapshot with the prefix of the primary keeps it, and becomes acknowledged.
LEMMA ConsistentAfterCommit ==
    ASSUME NEW fs, NEW acks, Consistent(fs, acks), NEW s, s # <<>>,
           IsPrefix(s, fs["primary"].snap)
    PROVE  Consistent(fs, acks \cup {s})
    BY DEF Consistent

-----------------------------------------------------------------------------
(***************************************************************************)
(* Lineage records.                                                        *)
(***************************************************************************)

\* Records are only added: a recorded chain stays recorded.
LEMMA ChainStaysRecorded ==
    ASSUME NEW recs, NEW more, recs \subseteq more, NEW s, ChainRecorded(recs, s)
    PROVE  ChainRecorded(more, s)
    BY DEF ChainRecorded

LEMMA EmptyChainRecorded ==
    ASSUME NEW recs
    PROVE  ChainRecorded(recs, <<>>)
    <1>1. Len(<<>>) = 0 OBVIOUS
    <1>2. QED BY <1>1 DEF ChainRecorded

LEMMA WholeAncestor ==
    ASSUME NEW S, NEW s \in Seq(S)
    PROVE  Ancestor(s, Len(s)) = s
    BY DEF Ancestor

\* With the chain of its parent recorded, a snapshot lacks at most its own
\* record, for which the walk needs no envelope.
LEMMA RecordedParentHasNoGap ==
    ASSUME NEW S, NEW s \in Seq(S), s # <<>>, NEW recs, NEW fs,
           ChainRecorded(recs, Front(s))
    PROVE  ~ReconciliationGap(recs, fs, s)
    <1>1. Len(s) \in Nat /\ Len(Front(s)) = Len(s) - 1
        BY FrontIsShorter, LenProperties
    <1>2. ASSUME NEW h \in 1..(Len(s) - 1) PROVE Ancestor(s, h) \in recs
        <2>1. Ancestor(Front(s), h) \in recs
            BY <1>1, <1>2 DEF ChainRecorded
        <2>2. Ancestor(Front(s), h) = Ancestor(s, h)
            BY <1>1, <1>2 DEF Ancestor, Front
        <2>3. QED BY <2>1, <2>2
    <1>3. SUFFICES ASSUME NEW g \in 0..Len(s), RecordedUpTo(recs, s, g),
                          NEW h \in (g + 1)..(Len(s) - 1)
                   PROVE  FALSE
        BY DEF ReconciliationGap
    <1>4. h \in (g + 1)..Len(s) /\ h \in 1..(Len(s) - 1)
        BY <1>1, <1>3
    <1>5. QED BY <1>2, <1>3, <1>4 DEF RecordedUpTo

=============================================================================
