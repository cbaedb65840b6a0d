----------------------------- MODULE Coinbasers -----------------------------
(***************************************************************************)
(* The coinbasers a session has issued and the window snapshots they       *)
(* commit to.  Each request gets the next one-byte id, a snapshot file     *)
(* named by its hash, and a place among the COINBASERS_KEPT newest; a job  *)
(* names its coinbaser by that id, and a block found on it is recorded     *)
(* with what `issued(id)` finds.  Housekeeping deletes snapshot files past *)
(* KEEP that no block record names; it reads the records first and goes    *)
(* through the directory later, file by file.                              *)
(*                                                                         *)
(* Coinbasers are numbered in the order of issue.  The document holds the  *)
(* time and the template, so each has a snapshot of its own.               *)
(***************************************************************************)
EXTENDS Integers, Sequences, FiniteSets

CONSTANTS
    IDS,         \* ids before they start over at 1 (255)
    KEPT,        \* COINBASERS_KEPT
    KEEP,        \* KEEP_SECS
    JobLag,      \* requests a job may be behind when it is solved
    JobAge,      \* ... and how old its coinbaser may be
    PruneTime,   \* how long one pass over the directory may take
    RECORDS,     \* block records kept in memory (10 000)
    MaxIssued,   \* bound: coinbasers issued
    MaxBlocks,   \* bound: blocks found
    None         \* no snapshot, no pass under way

ASSUME CoinbasersAssumption ==
    /\ {IDS, KEPT, KEEP, JobLag, JobAge, PruneTime, RECORDS, MaxIssued,
        MaxBlocks} \subseteq Nat
    /\ IDS > 0 /\ KEPT > 0 /\ RECORDS > 0
    /\ None \notin Nat

\* What the code leaves to the gateway and the clock: a job is solved long
\* before its snapshot may be deleted. Its id may have come round by then.
ASSUME MarginAssumption == JobAge + PruneTime <= KEEP

VARIABLES
    issued,    \* how many coinbasers were issued
    next_id,   \* next_coinbaser_id
    ring,      \* `coinbasers`: id, number and snapshot, oldest first
    age,       \* of each coinbaser issued and so of its snapshot file
    disk,      \* snapshot files
    records,   \* Shared::blocks: a block's coinbaser, how many were issued after
               \* it, and the entry the block was judged by
    keep,      \* housekeeping's list of snapshots to keep, or None
    pass       \* how long its pass has been under way

issueVars == <<issued, next_id, ring, age, disk, records, keep, pass>>

Numbers == 1..issued

Entries == [id : 1..IDS, number : Numbers, snapshot : Numbers \cup {None}]

IssueTypeOK ==
    /\ issued \in 0..MaxIssued
    /\ next_id \in 1..IDS
    /\ \A i \in DOMAIN ring : ring[i] \in Entries
    /\ age \in [Numbers -> Nat]
    /\ disk \subseteq Numbers
    /\ \A i \in DOMAIN records :
          /\ records[i].own \in Numbers
          /\ records[i].lag \in Nat
          /\ records[i].judged \subseteq Entries
    /\ keep = None \/ keep \subseteq Numbers

IssueInit ==
    /\ issued = 0
    /\ next_id = 1
    /\ ring = << >>
    /\ age = << >>
    /\ disk = {}
    /\ records = << >>
    /\ keep = None
    /\ pass = 0

\* The id a coinbaser was given: 1, 2 ... IDS, 1 ...
IdOf(n) == ((n - 1) % IDS) + 1

Last(s, n) == IF Len(s) > n THEN SubSeq(s, Len(s) - n + 1, Len(s)) ELSE s

\* on_coinbaser_request: id, snapshot file (written beside and renamed, so
\* whole or not there), reply, ring. A file that cannot be written leaves
\* the list without a commitment.
Issue(stored) ==
    LET n == issued + 1 IN
    /\ n <= MaxIssued
    /\ issued' = n
    /\ next_id' = IF next_id = IDS THEN 1 ELSE next_id + 1
    /\ disk' = IF stored THEN disk \cup {n} ELSE disk
    /\ age' = Append(age, 0)
    /\ ring' = Last(Append(ring, [id |-> next_id, number |-> n,
                                  snapshot |-> IF stored THEN n ELSE None]),
                    KEPT)
    /\ UNCHANGED <<records, keep, pass>>

\* Mutant of IssuedAs: the newest list, whatever its id.
IssuedAsNewest(id) == {ring[i] : i \in DOMAIN ring \cap {Len(ring)}}

\* Session::issued: the newest entry with that id, if there is one.
IssuedAs(id) ==
    LET has == {i \in DOMAIN ring : ring[i].id = id}
    IN  {ring[i] : i \in {j \in has : \A k \in has : k <= j}}

\* A gateway solves a block on a job built from coinbaser n: record_block.
FindBlock(n) ==
    /\ Len(records) < MaxBlocks
    /\ issued - n <= JobLag
    /\ age[n] <= JobAge
    /\ records' = Last(Append(records, [own |-> n, lag |-> issued - n,
                                        judged |-> IssuedAs(IdOf(n))]),
                       RECORDS)
    /\ UNCHANGED <<issued, next_id, ring, age, disk, keep, pass>>

-----------------------------------------------------------------------------
(* housekeeping *)

\* The snapshots block records name.
Named ==
    {e.snapshot : e \in UNION {records[i].judged : i \in DOMAIN records}} \ {None}

\* Mutant of KeepList: every snapshot counts as named.
KeepListAll ==
    /\ keep = None
    /\ keep' = disk
    /\ pass' = 0
    /\ UNCHANGED <<issued, next_id, ring, age, disk, records>>

\* Every ten minutes: the list of what to keep, under the blocks lock.
KeepList ==
    /\ keep = None
    /\ keep' = Named
    /\ pass' = 0
    /\ UNCHANGED <<issued, next_id, ring, age, disk, records>>

\* Mutant of Removable: age alone decides.
RemovableOld(n) == age[n] > KEEP

\* snapshot::prune: old, and not on the list.
Removable(n) == n \notin keep /\ age[n] > KEEP

PruneFile(n) ==
    /\ keep # None
    /\ n \in disk
    /\ Removable(n)
    /\ disk' = disk \ {n}
    /\ UNCHANGED <<issued, next_id, ring, age, records, keep, pass>>

\* The pass has looked at every file.
PruneDone ==
    /\ keep # None
    /\ \A n \in disk : ~Removable(n)
    /\ keep' = None
    /\ UNCHANGED <<issued, next_id, ring, age, disk, records, pass>>

Prune == (\E n \in Numbers : PruneFile(n)) \/ PruneDone

-----------------------------------------------------------------------------
\* Time passes, not past what one pass takes. Ages stop past KEEP.
FilesAge ==
    /\ keep # None => pass < PruneTime
    /\ age' = [n \in Numbers |-> IF age[n] <= KEEP THEN age[n] + 1 ELSE age[n]]
    /\ pass' = IF keep = None THEN 0 ELSE pass + 1
    /\ UNCHANGED <<issued, next_id, ring, disk, records, keep>>

IssueNext ==
    \/ \E stored \in BOOLEAN : Issue(stored)
    \/ \E n \in Numbers : FindBlock(n)
    \/ KeepList
    \/ Prune
    \/ FilesAge

\* housekeeping runs for as long as Prime does, and time passes.
IssueSpec ==
    /\ IssueInit /\ [][IssueNext]_issueVars
    /\ WF_issueVars(KeepList) /\ WF_issueVars(Prune) /\ WF_issueVars(FilesAge)

-----------------------------------------------------------------------------
(* Properties *)

\* Until its job's id has come round, a block is judged by the very list the
\* job was built from while the ring holds it, and by none once it has left:
\* a list that has the id of another is found only IDS requests later.
OwnList ==
    \A i \in DOMAIN records : records[i].lag < IDS =>
        {e.number : e \in records[i].judged} =
            IF records[i].lag < KEPT THEN {records[i].own} ELSE {}

\* The snapshot a block's coinbase commits to is on disk for as long as its
\* record is kept ("blocks found keep theirs": snapshot.rs), though it may
\* have been found while a pass over the directory was under way.
SnapshotsKept == Named \subseteq disk

\* A snapshot no block names is deleted in the end: the directory holds what
\* is young and what blocks need.
OthersGo ==
    \A n \in 1..MaxIssued :
        (n \in disk /\ n \notin Named) ~> (n \notin disk \/ n \in Named)
=============================================================================
