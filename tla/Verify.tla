------------------------------- MODULE Verify -------------------------------
(***************************************************************************)
(* verify-hash (ops/verify/, engine/integrity.hash_logarchive): a          *)
(* logarchive is hashed when it is extracted and compared, later, with     *)
(* what is at its path.  The digest is modelled by what it is injective    *)
(* in: what it is fed.  The files are fed in path order, each with its     *)
(* path, so that what is fed is known from the set of the pairs; a file    *)
(* that cannot be read is skipped, with a warning.                         *)
(***************************************************************************)
EXTENDS Naturals, Sequences, FiniteSetsExt

CONSTANTS
  Tree,      \* the relative paths a logarchive may hold, in sorted order
  Contents,  \* what a file can hold, each with its digest
  Missing,   \* no file, or no digest
  Unreadable \* a file that cannot be read

ASSUME VerifyAssumption == Missing \notin Contents /\ Unreadable \notin Contents \cup {Missing}

Relative == { Tree[i] : i \in DOMAIN Tree }
Trees    == [Relative -> Contents \cup {Missing, Unreadable}]

VARIABLES
  vpc,      \* the next step
  tree,     \* the logarchive now
  stored,   \* logarchive_sha256, Missing when no hash was taken
  rows,     \* source_files: the sha256 of each recorded path
  recorded, \* the paths that have a row
  skipFiles,\* --skip-files
  was,      \* history: the logarchive when it was hashed
  global,   \* the check of the global hash: "none", "ok", "fail", "skip"
  reason,   \* what a failed global check says
  matched,  \* per_file, <<>> when skipped
  changed,
  gone

verify == <<vpc, tree, stored, rows, recorded, skipFiles, was, global, reason,
            matched, changed, gone>>

VerifyTypeOK ==
  /\ vpc \in {"hash", "extracted", "perFile", "global", "done"}
  /\ tree \in Trees /\ was \in Trees /\ recorded \subseteq Relative
  /\ rows \in [Relative -> Contents \cup {Missing}]
  /\ skipFiles \in BOOLEAN /\ global \in {"none", "ok", "fail", "skip"}
  /\ reason \in {"", "unknown", "content", "moved", "names", "mismatch", "missing"}
  /\ {matched, changed, gone} \subseteq SUBSET Relative

\* file_hashes.get(p): the digest of a file that is there and can be read.
DigestAt(t, p) == IF t[p] = Unreadable THEN Missing ELSE t[p]

\* Mutant of HashTree: the digests alone, in path order.
HashDigests(t) ==
  LET present == SelectSeq(Tree, LAMBDA p : DigestAt(t, p) # Missing)
  IN [i \in DOMAIN present |-> DigestAt(t, present[i])]

\* hash_logarchive: path and digest of every file that can be read.
HashTree(t) == { <<p, DigestAt(t, p)>> : p \in { q \in Relative : DigestAt(t, q) # Missing } }

VerifyInit ==
  /\ vpc = "hash" /\ tree \in Trees /\ was = tree
  /\ stored = Missing /\ rows = [p \in Relative |-> Missing] /\ recorded = {}
  /\ skipFiles \in BOOLEAN
  /\ global = "none" /\ reason = "" /\ matched = {} /\ changed = {} /\ gone = {}

\* The extraction hashes the tree, or takes no hash, and records the files it
\* parses.
RecordHashes ==
  /\ vpc = "hash" /\ vpc' = "extracted"
  /\ \E full \in BOOLEAN, files \in SUBSET { p \in Relative : tree[p] # Missing } :
       /\ stored' = IF full THEN HashTree(tree) ELSE Missing
       /\ recorded' = files
       /\ rows' = [p \in Relative |-> IF full /\ p \in files THEN DigestAt(tree, p) ELSE Missing]
  /\ UNCHANGED <<tree, skipFiles, was, global, reason, matched, changed, gone>>

\* Between the two, anything may happen to the tree: files change, move, go, come,
\* or cannot be read any more.
TimePasses ==
  /\ vpc = "extracted" /\ vpc' \in {"perFile", "done"}
  /\ tree' \in Trees
  \* No path was stored and none is given, or there is no directory there.
  /\ global' = IF vpc' = "done" THEN "fail" ELSE global
  /\ reason' = IF vpc' = "done" THEN "missing" ELSE reason
  /\ UNCHANGED <<stored, rows, recorded, skipFiles, was, matched, changed, gone>>

\* _verify_per_file compares each recorded file that has a digest.
VerifyPerFile ==
  /\ vpc = "perFile" /\ vpc' = "global"
  /\ LET withHash == { p \in recorded : ~skipFiles /\ rows[p] # Missing }
     IN /\ gone'    = { p \in withHash : DigestAt(tree, p) = Missing }
        /\ matched' = { p \in withHash : DigestAt(tree, p) = rows[p] }
        /\ changed' = withHash \ (gone' \cup matched')
  /\ UNCHANGED <<tree, stored, rows, recorded, skipFiles, was, global, reason>>

\* The reason a failed global hash is reported with.
Reason == CASE skipFiles -> "unknown"
            [] ~skipFiles /\ changed # {} -> "content"
            [] ~skipFiles /\ changed = {} /\ gone # {} -> "moved"
            [] ~skipFiles /\ changed = {} /\ gone = {}
                 /\ recorded # {} /\ matched = recorded -> "names"
            [] OTHER -> "mismatch"

\* The global check.
VerifyGlobal ==
  /\ vpc = "global" /\ vpc' = "done"
  /\ global' = IF stored = Missing THEN "skip"
               ELSE IF HashTree(tree) = stored THEN "ok" ELSE "fail"
  /\ reason' = IF global' = "fail" THEN Reason ELSE ""
  /\ UNCHANGED <<tree, stored, rows, recorded, skipFiles, was, matched, changed, gone>>

VerifyNext == RecordHashes \/ TimePasses \/ VerifyPerFile \/ VerifyGlobal

VerifySpec == VerifyInit /\ [][VerifyNext]_verify

\* A check that passes is of the very files that were hashed, names included, and
\* a failure is blamed on content only when a recorded file did change, on moved
\* files or names only when every recorded file that had a digest and can still be
\* read in its place is as it was (hash_logarchive, _global_mismatch_reason).
VerifyTellsTheTruth ==
  /\ VerifyTypeOK
  /\ vpc = "done" =>
       /\ global = "ok" => \A p \in Relative : DigestAt(tree, p) = DigestAt(was, p)
       /\ reason = "content" =>
            \E p \in recorded : DigestAt(tree, p) \notin {DigestAt(was, p), Missing}
       /\ reason \in {"moved", "names"} =>
            /\ \E p \in Relative : DigestAt(tree, p) # DigestAt(was, p)
            /\ \A p \in recorded : DigestAt(was, p) # Missing =>
                 DigestAt(tree, p) \in {DigestAt(was, p), Missing}
       /\ reason = "names" =>
            \E p \in Relative \ recorded : DigestAt(tree, p) # DigestAt(was, p)
=============================================================================
