------------------------------- MODULE Source -------------------------------
(***************************************************************************)
(* Source preparation (ops/extraction/sources/): successive calls of       *)
(* prepare_source that lay evidence out as a logarchive under a work root, *)
(* hash it, hand it to the parser, re-hash it and clean up.  Evidence and  *)
(* work root can be changed from outside, and a call can be killed, so     *)
(* what the digests attest is a question about several steps.              *)
(***************************************************************************)
EXTENDS Naturals, Sequences, FiniteSetsExt

CONSTANTS
  Diagnostics,   \* relative paths of the files under diagnostics/
  Uuidtext,      \* relative paths of the files under uuidtext/
  ZipRoots,      \* how many root folders an FFS zip may hold: 1..ZipRoots
  MaxPreps,      \* bound: calls of prepare_source
  MaxTampers,    \* bound: changes from outside
  Window,        \* _FINGERPRINT_WINDOW
  ArchiveSizes,  \* bound: how many bytes an archive may have
  NoEntry        \* no file at this path of the work root

Paths     == Diagnostics \cup Uuidtext
\* A file of the evidence: the folder it lies in and its path below it.
Originals == ({"diagnostics"} \X Diagnostics) \cup ({"uuidtext"} \X Uuidtext)
Elsewhere == <<"", "">>
\* Bytes: where they come from, and how often they were changed from outside.
Data      == [from : Originals \cup {Elsewhere}, ver : 0..MaxTampers]

\* A file of the work root: another name of an original (link), or bytes of
\* its own; the call that put it there, and the zip root it was taken from.
Entry == [ link : Originals \cup {Elsewhere}, data : Data,
           by : 1..MaxPreps, zipRoot : 0..ZipRoots ]

SourceTypes == {"logarchive", "sysdiagnose", "faul", "filesystem", "loose_dirs"}
Archives    == {"sysdiagnose", "faul", "filesystem"}
Integrities == {"full", "fingerprint", "off"}

ASSUME SourceAssumption ==
  /\ MaxPreps \in Nat /\ MaxTampers \in Nat /\ ArchiveSizes \subseteq Nat
  /\ Window \in Nat \ {0} /\ ZipRoots \in Nat \ {0}
  /\ NoEntry \notin Entry

VARIABLES
  spc,        \* the next step of the call
  prep,       \* the number of the call
  kind,       \* source_type
  kept,       \* work_dir is given: the root is kept
  integrity,  \* the integrity mode
  zip,        \* an FFS zip: the <<root, original>> pairs it holds
  left,       \* the members still to be materialised
  originals,  \* the bytes of the evidence files
  archive,    \* the bytes of the single archive file, as versions
  snapshot,   \* archive_fingerprint, <<>> when there is none
  keptRoot,   \* <work_dir>/<name>.logarchive
  tempRoot,   \* the temporary work root
  sha,        \* file_hashes: the digest of each hashed path
  readAs,     \* what the parser read at each path
  verdict,    \* integrity_ok of each path: "none", "ok", "changed"
  intact,     \* verify_unchanged: "none", "yes", "no"
  stop,       \* the CancelToken
  tampers     \* how many changes came from outside

source == <<spc, prep, kind, kept, integrity, zip, left, originals, archive, snapshot,
            keptRoot, tempRoot, sha, readAs, verdict, intact, stop, tampers>>

SSteps == {"idle", "snapshot", "claim", "reset", "fill", "hash", "parse",
           "verify", "recheck"}
NoData == [from |-> Elsewhere, ver |-> 0]
EmptyRoot == [p \in Paths |-> NoEntry]
Archived  == {<<>>} \cup UNION { [1..n -> 0..MaxTampers] : n \in ArchiveSizes }

SourceTypeOK ==
  /\ spc \in SSteps /\ prep \in 0..MaxPreps /\ kind \in SourceTypes
  /\ kept \in BOOLEAN /\ integrity \in Integrities
  /\ zip \subseteq (1..ZipRoots) \X Originals
  /\ left \subseteq (0..ZipRoots) \X Originals
  /\ originals \in [Originals -> Data]
  /\ archive \in Archived
  /\ keptRoot \in [Paths -> Entry \cup {NoEntry}]
  /\ tempRoot \in [Paths -> Entry \cup {NoEntry}]
  /\ DOMAIN sha \subseteq Paths /\ DOMAIN readAs \subseteq Paths
  /\ \A p \in DOMAIN sha : sha[p] \in Data
  /\ \A p \in DOMAIN readAs : readAs[p] \in Data
  /\ verdict \in [Paths -> {"none", "ok", "changed"}]
  /\ intact \in {"none", "yes", "no"}
  /\ stop \in BOOLEAN /\ tampers \in 0..MaxTampers

SourceInit ==
  /\ spc = "idle" /\ prep = 0 /\ kind = "logarchive" /\ kept = FALSE
  /\ integrity = "full" /\ zip = {} /\ left = {}
  /\ originals = [o \in Originals |-> [from |-> o, ver |-> 0]]
  /\ archive = <<>> /\ snapshot = <<>>
  /\ keptRoot = EmptyRoot /\ tempRoot = EmptyRoot
  /\ sha = <<>> /\ readAs = <<>>
  /\ verdict = [p \in Paths |-> "none"] /\ intact = "none"
  /\ stop = FALSE /\ tampers = 0

-----------------------------------------------------------------------------
(* Ways to look at the evidence and the work root *)

root == IF kept THEN keptRoot ELSE tempRoot

\* Writing the root the call has.
SetRoot(r) == IF kept THEN keptRoot' = r /\ UNCHANGED tempRoot
                      ELSE tempRoot' = r /\ UNCHANGED keptRoot

\* What a reader of path p of the work root sees: a link shows the original.
Bytes(p) == IF root[p].link = Elsewhere THEN root[p].data
                                        ELSE originals[root[p].link]

Present == { p \in Paths : root[p] # NoEntry }

\* quick_fingerprint: head, size and the part of the tail beyond the head.
Fingerprinted(n) ==
  { i \in 1..n : i <= Window \/ (n > Window /\ i > n - Window) }

\* Mutant of Fingerprint: only the head is read.
FingerprintHead(a) ==
  <<Cardinality(DOMAIN a),
    [i \in { j \in DOMAIN a : j <= Window } |-> a[i]]>>

Fingerprint(a) ==
  <<Cardinality(DOMAIN a), [i \in Fingerprinted(Cardinality(DOMAIN a)) |-> a[i]]>>

\* What the call held in memory goes with it.
Forget == /\ kind' = "logarchive" /\ kept' = FALSE /\ integrity' = "full"
          /\ zip' = {} /\ left' = {} /\ sha' = <<>> /\ readAs' = <<>>
          /\ verdict' = [p \in Paths |-> "none"] /\ stop' = FALSE
          /\ tempRoot' = EmptyRoot

\* The call leaves: a temporary root is removed, by the handler's except clause
\* or by PreparedSource.__exit__, whatever the reason.
Leave ==
  /\ spc' = "idle"
  /\ Forget /\ archive' = <<>> /\ snapshot' = <<>>
  /\ UNCHANGED <<prep, originals, keptRoot, intact, tampers>>

-----------------------------------------------------------------------------
(* Detection and the work root *)

\* What _handler_for looks at, in priority order: a directory, the gzip magic,
\* a zip with the manifest marker, any other zip.
Matches(k) == CASE k = "logarchive"  -> {"directory"}
                [] k = "sysdiagnose" -> {"gzip"}
                [] k = "faul"        -> {"markedZip"}
                [] k = "filesystem"  -> {"zip", "markedZip"}
                [] OTHER             -> {}
Priority == [logarchive |-> 10, sysdiagnose |-> 20, faul |-> 30, filesystem |-> 40]
HandlerFor(content) ==
  CHOOSE k \in DOMAIN Priority :
    /\ content \in Matches(k)
    /\ \A j \in DOMAIN Priority : content \in Matches(j) => Priority[k] <= Priority[j]

\* prepare_source is called with a path or with the mapping of loose folders.
PrepareSource ==
  /\ spc = "idle" /\ prep < MaxPreps
  /\ prep' = prep + 1
  /\ kind' \in { HandlerFor(c) : c \in {"directory", "gzip", "markedZip", "zip"} }
               \cup {"loose_dirs"}
  /\ kept' \in IF kind' = "logarchive" THEN {FALSE} ELSE BOOLEAN
  /\ integrity' \in Integrities
  /\ left' = {}
  /\ zip' \in IF kind' = "filesystem" THEN SUBSET ((1..ZipRoots) \X Originals) ELSE {{}}
  /\ snapshot' = <<>> /\ sha' = <<>> /\ readAs' = <<>>
  /\ verdict' = [p \in Paths |-> "none"] /\ intact' = "none"
  /\ stop' = FALSE
  /\ spc' = CASE kind' \in Archives -> "snapshot"
             [] kind' = "loose_dirs" -> "claim"
             [] kind' = "logarchive" -> "hash"
  /\ archive' \in IF kind' \in Archives
                  THEN { [i \in 1..n |-> 0] : n \in ArchiveSizes } ELSE {<<>>}
  /\ UNCHANGED <<originals, keptRoot, tampers>>
  \* A logarchive directory is used in place, its files read through.
  /\ tempRoot' = IF kind' = "logarchive" /\ ~kept'
                 THEN [p \in Paths |->
                        IF p \in Diagnostics
                        THEN [link |-> <<"diagnostics", p>>, data |-> NoData,
                              by |-> prep', zipRoot |-> 0]
                        ELSE NoEntry]
                 ELSE EmptyRoot

\* The archive fingerprint, taken before anything is extracted.
Snapshot ==
  /\ spc = "snapshot"
  /\ snapshot' = IF integrity = "off" THEN <<>> ELSE Fingerprint(archive)
  /\ spc' = "claim"
  /\ UNCHANGED <<prep, kind, kept, integrity, zip, left, originals, archive, keptRoot,
                 tempRoot, sha, readAs, verdict, intact, stop, tampers>>

\* The root of an FFS zip that is extracted: the first that holds diagnostics,
\* or the first of all.
ChosenRoot ==
  LET roots == { e[1] : e \in zip }
      diag  == { e[1] : e \in { x \in zip : x[2][1] = "diagnostics" } }
  IN IF diag # {} THEN Min(diag) ELSE IF roots # {} THEN Min(roots) ELSE 0

\* What is materialised: the files of the chosen root of an FFS zip, every file
\* of any other source.
Members == IF kind = "filesystem" THEN { e \in zip : e[1] = ChosenRoot }
                                  ELSE {0} \X Originals

\* claim_work_root: an empty root is taken, one with files only when the
\* operator asked for a reset, a temporary one always.
ClaimWorkRoot ==
  /\ spc = "claim"
  /\ IF Present = {} THEN spc' = "fill" /\ left' = Members
                     ELSE spc' = "reset" /\ UNCHANGED left
  /\ UNCHANGED <<prep, kind, kept, integrity, zip, originals, archive, snapshot,
                 keptRoot, tempRoot, sha, readAs, verdict, intact, stop, tampers>>

\* Without --reset-work-dir a root that holds files is refused.
RefuseWorkRoot ==
  /\ spc = "claim" /\ Present # {}
  /\ Leave

\* Mutant of ResetWorkRoot: the existing files are left where they are.
ResetNothing ==
  /\ spc = "reset" /\ spc' = "fill" /\ left' = Members
  /\ UNCHANGED <<prep, kind, kept, integrity, zip, originals, archive, snapshot,
                 keptRoot, tempRoot, sha, readAs, verdict, intact, stop, tampers>>

\* shutil.rmtree, one file at a time, then the empty root is filled.
ResetWorkRoot ==
  /\ spc = "reset"
  /\ \/ /\ \E p \in Present : SetRoot([root EXCEPT ![p] = NoEntry])
        /\ UNCHANGED <<spc, left>>
     \/ Present = {} /\ spc' = "fill" /\ left' = Members /\ UNCHANGED <<keptRoot, tempRoot>>
  /\ UNCHANGED <<prep, kind, kept, integrity, zip, originals, archive, snapshot,
                 sha, readAs, verdict, intact, stop, tampers>>

-----------------------------------------------------------------------------
(* Materialising the evidence *)

\* loose folders are mirrored one after the other, diagnostics first; a zip or a
\* tarball gives its members in any order.
Turn(e) == kind = "loose_dirs" /\ e[2][1] = "uuidtext"
             => \A x \in left : x[2][1] = "uuidtext"

Filled(e) == left' = left \ {e} /\ UNCHANGED <<spc, prep, kind, kept, integrity,
               zip, archive, snapshot, sha, readAs, verdict, intact, stop, tampers>>

\* os.link gives the original a second name.
LinkFile(e) ==
  /\ spc = "fill" /\ kind = "loose_dirs" /\ e \in left /\ Turn(e) /\ ~stop
  /\ root[e[2][2]] = NoEntry
  /\ SetRoot([root EXCEPT ![e[2][2]] =
       [link |-> e[2], data |-> NoData, by |-> prep, zipRoot |-> 0]])
  /\ Filled(e) /\ UNCHANGED originals

\* os.link is not possible, here or because the name is taken: copyfile opens
\* the name for writing.  When the name is a link, the bytes written are those
\* of the original it links.
CopyFile(e) ==
  /\ spc = "fill" /\ kind = "loose_dirs" /\ e \in left /\ Turn(e) /\ ~stop
  /\ LET p == e[2][2]
         through == IF root[p] = NoEntry THEN Elsewhere ELSE root[p].link
     IN IF through = Elsewhere
        THEN /\ SetRoot([root EXCEPT ![p] = [link |-> Elsewhere,
                  data |-> originals[e[2]], by |-> prep, zipRoot |-> 0]])
             /\ UNCHANGED originals
        ELSE /\ originals' = [originals EXCEPT ![through] = originals[e[2]]]
             /\ UNCHANGED <<keptRoot, tempRoot>>
  /\ Filled(e)

\* A .faul checks the token once, before its first member; the others check it
\* before each.
Checks == kind = "faul" => left = Members

\* A member of a zip, a tarball or a .faul is written to a file of its own; a
\* second member of the same name replaces the first.
ExtractMember(e) ==
  /\ spc = "fill" /\ kind \in Archives /\ e \in left /\ ~(stop /\ Checks)
  /\ SetRoot([root EXCEPT ![e[2][2]] = [link |-> Elsewhere,
       data |-> [from |-> e[2], ver |-> 0], by |-> prep, zipRoot |-> e[1]]])
  /\ Filled(e) /\ UNCHANGED originals

\* Everything is in place; a source with no log file is refused.
FillDone ==
  /\ spc = "fill" /\ left = {} /\ Present # {}
  /\ spc' = "hash"
  /\ UNCHANGED <<prep, kind, kept, integrity, zip, left, originals, archive,
                 snapshot, keptRoot, tempRoot, sha, readAs, verdict, intact,
                 stop, tampers>>

\* The disk is full, a member is damaged or would leave the root, or there is
\* nothing to parse.
FillFails == spc \in {"snapshot", "fill"} /\ Leave

-----------------------------------------------------------------------------
(* The two digests, and what is parsed between them *)

Kept3 == UNCHANGED <<prep, kind, kept, integrity, zip, left, originals, archive,
                     snapshot, keptRoot, tempRoot, stop, tampers>>

\* hash_for_mode: in full mode the file is hashed, a file that cannot be read
\* is passed over.
HashSourceFile(p) ==
  /\ spc = "hash" /\ integrity = "full" /\ ~stop
  /\ p \in Present \ DOMAIN sha
  /\ sha' = [x \in DOMAIN sha \cup {p} |-> IF x = p THEN Bytes(p) ELSE sha[x]]
  /\ UNCHANGED <<spc, readAs, verdict, intact>> /\ Kept3

HashDone ==
  /\ spc = "hash"
  /\ integrity = "full" /\ DOMAIN sha # Present => ~stop
  /\ spc' = "parse"
  /\ UNCHANGED <<sha, readAs, verdict, intact>> /\ Kept3

\* The pipeline reads a file of the root ...
ParseFile(p) ==
  /\ spc = "parse" /\ p \in Present \ DOMAIN readAs
  /\ readAs' = [x \in DOMAIN readAs \cup {p} |-> IF x = p THEN Bytes(p) ELSE readAs[x]]
  /\ UNCHANGED <<spc, sha, verdict, intact>> /\ Kept3

\* ... and goes on to the re-verification, which only full mode has.
ParseDone ==
  /\ spc = "parse" /\ ~stop
  /\ spc' = IF integrity = "full" THEN "verify" ELSE "recheck"
  /\ UNCHANGED <<sha, readAs, verdict, intact>> /\ Kept3

\* verify_source_files re-hashes a registered file; one without a baseline, or
\* that cannot be read, has no verdict.
VerifyFile(p) ==
  /\ spc = "verify" /\ ~stop
  /\ p \in DOMAIN readAs \cap DOMAIN sha \cap Present /\ verdict[p] = "none"
  /\ verdict' = [verdict EXCEPT ![p] = IF Bytes(p) = sha[p] THEN "ok" ELSE "changed"]
  /\ UNCHANGED <<spc, sha, readAs, intact>> /\ Kept3

VerifyDone ==
  /\ spc = "verify" /\ ~stop
  /\ spc' = "recheck"
  /\ UNCHANGED <<sha, readAs, verdict, intact>> /\ Kept3

\* verify_unchanged compares the archive with its snapshot, and the root goes.
RecheckArchive ==
  /\ spc = "recheck"
  /\ intact' = IF snapshot = <<>> \/ Fingerprint(archive) = snapshot THEN "yes" ELSE "no"
  /\ spc' = "idle" /\ Forget
  /\ UNCHANGED <<prep, originals, archive, snapshot, keptRoot, tampers>>

\* OperationCancelled, at the next check.
SourceCancelled ==
  /\ stop
  /\ \/ spc = "fill" /\ left # {} /\ Checks
     \/ spc = "hash" /\ integrity = "full" /\ DOMAIN sha # Present
     \/ spc \in {"parse", "verify"}
  /\ Leave

SourceFails == spc \in {"hash", "parse", "verify"} /\ Leave

-----------------------------------------------------------------------------
(* The outside *)

SetStop ==
  /\ spc # "idle" /\ ~stop /\ stop' = TRUE
  /\ UNCHANGED <<spc, prep, kind, kept, integrity, zip, left, originals, archive,
                 snapshot, keptRoot, tempRoot, sha, readAs, verdict, intact,
                 tampers>>

\* The process is killed: a kept root stays as it is; the temporary directory
\* stays too, under a name no later call uses.
KillSource ==
  /\ spc # "idle"
  /\ Leave

\* Someone changes an evidence file, a file of the root, or a byte of the archive, and does
\* not change it back: a change undone before the check reads again is seen by no digest.
Tamper ==
  /\ spc # "idle" /\ tampers < MaxTampers
  /\ tampers' = tampers + 1
  /\ \/ /\ \E o \in Originals : originals' = [originals EXCEPT ![o].ver = tampers']
        /\ UNCHANGED <<archive, keptRoot, tempRoot>>
     \/ /\ \E p \in Present : /\ root[p].link = Elsewhere
                              /\ SetRoot([root EXCEPT ![p].data.ver = tampers'])
        /\ UNCHANGED <<originals, archive>>
     \/ /\ \E i \in DOMAIN archive : archive' = [archive EXCEPT ![i] = tampers']
        /\ UNCHANGED <<originals, keptRoot, tempRoot>>
  /\ UNCHANGED <<spc, prep, kind, kept, integrity, zip, left, snapshot, sha,
                 readAs, verdict, intact, stop>>

SourceNext ==
  \/ PrepareSource \/ Snapshot \/ ClaimWorkRoot \/ RefuseWorkRoot \/ ResetWorkRoot
  \/ \E e \in left : LinkFile(e) \/ CopyFile(e) \/ ExtractMember(e)
  \/ FillDone \/ FillFails
  \/ \E p \in Paths : HashSourceFile(p) \/ ParseFile(p) \/ VerifyFile(p)
  \/ HashDone \/ ParseDone \/ VerifyDone \/ RecheckArchive
  \/ SourceCancelled \/ SourceFails \/ SetStop \/ KillSource \/ Tamper

SourceSpec == SourceInit /\ [][SourceNext]_source

-----------------------------------------------------------------------------
(* What preparation promises *)

\* What is hashed and parsed as this acquisition was put under the root by this
\* call, and an FFS zip contributes the files of one of its roots only, one that
\* holds diagnostics when there is any (claim_work_root, filesystem._extract).
NoForeignEvidence ==
  /\ SourceTypeOK
  /\ spc \in {"hash", "parse", "verify", "recheck"} =>
       /\ \A p \in Present : root[p].by = prep
       /\ kind = "filesystem" =>
            \E r \in 1..ZipRoots :
              /\ \A p \in Present : root[p].zipRoot = r
              /\ (\E e \in zip : e[2][1] = "diagnostics")
                   => \E e \in zip : e = <<r, e[2]>> /\ e[2][1] = "diagnostics"

\* A file that ends up "unchanged" was parsed as it was hashed, and an archive
\* found intact is the archive that was snapshot when both windows cover it:
\* the two halves of the attestation enclose the reading (verify_source_files,
\* quick_fingerprint, verify_unchanged).
AttestationIsTrue ==
  /\ \A p \in Paths : verdict[p] = "ok" => readAs[p] = sha[p]
  /\ intact = "yes" /\ snapshot # <<>> /\ Len(archive) <= 2 * Window
       => archive = snapshot[2]

\* Nothing the tool does changes a byte of the evidence it was given
\* (mirror_tree: "The originals are only ever read").  Violated when a diagnostics
\* and a uuidtext directory hold a file of the same relative path.
OriginalsOnlyRead == \A o \in Originals : originals[o].from = o
=============================================================================
