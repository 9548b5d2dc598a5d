--------------------------- MODULE CustodyProofs ---------------------------
(***************************************************************************)
(* Proofs about the chain of custody, for any sets of files, devices,      *)
(* outputs and contents and any number of calls and of changes from        *)
(* outside: five stages by an inductive invariant each, and the chain from *)
(* its stages.  The sixth, the pipeline, is the subject of ExtractProofs.  *)
(***************************************************************************)
EXTENDS CustodyMC, FiniteSetTheorems, SequenceTheorems, WellFoundedInduction, TLAPS

------------------------------------------------------------------------------
(* Acquisition *)

Early == {"connect", "name", "confirm", "collect"}

\* Everything the device sent is in the collection when hashing begins, and
\* stays there until the call is over.
CollectionIsWhole ==
  (apc = "collect" /\ task = "done")
    \/ apc \in {"hash", "pack", "replace", "promote", "report", "reportReplace"}
  => collected = DeviceFiles

\* A name is taken last: the container when it is whole, the directory by the
\* rename before its report.
NamedLast ==
  /\ apc # "ended" => faul = None /\ report = None
  /\ apc = "replace" => faulTmp = collected
  /\ faul # None => faul.entries = DeviceFiles
  /\ place = "final" => apc \in {"report", "reportReplace", "ended"}
                          /\ collected = DeviceFiles
  /\ apc \in {"report", "reportReplace"} => place = "final"
  /\ report # None => place = "final"

\* A token set before hashing is still set at the first file, which is then not
\* hashed: the call gets no further.
ToldEarly ==
  /\ apc = "idle" => told = "never"
  /\ apc \in {"idle"} \cup Early => hashes = {}
  /\ told \in Early => /\ token = "set"
                       /\ apc \in Early \cup {"hash", "ended"}
                       /\ apc = "hash" => hashes = {}
                       /\ faul = None /\ place # "final"

AcquireInv == AcquireTypeOK /\ CollectionIsWhole /\ NamedLast /\ ToldEarly

LEMMA AcquireInitInv == AcquireInit => AcquireInv
<1> SUFFICES ASSUME AcquireInit PROVE AcquireInv
  OBVIOUS
<1>1. AcquireTypeOK
  BY DEF AcquireInit, AcquireTypeOK, ASteps, AEnds
<1>2. CollectionIsWhole /\ NamedLast /\ ToldEarly
  BY DEF AcquireInit, CollectionIsWhole, NamedLast, ToldEarly, Early
<1> QED
  BY <1>1, <1>2 DEF AcquireInv

\* An exception before a name is taken.
LEMMA RaiseStep ==
  ASSUME AcquireInv, NEW how \in AEnds, NEW closes \in BOOLEAN,
         apc \notin {"idle", "report", "reportReplace", "ended"},
         Raise(how, closes)
  PROVE  AcquireInv'
<1> USE DEF AcquireInv
<1>1. /\ apc' = "ended" /\ aend' = how /\ lockdown' = (lockdown /\ ~closes)
      /\ faulTmp' = None
      /\ UNCHANGED <<pack, token, udid, device, task, hashes, faul, report,
                     reportTmp, told>>
  BY DEF Raise
<1>2. \/ place' = "none" /\ collected' = {}
      \/ UNCHANGED <<place, collected>>
  BY DEF Raise, DropTemporary
<1>3. AcquireTypeOK'
  BY <1>1, <1>2 DEF AcquireTypeOK, ASteps
<1>4. CollectionIsWhole' /\ NamedLast'
  BY <1>1, <1>2 DEF CollectionIsWhole, NamedLast
<1>5. ToldEarly'
  BY <1>1, <1>2 DEF ToldEarly, Early
<1> QED
  BY <1>3, <1>4, <1>5

LEMMA AcquireStep == AcquireInv /\ [AcquireNext]_acquisition => AcquireInv'
<1> SUFFICES ASSUME AcquireInv, [AcquireNext]_acquisition PROVE AcquireInv'
  OBVIOUS
<1> USE DEF AcquireInv, Checked
<1>1. \A how \in {"cancelled", "failed", "aborted"} : how \in AEnds
  BY DEF AEnds
<1>2. CASE ConnectFails \/ NameFails \/ Declined \/ CollectionCancelled
             \/ CollectionFailed \/ HashCancelled \/ PackFails \/ PromoteFails
  <2>1. apc \notin {"idle", "report", "reportReplace", "ended"}
    BY <1>2 DEF ConnectFails, NameFails, Declined, CollectionCancelled,
       CollectionFailed, HashCancelled, PackFails, PromoteFails
  <2>2. \E how \in {"cancelled", "failed", "aborted"}, closes \in BOOLEAN :
          Raise(how, closes)
    BY <1>2 DEF ConnectFails, NameFails, Declined, CollectionCancelled,
       CollectionFailed, HashCancelled, PackFails, PromoteFails
  <2> QED
    BY <1>1, <2>1, <2>2, RaiseStep
<1>3. CASE Call
  <2>1. AcquireTypeOK'
    BY <1>3 DEF Call, AcquireTypeOK, ASteps
  <2>2. CollectionIsWhole' /\ NamedLast' /\ ToldEarly'
    BY <1>3 DEF Call, CollectionIsWhole, NamedLast, ToldEarly, Early
  <2> QED
    BY <2>1, <2>2
<1>4. ASSUME NEW d \in Devices, Connect(d) PROVE AcquireInv'
  <2>1. AcquireTypeOK'
    BY <1>4 DEF Connect, AcquireTypeOK, ASteps
  <2>2. CollectionIsWhole' /\ NamedLast' /\ ToldEarly'
    BY <1>4 DEF Connect, CollectionIsWhole, NamedLast, ToldEarly, Early
  <2> QED
    BY <2>1, <2>2
<1>5. CASE NameOutput
  <2>1. AcquireTypeOK'
    BY <1>5 DEF NameOutput, AcquireTypeOK, ASteps
  <2>2. CollectionIsWhole' /\ NamedLast' /\ ToldEarly'
    BY <1>5 DEF NameOutput, CollectionIsWhole, NamedLast, ToldEarly, Early
  <2> QED
    BY <2>1, <2>2
<1>6. CASE Confirm
  <2>1. AcquireTypeOK'
    BY <1>6 DEF Confirm, AcquireTypeOK, ASteps
  <2>2. CollectionIsWhole' /\ NamedLast' /\ ToldEarly'
    BY <1>6 DEF Confirm, CollectionIsWhole, NamedLast, ToldEarly, Early
  <2> QED
    BY <2>1, <2>2
<1>7. ASSUME NEW f \in DeviceFiles, CollectFile(f) PROVE AcquireInv'
  <2>1. AcquireTypeOK'
    BY <1>7 DEF CollectFile, AcquireTypeOK
  <2>2. CollectionIsWhole' /\ NamedLast' /\ ToldEarly'
    BY <1>7 DEF CollectFile, CollectionIsWhole, NamedLast, ToldEarly, Early
  <2> QED
    BY <2>1, <2>2
<1>8. CASE CollectionEnds
  <2>1. AcquireTypeOK'
    BY <1>8 DEF CollectionEnds, AcquireTypeOK
  <2>2. CollectionIsWhole' /\ NamedLast' /\ ToldEarly'
    BY <1>8 DEF CollectionEnds, CollectionIsWhole, NamedLast, ToldEarly, Early
  <2> QED
    BY <2>1, <2>2
<1>9. CASE Collected
  <2>1. AcquireTypeOK'
    <3>1. lockdown' \in BOOLEAN
      BY <1>9 DEF Collected
    <3> QED
      BY <1>9, <3>1 DEF Collected, AcquireTypeOK, ASteps
  <2>2. CollectionIsWhole' /\ NamedLast' /\ ToldEarly'
    BY <1>9 DEF Collected, CollectionIsWhole, NamedLast, ToldEarly, Early
  <2> QED
    BY <2>1, <2>2
<1>10. ASSUME NEW f \in DeviceFiles, HashFile(f) PROVE AcquireInv'
  <2>1. AcquireTypeOK'
    BY <1>10 DEF HashFile, AcquireTypeOK, ASteps
  <2>2. CollectionIsWhole' /\ NamedLast' /\ ToldEarly'
    BY <1>10 DEF HashFile, CollectionIsWhole, NamedLast, ToldEarly, Early
  <2> QED
    BY <2>1, <2>2
<1>11. CASE HashingDone
  <2>1. AcquireTypeOK'
    BY <1>11 DEF HashingDone, AcquireTypeOK, ASteps
  <2>2. told \notin Early
    BY <1>11, AcquireAssumption DEF HashingDone, CollectionIsWhole, ToldEarly
  <2>3. CollectionIsWhole' /\ NamedLast' /\ ToldEarly'
    BY <1>11, <2>2 DEF HashingDone, CollectionIsWhole, NamedLast, ToldEarly, Early
  <2> QED
    BY <2>1, <2>3
<1>12. CASE PackEntry
  <2>1. AcquireTypeOK'
    BY <1>12 DEF PackEntry, AcquireTypeOK, ASteps
  <2>2. CollectionIsWhole' /\ NamedLast' /\ ToldEarly'
    BY <1>12 DEF PackEntry, CollectionIsWhole, NamedLast, ToldEarly, Early
  <2> QED
    BY <2>1, <2>2
<1>13. CASE ReplaceContainer
  <2>1. /\ faul' = [entries |-> DeviceFiles, sidecar |-> hashes]
        /\ faulTmp' = None /\ apc' = "ended" /\ aend' = "ok"
        /\ UNCHANGED <<pack, token, udid, device, lockdown, task, hashes,
                       report, reportTmp, told>>
        /\ apc = "replace"
    BY <1>13 DEF ReplaceContainer, CollectionIsWhole, NamedLast
  <2>2. \/ place' = "none" /\ collected' = {}
        \/ UNCHANGED <<place, collected>>
    BY <1>13 DEF ReplaceContainer, DropTemporary
  <2>3. AcquireTypeOK'
    BY <2>1, <2>2 DEF AcquireTypeOK, ASteps, AEnds, Container
  <2>4. CollectionIsWhole' /\ NamedLast'
    BY <2>1, <2>2 DEF CollectionIsWhole, NamedLast
  <2>5. ToldEarly'
    BY <2>1, <2>2 DEF ToldEarly, Early
  <2> QED
    BY <2>3, <2>4, <2>5
<1>14. CASE Promote
  <2>1. AcquireTypeOK'
    BY <1>14 DEF Promote, AcquireTypeOK, ASteps
  <2>2. CollectionIsWhole' /\ NamedLast' /\ ToldEarly'
    BY <1>14 DEF Promote, CollectionIsWhole, NamedLast, ToldEarly, Early
  <2> QED
    BY <2>1, <2>2
<1>15. CASE WriteReport
  <2>1. AcquireTypeOK'
    BY <1>15 DEF WriteReport, AcquireTypeOK, ASteps
  <2>2. CollectionIsWhole' /\ NamedLast' /\ ToldEarly'
    BY <1>15 DEF WriteReport, CollectionIsWhole, NamedLast, ToldEarly, Early
  <2> QED
    BY <2>1, <2>2
<1>16. CASE ReplaceReport \/ ReportFails
  <2>1. AcquireTypeOK'
    BY <1>16 DEF ReplaceReport, ReportFails, AcquireTypeOK, ASteps, AEnds
  <2>2. CollectionIsWhole' /\ NamedLast' /\ ToldEarly'
    BY <1>16 DEF ReplaceReport, ReportFails, CollectionIsWhole, NamedLast,
       ToldEarly, Early
  <2> QED
    BY <2>1, <2>2
<1>17. CASE Cancel
  <2>1. AcquireTypeOK'
    BY <1>17 DEF Cancel, AcquireTypeOK
  <2>2. CollectionIsWhole' /\ NamedLast' /\ ToldEarly'
    BY <1>17 DEF Cancel, CollectionIsWhole, NamedLast, ToldEarly, Early
  <2> QED
    BY <2>1, <2>2
<1>18. CASE KillAcquire
  <2>1. AcquireTypeOK'
    <3>1. lockdown' \in BOOLEAN
      BY <1>18 DEF KillAcquire
    <3> QED
      BY <1>18, <3>1 DEF KillAcquire, AcquireTypeOK, ASteps, AEnds
  <2>2. CollectionIsWhole' /\ NamedLast' /\ ToldEarly'
    BY <1>18 DEF KillAcquire, CollectionIsWhole, NamedLast, ToldEarly, Early
  <2> QED
    BY <2>1, <2>2
<1>19. CASE UNCHANGED acquisition
  BY <1>19 DEF acquisition, AcquireTypeOK, CollectionIsWhole, NamedLast, ToldEarly
<1> QED
  BY <1>2, <1>3, <1>4, <1>5, <1>6, <1>7, <1>8, <1>9, <1>10, <1>11, <1>12,
     <1>13, <1>14, <1>15, <1>16, <1>17, <1>18, <1>19 DEF AcquireNext

\* However an acquisition ends and wherever it is cut off, an output under its
\* final name, directory or container, holds every file the device sent: it is
\* named by a rename, after the collection and the hashing (acquire.py).
THEOREM AcquisitionIsWhole == AcquireSpec => []OutputIsWhole
<1>1. AcquireInv => OutputIsWhole
  BY DEF AcquireInv, NamedLast, OutputIsWhole
<1> QED
  BY <1>1, AcquireInitInv, AcquireStep, PTL DEF AcquireSpec

\* An analyst who stops an acquisition before it hashes finds nothing under the
\* output's name: the token is looked at before the first file is hashed.
THEOREM StoppedEarlyLeavesNothing == AcquireSpec => []CancelLeavesNoOutput
<1>1. AcquireInv => CancelLeavesNoOutput
  BY DEF AcquireInv, ToldEarly, Early, CancelLeavesNoOutput
<1> QED
  BY <1>1, AcquireInitInv, AcquireStep, PTL DEF AcquireSpec

------------------------------------------------------------------------------
(* Preparation of a source *)

\* The least of some numbers is one of them.
LEMMA SmallestIsOf == ASSUME NEW S, S \subseteq Nat, S # {}
                      PROVE  Min(S) \in S
<1>1. PICK x \in S : \A y \in S : <<y, x>> \notin OpToRel(<, Nat)
  BY WFMin, NatLessThanWellFounded, Zenon
<1>2. \A y \in S : ~(y < x)
  BY <1>1, Zenon DEF OpToRel
<1>3. \E m \in S : \A y \in S : m <= y
  BY <1>2
<1> QED
  BY <1>3, Zenon DEF Min

Roots == [Paths -> Entry \cup {NoEntry}]
Placed == {"fill", "hash", "parse", "verify", "recheck"}
Looking == {"hash", "parse", "verify", "recheck"}

\* From the moment the root is filled all that is in it is of this call, of the
\* chosen root of a zip, and no newer than the last change from outside.
OfThisCall ==
  /\ spc # "idle" => prep \in 1..MaxPreps
  /\ spc = "fill" => left \subseteq Members
  /\ spc \in Placed => \A p \in Present :
       /\ root[p].by = prep /\ root[p].data.ver <= tampers
       /\ kind = "filesystem" => /\ root[p].zipRoot = ChosenRoot
                                 /\ \E e \in zip : e[1] = ChosenRoot
  /\ spc \in Looking /\ kind = "filesystem" => Present # {}
  /\ \A o \in Originals : originals[o].ver <= tampers

\* What was hashed, and then what was parsed, came from where the path still
\* leads, in the order of its versions.
InOrder ==
  /\ spc \notin Looking => DOMAIN sha = {}
  /\ spc \notin Looking \ {"hash"} => DOMAIN readAs = {}
  /\ \A p \in DOMAIN sha :
       p \in Present /\ sha[p].from = Bytes(p).from /\ sha[p].ver <= Bytes(p).ver
  /\ \A p \in DOMAIN readAs :
       p \in Present /\ readAs[p].from = Bytes(p).from /\ readAs[p].ver <= Bytes(p).ver
  /\ \A p \in DOMAIN sha \cap DOMAIN readAs : sha[p].ver <= readAs[p].ver

Judged ==
  /\ spc \notin {"verify", "recheck"} => \A p \in Paths : verdict[p] = "none"
  /\ \A p \in Paths : verdict[p] = "ok" =>
       p \in DOMAIN sha \cap DOMAIN readAs /\ readAs[p] = sha[p]

Rechecked ==
  /\ spc # "idle" => intact = "none"
  /\ intact = "yes" /\ snapshot # <<>> => Fingerprint(archive) = snapshot

SourceInv == SourceTypeOK /\ OfThisCall /\ InOrder /\ Judged /\ Rechecked

-----------------------------------------------------------------------------
(* The operators *)

LEMMA SourceKinds ==
  /\ \A c \in {"directory", "gzip", "markedZip", "zip"} :
       HandlerFor(c) \in {"logarchive", "sysdiagnose", "faul", "filesystem"}
<1> DEFINE D == {"logarchive", "sysdiagnose", "faul", "filesystem"}
<1>1. DOMAIN Priority = D
  BY DEF Priority
<1>2. ASSUME NEW c \in {"directory", "gzip", "markedZip", "zip"}
      PROVE  \E k \in D : /\ c \in Matches(k)
                          /\ \A j \in D : c \in Matches(j) => Priority[k] <= Priority[j]
  <2>1. CASE c = "directory"
    BY <2>1 DEF Matches, Priority
  <2>2. CASE c = "gzip"
    BY <2>2 DEF Matches, Priority
  <2>3. CASE c = "markedZip"
    BY <2>3 DEF Matches, Priority
  <2>4. CASE c = "zip"
    BY <2>4 DEF Matches, Priority
  <2> QED
    BY <2>1, <2>2, <2>3, <2>4
<1> QED
  BY <1>1, <1>2, Zenon DEF HandlerFor

LEMMA WorkRootTyped ==
  ASSUME SourceTypeOK
  PROVE  /\ root \in Roots
         /\ \A p \in Present : p \in Paths /\ root[p] \in Entry
         /\ \A p \in Present : Bytes(p) \in Data
         /\ \A p \in Present : root[p].link = Elsewhere \/ root[p].link \in Originals
         /\ \A p \in Present : root[p].data \in Data /\ root[p].data.ver \in Nat
<1>1. root \in Roots
  BY DEF root, Roots, SourceTypeOK
<1>2. \A p \in Present : p \in Paths /\ root[p] \in Entry
  BY <1>1 DEF Present, Roots
<1>3. \A e \in Entry : /\ e.link = Elsewhere \/ e.link \in Originals
                       /\ e.data \in Data
  BY DEF Entry
<1>4. \A p \in Present : Bytes(p) \in Data
  BY <1>2, <1>3 DEF Bytes, SourceTypeOK
<1>5. \A d \in Data : d.ver \in Nat
  BY DEF Data
<1> QED
  BY <1>1, <1>2, <1>3, <1>4, <1>5

LEMMA RootSet ==
  ASSUME SourceTypeOK, NEW r \in Roots, SetRoot(r), kept' = kept
  PROVE  keptRoot' \in Roots /\ tempRoot' \in Roots /\ root' = r
BY DEF SetRoot, root, Roots, SourceTypeOK

LEMMA MembersTyped ==
  ASSUME SourceTypeOK
  PROVE  /\ Members \subseteq (0..ZipRoots) \X Originals
         /\ \A e \in Members : kind = "filesystem" =>
              e[1] = ChosenRoot /\ e \in zip
<1>1. ZipRoots \in Nat
  BY SourceAssumption
<1> QED
  BY <1>1 DEF Members, SourceTypeOK

LEMMA EmptyRootTyped == EmptyRoot \in Roots
BY DEF EmptyRoot, Roots

-----------------------------------------------------------------------------
(* The invariant *)

LEMMA SourceInitInv == SourceInit => SourceInv
<1> SUFFICES ASSUME SourceInit PROVE SourceInv
  OBVIOUS
<1>1. MaxTampers \in Nat /\ MaxPreps \in Nat
  BY SourceAssumption
<1>2. originals \in [Originals -> Data]
  BY <1>1 DEF SourceInit, Data
<1>3. SourceTypeOK
  <2>1. /\ spc \in SSteps /\ kind \in SourceTypes /\ kept \in BOOLEAN
        /\ integrity \in Integrities /\ archive \in Archived
        /\ intact \in {"none", "yes", "no"} /\ stop \in BOOLEAN
    BY DEF SourceInit, SSteps, SourceTypes, Integrities, Archived
  <2>2. /\ prep \in 0..MaxPreps /\ tampers \in 0..MaxTampers
        /\ verdict \in [Paths -> {"none", "ok", "changed"}]
    BY <1>1 DEF SourceInit
  <2>3. /\ DOMAIN sha \subseteq Paths /\ DOMAIN readAs \subseteq Paths
        /\ \A p \in DOMAIN sha : sha[p] \in Data
        /\ \A p \in DOMAIN readAs : readAs[p] \in Data
    BY DEF SourceInit
  <2>4. zip = {} /\ left = {}
    BY DEF SourceInit
  <2>5. keptRoot \in Roots /\ tempRoot \in Roots
    BY EmptyRootTyped DEF SourceInit
  <2> QED
    BY <1>2, <2>1, <2>2, <2>3, <2>4, <2>5 DEF SourceTypeOK, Roots
<1>4. OfThisCall
  BY <1>1 DEF SourceInit, OfThisCall, Placed, Looking
<1>5. InOrder /\ Judged /\ Rechecked
  BY DEF SourceInit, InOrder, Judged, Rechecked, Looking
<1> QED
  BY <1>3, <1>4, <1>5 DEF SourceInv

\* A call that ends takes with it all that the invariant speaks of.
LEMMA ForgetStep ==
  ASSUME SourceInv, spc # "idle", Forget, spc' = "idle",
         archive' \in Archived, intact' \in {"none", "yes", "no"},
         intact' = "yes" /\ snapshot' # <<>> => Fingerprint(archive') = snapshot',
         UNCHANGED <<prep, originals, keptRoot, tampers>>
  PROVE  SourceInv'
<1> USE DEF SourceInv
<1>1. SourceTypeOK'
  <2>1. /\ spc' \in SSteps /\ kind' \in SourceTypes /\ kept' \in BOOLEAN
        /\ integrity' \in Integrities /\ stop' \in BOOLEAN
        /\ zip' = {} /\ left' = {}
        /\ verdict' \in [Paths -> {"none", "ok", "changed"}]
    BY DEF Forget, SSteps, SourceTypes, Integrities
  <2>2. /\ DOMAIN sha' \subseteq Paths /\ DOMAIN readAs' \subseteq Paths
        /\ \A p \in DOMAIN sha' : sha'[p] \in Data
        /\ \A p \in DOMAIN readAs' : readAs'[p] \in Data
    BY DEF Forget
  <2>3. tempRoot' \in Roots
    BY EmptyRootTyped DEF Forget
  <2> QED
    BY <2>1, <2>2, <2>3 DEF SourceTypeOK, Roots
<1>2. OfThisCall'
  BY DEF Forget, OfThisCall, Placed, Looking
<1>3. InOrder' /\ Judged'
  BY DEF Forget, InOrder, Judged, Looking
<1>4. Rechecked'
  BY DEF Rechecked, Fingerprint, Fingerprinted
<1> QED
  BY <1>1, <1>2, <1>3, <1>4

LEMMA LeaveStep == ASSUME SourceInv, spc # "idle", Leave PROVE SourceInv'
<1>1. /\ Forget /\ spc' = "idle" /\ archive' = <<>> /\ snapshot' = <<>>
      /\ UNCHANGED <<prep, originals, keptRoot, intact, tampers>>
  BY DEF Leave
<1>2. archive' \in Archived /\ intact' \in {"none", "yes", "no"}
  BY <1>1 DEF Archived, SourceInv, SourceTypeOK
<1> QED
  BY <1>1, <1>2, ForgetStep

\* A step that leaves the evidence and the root as they are.
LEMMA RootKept ==
  ASSUME UNCHANGED <<kind, kept, zip, originals, keptRoot, tempRoot>>
  PROVE  /\ root' = root /\ Present' = Present /\ Members' = Members
         /\ ChosenRoot' = ChosenRoot
         /\ \A p \in Paths : Bytes(p)' = Bytes(p)
BY DEF root, Present, Members, ChosenRoot, Bytes

\* Up to the filled root: nothing is hashed yet.
LEMMA LayStep ==
  ASSUME SourceInv, UNCHANGED <<prep, kind, kept, integrity, zip, originals, archive,
                                keptRoot, tempRoot, sha, readAs, verdict, intact, tampers>>,
         spc # "idle",
         \/ spc' = spc /\ left' = left
         \/ spc \in {"snapshot", "claim"} /\ spc' \in {"claim", "reset"} /\ left' = left
         \/ spc \in {"claim", "reset"} /\ spc' = "fill" /\ Present = {} /\ left' = Members
         \/ spc = "fill" /\ spc' = "hash" /\ Present # {} /\ left' = left,
         stop' \in BOOLEAN
  PROVE  SourceInv'
<1> USE DEF SourceInv
<1>1. SourceTypeOK'
  BY MembersTyped DEF SourceTypeOK, SSteps
<1>2. OfThisCall'
  BY RootKept DEF OfThisCall, Placed, Looking
<1>3. InOrder'
  <2>1. \A p \in Present : p \in Paths
    BY DEF Present
  <2> QED
    BY <2>1, RootKept DEF InOrder, Looking
<1>4. Judged'
  BY DEF Judged
<1>5. Rechecked'
  BY DEF Rechecked, Fingerprint, Fingerprinted
<1> QED
  BY <1>1, <1>2, <1>3, <1>4, <1>5

\* One member is written to a file of its own, or linked.
LEMMA PlaceStep ==
  ASSUME SourceInv, spc = "fill", NEW e \in left, Filled(e), UNCHANGED originals,
         NEW p \in Paths, NEW x \in Entry, SetRoot([root EXCEPT ![p] = x]),
         x.by = prep, x.data.ver <= tampers,
         kind = "filesystem" => x.zipRoot = e[1]
  PROVE  SourceInv'
<1> USE DEF SourceInv
<1>1. /\ left' = left \ {e}
      /\ UNCHANGED <<spc, prep, kind, kept, integrity, zip, archive, snapshot, sha,
                     readAs, verdict, intact, stop, tampers>>
  BY DEF Filled
<1>2. [root EXCEPT ![p] = x] \in Roots /\ root \in Roots
  BY WorkRootTyped DEF Roots
<1>3. keptRoot' \in Roots /\ tempRoot' \in Roots /\ root' = [root EXCEPT ![p] = x]
  BY <1>1, <1>2, RootSet
<1>4. SourceTypeOK'
  BY <1>1, <1>3 DEF SourceTypeOK, Roots
<1>5. Members' = Members /\ ChosenRoot' = ChosenRoot
  BY <1>1 DEF Members, ChosenRoot
<1>6. kind = "filesystem" => e[1] = ChosenRoot /\ e \in zip
  BY MembersTyped DEF OfThisCall
<1>7. \A q \in Present' : q = p \/ (q \in Present /\ root'[q] = root[q])
  BY <1>2, <1>3 DEF Present, Roots
<1>8. root'[p] = x
  BY <1>2, <1>3 DEF Roots
<1>9. OfThisCall'
  <2>1. \A q \in Present' :
          /\ root'[q].by = prep' /\ root'[q].data.ver <= tampers'
          /\ kind' = "filesystem" => /\ root'[q].zipRoot = ChosenRoot'
                                     /\ \E y \in zip' : y[1] = ChosenRoot'
    BY <1>1, <1>5, <1>6, <1>7, <1>8 DEF OfThisCall, Placed
  <2> QED
    BY <1>1, <1>5, <2>1 DEF OfThisCall, Placed, Looking
<1>10. InOrder' /\ Judged' /\ Rechecked'
  BY <1>1 DEF InOrder, Judged, Rechecked, Looking, Fingerprint, Fingerprinted
<1> QED
  BY <1>4, <1>9, <1>10

LEMMA FillSteps ==
  ASSUME SourceInv, NEW e \in left,
         LinkFile(e) \/ CopyFile(e) \/ ExtractMember(e)
  PROVE  SourceInv'
<1> USE DEF SourceInv
<1>1. spc = "fill" /\ Filled(e)
  BY DEF LinkFile, CopyFile, ExtractMember
<1>2. /\ e[1] \in 0..ZipRoots /\ e[2] \in Originals /\ e[2][2] \in Paths
      /\ prep \in 1..MaxPreps /\ tampers \in Nat /\ 0 \in 0..MaxTampers
      /\ 0 \in 0..ZipRoots
  BY <1>1, SourceAssumption DEF SourceTypeOK, Originals, Paths, OfThisCall
<1>3. CASE LinkFile(e)
  <2> DEFINE x == [link |-> e[2], data |-> NoData, by |-> prep, zipRoot |-> 0]
  <2>1. x \in Entry /\ x.by = prep /\ x.data.ver <= tampers
    BY <1>2 DEF Entry, Data, NoData
  <2>2. /\ SetRoot([root EXCEPT ![e[2][2]] = x]) /\ kind = "loose_dirs"
        /\ UNCHANGED originals
    BY <1>3 DEF LinkFile
  <2> QED
    BY <1>1, <1>2, <2>1, <2>2, PlaceStep
<1>4. CASE ExtractMember(e)
  <2> DEFINE x == [link |-> Elsewhere, data |-> [from |-> e[2], ver |-> 0],
                   by |-> prep, zipRoot |-> e[1]]
  <2>1. x \in Entry /\ x.by = prep /\ x.data.ver <= tampers /\ x.zipRoot = e[1]
    BY <1>2 DEF Entry, Data
  <2>2. SetRoot([root EXCEPT ![e[2][2]] = x]) /\ UNCHANGED originals
    BY <1>4 DEF ExtractMember
  <2> QED
    BY <1>1, <1>2, <2>1, <2>2, PlaceStep
<1>5. CASE CopyFile(e)
  <2> DEFINE q == e[2][2]
             through == IF root[q] = NoEntry THEN Elsewhere ELSE root[q].link
             x == [link |-> Elsewhere, data |-> originals[e[2]], by |-> prep, zipRoot |-> 0]
  <2>1. originals[e[2]] \in Data /\ originals[e[2]].ver <= tampers
    BY <1>2 DEF SourceTypeOK, OfThisCall
  <2>2. CASE through = Elsewhere
    <3>1. x \in Entry /\ x.by = prep /\ x.data.ver <= tampers
      BY <1>2, <2>1 DEF Entry
    <3>2. /\ SetRoot([root EXCEPT ![q] = x]) /\ kind = "loose_dirs"
          /\ UNCHANGED originals
      BY <1>5, <2>2 DEF CopyFile
    <3> QED
      BY <1>1, <1>2, <3>1, <3>2, PlaceStep
  <2>3. CASE through # Elsewhere
    <3>1. /\ originals' = [originals EXCEPT ![through] = originals[e[2]]]
          /\ UNCHANGED <<keptRoot, tempRoot>>
      BY <1>5, <2>3 DEF CopyFile
    <3>2. /\ left' = left \ {e}
          /\ UNCHANGED <<spc, prep, kind, kept, integrity, zip, archive, snapshot,
                         sha, readAs, verdict, intact, stop, tampers>>
      BY <1>1 DEF Filled
    <3>3. originals' \in [Originals -> Data] /\ \A o \in Originals : originals'[o].ver <= tampers
      BY <2>1, <3>1 DEF SourceTypeOK, OfThisCall
    <3>4. SourceTypeOK'
      BY <3>1, <3>2, <3>3 DEF SourceTypeOK
    <3>5. root' = root /\ Present' = Present /\ Members' = Members /\ ChosenRoot' = ChosenRoot
      BY <3>1, <3>2 DEF root, Present, Members, ChosenRoot
    <3>6. OfThisCall'
      BY <1>1, <3>2, <3>3, <3>5 DEF OfThisCall, Placed, Looking
    <3>7. InOrder' /\ Judged' /\ Rechecked'
      BY <1>1, <3>2 DEF InOrder, Judged, Rechecked, Looking, Fingerprint, Fingerprinted
    <3> QED
      BY <3>4, <3>6, <3>7
  <2> QED
    BY <2>2, <2>3
<1> QED
  BY <1>3, <1>4, <1>5

\* Reading: what is hashed, parsed and compared.
LEMMA LookStep ==
  ASSUME SourceInv, Kept3, intact' = intact, spc \in Looking, spc' \in Looking
  PROVE  /\ OfThisCall' /\ Rechecked' /\ Present' = Present
         /\ \A p \in Paths : Bytes(p)' = Bytes(p)
         /\ (/\ DOMAIN sha' \subseteq Paths /\ DOMAIN readAs' \subseteq Paths
             /\ \A p \in DOMAIN sha' : sha'[p] \in Data
             /\ \A p \in DOMAIN readAs' : readAs'[p] \in Data
             /\ verdict' \in [Paths -> {"none", "ok", "changed"}]) => SourceTypeOK'
<1> USE DEF SourceInv
<1>1. UNCHANGED <<prep, kind, kept, integrity, zip, left, originals, archive,
                  snapshot, keptRoot, tempRoot, stop, tampers>>
  BY DEF Kept3
<1>2. /\ root' = root /\ Present' = Present /\ Members' = Members
      /\ ChosenRoot' = ChosenRoot /\ \A p \in Paths : Bytes(p)' = Bytes(p)
  BY <1>1, RootKept
<1>3. OfThisCall'
  BY <1>1, <1>2 DEF OfThisCall, Placed, Looking
<1>4. Rechecked'
  BY <1>1 DEF Rechecked, Looking, Fingerprint, Fingerprinted
<1>5. SSteps = {"idle", "snapshot", "claim", "reset"} \cup Placed /\ spc' \in SSteps
  BY DEF SSteps, Placed, Looking
<1> QED
  BY <1>1, <1>2, <1>3, <1>4, <1>5 DEF SourceTypeOK

LEMMA LookSteps ==
  ASSUME SourceInv,
         \/ \E p \in Paths : HashSourceFile(p) \/ ParseFile(p) \/ VerifyFile(p)
         \/ HashDone \/ ParseDone \/ VerifyDone
  PROVE  SourceInv'
<1> USE DEF SourceInv
<1>1. \A p \in Present : p \in Paths /\ Bytes(p) \in Data
  BY WorkRootTyped
<1>2. ASSUME NEW p \in Paths, HashSourceFile(p) PROVE SourceInv'
  <2>1. /\ spc = "hash" /\ spc' = "hash" /\ Kept3 /\ p \in Present
        /\ UNCHANGED <<readAs, verdict, intact>>
        /\ sha' = [x \in DOMAIN sha \cup {p} |-> IF x = p THEN Bytes(p) ELSE sha[x]]
    BY <1>2 DEF HashSourceFile
  <2>2. spc \in Looking /\ spc' \in Looking /\ DOMAIN readAs = {}
    BY <2>1 DEF Looking, InOrder
  <2>3. SourceTypeOK' /\ OfThisCall' /\ Rechecked' /\ Present' = Present
        /\ \A q \in Paths : Bytes(q)' = Bytes(q)
    BY <1>1, <2>1, <2>2, LookStep DEF SourceTypeOK
  <2>4. InOrder'
    BY <1>1, <2>1, <2>2, <2>3 DEF InOrder, Data
  <2>5. Judged'
    BY <2>1 DEF Judged
  <2> QED
    BY <2>3, <2>4, <2>5
<1>3. ASSUME NEW p \in Paths, ParseFile(p) PROVE SourceInv'
  <2>1. /\ spc = "parse" /\ spc' = "parse" /\ Kept3 /\ p \in Present
        /\ UNCHANGED <<sha, verdict, intact>>
        /\ readAs' = [x \in DOMAIN readAs \cup {p} |-> IF x = p THEN Bytes(p) ELSE readAs[x]]
    BY <1>3 DEF ParseFile
  <2>2. spc \in Looking /\ spc' \in Looking
    BY <2>1 DEF Looking
  <2>3. SourceTypeOK' /\ OfThisCall' /\ Rechecked' /\ Present' = Present
        /\ \A q \in Paths : Bytes(q)' = Bytes(q)
    BY <1>1, <2>1, <2>2, LookStep DEF SourceTypeOK
  <2>4. InOrder'
    BY <1>1, <2>1, <2>2, <2>3 DEF InOrder, Data
  <2>5. Judged'
    BY <2>1 DEF Judged
  <2> QED
    BY <2>3, <2>4, <2>5
<1>4. ASSUME NEW p \in Paths, VerifyFile(p) PROVE SourceInv'
  <2>1. /\ spc = "verify" /\ spc' = "verify" /\ Kept3 /\ p \in Present
        /\ p \in DOMAIN readAs \cap DOMAIN sha
        /\ UNCHANGED <<sha, readAs, intact>>
        /\ verdict' = [verdict EXCEPT ![p] =
                         IF Bytes(p) = sha[p] THEN "ok" ELSE "changed"]
    BY <1>4 DEF VerifyFile
  <2>2. spc \in Looking /\ spc' \in Looking
    BY <2>1 DEF Looking
  <2>3. SourceTypeOK' /\ OfThisCall' /\ Rechecked' /\ Present' = Present
        /\ \A q \in Paths : Bytes(q)' = Bytes(q)
    BY <1>1, <2>1, <2>2, LookStep DEF SourceTypeOK
  <2>4. InOrder'
    BY <1>1, <2>1, <2>2, <2>3 DEF InOrder
  <2>5. Bytes(p) = sha[p] => readAs[p] = sha[p]
    <3>1. /\ sha[p] \in Data /\ readAs[p] \in Data
          /\ readAs[p].from = Bytes(p).from /\ readAs[p].ver <= Bytes(p).ver
          /\ sha[p].ver <= readAs[p].ver
      BY <2>1 DEF InOrder, SourceTypeOK
    <3> QED
      BY <3>1 DEF Data
  <2>6. Judged'
    BY <2>1, <2>5 DEF Judged, SourceTypeOK
  <2> QED
    BY <2>3, <2>4, <2>6
<1>5. CASE HashDone \/ ParseDone \/ VerifyDone
  <2>1. /\ Kept3 /\ UNCHANGED <<sha, readAs, verdict, intact>>
        /\ \/ spc = "hash" /\ spc' = "parse"
           \/ spc = "parse" /\ spc' \in {"verify", "recheck"}
           \/ spc = "verify" /\ spc' = "recheck"
    BY <1>5 DEF HashDone, ParseDone, VerifyDone
  <2>2. spc \in Looking /\ spc' \in Looking
    BY <2>1 DEF Looking
  <2>3. SourceTypeOK' /\ OfThisCall' /\ Rechecked' /\ Present' = Present
        /\ \A q \in Paths : Bytes(q)' = Bytes(q)
    BY <2>1, <2>2, LookStep DEF SourceTypeOK
  <2>4. InOrder'
    BY <1>1, <2>1, <2>2, <2>3 DEF InOrder, Looking
  <2>5. Judged'
    BY <2>1 DEF Judged
  <2> QED
    BY <2>3, <2>4, <2>5
<1> QED
  BY <1>2, <1>3, <1>4, <1>5

LEMMA PrepareStep == ASSUME SourceInv, PrepareSource PROVE SourceInv'
<1> USE DEF SourceInv
<1>1. /\ spc = "idle" /\ prep' = prep + 1 /\ left' = {}
      /\ integrity' \in Integrities
      /\ snapshot' = <<>> /\ sha' = <<>> /\ readAs' = <<>>
      /\ verdict' = [p \in Paths |-> "none"] /\ intact' = "none" /\ stop' = FALSE
      /\ UNCHANGED <<originals, keptRoot, tampers>>
  BY DEF PrepareSource
<1>2. prep \in Nat /\ prep' \in 1..MaxPreps /\ MaxPreps \in Nat /\ MaxTampers \in Nat
  BY <1>1, SourceAssumption DEF PrepareSource, SourceTypeOK
<1>3. kind' \in {"logarchive", "sysdiagnose", "faul", "filesystem", "loose_dirs"}
  BY SourceKinds DEF PrepareSource
<1>4. kept' \in BOOLEAN /\ (kind' = "logarchive" => kept' = FALSE)
  <2>1. \A c \in BOOLEAN : (IF c THEN {FALSE} ELSE BOOLEAN) \subseteq BOOLEAN
    OBVIOUS
  <2>2. kept' \in IF kind' = "logarchive" THEN {FALSE} ELSE BOOLEAN
    BY DEF PrepareSource
  <2> QED
    BY <2>1, <2>2
<1>5. zip' \subseteq (1..ZipRoots) \X Originals
  BY DEF PrepareSource
<1>6. archive' \in Archived
  <2>1. archive' \in IF kind' \in Archives
                     THEN { [i \in 1..n |-> 0] : n \in ArchiveSizes } ELSE {<<>>}
    BY DEF PrepareSource
  <2>2. ASSUME NEW n \in ArchiveSizes PROVE [i \in 1..n |-> 0] \in [1..n -> 0..MaxTampers]
    BY <1>2
  <2> QED
    BY <2>1, <2>2 DEF Archived
<1>7. /\ spc' \in {"snapshot", "claim", "hash"}
      /\ spc' = "hash" => kind' = "logarchive"
  BY <1>3 DEF PrepareSource, Archives
<1>8. /\ spc' \in SSteps /\ kind' \in SourceTypes /\ kept' \in BOOLEAN
      /\ integrity' \in Integrities /\ zip' \subseteq (1..ZipRoots) \X Originals
      /\ left' \subseteq (0..ZipRoots) \X Originals
      /\ archive' \in Archived /\ prep' \in 0..MaxPreps
  BY <1>1, <1>2, <1>3, <1>4, <1>5, <1>6, <1>7 DEF SSteps, SourceTypes
<1>9. /\ DOMAIN sha' \subseteq Paths /\ DOMAIN readAs' \subseteq Paths
      /\ \A p \in DOMAIN sha' : sha'[p] \in Data
      /\ \A p \in DOMAIN readAs' : readAs'[p] \in Data
      /\ verdict' \in [Paths -> {"none", "ok", "changed"}]
      /\ intact' \in {"none", "yes", "no"} /\ stop' \in BOOLEAN
      /\ originals' \in [Originals -> Data]
      /\ keptRoot' \in Roots /\ tampers' \in 0..MaxTampers
  <2>1. DOMAIN sha' = {} /\ DOMAIN readAs' = {}
    BY <1>1
  <2>2. verdict' \in [Paths -> {"none", "ok", "changed"}]
    BY <1>1
  <2>3. stop' \in BOOLEAN /\ intact' \in {"none", "yes", "no"}
    BY <1>1
  <2> QED
    BY <1>1, <2>1, <2>2, <2>3 DEF SourceTypeOK, Roots
<1>10. CASE kind' = "logarchive"
  <2> DEFINE x(p) == [link |-> <<"diagnostics", p>>, data |-> NoData,
                      by |-> prep', zipRoot |-> 0]
  <2>1. tempRoot' = [p \in Paths |-> IF p \in Diagnostics THEN x(p) ELSE NoEntry]
    BY <1>4, <1>10 DEF PrepareSource
  <2>2. 0 \in 0..ZipRoots /\ 0 \in 0..MaxTampers
    BY <1>2, SourceAssumption
  <2>3. \A p \in Diagnostics : x(p) \in Entry
    BY <1>2, <2>2 DEF Entry, Data, NoData, Originals
  <2>4. tempRoot' \in Roots
    BY <2>1, <2>3 DEF Roots
  <2>5. \A p \in Present' : root'[p].by = prep' /\ root'[p].data.ver <= tampers'
    <3>1. root' = tempRoot' /\ tampers \in Nat
      BY <1>2, <1>4, <1>10 DEF root, SourceTypeOK
    <3>2. ASSUME NEW p \in Present' PROVE p \in Diagnostics /\ root'[p] = x(p)
      BY <2>1, <3>1 DEF Present
    <3>3. \A p \in Diagnostics : x(p).by = prep' /\ x(p).data.ver = 0
      BY DEF NoData
    <3>4. tampers' = tampers
      BY <1>1
    <3>5. \A p \in Present' : root'[p].by = prep' /\ root'[p].data.ver = 0
      BY <3>2, <3>3
    <3> QED
      BY <3>1, <3>4, <3>5
  <2>6. SourceTypeOK'
    BY <1>8, <1>9, <2>4 DEF SourceTypeOK, Roots
  <2>7. OfThisCall'
    BY <1>1, <1>2, <1>7, <1>10, <2>5 DEF OfThisCall, Looking
  <2>8. InOrder' /\ Judged' /\ Rechecked'
    BY <1>1 DEF InOrder, Judged, Rechecked
  <2> QED
    BY <2>6, <2>7, <2>8
<1>11. CASE kind' # "logarchive"
  <2>1. tempRoot' \in Roots
    BY <1>11, EmptyRootTyped DEF PrepareSource
  <2>2. spc' \in {"snapshot", "claim"}
    BY <1>7, <1>11
  <2>3. SourceTypeOK'
    BY <1>8, <1>9, <2>1 DEF SourceTypeOK, Roots
  <2>4. OfThisCall'
    BY <1>1, <1>2, <2>2 DEF OfThisCall, Looking, Placed
  <2>5. InOrder' /\ Judged' /\ Rechecked'
    BY <1>1 DEF InOrder, Judged, Rechecked
  <2> QED
    BY <2>3, <2>4, <2>5
<1> QED
  BY <1>10, <1>11

\* One file of a root that is reset goes; nothing is known of that root yet.
LEMMA ResetStep == ASSUME SourceInv, ResetWorkRoot PROVE SourceInv'
<1> USE DEF SourceInv
<1>1. CASE Present = {} /\ spc' = "fill" /\ left' = Members /\ UNCHANGED <<keptRoot, tempRoot>>
  BY <1>1, LayStep DEF ResetWorkRoot, SourceTypeOK
<1>2. CASE /\ \E p \in Present : SetRoot([root EXCEPT ![p] = NoEntry])
           /\ UNCHANGED <<spc, left>>
  <2>1. /\ spc = "reset"
        /\ UNCHANGED <<spc, left, prep, kind, kept, integrity, zip, originals, archive,
                       snapshot, sha, readAs, verdict, intact, stop, tampers>>
    BY <1>2 DEF ResetWorkRoot
  <2>2. PICK p \in Present : SetRoot([root EXCEPT ![p] = NoEntry])
    BY <1>2
  <2>3. [root EXCEPT ![p] = NoEntry] \in Roots
    BY WorkRootTyped DEF Roots
  <2>4. keptRoot' \in Roots /\ tempRoot' \in Roots
    BY <2>1, <2>2, <2>3, RootSet
  <2>5. SourceTypeOK'
    BY <2>1, <2>4 DEF SourceTypeOK, Roots
  <2>6. OfThisCall'
    BY <2>1 DEF OfThisCall, Placed, Looking
  <2>7. InOrder' /\ Judged' /\ Rechecked'
    BY <2>1 DEF InOrder, Judged, Rechecked, Looking, Fingerprint, Fingerprinted
  <2> QED
    BY <2>5, <2>6, <2>7
<1> QED
  BY <1>1, <1>2 DEF ResetWorkRoot

\* A change from outside makes what it changes newer than anything read so far,
\* and moves nothing.
LEMMA TamperStep == ASSUME SourceInv, Tamper PROVE SourceInv'
<1> USE DEF SourceInv
<1>1. /\ spc # "idle" /\ tampers' = tampers + 1 /\ tampers < MaxTampers
      /\ UNCHANGED <<spc, prep, kind, kept, integrity, zip, left, snapshot, sha,
                     readAs, verdict, intact, stop>>
  BY DEF Tamper
<1>2. tampers \in Nat /\ tampers' \in 0..MaxTampers /\ tampers' \in Nat
  BY <1>1, SourceAssumption DEF SourceTypeOK
<1>3. Members' = Members /\ ChosenRoot' = ChosenRoot
  BY <1>1 DEF Members, ChosenRoot
<1>4. Judged' /\ Rechecked'
  BY <1>1 DEF Judged, Rechecked
<1>5. \A p \in Present : /\ p \in Paths /\ root[p] \in Entry /\ Bytes(p) \in Data
                         /\ root[p].data \in Data
                         /\ root[p].link = Elsewhere \/ root[p].link \in Originals
  BY WorkRootTyped
<1>6. SUFFICES
        ASSUME keptRoot' \in Roots, tempRoot' \in Roots, originals' \in [Originals -> Data],
               archive' \in Archived, Present' = Present,
               \A o \in Originals : originals'[o].ver <= tampers',
               \A p \in Present :
                 /\ root'[p].by = root[p].by /\ root'[p].zipRoot = root[p].zipRoot
                 /\ spc \in Placed => root'[p].data.ver <= tampers'
                 /\ Bytes(p)'.from = Bytes(p).from
                 /\ spc \in Placed => Bytes(p).ver <= Bytes(p)'.ver /\ Bytes(p)'.ver \in Nat
        PROVE  SourceInv'
  <2>1. CASE /\ \E o \in Originals : originals' = [originals EXCEPT ![o].ver = tampers']
             /\ UNCHANGED <<archive, keptRoot, tempRoot>>
    <3>1. PICK o \in Originals : originals' = [originals EXCEPT ![o].ver = tampers']
      BY <2>1
    <3>2. root' = root /\ Present' = Present
      BY <1>1, <2>1 DEF root, Present
    <3>3. originals \in [Originals -> Data]
      BY DEF SourceTypeOK
    <3>4. /\ originals' \in [Originals -> Data]
          /\ \A q \in Originals : /\ originals'[q].from = originals[q].from
                                  /\ originals[q].ver <= originals'[q].ver
                                  /\ originals'[q].ver <= tampers'
                                  /\ originals'[q].ver \in Nat
      BY <1>1, <1>2, <3>1, <3>3 DEF Data, OfThisCall
    <3>5. keptRoot' \in Roots /\ tempRoot' \in Roots /\ archive' \in Archived
      BY <2>1 DEF SourceTypeOK, Roots
    <3>6. ASSUME NEW p \in Present
          PROVE  /\ root'[p].by = root[p].by /\ root'[p].zipRoot = root[p].zipRoot
                 /\ spc \in Placed => root'[p].data.ver <= tampers'
                 /\ Bytes(p)'.from = Bytes(p).from
                 /\ spc \in Placed => Bytes(p).ver <= Bytes(p)'.ver /\ Bytes(p)'.ver \in Nat
      <4>1. spc \in Placed => root[p].data.ver <= tampers'
        BY <1>1, <1>2, <1>5 DEF OfThisCall, Data
      <4>2. root[p].data.ver \in Nat
        BY <1>5 DEF Data
      <4> QED
        BY <1>5, <3>2, <3>4, <4>1, <4>2 DEF Bytes
    <3> QED
      BY <3>2, <3>4, <3>5, <3>6
  <2>2. CASE /\ \E p \in Present : /\ root[p].link = Elsewhere
                                   /\ SetRoot([root EXCEPT ![p].data.ver = tampers'])
             /\ UNCHANGED <<originals, archive>>
    <3>1. PICK p \in Present : /\ root[p].link = Elsewhere
                               /\ SetRoot([root EXCEPT ![p].data.ver = tampers'])
      BY <2>2
    <3> DEFINE r == [root EXCEPT ![p].data.ver = tampers']
    <3>2. root \in Roots /\ p \in Paths /\ root[p] \in Entry
      BY WorkRootTyped
    <3>3. r \in Roots /\ r[p] \in Entry
      BY <1>2, <3>2 DEF Roots, Entry, Data
    <3>4. keptRoot' \in Roots /\ tempRoot' \in Roots /\ root' = r
      BY <1>1, <3>1, <3>3, RootSet
    <3>5. /\ root'[p].by = root[p].by /\ root'[p].zipRoot = root[p].zipRoot
          /\ root'[p].link = root[p].link
          /\ root'[p].data.from = root[p].data.from /\ root'[p].data.ver = tampers'
          /\ \A q \in Paths \ {p} : root'[q] = root[q]
      BY <3>2, <3>4 DEF Roots, Entry, Data
    <3>6. Present' = Present
      BY <3>2, <3>3, <3>4, <3>5, SourceAssumption DEF Present
    <3>7. ASSUME NEW q \in Present
          PROVE  /\ root'[q].by = root[q].by /\ root'[q].zipRoot = root[q].zipRoot
                 /\ spc \in Placed => root'[q].data.ver <= tampers'
                 /\ Bytes(q)'.from = Bytes(q).from
                 /\ spc \in Placed => Bytes(q).ver <= Bytes(q)'.ver /\ Bytes(q)'.ver \in Nat
      <4>1. CASE q = p
        <5>1. spc \in Placed => root[p].data.ver <= tampers
          BY DEF OfThisCall
        <5>2. root[p].data.ver \in Nat
          BY <3>2 DEF Entry, Data
        <5>3. Bytes(p) = root[p].data /\ Bytes(p)' = root'[p].data
          BY <3>1, <3>5 DEF Bytes
        <5> QED
          BY <1>1, <1>2, <3>5, <4>1, <5>1, <5>2, <5>3
      <4>2. CASE q # p
        <5>1. root'[q] = root[q] /\ Bytes(q)' = Bytes(q)
          BY <1>5, <2>2, <3>5, <4>2 DEF Bytes
        <5>2. spc \in Placed => root[q].data.ver <= tampers
          BY DEF OfThisCall
        <5>3. root[q].data.ver \in Nat /\ Bytes(q).ver \in Nat
          BY <1>5 DEF Data
        <5> QED
          BY <1>1, <1>2, <5>1, <5>2, <5>3
      <4> QED
        BY <4>1, <4>2
    <3>8. /\ originals' \in [Originals -> Data] /\ archive' \in Archived
          /\ \A o \in Originals : originals'[o].ver <= tampers'
      BY <1>1, <1>2, <2>2 DEF SourceTypeOK, OfThisCall, Data
    <3> QED
      BY <3>4, <3>6, <3>7, <3>8
  <2>3. CASE /\ \E i \in DOMAIN archive : archive' = [archive EXCEPT ![i] = tampers']
             /\ UNCHANGED <<originals, keptRoot, tempRoot>>
    <3>1. archive' \in Archived
      <4>1. PICK i \in DOMAIN archive : archive' = [archive EXCEPT ![i] = tampers']
        BY <2>3
      <4>2. archive \in Archived
        BY DEF SourceTypeOK
      <4>3. archive # <<>>
        BY <4>1
      <4>4. PICK n \in ArchiveSizes : archive \in [1..n -> 0..MaxTampers]
        BY <4>2, <4>3 DEF Archived
      <4>5. archive' \in [1..n -> 0..MaxTampers]
        BY <1>2, <4>1, <4>4
      <4> QED
        BY <4>5 DEF Archived
    <3>2. root' = root /\ Present' = Present /\ \A p \in Present : Bytes(p)' = Bytes(p)
      BY <1>1, <2>3 DEF root, Present, Bytes
    <3>3. \A p \in Present : root[p].data.ver \in Nat /\ Bytes(p).ver \in Nat
      BY <1>5 DEF Data
    <3>4. \A p \in Present : spc \in Placed => root[p].data.ver <= tampers'
      BY <1>1, <1>2, <3>3 DEF OfThisCall
    <3>5. \A o \in Originals : originals'[o].ver <= tampers'
      BY <1>1, <1>2, <2>3 DEF SourceTypeOK, OfThisCall, Data
    <3>6. originals' \in [Originals -> Data] /\ keptRoot' \in Roots /\ tempRoot' \in Roots
      BY <2>3 DEF SourceTypeOK, Roots
    <3> QED
      BY <3>1, <3>2, <3>3, <3>4, <3>5, <3>6
  <2> QED
    BY <2>1, <2>2, <2>3 DEF Tamper
<1>7. SourceTypeOK'
  BY <1>1, <1>2, <1>6 DEF SourceTypeOK, Roots
<1>8. OfThisCall'
  BY <1>1, <1>3, <1>6 DEF OfThisCall, Looking, Placed
<1>9. InOrder'
  <2>1. \A p \in DOMAIN sha : sha[p].ver \in Nat
    BY DEF SourceTypeOK, Data
  <2>2. \A p \in DOMAIN readAs : readAs[p].ver \in Nat
    BY DEF SourceTypeOK, Data
  <2>3. \A p \in Present : Bytes(p).ver \in Nat
    BY <1>5 DEF Data
  <2>4. (DOMAIN sha # {} \/ DOMAIN readAs # {}) => spc \in Placed
    BY DEF InOrder, Looking, Placed
  <2> QED
    BY <1>1, <1>6, <2>1, <2>2, <2>3, <2>4 DEF InOrder
<1> QED
  BY <1>4, <1>7, <1>8, <1>9

LEMMA SourceStep == SourceInv /\ [SourceNext]_source => SourceInv'
<1> SUFFICES ASSUME SourceInv, [SourceNext]_source PROVE SourceInv'
  OBVIOUS
<1>1. CASE PrepareSource \/ ResetWorkRoot \/ Tamper
  BY <1>1, PrepareStep, ResetStep, TamperStep
<1>2. CASE Snapshot
  <2>1. spc # "idle" /\ spc' = "claim"
        /\ UNCHANGED <<prep, kind, kept, integrity, zip, left, originals, archive, keptRoot,
                       tempRoot, sha, readAs, verdict, intact, stop, tampers>>
        /\ spc = "snapshot"
    BY <1>2 DEF Snapshot
  <2>2. stop' \in BOOLEAN
    BY <2>1 DEF SourceInv, SourceTypeOK
  <2> QED
    BY <2>1, <2>2, LayStep
<1>3. CASE ClaimWorkRoot \/ FillDone \/ SetStop
  <2>1. stop \in BOOLEAN
    BY DEF SourceInv, SourceTypeOK
  <2> QED
    BY <1>3, <2>1, LayStep DEF ClaimWorkRoot, FillDone, SetStop
<1>4. CASE RefuseWorkRoot \/ FillFails \/ SourceCancelled \/ SourceFails \/ KillSource
  BY <1>4, LeaveStep DEF RefuseWorkRoot, FillFails, SourceCancelled, SourceFails,
     KillSource
<1>5. ASSUME NEW e \in left, LinkFile(e) \/ CopyFile(e) \/ ExtractMember(e)
      PROVE  SourceInv'
  BY <1>5, FillSteps
<1>6. CASE \/ \E p \in Paths : HashSourceFile(p) \/ ParseFile(p) \/ VerifyFile(p)
           \/ HashDone \/ ParseDone \/ VerifyDone
  BY <1>6, LookSteps
<1>7. CASE RecheckArchive
  <2>1. archive' \in Archived
    BY <1>7 DEF RecheckArchive, SourceInv, SourceTypeOK
  <2> QED
    BY <1>7, <2>1, ForgetStep DEF RecheckArchive
<1>8. CASE UNCHANGED source
  <2>1. UNCHANGED <<spc, prep, kind, kept, integrity, zip, left, originals, archive,
                    snapshot, keptRoot, tempRoot, sha, readAs, verdict, intact, stop, tampers>>
    BY <1>8 DEF source
  <2>2. \A p \in Present : p \in Paths
    BY DEF Present
  <2> QED
    BY <2>1, <2>2, RootKept DEF SourceInv, SourceTypeOK, OfThisCall, InOrder, Judged,
       Rechecked, Fingerprint, Fingerprinted
<1> QED
  BY <1>1, <1>2, <1>3, <1>4, <1>5, <1>6, <1>7, <1>8 DEF SourceNext

\* When the files of the source are hashed, parsed and verified, every one of
\* them was put in the work root by this call of prepare_source, and those of a
\* zip come from one of its roots, one with diagnostics if any has them: nothing
\* a call that failed or was killed left behind is read (archive.py).
THEOREM OnlyThisCallsEvidence == SourceSpec => []NoForeignEvidence
<1>1. SourceInv => NoForeignEvidence
  <2> SUFFICES ASSUME SourceInv, spc \in Looking
               PROVE  /\ \A p \in Present : root[p].by = prep
                      /\ kind = "filesystem" =>
                           \E r \in 1..ZipRoots :
                             /\ \A p \in Present : root[p].zipRoot = r
                             /\ (\E e \in zip : e[2][1] = "diagnostics")
                                  => \E e \in zip : e = <<r, e[2]>> /\ e[2][1] = "diagnostics"
    BY DEF NoForeignEvidence, Looking, SourceInv
  <2>1. \A p \in Present : root[p].by = prep
    BY DEF SourceInv, OfThisCall, Placed, Looking
  <2>2. ASSUME kind = "filesystem"
        PROVE  /\ ChosenRoot \in 1..ZipRoots
               /\ \A p \in Present : root[p].zipRoot = ChosenRoot
               /\ (\E e \in zip : e[2][1] = "diagnostics")
                    => \E e \in zip : e = <<ChosenRoot, e[2]>> /\ e[2][1] = "diagnostics"
    <3>1. zip \subseteq (1..ZipRoots) \X Originals /\ ZipRoots \in Nat
      BY SourceAssumption DEF SourceInv, SourceTypeOK
    <3>2. PICK e \in zip : e[1] = ChosenRoot
      BY <2>2 DEF SourceInv, OfThisCall, Placed, Looking
    <3>3. ChosenRoot \in 1..ZipRoots
      BY <3>1, <3>2
    <3>4. \A p \in Present : root[p].zipRoot = ChosenRoot
      BY <2>2 DEF SourceInv, OfThisCall, Placed, Looking
    <3>5. ASSUME \E y \in zip : y[2][1] = "diagnostics"
          PROVE  \E y \in zip : y = <<ChosenRoot, y[2]>> /\ y[2][1] = "diagnostics"
      <4> DEFINE D == { y[1] : y \in { x \in zip : x[2][1] = "diagnostics" } }
      <4>1. D # {} /\ D \subseteq Nat
        BY <3>1, <3>5
      <4>2. ChosenRoot = Min(D)
        BY <4>1 DEF ChosenRoot
      <4>3. ChosenRoot \in D
        BY <4>1, <4>2, SmallestIsOf
      <4> QED
        BY <3>1, <4>3
    <3> QED
      BY <3>3, <3>4, <3>5
  <2> QED
    BY <2>1, <2>2
<1> QED
  BY <1>1, SourceInitInv, SourceStep, PTL DEF SourceSpec

\* A file reported unchanged was parsed with the very bytes that were hashed, and
\* an archive reported intact is, when the two windows of its quick fingerprint
\* cover it, the archive of the snapshot, whatever changes meanwhile
\* (verify_source_files, verify_unchanged).
THEOREM AttestationHolds == SourceSpec => []AttestationIsTrue
<1>1. SourceInv => AttestationIsTrue
  <2> SUFFICES ASSUME SourceInv PROVE AttestationIsTrue
    OBVIOUS
  <2>1. \A p \in Paths : verdict[p] = "ok" => readAs[p] = sha[p]
    BY DEF SourceInv, Judged
  <2>2. ASSUME intact = "yes", snapshot # <<>>, Len(archive) <= 2 * Window
        PROVE  archive = snapshot[2]
    <3>1. Fingerprint(archive) = snapshot
      BY <2>2 DEF SourceInv, Rechecked
    <3>2. PICK n \in Nat : archive \in [1..n -> 0..MaxTampers]
      <4>1. archive \in Archived
        BY DEF SourceInv, SourceTypeOK
      <4>2. CASE archive = <<>>
        <5>1. <<>> \in [1..0 -> 0..MaxTampers]
          OBVIOUS
        <5> QED
          BY <4>2, <5>1
      <4>3. CASE \E n \in ArchiveSizes : archive \in [1..n -> 0..MaxTampers]
        BY <4>3, SourceAssumption
      <4> QED
        BY <4>1, <4>2, <4>3 DEF Archived
    <3>3. DOMAIN archive = 1..n /\ Len(archive) = n
      BY <3>2
    <3>4. Cardinality(1..n) = n
      <4>1. 1 \in Int /\ n \in Int /\ n >= 0
        BY <3>2
      <4>2. Cardinality(1..n) = IF 1 > n THEN 0 ELSE n - 1 + 1
        BY <4>1, FS_Interval, Zenon
      <4> QED
        BY <4>1, <4>2
    <3>5. Fingerprinted(n) = 1..n
      BY <2>2, <3>2, <3>3, SourceAssumption DEF Fingerprinted
    <3>6. snapshot[2] = [i \in 1..n |-> archive[i]]
      BY <3>1, <3>3, <3>4, <3>5 DEF Fingerprint
    <3> QED
      BY <3>2, <3>6
  <2> QED
    BY <2>1, <2>2 DEF AttestationIsTrue
<1> QED
  BY <1>1, SourceInitInv, SourceStep, PTL DEF SourceSpec

------------------------------------------------------------------------------
(* Sealing of a session *)

\* The operational log only grows.
Prefix(s, t) == Len(s) <= Len(t) /\ s = SubSeq(t, 1, Len(s))

\* A session has a number from its start, and a database at an output name is
\* that of a session so far.
Numbered ==
  /\ epc # "idle" => session \in Sessions
  /\ \A o \in Outputs : atFinal[o] \in Sessions => atFinal[o] <= session

\* The log is closed before it is hashed, ...
ClosedWhenHashed == epc \in {"seal", "store"} => ~logOpen

\* ... so a session whose database is sealed writes no further line.
SealedIsOver ==
  \A s \in Sessions : seal[s] # <<>> =>
    /\ s < session \/ (s = session /\ ~logOpen)
    /\ Prefix(seal[s], lines)
    /\ LinesOf(s, seal[s]) = LinesOf(s, lines)

SessionInv == SessionTypeOK /\ Numbered /\ ClosedWhenHashed /\ SealedIsOver

-----------------------------------------------------------------------------
\* A log that gets one more line still begins with what it began with, and
\* holds no more lines of any other session.
LEMMA LogGrows ==
  ASSUME NEW S, NEW log \in Seq(S), NEW x \in S, NEW old \in Seq(S), NEW s,
         Prefix(old, log), s # x
  PROVE  Prefix(old, Append(log, x)) /\ LinesOf(s, Append(log, x)) = LinesOf(s, log)
<1> DEFINE new == Append(log, x)
<1>1. /\ new \in Seq(S) /\ Len(new) = Len(log) + 1
      /\ \A i \in 1..Len(log) : new[i] = log[i]
      /\ new[Len(log) + 1] = x
  BY AppendProperties
<1>2. Len(log) \in Nat /\ Len(old) \in Nat /\ DOMAIN log = 1..Len(log)
      /\ DOMAIN new = 1..(Len(log) + 1)
  BY <1>1, LenProperties
<1>3. {i \in DOMAIN new : new[i] = s} = {i \in DOMAIN log : log[i] = s}
  BY <1>1, <1>2
<1>4. SubSeq(new, 1, Len(old)) = SubSeq(log, 1, Len(old))
  BY <1>1, <1>2 DEF Prefix
<1>5. Len(old) <= Len(new)
  BY <1>1, <1>2 DEF Prefix
<1>6. Prefix(old, new)
  BY <1>4, <1>5 DEF Prefix
<1>7. LinesOf(s, new) = LinesOf(s, log)
  BY <1>3 DEF LinesOf
<1> QED
  BY <1>6, <1>7

LEMMA WholeLog == ASSUME NEW S, NEW log \in Seq(S)
                  PROVE  Prefix(log, log)
  BY SubSeqFull, LenProperties DEF Prefix

LEMMA SessionInitInv == SessionInit => SessionInv
<1> SUFFICES ASSUME SessionInit PROVE SessionInv
  OBVIOUS
<1>1. <<>> \in Seq(Sessions)
  OBVIOUS
<1>2. SessionTypeOK
  <2>1. session \in 0..MaxSessions
    BY SessionAssumption DEF SessionInit
  <2>2. seal \in [Sessions -> Seq(Sessions)]
    BY <1>1 DEF SessionInit
  <2> QED
    BY <1>1, <2>1, <2>2 DEF SessionInit, SessionTypeOK, ESteps
<1>3. Numbered /\ ClosedWhenHashed /\ SealedIsOver
  BY SessionAssumption DEF SessionInit, Numbered, ClosedWhenHashed, SealedIsOver
<1> QED
  BY <1>2, <1>3 DEF SessionInv

\* A step that writes no seal, and writes to the log for its own session only.
LEMMA SealKept ==
  ASSUME SessionInv, SessionTypeOK', seal' = seal,
         \/ session' = session + 1 /\ lines' = Append(lines, session')
         \/ session' = session /\ (logOpen' => logOpen)
              /\ \/ lines' = lines
                 \/ logOpen /\ lines' = Append(lines, session)
  PROVE  SealedIsOver'
<1> SUFFICES ASSUME NEW s \in Sessions, seal[s] # <<>>
             PROVE  /\ s < session' \/ (s = session' /\ ~logOpen')
                    /\ Prefix(seal[s], lines')
                    /\ LinesOf(s, seal[s]) = LinesOf(s, lines')
  BY DEF SealedIsOver
<1>1. /\ lines \in Seq(Sessions) /\ lines' \in Seq(Sessions) /\ seal[s] \in Seq(Sessions)
      /\ session \in Nat /\ session' \in Nat /\ s \in Nat
  BY SessionAssumption DEF SessionInv, SessionTypeOK, Sessions
<1>2. /\ s < session \/ (s = session /\ ~logOpen)
      /\ Prefix(seal[s], lines)
      /\ LinesOf(s, seal[s]) = LinesOf(s, lines)
  BY DEF SessionInv, SealedIsOver
<1>3. CASE lines' = lines
  BY <1>1, <1>2, <1>3
<1>4. CASE session' = session + 1 /\ lines' = Append(lines, session')
  <2>1. session' \in Sessions /\ s # session'
    BY <1>1, <1>2, <1>4, SessionAssumption DEF SessionTypeOK, Sessions
  <2> QED
    BY <1>1, <1>2, <1>4, <2>1, LogGrows
<1>5. CASE session' = session /\ logOpen /\ lines' = Append(lines, session)
  <2>1. s < session /\ session \in Sessions /\ s # session
    BY <1>1, <1>2, <1>5, SessionAssumption DEF SessionTypeOK, SessionInv, Sessions
  <2> QED
    BY <1>1, <1>2, <1>5, <2>1, LogGrows
<1> QED
  BY <1>3, <1>4, <1>5

LEMMA SessionStep == SessionInv /\ [SessionNext]_sessions => SessionInv'
<1> SUFFICES ASSUME SessionInv, [SessionNext]_sessions PROVE SessionInv'
  OBVIOUS
<1> USE DEF SessionInv
<1>1. SessionTypeOK /\ session \in Nat /\ lines \in Seq(Sessions)
  BY SessionAssumption DEF SessionTypeOK
<1>2. epc # "idle" => Append(lines, session) \in Seq(Sessions)
  BY <1>1, AppendProperties DEF Numbered
<1>3. CASE StartSession
  <2>1. session' = session + 1 /\ session' \in Sessions /\ epc = "idle" /\ epc' = "guard"
        /\ lines' = Append(lines, session')
        /\ UNCHANGED <<atFinal, atPartial, seal, raced>>
    BY <1>1, <1>3, SessionAssumption DEF StartSession, Step, Sessions
  <2>2. lines' \in Seq(Sessions)
    BY <1>1, <2>1, AppendProperties
  <2>3. SessionTypeOK'
    <3>1. session' \in 0..MaxSessions
      BY <2>1, SessionAssumption DEF Sessions
    <3>2. /\ asked' \in BOOLEAN /\ metadata' \in BOOLEAN /\ logOpen' \in BOOLEAN
          /\ exit' = "none" /\ out' \in Outputs /\ routed' \in BOOLEAN
          /\ handler' \in {"default", "cancel"}
      BY <1>3 DEF StartSession
    <3>3. overwrites' \in BOOLEAN
      <4>1. \A b \in BOOLEAN : (IF b THEN BOOLEAN ELSE {TRUE}) \subseteq BOOLEAN
        OBVIOUS
      <4> QED
        BY <1>3, <3>2, <4>1 DEF StartSession
    <3> QED
      BY <1>1, <2>1, <2>2, <3>1, <3>2, <3>3 DEF SessionTypeOK, ESteps
  <2>4. Numbered'
    BY <1>1, <2>1, SessionAssumption DEF Numbered, Sessions
  <2> QED
    BY <2>1, <2>3, <2>4, SealKept DEF ClosedWhenHashed
<1>4. CASE GuardOutput
  <2>1. session \in Sessions /\ out \in Outputs
    BY <1>1, <1>4 DEF GuardOutput, Numbered, SessionTypeOK
  <2>2. SessionTypeOK'
    BY <1>1, <1>4, <2>1 DEF GuardOutput, SessionTypeOK, ESteps
  <2>3. Numbered' /\ ClosedWhenHashed'
    BY <1>1, <1>4, <2>1, SessionAssumption DEF GuardOutput, Numbered,
       ClosedWhenHashed, SessionTypeOK
  <2> QED
    BY <1>4, <2>2, <2>3, SealKept DEF GuardOutput
<1>5. CASE PromoteOutput
  <2>1. session \in Sessions /\ out \in Outputs
    BY <1>1, <1>5 DEF PromoteOutput, Step, Numbered, SessionTypeOK
  <2>2. lines' \in Seq(Sessions)
    BY <1>1, <1>2, <1>5 DEF PromoteOutput, Step, Write
  <2>3. SessionTypeOK'
    BY <1>1, <1>5, <2>1, <2>2 DEF PromoteOutput, Step, SessionTypeOK, ESteps
  <2>4. Numbered' /\ ClosedWhenHashed'
    BY <1>1, <1>5, <2>1 DEF PromoteOutput, Step, Numbered,
       ClosedWhenHashed, SessionTypeOK
  <2> QED
    BY <1>5, <2>3, <2>4, SealKept DEF PromoteOutput, Write
<1>6. CASE ReturnResult
  <2>1. SessionTypeOK'
    BY <1>1, <1>6 DEF ReturnResult, Step, SessionTypeOK, ESteps
  <2>2. Numbered' /\ ClosedWhenHashed'
    BY <1>6 DEF ReturnResult, Step, Numbered, ClosedWhenHashed
  <2> QED
    BY <1>6, <2>1, <2>2, SealKept DEF ReturnResult
<1>7. CASE ExtractEnds
  <2>1. SessionTypeOK'
    BY <1>1, <1>7 DEF ExtractEnds, SessionTypeOK, ESteps
  <2>2. Numbered' /\ ClosedWhenHashed'
    BY <1>7 DEF ExtractEnds, Numbered, ClosedWhenHashed
  <2> QED
    BY <1>7, <2>1, <2>2, SealKept DEF ExtractEnds
<1>8. CASE CloseLog
  <2>1. epc # "idle" /\ epc' = "seal" /\ logOpen' = FALSE /\ exit' \in {"0", "1", "130"}
        /\ UNCHANGED <<session, out, routed, handler, asked, overwrites, atFinal,
                       atPartial, seal, metadata, raced>>
    BY <1>8 DEF CloseLog
  <2>2. lines' \in Seq(Sessions)
    BY <1>1, <1>2, <1>8, <2>1 DEF CloseLog, Write
  <2>3. SessionTypeOK'
    BY <1>1, <2>1, <2>2 DEF SessionTypeOK, ESteps
  <2>4. Numbered' /\ ClosedWhenHashed'
    BY <2>1 DEF Numbered, ClosedWhenHashed
  <2> QED
    BY <1>8, <2>1, <2>3, <2>4, SealKept DEF CloseLog, Write
<1>9. CASE GuardSeal
  <2>1. SessionTypeOK'
    <3>1. metadata' \in BOOLEAN
      BY <1>1, <1>9 DEF GuardSeal
    <3> QED
      BY <1>1, <1>9, <3>1 DEF GuardSeal, Step, SessionTypeOK, ESteps
  <2>2. Numbered' /\ ClosedWhenHashed'
    BY <1>9 DEF GuardSeal, Step, Numbered, ClosedWhenHashed
  <2> QED
    BY <1>9, <2>1, <2>2, SealKept DEF GuardSeal
<1>10. CASE StoreSeal
  <2>1. /\ epc = "store" /\ epc' = "idle" /\ ~logOpen /\ logOpen' = logOpen
        /\ lines' = lines /\ session' = session /\ session \in Sessions
        /\ UNCHANGED <<session, out, routed, asked, overwrites, atPartial,
                       metadata, exit, raced>>
    BY <1>10 DEF StoreSeal, Step, Write, ClosedWhenHashed, Numbered
  <2>2. \/ seal' = seal
        \/ /\ atFinal[out] \in Sessions /\ atFinal[out] <= session
           /\ seal' = [seal EXCEPT ![atFinal[out]] = lines]
    BY <1>1, <1>10 DEF StoreSeal, Numbered, SessionTypeOK
  <2>3. \/ atFinal' = atFinal
        \/ atFinal' = [atFinal EXCEPT ![out] = Hollow]
    BY <1>10 DEF StoreSeal
  <2>4. SessionTypeOK'
    <3>1. seal' \in [Sessions -> Seq(Sessions)]
      BY <1>1, <2>2 DEF SessionTypeOK
    <3>2. atFinal' \in [Outputs -> Sessions \cup {Absent, Hollow}]
      BY <1>1, <2>3 DEF SessionTypeOK
    <3> QED
      BY <1>1, <1>10, <2>1, <3>1, <3>2 DEF StoreSeal, SessionTypeOK, ESteps
  <2>5. Numbered' /\ ClosedWhenHashed'
    BY <1>1, <2>1, <2>3, SessionAssumption DEF Numbered, ClosedWhenHashed, SessionTypeOK
  <2>6. SealedIsOver'
    <3>1. CASE seal' = seal
      BY <2>1, <2>4, <3>1, SealKept
    <3>2. CASE /\ atFinal[out] \in Sessions /\ atFinal[out] <= session
               /\ seal' = [seal EXCEPT ![atFinal[out]] = lines]
      <4> SUFFICES ASSUME NEW s \in Sessions, seal'[s] # <<>>
                   PROVE  /\ s < session' \/ (s = session' /\ ~logOpen')
                          /\ Prefix(seal'[s], lines')
                          /\ LinesOf(s, seal'[s]) = LinesOf(s, lines')
        BY DEF SealedIsOver
      <4>1. CASE s = atFinal[out]
        <5>1. seal'[s] = lines /\ Prefix(lines, lines)
          BY <1>1, <3>2, <4>1, WholeLog DEF SessionTypeOK
        <5>2. s < session \/ s = session
          BY <1>1, <3>2, <4>1 DEF Sessions
        <5> QED
          BY <2>1, <5>1, <5>2
      <4>2. CASE s # atFinal[out]
        <5>1. seal'[s] = seal[s]
          BY <1>1, <3>2, <4>2 DEF SessionTypeOK
        <5> QED
          BY <2>1, <5>1 DEF SealedIsOver
      <4> QED
        BY <4>1, <4>2
    <3> QED
      BY <2>2, <3>1, <3>2
  <2> QED
    BY <2>4, <2>5, <2>6
<1>11. CASE CtrlC \/ KillSession
  <2>1. /\ session' = session /\ lines' = lines /\ seal' = seal /\ atFinal' = atFinal
        /\ logOpen' => logOpen
        /\ epc' = "idle" \/ epc' = "interrupted" \/ (epc' = epc /\ logOpen' = logOpen)
        /\ epc # "idle"
    BY <1>11 DEF CtrlC, KillSession, Die
  <2>2. SessionTypeOK'
    <3>1. asked' \in BOOLEAN /\ logOpen' \in BOOLEAN
      BY <1>1, <1>11 DEF CtrlC, KillSession, Die, SessionTypeOK
    <3> QED
      BY <1>1, <1>11, <2>1, <3>1 DEF CtrlC, KillSession, Die, SessionTypeOK, ESteps
  <2>3. Numbered' /\ ClosedWhenHashed'
    BY <2>1 DEF Numbered, ClosedWhenHashed
  <2> QED
    BY <2>1, <2>2, <2>3, SealKept
<1>12. CASE DeleteOutput
  <2>1. PICK o \in Outputs : atFinal' = [atFinal EXCEPT ![o] = Absent]
    BY <1>12 DEF DeleteOutput
  <2>2. raced' \in BOOLEAN
    BY <1>1, <1>12 DEF DeleteOutput, SessionTypeOK
  <2>3. SessionTypeOK'
    BY <1>1, <1>12, <2>1, <2>2 DEF DeleteOutput, SessionTypeOK
  <2>4. Numbered' /\ ClosedWhenHashed'
    BY <1>1, <1>12, <2>1, SessionAssumption DEF DeleteOutput, Numbered,
       ClosedWhenHashed, SessionTypeOK
  <2> QED
    BY <1>12, <2>3, <2>4, SealKept DEF DeleteOutput
<1>13. CASE UNCHANGED sessions
  BY <1>13 DEF sessions, SessionTypeOK, Numbered, ClosedWhenHashed, SealedIsOver
<1> QED
  BY <1>3, <1>4, <1>5, <1>6, <1>7, <1>8, <1>9, <1>10, <1>11, <1>12, <1>13 DEF SessionNext

\* A seal in a database is of a prefix of the operational log that holds every
\* line the session of that database wrote or ever will (_seal).
THEOREM SealsCover == SessionSpec => []SealCoversSession
<1>1. SessionInv => SealCoversSession
  BY DEF SessionInv, SealedIsOver, Prefix, SealCoversSession
<1> QED
  BY <1>1, SessionInitInv, SessionStep, PTL DEF SessionSpec

------------------------------------------------------------------------------
(* Verification *)

\* The hash and the rows the extraction left are of the tree as it was then.
AsHashed ==
  /\ vpc = "hash" => tree = was
  /\ stored \in {Missing, HashTree(was)}
  /\ \A p \in recorded : rows[p] \in {DigestAt(was, p), Missing}
  /\ stored # Missing => \A p \in recorded : rows[p] = DigestAt(was, p)

\* What the comparison of the files found holds until the global one.
Compared ==
  vpc = "global" => LET withHash == { p \in recorded : ~skipFiles /\ rows[p] # Missing }
     IN /\ gone    = { p \in withHash : DigestAt(tree, p) = Missing }
        /\ matched = { p \in withHash : DigestAt(tree, p) = rows[p] }
        /\ changed = withHash \ (gone \cup matched)

VerifyInv == VerifyTypeOK /\ AsHashed /\ Compared /\ VerifyTellsTheTruth

\* A digest is of a content, or there is none.
LEMMA DigestType ==
  ASSUME NEW t \in Trees, NEW p \in Relative
  PROVE  DigestAt(t, p) \in Contents \cup {Missing}
  BY DEF DigestAt, Trees

\* Two trees whose files have the same digests are fed to the hash alike.
LEMMA HashTreeOfDigests ==
  ASSUME NEW t \in Trees, NEW u \in Trees,
         \A p \in Relative : DigestAt(t, p) = DigestAt(u, p)
  PROVE  HashTree(t) = HashTree(u)
  BY DEF HashTree

\* The digest leaves nothing of a tree that can be read out: names, contents, presence.
LEMMA HashTreeInjective ==
  ASSUME NEW t \in Trees, NEW u \in Trees, HashTree(t) = HashTree(u)
  PROVE  \A p \in Relative : DigestAt(t, p) = DigestAt(u, p)
<1>1. ASSUME NEW p \in Relative, DigestAt(t, p) # Missing PROVE DigestAt(u, p) = DigestAt(t, p)
  <2>1. <<p, DigestAt(t, p)>> \in HashTree(u)
    BY <1>1 DEF HashTree
  <2> QED
    BY <2>1 DEF HashTree
<1>2. ASSUME NEW p \in Relative, DigestAt(u, p) # Missing PROVE DigestAt(u, p) = DigestAt(t, p)
  <2>1. <<p, DigestAt(u, p)>> \in HashTree(t)
    BY <1>2 DEF HashTree
  <2> QED
    BY <2>1 DEF HashTree
<1> QED
  BY <1>1, <1>2

LEMMA VerifyInitInv == VerifyInit => VerifyInv
<1> SUFFICES ASSUME VerifyInit PROVE VerifyInv
  OBVIOUS
<1>1. rows \in [Relative -> Contents \cup {Missing}]
  BY DEF VerifyInit
<1>2. skipFiles \in BOOLEAN
  BY DEF VerifyInit
<1>3. VerifyTypeOK
  BY <1>1, <1>2 DEF VerifyInit, VerifyTypeOK
<1> QED
  BY <1>3 DEF VerifyInit, VerifyInv, AsHashed, Compared, VerifyTellsTheTruth

LEMMA VerifyStep == VerifyInv /\ [VerifyNext]_verify => VerifyInv'
<1> SUFFICES ASSUME VerifyInv, [VerifyNext]_verify PROVE VerifyInv'
  OBVIOUS
<1> USE DEF VerifyInv
<1>1. CASE RecordHashes
  <2>1. PICK full \in BOOLEAN, files \in SUBSET { p \in Relative : tree[p] # Missing } :
          /\ stored' = IF full THEN HashTree(tree) ELSE Missing
          /\ recorded' = files
          /\ rows' = [p \in Relative |-> IF full /\ p \in files THEN DigestAt(tree, p) ELSE Missing]
    BY <1>1 DEF RecordHashes
  <2>2. /\ vpc = "hash" /\ vpc' = "extracted" /\ tree = was
        /\ UNCHANGED <<tree, skipFiles, was, global, reason, matched, changed, gone>>
    BY <1>1 DEF RecordHashes, AsHashed
  <2>3. rows' \in [Relative -> Contents \cup {Missing}]
    BY <2>1, DigestType DEF VerifyTypeOK
  <2>4. VerifyTypeOK'
    BY <2>1, <2>2, <2>3 DEF VerifyTypeOK
  <2>5. stored' \in {Missing, HashTree(was')}
    BY <2>1, <2>2
  <2>6. \A p \in recorded' : rows'[p] \in {DigestAt(was', p), Missing}
    BY <2>1, <2>2
  <2>7. stored' # Missing => \A p \in recorded' : rows'[p] = DigestAt(was', p)
    BY <2>1, <2>2
  <2> QED
    BY <2>2, <2>4, <2>5, <2>6, <2>7 DEF AsHashed, Compared, VerifyTellsTheTruth
<1>2. CASE TimePasses
  <2>1. VerifyTypeOK'
    BY <1>2 DEF TimePasses, VerifyTypeOK
  <2>2. AsHashed' /\ Compared'
    BY <1>2 DEF TimePasses, AsHashed, Compared, HashTree
  <2> QED
    BY <1>2, <2>1, <2>2 DEF TimePasses, VerifyTellsTheTruth
<1>3. CASE VerifyPerFile
  <2> DEFINE withHash == { p \in recorded : ~skipFiles /\ rows[p] # Missing }
  <2>1. /\ gone'    = { p \in withHash : DigestAt(tree, p) = Missing }
        /\ matched' = { p \in withHash : DigestAt(tree, p) = rows[p] }
        /\ changed' = withHash \ (gone' \cup matched')
    BY <1>3 DEF VerifyPerFile
  <2>2. /\ vpc' = "global"
        /\ UNCHANGED <<tree, stored, rows, recorded, skipFiles, was, global, reason>>
    BY <1>3 DEF VerifyPerFile
  <2>3. withHash \subseteq Relative
    BY DEF VerifyTypeOK
  <2>4. VerifyTypeOK'
    BY <2>1, <2>2, <2>3 DEF VerifyTypeOK
  <2>5. AsHashed' /\ Compared'
    BY <2>1, <2>2 DEF AsHashed, Compared, HashTree, VerifyPerFile
  <2> QED
    BY <2>2, <2>4, <2>5 DEF VerifyTellsTheTruth
<1>4. CASE VerifyGlobal
  <2>1. /\ vpc = "global" /\ vpc' = "done"
        /\ global' = IF stored = Missing THEN "skip"
                     ELSE IF HashTree(tree) = stored THEN "ok" ELSE "fail"
        /\ reason' = IF global' = "fail" THEN Reason ELSE ""
        /\ UNCHANGED <<tree, stored, rows, recorded, skipFiles, was, matched, changed, gone>>
    BY <1>4 DEF VerifyGlobal
  <2>2. Reason \in {"unknown", "content", "moved", "names", "mismatch"}
    BY DEF Reason, VerifyTypeOK
  <2>3. VerifyTypeOK'
    BY <2>1, <2>2 DEF VerifyTypeOK
  <2>4. AsHashed' /\ Compared'
    BY <2>1 DEF AsHashed, Compared, HashTree
  <2>5. global' = "ok" => \A p \in Relative : DigestAt(tree, p) = DigestAt(was, p)
    BY <2>1, HashTreeInjective DEF AsHashed, VerifyTypeOK
  <2>6. ASSUME reason' \in {"content", "moved", "names"}
        PROVE  /\ reason' = Reason
               /\ HashTree(tree) # HashTree(was)
               /\ \A p \in recorded : rows[p] = DigestAt(was, p)
    BY <2>1, <2>6 DEF AsHashed
  <2>7. ASSUME reason' = "content"
        PROVE  \E p \in recorded : DigestAt(tree, p) \notin {DigestAt(was, p), Missing}
    <3>1. ~skipFiles /\ changed # {}
      BY <2>6, <2>7 DEF Reason
    <3>2. PICK p \in changed : TRUE
      BY <3>1
    <3>3. p \in recorded /\ DigestAt(tree, p) \notin {rows[p], Missing}
      BY <2>1, <3>1, <3>2 DEF Compared
    <3> QED
      BY <2>6, <2>7, <3>3
  <2>8. ASSUME reason' \in {"moved", "names"}
        PROVE  \A p \in recorded : DigestAt(was, p) # Missing =>
                 DigestAt(tree, p) \in {DigestAt(was, p), Missing}
    <3>1. ~skipFiles /\ changed = {}
      BY <2>6, <2>8 DEF Reason
    <3>2. \A p \in recorded : rows[p] # Missing => p \in gone \cup matched
      BY <2>1, <3>1 DEF Compared
    <3> QED
      BY <2>1, <2>6, <2>8, <3>2 DEF Compared
  <2>9. ASSUME reason' \in {"moved", "names"}
        PROVE  \E p \in Relative : DigestAt(tree, p) # DigestAt(was, p)
    BY <2>6, <2>9, HashTreeOfDigests DEF VerifyTypeOK
  <2>10. ASSUME reason' = "names"
         PROVE  \E p \in Relative \ recorded : DigestAt(tree, p) # DigestAt(was, p)
    <3>1. matched = recorded
      BY <2>6, <2>10 DEF Reason
    <3>2. \A p \in recorded : DigestAt(tree, p) = rows[p]
      BY <2>1, <3>1 DEF Compared
    <3> QED
      BY <2>6, <2>9, <2>10, <3>2
  <2> QED
    BY <2>1, <2>3, <2>4, <2>5, <2>7, <2>8, <2>9, <2>10 DEF VerifyTellsTheTruth
<1>5. CASE UNCHANGED verify
  <2>1. VerifyTypeOK' /\ AsHashed' /\ Compared'
    BY <1>5 DEF verify, VerifyTypeOK, AsHashed, Compared, HashTree
  <2> QED
    BY <1>5, <2>1 DEF verify, VerifyTellsTheTruth
<1> QED
  BY <1>1, <1>2, <1>3, <1>4, <1>5 DEF VerifyNext

\* A verification passes only for the tree that was hashed, and the reason it
\* gives for a failure is the true one (_global_mismatch_reason).
THEOREM VerificationIsTrue == VerifySpec => []VerifyTellsTheTruth
<1>1. VerifyInv => VerifyTellsTheTruth
  BY DEF VerifyInv
<1> QED
  BY <1>1, VerifyInitInv, VerifyStep, PTL DEF VerifySpec

------------------------------------------------------------------------------
(* Validation *)

\* What a run may have left to do: all of a plan, or its end.
Comparing == { <<"compare">>, <<"extract", "compare">>, <<"build", "extract", "compare">>,
               <<"unpack", "build", "extract", "compare">> }
Showing   == { <<"show", "compare">>, <<"show", "extract", "compare">>,
               <<"build", "show", "extract", "compare">>,
               <<"unpack", "build", "show", "extract", "compare">> }
Acquiring == { <<"files">>, <<"second", "files">>, <<"first", "second", "files">> }
OnDevice  == { <<"files", "show", "extract", "compare">>,
               <<"second", "files", "show", "extract", "compare">>,
               <<"first", "second", "files", "show", "extract", "compare">>,
               <<"resolve", "first", "second", "files", "show", "extract", "compare">> }
Planned   == Comparing \cup Showing \cup Acquiring \cup OnDevice
Todos     == Planned \cup { <<>>, <<"dispatch">>, <<"over">> }

At(s) == todo # <<>> /\ Head(todo) = s

\* What the device did to a file: a before it, b after.
Became(a, b, how) ==
  \/ how = "same" /\ b = a
  \/ how = "grown" /\ a # NotGiven /\ b = Append(a, 9)
  \/ how = "purged" /\ a \notin {NotGiven, <<>>} /\ b = Front(a)
  \/ how = "rewritten" /\ a \notin {NotGiven, <<>>} /\ b \notin {NotGiven, <<>>} /\ a[1] # 8 /\ b[1] = 8
  \/ how = "gone" /\ a # NotGiven /\ b = NotGiven
  \/ how = "new" /\ a = NotGiven /\ b = <<9>>

ValidateTyped ==
  /\ ValidateTypeOK /\ todo \in Todos /\ showing \in BOOLEAN
  /\ live \in [Files -> FileBytes] /\ second \in [Files -> DOMAIN Meant]
  /\ archives \in [{"first", "second"} -> {NotGiven} \cup [Files -> FileBytes]]

\* The collections are made in their order, and their files are the device's own.
CollectedInOrder ==
  /\ At("dispatch") \/ At("resolve") \/ At("first") => archives.first = NotGiven
  /\ At("second") => archives.first # NotGiven /\ archives.second = NotGiven
  /\ At("files") => archives.second # NotGiven /\ code = NotGiven
  /\ archives.first = NotGiven =>
       archives.second = NotGiven /\ live = LogFiles /\ \A f \in Files : second[f] = "same"
  /\ archives.first # NotGiven /\ archives.second = NotGiven =>
       \A f \in Files : Became(archives.first[f], live[f], second[f])
  /\ archives.second # NotGiven =>
       \A f \in Files : Became(archives.first[f], archives.second[f], second[f])

\* Before the first rewriting no file begins with the byte of one.
Original ==
  \A f \in Files : live[f] \notin {NotGiven, <<>>} /\ live[f][1] = 8 => second[f] = "rewritten"

\* Every pair of collections is judged, file by file, before anything else is compared.
PairJudged ==
  /\ archives.second # NotGiven /\ ~At("files") => verdicts # NotGiven
  /\ verdicts # NotGiven =>
       /\ archives.second # NotGiven
       /\ verdicts = [f \in InEither |-> VerdictOf(archives.first[f], archives.second[f])]

\* What will be compared without being made first is there; Apple's tool writes in its step.
ReferenceIsThere ==
  /\ todo \in Comparing => shown = Entries
  /\ todo \in Acquiring => dbEntries = NotGiven
  /\ showing => At("show") /\ code = NotGiven /\ shown \subseteq Entries
  /\ todo = <<"over">> => code # NotGiven

ValidateInv ==
  /\ ValidateTyped /\ CollectedInOrder /\ Original /\ PairJudged /\ ReferenceIsThere
  /\ PassIsEarned /\ NothingLeftBehind

\* What is left after a step, by the step: each is made once, in the order of its plan.
Follows(t) ==
  /\ Tail(t) \in Todos /\ Tail(t) \notin {<<"dispatch">>, <<"over">>}
  /\ Tail(t) # <<>> =>
       /\ Head(Tail(t)) \notin {"dispatch", "resolve"}
       /\ Head(Tail(t)) = "first" => Head(t) = "resolve"
       /\ Head(Tail(t)) = "second" => Head(t) = "first"
       /\ Head(Tail(t)) = "files" => Head(t) = "second"
  /\ Head(t) = "second" => Tail(t) # <<>> /\ Head(Tail(t)) = "files"
  /\ Tail(t) \in Comparing => t \in Comparing \/ Head(t) = "show"
  /\ Tail(t) \in Acquiring => t \in Acquiring
  /\ Head(t) = "files" => (t \in Acquiring <=> Len(t) <= 1) /\ Len(t) \in Nat
  /\ Head(t) = "compare" => t \in Comparing
  /\ Head(t) = "show" => t \notin Comparing
  /\ Head(t) \in {"extract", "unpack", "build", "compare", "show"} => Tail(t) \notin Acquiring
  /\ Head(t) = "over" => t = <<"over">>
  /\ Head(t) = "dispatch" => t = <<"dispatch">>

LEMMA AfterStep ==
  ASSUME NEW t \in Todos, t # <<>>
  PROVE  Follows(t)
<1> USE DEF Follows, Todos, Planned, Comparing, Showing, Acquiring, OnDevice
<1>1. CASE t = <<"compare">>
  BY <1>1
<1>2. CASE t = <<"extract", "compare">>
  BY <1>2
<1>3. CASE t = <<"build", "extract", "compare">>
  BY <1>3
<1>4. CASE t = <<"unpack", "build", "extract", "compare">>
  BY <1>4
<1>5. CASE t = <<"show", "compare">>
  BY <1>5
<1>6. CASE t = <<"show", "extract", "compare">>
  BY <1>6
<1>7. CASE t = <<"build", "show", "extract", "compare">>
  BY <1>7
<1>8. CASE t = <<"unpack", "build", "show", "extract", "compare">>
  BY <1>8
<1>9. CASE t = <<"files">>
  BY <1>9
<1>10. CASE t = <<"second", "files">>
  BY <1>10
<1>11. CASE t = <<"first", "second", "files">>
  BY <1>11
<1>12. CASE t = <<"files", "show", "extract", "compare">>
  BY <1>12
<1>13. CASE t = <<"second", "files", "show", "extract", "compare">>
  BY <1>13
<1>14. CASE t = <<"first", "second", "files", "show", "extract", "compare">>
  BY <1>14
<1>15. CASE t = <<"resolve", "first", "second", "files", "show", "extract", "compare">>
  BY <1>15
<1>16. CASE t = <<"dispatch">>
  BY <1>16
<1>17. CASE t = <<"over">>
  BY <1>17
<1> QED
  BY <1>1, <1>2, <1>3, <1>4, <1>5, <1>6, <1>7, <1>8, <1>9, <1>10, <1>11, <1>12, <1>13, <1>14, <1>15, <1>16, <1>17

-----------------------------------------------------------------------------
(* The files of the device *)

LEMMA ConcatBegins ==
  ASSUME NEW c \in Seq(Nat), NEW m \in Seq(Nat), c # <<>>
  PROVE  c \o m \in Seq(Nat) /\ c \o m # <<>> /\ (c \o m)[1] = c[1]
<1>1. Len(c) > 0
  OBVIOUS
<1>2. c \o m \in Seq(Nat) /\ Len(c \o m) = Len(c) + Len(m) /\ (c \o m)[1] = c[1]
  BY <1>1, ConcatProperties
<1> QED
  BY <1>1, <1>2

LEMMA PrefixBegins ==
  ASSUME NEW a \in Seq(Nat), NEW b \in Seq(Nat), a # <<>>, b # <<>>, a[1] # b[1]
  PROVE  ~IsPrefix(a, b)
  BY DEF IsPrefix

LEMMA FrontIsShorter ==
  ASSUME NEW a \in Seq(Nat), a # <<>>
  PROVE  /\ Front(a) \in Seq(Nat) /\ Len(Front(a)) = Len(a) - 1
         /\ Front(a) # <<>> => Front(a)[1] = a[1]
         /\ IsPrefix(Front(a), a)
<1>1. PICK n \in Nat : Len(a) = n + 1
  <2>1. Len(a) \in Nat \ {0}
    OBVIOUS
  <2> QED
    BY <2>1
<1>2. Front(a) = SubSeq(a, 1, n)
  BY <1>1 DEF Front
<1>3. SubSeq(a, 1, n) \in Seq(Nat) /\ Len(SubSeq(a, 1, n)) = n
  BY <1>1
<1>4. SubSeq(a, 1, n) # <<>> => SubSeq(a, 1, n)[1] = a[1]
  BY <1>1, <1>3
<1>5. SubSeq(SubSeq(a, 1, n), 1, n) = SubSeq(a, 1, n)
  BY <1>3, SubSeqFull
<1> QED
  BY <1>1, <1>2, <1>3, <1>4, <1>5 DEF IsPrefix

\* What the device makes of a file that is there.
LEMMA BytesAfter ==
  ASSUME NEW a \in Seq(Nat)
  PROVE  /\ Append(a, 9) \in Seq(Nat) /\ Len(Append(a, 9)) = Len(a) + 1
         /\ Append(a, 9)[1] \in {9, a[1]} /\ IsPrefix(a, Append(a, 9))
         /\ a # <<>> => \A m \in {<<>>, <<9>>} :
              LET b == [a EXCEPT ![1] = 8] \o m
              IN b \in Seq(Nat) /\ b # <<>> /\ b[1] = 8
<1>1. Append(a, 9) \in Seq(Nat) /\ Len(Append(a, 9)) = Len(a) + 1 /\ Len(a) \in Nat
  BY AppendProperties, LenProperties
<1>2. Append(a, 9)[1] \in {9, a[1]}
  BY <1>1, AppendProperties
<1>3. IsPrefix(a, Append(a, 9))
  BY <1>1, AppendProperties DEF IsPrefix
<1>4. ASSUME a # <<>>, NEW m \in Seq(Nat)
      PROVE  /\ [a EXCEPT ![1] = 8] \o m \in Seq(Nat) /\ [a EXCEPT ![1] = 8] \o m # <<>>
             /\ ([a EXCEPT ![1] = 8] \o m)[1] = 8
  <2> DEFINE c == [a EXCEPT ![1] = 8]
  <2>1. Len(a) > 0 /\ 1 \in 1..Len(a)
    BY <1>4
  <2>2. c \in Seq(Nat) /\ Len(c) = Len(a) /\ c[1] = 8
    BY <2>1, ExceptSeq
  <2> HIDE DEF c
  <2>3. c # <<>>
    BY <2>1, <2>2
  <2>4. c \o m \in Seq(Nat) /\ c \o m # <<>> /\ (c \o m)[1] = c[1]
    BY <1>4, <2>2, <2>3, ConcatBegins
  <2> QED
    BY <2>2, <2>4 DEF c
<1>5. {<<>>, <<9>>} \subseteq Seq(Nat)
  OBVIOUS
<1> QED
  BY <1>1, <1>2, <1>3, <1>4, <1>5

\* _prefix_verdict tells what was done to a file, and to which side's advantage.
LEMMA VerdictMeans ==
  ASSUME NEW a \in FileBytes, NEW b \in FileBytes, NEW how \in DOMAIN Meant,
         Became(a, b, how), a # NotGiven \/ b # NotGiven
  PROVE  VerdictOf(a, b) \in Meant[how]
<1>1. NotGiven \notin Seq(Nat)
  BY ValidateAssumption
<1>2. CASE how = "same"
  BY <1>2 DEF Became, VerdictOf, Meant
<1>3. CASE how = "grown"
  <2>1. a \in Seq(Nat) /\ b = Append(a, 9)
    BY <1>3 DEF Became, FileBytes
  <2>2. b \in Seq(Nat) /\ Len(b) = Len(a) + 1 /\ Len(a) \in Nat /\ IsPrefix(a, b)
    BY <2>1, BytesAfter
  <2> QED
    BY <1>1, <1>3, <2>1, <2>2 DEF VerdictOf, PrefixVerdict, Meant
<1>4. CASE how = "purged"
  <2>1. a \in Seq(Nat) /\ a # <<>> /\ b = Front(a)
    BY <1>4 DEF Became, FileBytes
  <2>2. b \in Seq(Nat) /\ Len(b) = Len(a) - 1 /\ Len(a) \in Nat /\ IsPrefix(b, a)
    BY <2>1, FrontIsShorter
  <2> QED
    BY <1>1, <1>4, <2>1, <2>2 DEF VerdictOf, PrefixVerdict, Meant
<1>5. CASE how = "rewritten"
  <2>1. /\ a \in Seq(Nat) /\ a # <<>> /\ a[1] # 8
        /\ b \in Seq(Nat) /\ b # <<>> /\ b[1] = 8
    BY <1>5 DEF Became, FileBytes
  <2>2. ~IsPrefix(a, b) /\ ~IsPrefix(b, a)
    BY <2>1, PrefixBegins
  <2> QED
    BY <1>1, <1>5, <2>1, <2>2 DEF VerdictOf, PrefixVerdict, Meant
<1>6. CASE how = "gone"
  BY <1>6 DEF Became, VerdictOf, Meant
<1>7. CASE how = "new"
  BY <1>7 DEF Became, VerdictOf, Meant
<1> QED
  BY <1>2, <1>3, <1>4, <1>5, <1>6, <1>7 DEF Meant

-----------------------------------------------------------------------------
(* The steps of a validation *)

LEMMA ValidateInitInv == ValidateInit => ValidateInv
<1> SUFFICES ASSUME ValidateInit PROVE ValidateInv
  OBVIOUS
<1>1. LogFiles \in [Files -> FileBytes]
  BY ValidateAssumption DEF Files
<1>2. todo = <<"dispatch">> /\ Head(todo) = "dispatch" /\ todo # <<>> /\ todo # <<"over">>
      /\ todo \notin Comparing \cup Acquiring
  BY DEF ValidateInit, Comparing, Acquiring
<1>3. ValidateTyped
  <2>1. ValidateTypeOK
    BY DEF ValidateInit, ValidateTypeOK
  <2>2. todo \in Todos
    BY <1>2 DEF Todos
  <2>3. second \in [Files -> DOMAIN Meant]
    BY DEF ValidateInit, Meant
  <2>4. archives \in [{"first", "second"} -> {NotGiven} \cup [Files -> FileBytes]]
    BY DEF ValidateInit
  <2> QED
    BY <1>1, <2>1, <2>2, <2>3, <2>4 DEF ValidateInit, ValidateTyped
<1>4. CollectedInOrder
  BY <1>2 DEF ValidateInit, CollectedInOrder, At
<1>5. Original
  BY <1>1, ValidateAssumption DEF ValidateInit, Original, Files
<1>6. PairJudged /\ ReferenceIsThere /\ PassIsEarned /\ NothingLeftBehind
  BY <1>2, ValidateAssumption DEF ValidateInit, PairJudged, ReferenceIsThere, PassIsEarned,
     NothingLeftBehind, At
<1> QED
  BY <1>3, <1>4, <1>5, <1>6 DEF ValidateInv

\* One file changes: what became of it is what is said of it, and only a file written anew
\* begins with another byte.
LEMMA FileChanges ==
  ASSUME ValidateTyped, Original, NEW f \in Files, DeviceWrites(f)
  PROVE  /\ live' \in [Files -> FileBytes] /\ second' \in [Files -> DOMAIN Meant]
         /\ Became(live[f], live'[f], second'[f])
         /\ live'[f] \notin {NotGiven, <<>>} /\ live'[f][1] = 8 => second'[f] = "rewritten"
         /\ \A g \in Files \ {f} : live'[g] = live[g] /\ second'[g] = second[g]
<1> DEFINE a == live[f]
<1>1. live \in [Files -> FileBytes] /\ a \in FileBytes /\ second \in [Files -> DOMAIN Meant]
  BY DEF ValidateTyped
<1>2. second[f] = "same" /\ NotGiven \notin Seq(Nat) /\ <<9>> \in Seq(Nat) /\ <<9>>[1] = 9
  BY ValidateAssumption DEF DeviceWrites
<1>3. a \notin {NotGiven, <<>>} => a[1] # 8
  BY <1>2 DEF Original
<1>4. DOMAIN Meant = {"same", "grown", "purged", "rewritten", "gone", "new"}
  BY DEF Meant
<1> DEFINE Shown(b, how) == /\ live' = [live EXCEPT ![f] = b] /\ second' = [second EXCEPT ![f] = how]
                            /\ b \in FileBytes /\ how \in DOMAIN Meant /\ Became(a, b, how)
                            /\ b \notin {NotGiven, <<>>} /\ b[1] = 8 => how = "rewritten"
<1>5. \E b, how : Shown(b, how)
  <2> USE <1>4 DEF FileBytes, Became
  <2>1. CASE /\ a # NotGiven /\ live' = [live EXCEPT ![f] = Append(@, 9)]
             /\ second' = [second EXCEPT ![f] = "grown"]
    <3>1. a \in Seq(Nat)
      BY <1>1, <2>1
    <3>2. Append(a, 9) \in Seq(Nat) /\ Append(a, 9)[1] \in {9, a[1]}
      BY <3>1, BytesAfter
    <3>3. Append(a, 9)[1] # 8
      <4>1. CASE a = <<>>
        BY <4>1
      <4>2. CASE a # <<>>
        BY <1>3, <2>1, <3>2, <4>2
      <4> QED
        BY <4>1, <4>2
    <3> QED
      BY <2>1, <3>2, <3>3
  <2>2. CASE /\ a \notin {NotGiven, <<>>} /\ live' = [live EXCEPT ![f] = Front(@)]
             /\ second' = [second EXCEPT ![f] = "purged"]
    <3>1. a \in Seq(Nat) /\ a # <<>>
      BY <1>1, <2>2
    <3>2. Front(a) \in Seq(Nat) /\ (Front(a) # <<>> => Front(a)[1] = a[1])
      BY <3>1, FrontIsShorter
    <3> QED
      BY <1>3, <2>2, <3>2
  <2>3. CASE /\ a \notin {NotGiven, <<>>}
             /\ \E more \in {<<>>, <<9>>} : live' = [live EXCEPT ![f] = [@ EXCEPT ![1] = 8] \o more]
             /\ second' = [second EXCEPT ![f] = "rewritten"]
    <3>1. a \in Seq(Nat) /\ a # <<>>
      BY <1>1, <2>3
    <3>2. PICK more \in {<<>>, <<9>>} : live' = [live EXCEPT ![f] = [a EXCEPT ![1] = 8] \o more]
      BY <2>3
    <3> DEFINE b == [a EXCEPT ![1] = 8] \o more
    <3>3. b \in Seq(Nat) /\ b # <<>> /\ b[1] = 8
      BY <3>1, BytesAfter
    <3>4. live' = [live EXCEPT ![f] = b]
      BY <3>2
    <3> HIDE DEF b
    <3> QED
      BY <1>2, <1>3, <2>3, <3>3, <3>4
  <2>4. CASE /\ a # NotGiven /\ live' = [live EXCEPT ![f] = NotGiven]
             /\ second' = [second EXCEPT ![f] = "gone"]
    BY <2>4
  <2>5. CASE /\ a = NotGiven /\ live' = [live EXCEPT ![f] = <<9>>]
             /\ second' = [second EXCEPT ![f] = "new"]
    <3> DEFINE b == <<9>>
    <3>1. b \in Seq(Nat) /\ b[1] # 8 /\ b = <<9>>
      BY <1>2
    <3>2. live' = [live EXCEPT ![f] = b] /\ second' = [second EXCEPT ![f] = "new"] /\ a = NotGiven
      BY <2>5
    <3> HIDE DEF b
    <3> QED
      BY <3>1, <3>2
  <2> QED
    BY <2>1, <2>2, <2>3, <2>4, <2>5 DEF DeviceWrites
<1>6. PICK b, how : Shown(b, how)
  BY <1>5
<1> QED
  BY <1>1, <1>6

\* What _dispatch plans is one of the plans; it begins with no second collection, needs no
\* database only where two archives are compared, and Apple's tool only without a reference.
LEMMA PlanIsPlanned ==
  /\ Plan \in Planned \cup {<<>>}
  /\ Plan # <<>> => Head(Plan) \notin {"second", "files", "over", "dispatch"}
  /\ Plan \in Acquiring => args.acquisition
  /\ Plan \in Comparing => GivenReference /\ "show" \notin Range(Plan)
<1> DEFINE P == Planned \cup {<<>>}
           Fits(p) == /\ p \in P /\ (p # <<>> => Head(p) \notin {"second", "files", "over", "dispatch"})
                      /\ p \in Acquiring => args.acquisition
                      /\ p \in Comparing => GivenReference /\ "show" \notin Range(p)
<1> USE DEF Planned, Comparing, Showing, Acquiring, OnDevice
<1>1. Fits(<<>>)
  OBVIOUS
<1>2. args.acquisition => Fits(<<"first", "second", "files">>)
  OBVIOUS
<1>3. Fits(<<"resolve", "first", "second", "files", "show", "extract", "compare">>)
  OBVIOUS
<1>4. /\ Fits(<<"show", "compare">>) /\ Fits(<<"show", "extract", "compare">>)
      /\ Fits(<<"unpack", "build", "show", "extract", "compare">>)
  OBVIOUS
<1>5. GivenReference => /\ Fits(<<"compare">>) /\ Fits(<<"extract", "compare">>)
                        /\ Fits(<<"unpack", "build", "extract", "compare">>)
  BY DEF Range
<1> HIDE DEF Fits
<1>6. Fits(PackagedPlan)
  BY <1>1, <1>4, <1>5 DEF PackagedPlan
<1>7. Fits(Plan)
  BY <1>1, <1>2, <1>3, <1>4, <1>5, <1>6 DEF Plan
<1> QED
  BY <1>7 DEF Fits

\* Where the device and its collections are left alone, what is known of them stands.
LEMMA PhoneKept ==
  ASSUME ValidateInv, UNCHANGED phone,
         \/ todo' = todo /\ (code' = code \/ ~At("files"))
         \/ todo # <<>> /\ todo' = Tail(todo) /\ Head(todo) \notin {"first", "second", "files"}
         \/ At("dispatch") /\ (todo' = <<>> \/ Head(todo') \notin {"second", "files"})
         \/ code # NotGiven /\ todo' = <<"over">>
  PROVE  CollectedInOrder' /\ Original' /\ PairJudged'
<1>1. UNCHANGED <<live, second, archives, verdicts>>
  BY DEF phone
<1>2. CollectedInOrder /\ Original /\ PairJudged /\ todo \in Todos
  BY DEF ValidateInv, ValidateTyped
<1>3. Original'
  BY <1>1, <1>2 DEF Original
<1>4. InEither' = InEither
  BY <1>1 DEF InEither
<1>5. CASE todo' = todo /\ (code' = code \/ ~At("files"))
  BY <1>1, <1>2, <1>3, <1>4, <1>5 DEF CollectedInOrder, PairJudged, At
<1>6. CASE todo # <<>> /\ todo' = Tail(todo) /\ Head(todo) \notin {"first", "second", "files"}
  <2>1. Follows(todo)
    BY <1>2, <1>6, AfterStep
  <2>2. todo' # <<>> => /\ Head(todo') \notin {"dispatch", "resolve", "second", "files"}
                        /\ Head(todo') = "first" => Head(todo) = "resolve"
    BY <1>6, <2>1 DEF Follows
  <2> QED
    BY <1>1, <1>2, <1>3, <1>4, <1>6, <2>2 DEF CollectedInOrder, PairJudged, At
<1>7. CASE At("dispatch") /\ (todo' = <<>> \/ Head(todo') \notin {"second", "files"})
  BY <1>1, <1>2, <1>3, <1>4, <1>7 DEF CollectedInOrder, PairJudged, At
<1>8. CASE code # NotGiven /\ todo' = <<"over">>
  <2>1. Head(todo') = "over"
    BY <1>8
  <2> QED
    BY <1>1, <1>2, <1>3, <1>4, <1>8, <2>1 DEF CollectedInOrder, PairJudged, At
<1> QED
  BY <1>5, <1>6, <1>7, <1>8

\* Two collections without a diverging file: none was written anew in between.
LEMMA RewrittenIsSeen ==
  ASSUME ValidateTyped, CollectedInOrder, archives.second # NotGiven,
         \A f \in InEither : VerdictOf(archives.first[f], archives.second[f]) # "diverged"
  PROVE  \A f \in Files : IsLogData(f) => second[f] # "rewritten"
<1> SUFFICES ASSUME NEW f \in Files, IsLogData(f), second[f] = "rewritten"
             PROVE  FALSE
  OBVIOUS
<1>1. archives.first # NotGiven
  BY DEF CollectedInOrder
<1>2. archives.first \in [Files -> FileBytes] /\ archives.second \in [Files -> FileBytes]
  BY <1>1 DEF ValidateTyped
<1>3. Became(archives.first[f], archives.second[f], "rewritten")
  BY DEF CollectedInOrder
<1>4. f \in InEither
  BY <1>3 DEF Became, InEither
<1>5. VerdictOf(archives.first[f], archives.second[f]) \in Meant["rewritten"]
  BY <1>2, <1>3, VerdictMeans DEF Meant, Became
<1> QED
  BY <1>4, <1>5 DEF Meant

\* What every step on the reference and the database has in common.
LEMMA MovesOn ==
  ASSUME ValidateInv, UNCHANGED phone, code = NotGiven,
         todo # <<>>, Head(todo) \notin {"dispatch", "first", "second", "files", "over"},
         todo' \in {Tail(todo), todo}
  PROVE  /\ CollectedInOrder' /\ Original' /\ PairJudged' /\ NothingLeftBehind'
         /\ Follows(todo) /\ todo' \in Todos \ {<<"dispatch">>, <<"over">>}
<1>1. Follows(todo) /\ todo \in Todos
  BY AfterStep DEF ValidateInv, ValidateTyped
<1>2. todo' \in Todos \ {<<"dispatch">>, <<"over">>}
  <2>1. Head(<<"over">>) = "over" /\ Head(<<"dispatch">>) = "dispatch"
    OBVIOUS
  <2> QED
    BY <1>1, <2>1 DEF Follows
<1>3. CollectedInOrder' /\ Original' /\ PairJudged'
  BY PhoneKept DEF At
<1> QED
  BY <1>1, <1>2, <1>3 DEF NothingLeftBehind

\* _dispatch, and resolve_device.
LEMMA PlanningStep == ValidateInv /\ (Dispatch \/ ResolveDevice) => ValidateInv'
<1> SUFFICES ASSUME ValidateInv, Dispatch \/ ResolveDevice PROVE ValidateInv'
  OBVIOUS
<1> USE DEF ValidateInv
<1>1. CASE Dispatch
  <2>1. /\ At("dispatch") /\ todo' = Plan /\ UNCHANGED <<phone, temps, lasting, trees, showing>>
        /\ code' = IF Plan = <<>> THEN "fail" ELSE NotGiven
    BY <1>1 DEF Dispatch, Now, At
  <2>2. shown' = IF GivenReference /\ Plan # <<>> /\ "show" \notin Range(Plan) THEN Entries ELSE NotGiven
    BY <1>1 DEF Dispatch
  <2>3. /\ dbEntries' = NotGiven \/ dbEntries' \subseteq Entries
        /\ args.acquisition => dbEntries' = NotGiven
    <3>1. PICK r \in SUBSET Entries :
            dbEntries' = IF args.source = "db" /\ ~args.acquisition THEN r ELSE NotGiven
      BY <1>1 DEF Dispatch
    <3> QED
      BY <3>1
  <2>4. code' \in {NotGiven, "fail"} /\ ~showing
    BY <2>1, ValidateAssumption DEF ReferenceIsThere, At
  <2>5. CollectedInOrder' /\ Original' /\ PairJudged'
    BY <2>1, PlanIsPlanned, PhoneKept
  <2>6. <<>> \notin Comparing \cup Acquiring \cup {<<"over">>, <<"dispatch">>}
    BY DEF Comparing, Acquiring
  <2>7. todo' \in Todos /\ todo' \notin {<<"over">>, <<"dispatch">>}
    <3>1. Head(<<"over">>) = "over" /\ Head(<<"dispatch">>) = "dispatch"
      OBVIOUS
    <3> QED
      BY <2>1, <2>6, <3>1, PlanIsPlanned DEF Todos
  <2>8. ValidateTyped'
    <3>1. shown' = NotGiven \/ shown' \subseteq Entries
      BY <2>2
    <3>2. ValidateTypeOK'
      BY <2>1, <2>3, <2>4, <3>1 DEF ValidateTyped, ValidateTypeOK
    <3> QED
      BY <2>1, <2>7, <3>2 DEF ValidateTyped, phone
  <2>9. ReferenceIsThere'
    BY <2>1, <2>2, <2>3, <2>4, <2>6, <2>7, PlanIsPlanned DEF ReferenceIsThere, At
  <2> QED
    BY <2>4, <2>5, <2>7, <2>8, <2>9, ValidateAssumption DEF PassIsEarned, NothingLeftBehind
<1>2. CASE ResolveDevice
  <2>1. /\ todo # <<>> /\ Head(todo) = "resolve" /\ code = NotGiven
        /\ UNCHANGED <<inputs, phone, temps, lasting, product>>
        /\ \/ todo' = Tail(todo) /\ code' = code
           \/ todo' = todo /\ code' = "raised"
    BY <1>2 DEF ResolveDevice, Now, Done, RaiseError
  <2>2. /\ CollectedInOrder' /\ Original' /\ PairJudged' /\ NothingLeftBehind'
        /\ Follows(todo) /\ todo' \in Todos \ {<<"dispatch">>, <<"over">>}
    BY <2>1, MovesOn
  <2>3. ~showing
    BY <2>1 DEF ReferenceIsThere, At
  <2>4. ValidateTyped'
    BY <2>1, <2>2, <2>3 DEF ValidateTyped, ValidateTypeOK, phone, product
  <2>5. ReferenceIsThere'
    BY <2>1, <2>2, <2>3 DEF ReferenceIsThere, Follows, product
  <2> QED
    BY <2>1, <2>2, <2>4, <2>5, ValidateAssumption DEF PassIsEarned
<1> QED
  BY <1>1, <1>2

LEMMA NothingLeftKept ==
  ASSUME NothingLeftBehind, UNCHANGED <<args, todo, lasting>>, temps' \subseteq temps
  PROVE  NothingLeftBehind'
<1>1. (UNION { DirOf(a) : a \in lasting })' = UNION { DirOf(a) : a \in lasting }
  <2>1. \A a : DirOf(a)' = DirOf(a)
    BY DEF DirOf
  <2>2. (UNION { DirOf(a) : a \in lasting })' = UNION { DirOf(a)' : a \in lasting' }
    OBVIOUS
  <2> QED
    BY <2>1, <2>2, Zenon
<1> QED
  BY <1>1 DEF NothingLeftBehind

\* The two collections, and what the device writes between them.
LEMMA CollectingStep ==
  ValidateInv /\ (CollectFirst \/ CollectSecond \/ \E f \in Files : DeviceWrites(f)) => ValidateInv'
<1> SUFFICES ASSUME ValidateInv, CollectFirst \/ CollectSecond \/ \E f \in Files : DeviceWrites(f)
             PROVE  ValidateInv'
  OBVIOUS
<1> USE DEF ValidateInv
<1>1. /\ NotGiven \notin [Files -> FileBytes] /\ live \in [Files -> FileBytes]
      /\ archives \in [{"first", "second"} -> {NotGiven} \cup [Files -> FileBytes]]
  BY ValidateAssumption DEF Files, ValidateTyped
<1>2. CASE CollectFirst \/ CollectSecond
  <2>1. PICK s \in {"first", "second"} :
          /\ todo # <<>> /\ Head(todo) = s /\ code = NotGiven
          /\ UNCHANGED <<lasting, live, second, verdicts, product>>
          /\ temps' \subseteq temps \cup {"collect", "pmd3"}
          /\ \/ archives' = [archives EXCEPT ![s] = live] /\ todo' = Tail(todo) /\ code' = code
             \/ archives' = archives /\ todo' = todo /\ code' = "raised"
    BY <1>2 DEF CollectFirst, CollectSecond, Now, Done, RaiseError
  <2>2. Follows(todo)
    BY <2>1, AfterStep DEF ValidateTyped
  <2>3. todo' \in Todos \ {<<"dispatch">>, <<"over">>}
    <3>1. Head(<<"over">>) = "over" /\ Head(<<"dispatch">>) = "dispatch"
      OBVIOUS
    <3> QED
      BY <2>1, <2>2, <3>1 DEF Follows, ValidateTyped
  <2>4. ~showing
    BY <2>1 DEF ReferenceIsThere, At
  <2>5. archives.second = NotGiven /\ verdicts = NotGiven
    BY <2>1 DEF CollectedInOrder, PairJudged, At
  <2>6. ValidateTyped'
    <3>1. archives' \in [{"first", "second"} -> {NotGiven} \cup [Files -> FileBytes]]
      BY <1>1, <2>1
    <3>2. ValidateTypeOK'
      BY <2>1 DEF ValidateTyped, ValidateTypeOK, product
    <3> QED
      BY <2>1, <2>3, <2>4, <3>1, <3>2 DEF ValidateTyped, product
  <2>7. ASSUME archives' = [archives EXCEPT ![s] = live], todo' = Tail(todo), code' = code
        PROVE  CollectedInOrder' /\ PairJudged'
    <3>1. CASE s = "first"
      <4>1. archives'.first = live /\ archives'.second = NotGiven /\ archives.first = NotGiven
        BY <1>1, <2>1, <2>5, <2>7, <3>1 DEF CollectedInOrder, At
      <4>2. \A f \in Files : Became(archives'.first[f], live'[f], second'[f])
        BY <2>1, <4>1 DEF CollectedInOrder, Became
      <4>3. ~At("dispatch")' /\ ~At("resolve")' /\ ~At("first")' /\ ~At("files")'
        BY <2>1, <2>2, <2>7, <3>1 DEF At, Follows
      <4>4. CollectedInOrder'
        BY <1>1, <2>1, <4>1, <4>2, <4>3 DEF CollectedInOrder
      <4> QED
        BY <2>1, <2>5, <4>1, <4>4 DEF PairJudged
    <3>2. CASE s = "second"
      <4>1. archives'.first = archives.first /\ archives'.second = live /\ archives.first # NotGiven
        BY <1>1, <2>1, <2>5, <2>7, <3>2 DEF CollectedInOrder, At
      <4>2. \A f \in Files : Became(archives'.first[f], archives'.second[f], second'[f])
        BY <2>1, <2>5, <4>1 DEF CollectedInOrder
      <4>3. ~At("dispatch")' /\ ~At("resolve")' /\ ~At("first")' /\ ~At("second")' /\ At("files")'
        BY <2>1, <2>2, <2>7, <3>2 DEF At, Follows
      <4>4. CollectedInOrder'
        BY <1>1, <2>1, <2>7, <4>1, <4>2, <4>3 DEF CollectedInOrder
      <4> QED
        BY <2>1, <2>5, <4>3, <4>4 DEF PairJudged
    <3> QED
      BY <2>1, <3>1, <3>2
  <2>8. ASSUME archives' = archives, todo' = todo, code' = "raised"
        PROVE  CollectedInOrder' /\ PairJudged'
    <3>1. CollectedInOrder'
      BY <2>1, <2>5, <2>8 DEF CollectedInOrder, At
    <3> QED
      BY <2>1, <2>5, <2>8, <3>1 DEF PairJudged
  <2>9. CollectedInOrder' /\ PairJudged'
    BY <2>1, <2>7, <2>8
  <2>10. Original' /\ ReferenceIsThere'
    BY <2>1, <2>2, <2>3, <2>4 DEF Original, ReferenceIsThere, Follows, product
  <2> QED
    BY <2>1, <2>3, <2>6, <2>9, <2>10, ValidateAssumption DEF PassIsEarned, NothingLeftBehind
<1>3. ASSUME NEW f \in Files, DeviceWrites(f) PROVE ValidateInv'
  <2>1. /\ archives.first # NotGiven /\ archives.second = NotGiven /\ second[f] = "same"
        /\ UNCHANGED <<inputs, todo, temps, lasting, archives, verdicts, product, code>>
    BY <1>3 DEF DeviceWrites
  <2>2. /\ live' \in [Files -> FileBytes] /\ second' \in [Files -> DOMAIN Meant]
        /\ Became(live[f], live'[f], second'[f])
        /\ live'[f] \notin {NotGiven, <<>>} /\ live'[f][1] = 8 => second'[f] = "rewritten"
        /\ \A g \in Files \ {f} : live'[g] = live[g] /\ second'[g] = second[g]
    BY <1>3, FileChanges
  <2>3. archives.first[f] = live[f]
    BY <2>1 DEF CollectedInOrder, Became
  <2>4. \A g \in Files : Became(archives'.first[g], live'[g], second'[g])
    BY <2>1, <2>2, <2>3 DEF CollectedInOrder
  <2>5. CollectedInOrder'
    BY <2>1, <2>4 DEF CollectedInOrder, At
  <2>6. Original'
    BY <2>2 DEF Original
  <2>7. PairJudged' /\ ReferenceIsThere' /\ PassIsEarned' /\ NothingLeftBehind'
    <3>1. PairJudged'
      BY <2>1 DEF PairJudged
    <3>2. ReferenceIsThere' /\ PassIsEarned'
      BY <2>1 DEF ReferenceIsThere, PassIsEarned, At, product, inputs
    <3>3. NothingLeftBehind'
      BY <2>1, NothingLeftKept DEF inputs
    <3> QED
      BY <3>1, <3>2, <3>3
  <2>8. ValidateTyped'
    BY <2>1, <2>2 DEF ValidateTyped, ValidateTypeOK, product
  <2> QED
    BY <2>5, <2>6, <2>7, <2>8
<1> QED
  BY <1>2, <1>3

\* The two collections compared file by file.
LEMMA ArchivesStep == ValidateInv /\ CompareArchives => ValidateInv'
<1> SUFFICES ASSUME ValidateInv, CompareArchives PROVE ValidateInv'
  OBVIOUS
<1> USE DEF ValidateInv
<1> DEFINE found == [f \in InEither |-> VerdictOf(archives.first[f], archives.second[f])]
<1>1. /\ todo # <<>> /\ Head(todo) = "files" /\ code = NotGiven /\ archives.second # NotGiven
      /\ verdicts' = found /\ todo' = Tail(todo)
      /\ UNCHANGED <<inputs, temps, lasting, live, second, archives, product>>
      /\ code' = IF Len(todo) > 1 THEN NotGiven
                 ELSE IF \E f \in DOMAIN verdicts' : verdicts'[f] = "diverged" THEN "fail" ELSE "pass"
  BY DEF CompareArchives, Now, Done, CollectedInOrder, At
<1>2. Follows(todo)
  BY <1>1, AfterStep DEF ValidateTyped
<1>3. todo' \in Todos \ {<<"dispatch">>, <<"over">>}
  BY <1>1, <1>2 DEF Follows
<1>4. ~At("dispatch")' /\ ~At("resolve")' /\ ~At("first")' /\ ~At("second")' /\ ~At("files")'
  BY <1>1, <1>2 DEF At, Follows
<1>5. CollectedInOrder' /\ Original'
  BY <1>1, <1>4 DEF CollectedInOrder, Original
<1>6. found # NotGiven
  <2>1. found \in [InEither -> {"only_a", "only_b", "identical", "append", "shrunk", "diverged"}]
    BY DEF VerdictOf, PrefixVerdict
  <2>2. InEither \in SUBSET DOMAIN LogFiles
    BY DEF InEither, Files
  <2> QED
    BY <2>1, <2>2, ValidateAssumption
<1>7. PairJudged'
  <2>1. InEither' = InEither
    BY <1>1 DEF InEither
  <2> QED
    BY <1>1, <1>6, <2>1 DEF PairJudged
<1>8. ~showing /\ code' \in {NotGiven, "pass", "fail"}
  BY <1>1 DEF ReferenceIsThere, At
<1>9. ValidateTyped'
  BY <1>1, <1>3, <1>8 DEF ValidateTyped, ValidateTypeOK, product
<1>10. ReferenceIsThere'
  BY <1>1, <1>2, <1>3, <1>8 DEF ReferenceIsThere, Follows, product
<1>11. CASE code' # "pass"
  BY <1>3, <1>5, <1>7, <1>9, <1>10, <1>11 DEF NothingLeftBehind, PassIsEarned
<1>12. CASE code' = "pass"
  <2>1. Len(todo) <= 1 /\ \A f \in InEither : found[f] # "diverged"
    BY <1>1, <1>2, <1>12, ValidateAssumption DEF Follows
  <2>2. dbEntries' = NotGiven
    BY <1>1, <1>2, <2>1 DEF Follows, ReferenceIsThere, product
  <2>3. \A f \in Files : IsLogData(f) => second[f] # "rewritten"
    BY <1>1, <2>1, RewrittenIsSeen
  <2>4. PassIsEarned'
    BY <1>1, <2>2, <2>3 DEF PassIsEarned
  <2> QED
    BY <1>3, <1>5, <1>7, <1>9, <1>10, <2>4 DEF NothingLeftBehind
<1> QED
  BY <1>11, <1>12

\* The reference and the database are made.
LEMMA MakingStep ==
  /\ ValidateInv
  /\ Unpack \/ BuildLogarchive \/ ShowStarts \/ ShowWrites \/ ShowFails \/ ShowEnds \/ ExtractLogarchive
  => ValidateInv'
<1> SUFFICES ASSUME ValidateInv,
                    Unpack \/ BuildLogarchive \/ ShowStarts \/ ShowWrites \/ ShowFails \/ ShowEnds
                      \/ ExtractLogarchive
             PROVE  ValidateInv'
  OBVIOUS
<1> USE DEF ValidateInv
<1>0. showing => At("show") /\ code = NotGiven /\ shown \subseteq Entries
  BY DEF ReferenceIsThere
<1>1. /\ code = NotGiven /\ todo # <<>> /\ Head(todo) \in {"unpack", "build", "show", "extract"}
      /\ \/ todo' = Tail(todo) /\ code' = code
         \/ todo' = todo /\ code' \in {code, "raised"}
      /\ UNCHANGED phone
  BY <1>0 DEF Unpack, BuildLogarchive, ShowStarts, ShowWrites, ShowFails, ShowEnds,
     ExtractLogarchive, Now, Done, RaiseError, At
<1>2. /\ CollectedInOrder' /\ Original' /\ PairJudged' /\ NothingLeftBehind'
      /\ Follows(todo) /\ todo' \in Todos \ {<<"dispatch">>, <<"over">>}
  BY <1>1, MovesOn
<1>3. PassIsEarned'
  BY <1>1, ValidateAssumption DEF PassIsEarned
<1>4. /\ temps' \subseteq {"collect", "pmd3", "ref", "pkg", "db"}
      /\ lasting' \subseteq {"ref", "db", "archive"}
  BY DEF Unpack, BuildLogarchive, ShowStarts, ShowWrites, ShowFails, ShowEnds,
     ExtractLogarchive, product, ValidateTyped, ValidateTypeOK
<1>5. /\ shown' = NotGiven \/ shown' \subseteq Entries
      /\ dbEntries' = NotGiven \/ dbEntries' \subseteq Entries
  BY <1>0 DEF Unpack, BuildLogarchive, ShowStarts, ShowWrites, ShowFails, ShowEnds,
     ExtractLogarchive, product, ValidateTyped, ValidateTypeOK
<1>6. showing' \in BOOLEAN
  BY DEF Unpack, BuildLogarchive, ShowStarts, ShowWrites, ShowFails, ShowEnds,
     ExtractLogarchive, product, ValidateTyped
<1>7. ValidateTyped'
  BY <1>1, <1>2, <1>4, <1>5, <1>6 DEF ValidateTyped, ValidateTypeOK, phone
<1>8. CASE Unpack \/ BuildLogarchive
  <2>1. UNCHANGED <<shown, dbEntries, showing>> /\ Head(todo) \in {"unpack", "build"}
    BY <1>8 DEF Unpack, BuildLogarchive, Now
  <2>2. ReferenceIsThere'
    BY <1>1, <1>2, <2>1 DEF ReferenceIsThere, Follows, At
  <2> QED
    BY <1>2, <1>3, <1>7, <2>2
<1>9. CASE ShowStarts \/ ShowWrites \/ ShowFails
  <2>1. /\ Head(todo) = "show" /\ todo \notin Comparing /\ todo' = todo /\ dbEntries' = dbEntries
        /\ showing' => code' = code /\ shown' \subseteq Entries
    BY <1>0, <1>2, <1>9 DEF ShowStarts, ShowWrites, ShowFails, Now, At, Follows, RaiseError,
       ReferenceIsThere
  <2>2. ReferenceIsThere'
    BY <1>1, <1>2, <2>1 DEF ReferenceIsThere, At
  <2> QED
    BY <1>2, <1>3, <1>7, <2>2
<1>10. CASE ShowEnds
  <2>1. /\ Head(todo) = "show" /\ todo' = Tail(todo) /\ ~showing' /\ shown' = Entries
    BY <1>0, <1>10 DEF ShowEnds, Done, At
  <2>2. ReferenceIsThere'
    BY <1>1, <1>2, <2>1 DEF ReferenceIsThere, Follows
  <2> QED
    BY <1>2, <1>3, <1>7, <2>2
<1>11. CASE ExtractLogarchive
  <2>1. /\ Head(todo) = "extract" /\ ~showing' /\ shown' = shown
        /\ todo' = Tail(todo) \/ dbEntries' = dbEntries
    BY <1>0, <1>11 DEF ExtractLogarchive, Now, Done, At
  <2>2. ReferenceIsThere'
    BY <1>1, <1>2, <2>1 DEF ReferenceIsThere, Follows
  <2> QED
    BY <1>2, <1>3, <1>7, <2>2
<1> QED
  BY <1>8, <1>9, <1>10, <1>11

\* The export and the comparison, and the end of a run.
LEMMA EndingStep ==
  ValidateInv /\ (ExportStarts \/ ExportEnds \/ CompareBoth \/ Return \/ Finalise) => ValidateInv'
<1> SUFFICES ASSUME ValidateInv, ExportStarts \/ ExportEnds \/ CompareBoth \/ Return \/ Finalise
             PROVE  ValidateInv'
  OBVIOUS
<1> USE DEF ValidateInv
<1>1. CASE ExportStarts \/ ExportEnds
  <2>1. UNCHANGED <<inputs, phone, todo, temps, lasting, trees, shown, dbEntries, showing, code>>
    BY <1>1 DEF ExportStarts, ExportEnds
  <2>2. CollectedInOrder' /\ Original' /\ PairJudged'
    BY <2>1, PhoneKept
  <2>3. ValidateTyped'
    BY <2>1 DEF ValidateTyped, ValidateTypeOK, phone
  <2>4. ReferenceIsThere' /\ PassIsEarned'
    BY <2>1 DEF ReferenceIsThere, PassIsEarned, At, phone, inputs
  <2>5. NothingLeftBehind'
    BY <2>1, NothingLeftKept DEF inputs
  <2> QED
    BY <2>2, <2>3, <2>4, <2>5
<1>2. CASE CompareBoth
  <2>1. /\ todo # <<>> /\ Head(todo) = "compare" /\ code = NotGiven /\ todo' = Tail(todo)
        /\ code' = IF Passes(Cardinality(shown \ dbEntries)) THEN "pass" ELSE "fail"
        /\ UNCHANGED <<inputs, phone, temps, lasting, product>>
    BY <1>2 DEF CompareBoth, Now, Done
  <2>2. /\ CollectedInOrder' /\ Original' /\ PairJudged' /\ NothingLeftBehind'
        /\ Follows(todo) /\ todo' \in Todos \ {<<"dispatch">>, <<"over">>}
    BY <2>1, MovesOn
  <2>3. ~showing /\ code' \in {"pass", "fail"} /\ shown = Entries
    BY <2>1, <2>2 DEF ReferenceIsThere, At, Follows
  <2>4. ValidateTyped'
    BY <2>1, <2>2, <2>3 DEF ValidateTyped, ValidateTypeOK, phone, product
  <2>5. ReferenceIsThere'
    BY <2>1, <2>2, <2>3 DEF ReferenceIsThere, Follows, product
  <2>6. CASE code' # "pass"
    BY <2>2, <2>4, <2>5, <2>6 DEF PassIsEarned
  <2>7. CASE code' = "pass"
    <3>1. Cardinality(Entries \ dbEntries) <= args.allow /\ FilesPassed
      BY <2>1, <2>3, <2>7 DEF Passes
    <3>2. ASSUME archives.second # NotGiven
          PROVE  \A f \in Files : IsLogData(f) => second[f] # "rewritten"
      <4>1. verdicts = [f \in InEither |-> VerdictOf(archives.first[f], archives.second[f])]
            /\ verdicts # NotGiven
        BY <2>1, <3>2 DEF PairJudged, At
      <4>2. \A f \in InEither : VerdictOf(archives.first[f], archives.second[f]) # "diverged"
        BY <3>1, <4>1 DEF FilesPassed
      <4> QED
        BY <3>2, <4>2, RewrittenIsSeen
    <3>3. PassIsEarned'
      BY <2>1, <2>3, <3>1, <3>2 DEF PassIsEarned, phone, product, inputs
    <3> QED
      BY <2>2, <2>4, <2>5, <3>3
  <2> QED
    BY <2>6, <2>7
<1>3. CASE Return
  <2>1. /\ code # NotGiven /\ todo' = <<"over">> /\ UNCHANGED <<inputs, phone, lasting, product, code>>
        /\ temps' = UNION { DirOf(a) : a \in lasting }
    BY <1>3 DEF Return, Cleanup
  <2>2. CollectedInOrder' /\ Original' /\ PairJudged'
    BY <2>1, PhoneKept
  <2>3. /\ todo' \notin Comparing \cup Acquiring /\ todo' \in Todos /\ ~showing
    BY <2>1 DEF Comparing, Acquiring, Todos, ReferenceIsThere
  <2>4. temps' \subseteq {"ref", "pkg", "db"}
    <3>1. \A a \in {"ref", "archive", "db"} : DirOf(a) \subseteq {"ref", "pkg", "db"}
      BY DEF DirOf
    <3> QED
      BY <2>1, <3>1 DEF ValidateTyped, ValidateTypeOK
  <2>5. ValidateTyped'
    BY <2>1, <2>3, <2>4 DEF ValidateTyped, ValidateTypeOK, phone, product
  <2>6. ReferenceIsThere' /\ PassIsEarned'
    BY <2>1, <2>3 DEF ReferenceIsThere, PassIsEarned, phone, product, inputs
  <2>7. NothingLeftBehind'
    <3>1. \A a : DirOf(a)' = DirOf(a)
      BY <2>1 DEF DirOf, inputs
    <3>2. (UNION { DirOf(a) : a \in lasting })' = UNION { DirOf(a)' : a \in lasting' }
      OBVIOUS
    <3>3. (UNION { DirOf(a) : a \in lasting })' = temps'
      BY <2>1, <3>1, <3>2, Zenon
    <3> QED
      BY <3>3 DEF NothingLeftBehind
  <2> QED
    BY <2>2, <2>5, <2>6, <2>7
<1>4. CASE Finalise
  <2>1. UNCHANGED <<inputs, phone, todo, lasting, product, code>> /\ temps' = {}
    BY <1>4 DEF Finalise
  <2>2. CollectedInOrder' /\ Original' /\ PairJudged'
    BY <2>1, PhoneKept
  <2>3. ValidateTyped'
    BY <2>1 DEF ValidateTyped, ValidateTypeOK, phone, product
  <2>4. ReferenceIsThere' /\ PassIsEarned'
    BY <2>1 DEF ReferenceIsThere, PassIsEarned, At, phone, product, inputs
  <2>5. NothingLeftBehind'
    BY <2>1, NothingLeftKept DEF inputs
  <2> QED
    BY <2>2, <2>3, <2>4, <2>5
<1> QED
  BY <1>1, <1>2, <1>3, <1>4

LEMMA ValidateStep == ValidateInv /\ [ValidateNext]_validate => ValidateInv'
<1>1. ValidateInv /\ ValidateNext => ValidateInv'
  BY PlanningStep, CollectingStep, ArchivesStep, MakingStep, EndingStep DEF ValidateNext
<1>2. ASSUME ValidateInv, UNCHANGED validate PROVE ValidateInv'
  <2>1. UNCHANGED <<args, phone, todo, temps, lasting, shown, dbEntries, showing, code>>
    BY <1>2 DEF validate, phone
  <2>2. CollectedInOrder' /\ Original' /\ PairJudged'
    BY <1>2, <2>1, PhoneKept
  <2>3. ValidateTyped'
    BY <1>2, <2>1 DEF ValidateInv, ValidateTyped, ValidateTypeOK, phone
  <2>4. ReferenceIsThere' /\ PassIsEarned'
    BY <1>2, <2>1 DEF ValidateInv, ReferenceIsThere, PassIsEarned, At, phone
  <2>5. NothingLeftBehind'
    BY <1>2, <2>1, NothingLeftKept DEF ValidateInv
  <2> QED
    BY <2>2, <2>3, <2>4, <2>5 DEF ValidateInv
<1> QED
  BY <1>1, <1>2

LEMMA HonestFromInv == ValidateInv => ValidationIsHonest
<1> SUFFICES ASSUME ValidateInv PROVE ValidationIsHonest
  OBVIOUS
<1>1. ASSUME verdicts # NotGiven, NEW f \in DOMAIN verdicts PROVE verdicts[f] \in Meant[second[f]]
  <2>1. /\ archives.second # NotGiven /\ f \in InEither
        /\ verdicts[f] = VerdictOf(archives.first[f], archives.second[f])
    BY <1>1 DEF ValidateInv, PairJudged
  <2>2. archives.first # NotGiven
    BY <2>1 DEF ValidateInv, CollectedInOrder
  <2>3. f \in Files /\ (archives.first[f] # NotGiven \/ archives.second[f] # NotGiven)
    BY <2>1 DEF InEither
  <2>4. archives.first[f] \in FileBytes /\ archives.second[f] \in FileBytes
        /\ second[f] \in DOMAIN Meant
    BY <2>1, <2>2, <2>3 DEF ValidateInv, ValidateTyped
  <2>5. Became(archives.first[f], archives.second[f], second[f])
    BY <2>1, <2>3 DEF ValidateInv, CollectedInOrder
  <2> QED
    BY <2>1, <2>3, <2>4, <2>5, VerdictMeans
<1> QED
  BY <1>1 DEF ValidateInv, ValidateTyped, ValidationIsHonest, VerdictsAreTrue

\* Whatever the device writes between its two collections, Apple's tool makes of the archive
\* and the run was told to keep: a pass is earned, each log file's verdict is what was done
\* to it, and no temporary directory outlives the run (validation/pipeline.py).
THEOREM ValidationTellsTheTruth == ValidateSpec => []ValidationIsHonest
<1> QED
  BY ValidateInitInv, ValidateStep, HonestFromInv, PTL DEF ValidateSpec

------------------------------------------------------------------------------
(* The chain *)

\* Every behaviour of the chain is one of each of its stages.
LEMMA ChainOfStages ==
  Spec => /\ AcquireSpec /\ SourceSpec /\ ExtractSpec
          /\ SessionSpec /\ VerifySpec /\ ValidateSpec
<1>1. Init => /\ AcquireInit /\ SourceInit /\ ExtractInit
              /\ SessionInit /\ VerifyInit /\ ValidateInit
  BY DEF Init
<1>2. [Next]_custody => /\ [AcquireNext]_acquisition /\ [SourceNext]_source
                        /\ [ExtractNext]_extract
                        /\ [SessionNext]_sessions /\ [VerifyNext]_verify
                        /\ [ValidateNext]_validate
  BY DEF Next, custody
<1> QED
  BY <1>1, <1>2, PTL DEF Spec, AcquireSpec, SourceSpec, ExtractSpec, SessionSpec, VerifySpec,
     ValidateSpec

\* What each stage promises holds along the chain: what is acquired is whole, what
\* is prepared is this call's, what is attested, sealed, verified and validated is so, and
\* the pipeline in between is the one ExtractProofs is about.
THEOREM CustodyHolds ==
  Spec => /\ ExtractSpec
          /\ []OutputIsWhole /\ []CancelLeavesNoOutput
          /\ []NoForeignEvidence /\ []AttestationIsTrue
          /\ []SealCoversSession /\ []VerifyTellsTheTruth /\ []ValidationIsHonest
  BY ChainOfStages, AcquisitionIsWhole, StoppedEarlyLeavesNothing, OnlyThisCallsEvidence,
     AttestationHolds, SealsCover, VerificationIsTrue, ValidationTellsTheTruth
=============================================================================
