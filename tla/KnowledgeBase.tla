--------------------------- MODULE KnowledgeBase ---------------------------
(***************************************************************************)
(* The knowledge base on disk: load_kb reads every file of signatures/ and *)
(* refuses the whole on the first error; write_signature renders a draft   *)
(* as YAML, writes it, reloads everything and takes the file back when the *)
(* reload fails (ops/knowledge_base/, gui/views/dialog_signature.py).  A   *)
(* text is one of a few kinds, told apart by what YAML does to them.       *)
(***************************************************************************)
EXTENDS Naturals, Sequences, FiniteSets

CONSTANTS
  KbFiles,   \* the files signatures/ may hold, in sorted order; a draft's file is its id
  Drafts,    \* the drafts an analyst may submit
  Initial,   \* the knowledge bases to start from: [file -> content or NoFile]
  NoFile,
  Broken,    \* a file YAML cannot parse: hand-made, or half written
  Labels,    \* labels.yaml, {} when there is none
  MaxWrites  \* bound: writes in a behaviour

Names == { KbFiles[i] : i \in DOMAIN KbFiles }

\* Kinds of text: nothing; a bare word; a word YAML 1.1 reads as a boolean, listed by the
\* writer or not; text that needs quotes; several lines, without and with a last newline;
\* and those lines run together into one.
Unlisted  == {"on"}
VARIABLES
  files,     \* signatures/ now
  before,    \* history: signatures/ when the write in progress began
  kpc,       \* "rest", "written" or "refused"
  draft,     \* the draft being written
  lastOk,    \* the last write returned
  killed,    \* history: a write was killed, or the disk filled, before it was checked
  writes,
  report     \* what kb validate last said

kb == <<files, before, kpc, draft, lastOk, killed, writes, report>>

------------------------------------------------------------------------------
\* YAML: what a rendered text is when it is read back; "bool" is no string.

\* _bare_or_dq: a listed word is quoted, an unlisted one is not.
BareRoundTrip(t) == IF t \in Unlisted THEN "bool" ELSE t

\* Mutant of TextRoundTrip: clip chomping, one newline whatever the text ended with.
ClippedRoundTrip(t) == IF t = "lines" THEN "lines+" ELSE t

\* _emit_text and _block: the block of a text of several lines is stripped of its last
\* newline; on one line, quoted by _dq as an action always is, it comes back as it was.
TextRoundTrip(t) == IF t = "lines+" THEN "lines" ELSE t

\* _sq: a pattern is put in single quotes with its newlines as they are, and YAML folds a
\* line break inside quotes to a space.
PatternRoundTrip(t) == IF t = "lines" THEN "folded" ELSE t

\* render_signature, then yaml.safe_load of it: one signature, default fields left out.
Rendered(d) ==
  [id |-> d.id, action |-> d.action,
   description |-> TextRoundTrip(d.description),
   anchors |-> d.anchors, process |-> BareRoundTrip(d.process),
   regex |-> PatternRoundTrip(d.regex), tags |-> { BareRoundTrip(t) : t \in d.tags },
   choices |-> d.choices, labels |-> d.labels]

\* A draft's file has its place, and no rendering is mistaken for a file that is not there.
ASSUME KbAssumption ==
  /\ MaxWrites \in Nat /\ \A f \in Initial : DOMAIN f = Names
  /\ \A d \in Drafts : d.id \in Names /\ {Rendered(d)} \notin {NoFile, Broken}

------------------------------------------------------------------------------
\* load_kb.

\* _build_match: exactly one anchor, a dynamic one with a pattern, strings where strings
\* are due, levels and event types of the lists, patterns that compile.
MatchIsValid(s) ==
  /\ Cardinality(s.anchors) = 1
  /\ "dynamic" \in s.anchors => s.regex # ""
  /\ s.regex # "bad"
  /\ s.process # "bool"

\* _build_signature: the required fields, the enumerated ones, then the match.
SignatureIsValid(s) ==
  /\ s.id # "" /\ s.action \notin {"", "bool"} /\ s.description # "bool"
  /\ s.choices = "listed"
  /\ "bool" \notin s.tags
  /\ MatchIsValid(s)

Present(f)   == SelectSeq(KbFiles, LAMBDA n : f[n] # NoFile)
Contents(f)  == { f[n] : n \in { m \in Names : f[m] # NoFile } }
AllSigs(f)   == UNION { f[n] : n \in { m \in Names : f[m] \notin {NoFile, Broken} } }

\* load_kb over a signatures/ directory: it loads, or raises KnowledgeBaseError.
Loads(f) ==
  /\ \E n \in Names : f[n] # NoFile
  /\ Broken \notin Contents(f)
  /\ \A s \in AllSigs(f) : SignatureIsValid(s)
  /\ \A m, n \in Names : f[m] # NoFile /\ f[n] # NoFile =>
       \A s \in f[m], t \in f[n] : s.id = t.id => m = n /\ s = t

\* The rolling digest: the version, the vocabulary, and each path with its bytes, in order.
Digest(f) == <<Labels, [i \in DOMAIN Present(f) |-> <<Present(f)[i], f[Present(f)[i]]>>]>>

------------------------------------------------------------------------------
\* lint_labels: labels the vocabulary does not list; no vocabulary, no warning.
LintLabels(f) ==
  IF Labels = {} THEN {} ELSE UNION { { <<s.id, l>> : l \in s.labels \ Labels } : s \in AllSigs(f) }

\* faul kb validate: one of "invalid", "warnings", "clean", with the digest when it loads.
Validate ==
  /\ report' = IF ~Loads(files) THEN <<"invalid", <<>>>>
               ELSE <<IF LintLabels(files) = {} THEN "clean" ELSE "warnings", Digest(files)>>
  /\ UNCHANGED <<files, before, kpc, draft, lastOk, killed, writes>>

------------------------------------------------------------------------------
KbInit ==
  /\ files \in Initial /\ before = files /\ kpc = "rest"
  /\ draft = CHOOSE d \in Drafts : TRUE
  /\ lastOk = FALSE /\ killed = FALSE /\ writes = 0 /\ report = <<"clean", <<>>>>

\* SignatureDialog._validate: what keeps the Save button off.
DialogAllows(d) ==
  /\ d.id # "" /\ files[d.id] = NoFile
  /\ d.action # "" /\ d.regex \notin {"", "bad"}

\* SignatureDialog.draft: the form strips its fields and always anchors on dynamic.
FromDialog(d) == d.anchors = {"dynamic"} /\ d.description # "lines+" /\ d.choices = "listed"

\* write_signature up to write_text: an existing file is refused.
WriteText(d) ==
  /\ kpc = "rest" /\ writes < MaxWrites /\ writes' = writes + 1
  /\ files[d.id] = NoFile
  /\ before' = files /\ draft' = d /\ lastOk' = FALSE
  /\ files' = [files EXCEPT ![d.id] = {Rendered(d)}]
  /\ kpc' = "written"
  /\ UNCHANGED <<killed, report>>

\* SignatureDialog._on_save.
Save(d) == FromDialog(d) /\ DialogAllows(d) /\ WriteText(d)

\* The process dies, or the disk is full, with part of the file written.
WriteBreaks(d) ==
  /\ kpc = "rest" /\ writes < MaxWrites /\ writes' = writes + 1
  /\ files[d.id] = NoFile
  /\ files' = [files EXCEPT ![d.id] = Broken]
  /\ killed' = TRUE /\ lastOk' = FALSE /\ draft' = d /\ before' = files
  /\ UNCHANGED <<kpc, report>>

\* The reload of the whole knowledge base, with the new file in it.
Reload ==
  /\ kpc = "written"
  /\ kpc' = IF Loads(files) THEN "rest" ELSE "refused"
  /\ lastOk' = Loads(files)
  /\ UNCHANGED <<files, before, draft, killed, writes, report>>

\* out_path.unlink, then the error.
Unlink ==
  /\ kpc = "refused" /\ kpc' = "rest"
  /\ files' = [files EXCEPT ![draft.id] = NoFile]
  /\ UNCHANGED <<before, draft, lastOk, killed, writes, report>>

\* A kill before the file was checked or taken back.
KilledUnchecked ==
  /\ kpc \in {"written", "refused"}
  /\ kpc' = "rest" /\ killed' = TRUE /\ lastOk' = FALSE
  /\ UNCHANGED <<files, before, draft, writes, report>>

KbNext ==
  \/ \E d \in Drafts : WriteText(d) \/ Save(d) \/ WriteBreaks(d)
  \/ Reload \/ Unlink \/ KilledUnchecked \/ Validate

KbSpec == KbInit /\ [][KbNext]_kb

KbTypeOK ==
  /\ DOMAIN files = Names /\ DOMAIN before = Names
  /\ kpc \in {"rest", "written", "refused"} /\ (writes > 0 => draft \in Drafts)
  /\ lastOk \in BOOLEAN /\ killed \in BOOLEAN /\ writes \in 0..MaxWrites
  /\ report[1] \in {"invalid", "warnings", "clean"}

------------------------------------------------------------------------------
\* Writing a signature never breaks the knowledge base for anyone else: one that loaded
\* before the call loads after it, whether the draft was accepted or refused
\* (writer.py: "an invalid signature can never be left on disk"), unless a kill or a
\* full disk came between the write and the check.
NoInvalidLeft ==
  writes > 0 /\ kpc = "rest" /\ ~killed /\ Loads(before) => Loads(files)

\* A call that returns has put on disk a signature that says what the draft says: no
\* constraint, tag or text is changed on its way through YAML; drafts that YAML would
\* change (a process called "on") are refused, not altered.  There are two exceptions: the
\* block scalar drops a last newline, and a pattern of several lines is folded.
WrittenIsDraft ==
  kpc = "rest" /\ lastOk =>
    \E s \in files[draft.id] :
      /\ s.id = draft.id /\ s.action = draft.action
      /\ s.process = draft.process /\ s.tags = draft.tags
      /\ draft.description # "lines+" => s.description = draft.description
      /\ draft.regex # "lines" => s.regex = draft.regex

\* The dialog: "The regex starts escaped, matching this line exactly".  A signature that
\* was saved carries the pattern of its draft.  Violated when the line selected has
\* several lines: the signature loads, and matches another text.
PatternIsKept ==
  kpc = "rest" /\ lastOk => \E s \in files[draft.id] : s.regex = draft.regex

\* Both: what is on disk after a call loads, and says what was submitted.
KbIsSound == KbTypeOK /\ NoInvalidLeft /\ WrittenIsDraft
=============================================================================
