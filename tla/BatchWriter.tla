---------------------------- MODULE BatchWriter ----------------------------
(***************************************************************************)
(* engine/database/writer.py: log entries are turned into rows, a batch    *)
(* at a time, over one SQLite connection.  A row names its process by the  *)
(* id of a lookup row that the writer inserts on first use and remembers   *)
(* in a cache.  The lookup rows live in the open transaction until the     *)
(* next commit; the cache does not know about transactions.                *)
(*                                                                         *)
(* The caller hands over file after file: the serial loop of _run_parse,   *)
(* through process_tracev3, whose catch-all swallows what add() raises, or *)
(* the result handler of parallel_parse, where it ends the run.            *)
(***************************************************************************)
EXTENDS Naturals, Sequences, FiniteSets, SequencesExt, Listing

CONSTANTS
  ProcessNames, \* the process names entries carry
  NumFiles,     \* bound: files handed over
  MaxEntries,   \* bound: entries over all files
  WriterBatch,  \* self._batch_size
  Rejects,      \* may SQLite reject a single row (the transaction survives)?
  Aborts        \* may a statement abort the whole transaction (disk full, I/O)?

ASSUME BatchWriterAssumption ==
  /\ NumFiles \in Nat /\ MaxEntries \in Nat
  /\ WriterBatch \in Nat \ {0}
  /\ {Rejects, Aborts} \subseteq BOOLEAN

VARIABLES
  handed,    \* history: <<file, name>> of every entry handed to add(), in order
  committed, \* the lookup table on disk: its i-th name has id i
  table,     \* the same as the open transaction sees it
  cache,     \* self._processes: name -> id
  pending,   \* self._pending: rows <<entry, id>>
  stored,    \* the committed log rows, in rowid order
  dropped,   \* the entries counted in self._write_errors
  file,      \* the file being handed over
  emitting,  \* is process_tracev3 / add_batch still handing over its entries?
  parsed,    \* the files with parse_completed_at
  dead,      \* the run ended with an exception
  parallel,  \* opts.jobs > 1: what add() raises ends the run
  aborted    \* history: SQLite has rolled a transaction back

writer == <<handed, committed, table, cache, pending, stored, dropped, file,
           emitting, parsed, dead, parallel, aborted>>

lookup == <<committed, table, cache>>
caller == <<file, emitting, parsed, dead, parallel>>

Handed == 1..Len(handed)
WriterRow == Handed \X Nat

WriterTypeOK ==
  /\ handed \in Seq((1..NumFiles) \X ProcessNames)
  /\ committed \in Seq(ProcessNames) /\ table \in Seq(ProcessNames)
  /\ DOMAIN cache \subseteq ProcessNames
  /\ \A n \in DOMAIN cache : cache[n] \in Nat
  /\ pending \in Seq(WriterRow) /\ stored \in Seq(WriterRow)
  /\ dropped \subseteq Handed
  /\ file \in 1..NumFiles + 1
  /\ parsed \subseteq 1..NumFiles
  /\ {emitting, dead, parallel, aborted} \subseteq BOOLEAN

WriterInit ==
  /\ handed = <<>> /\ committed = <<>> /\ table = <<>>
  /\ cache = <<>>
  /\ pending = <<>> /\ stored = <<>> /\ dropped = {}
  /\ file = 1 /\ emitting = TRUE /\ parsed = {} /\ dead = FALSE
  /\ parallel \in BOOLEAN /\ aborted = FALSE

\* _get_or_insert: a cached id, or INSERT OR IGNORE and the id it finds.
Known(n) == n \in DOMAIN cache
TableWith(n) ==
  IF Known(n) \/ n \in Range(table) THEN table ELSE Append(table, n)
IdOf(n) ==
  IF Known(n) THEN cache[n]
  ELSE CHOOSE i \in DOMAIN TableWith(n) : TableWith(n)[i] = n
CacheWith(n) == [m \in DOMAIN cache \cup {n} |->
                   IF m = n THEN IdOf(n) ELSE cache[m]]

\* What an exception out of add() or flush() does to the caller: the serial
\* path turns it into one parse error of the file, whose hand-over is over.
Raised ==
  IF parallel THEN dead' = TRUE /\ UNCHANGED <<file, emitting, parsed, parallel>>
  ELSE emitting' = FALSE /\ UNCHANGED <<file, parsed, dead, parallel>>

-----------------------------------------------------------------------------
(* _flush_batch on the rows rs, with t the lookup table of the transaction *)

\* Rows whose lookup id no longer exists: foreign_keys is ON.
Dangling(rs, t) == {r \in ToSet(rs) : r[2] \notin DOMAIN t}

\* Mutants of Flushed: rejects are not counted; a reject rolls the whole
\* transaction back, lookup rows included.
FlushedSilently(rs, t, bad) ==
  /\ stored' = stored \o Without(rs, bad)
  /\ committed' = t /\ table' = t
  /\ pending' = <<>>
  /\ UNCHANGED dropped
FlushedRollingBack(rs, t, bad) ==
  LET left == IF bad = {} THEN t ELSE committed
      lost == bad \cup Dangling(rs, left)
  IN /\ stored' = stored \o Without(rs, lost)
     /\ dropped' = dropped \cup {r[1] : r \in lost}
     /\ committed' = left /\ table' = left
     /\ pending' = <<>>

\* Savepoint, rows, release, commit; bad is what SQLite rejects one by one.
Flushed(rs, t, bad) ==
  /\ stored' = stored \o Without(rs, bad)
  /\ dropped' = dropped \cup {r[1] : r \in bad}
  /\ committed' = t /\ table' = t
  /\ pending' = <<>>

\* The transaction is rolled back under the savepoint: ROLLBACK TO finds no
\* savepoint and raises, the finally clause clears the batch, and the lookup
\* rows not yet committed are gone, though the cache still has their ids.
FlushAborted ==
  /\ table' = committed
  /\ pending' = <<>> /\ aborted' = TRUE
  /\ UNCHANGED <<committed, stored, dropped>>

FlushOutcome(rs, t) ==
  \E unlucky \in (IF Rejects THEN SUBSET ToSet(rs) ELSE {{}}) :
    Flushed(rs, t, Dangling(rs, t) \cup unlucky)

-----------------------------------------------------------------------------
(* add(entry) for an entry of process n *)

NextRow(n) == <<Len(handed) + 1, IdOf(n)>>

CanAdd == ~dead /\ emitting /\ file <= NumFiles /\ Len(handed) < MaxEntries

Hand(n) == handed' = Append(handed, <<file, n>>)

\* The row waits for its batch to fill.
AddQueues(n) ==
  /\ CanAdd /\ Hand(n)
  /\ Len(pending) + 1 < WriterBatch
  /\ pending' = Append(pending, NextRow(n))
  /\ table' = TableWith(n)
  /\ cache' = CacheWith(n)
  /\ UNCHANGED <<committed, stored, dropped, caller, aborted>>

\* The row fills the batch, which is flushed before add returns.
AddFlushes(n) ==
  /\ CanAdd /\ Hand(n)
  /\ Len(pending) + 1 >= WriterBatch
  /\ FlushOutcome(Append(pending, NextRow(n)), TableWith(n))
  /\ cache' = CacheWith(n)
  /\ UNCHANGED <<caller, aborted>>

AddFlushAborts(n) ==
  /\ Aborts
  /\ CanAdd /\ Hand(n)
  /\ Len(pending) + 1 >= WriterBatch
  /\ FlushAborted
  /\ cache' = CacheWith(n)
  /\ Raised

\* The lookup INSERT itself aborts the transaction, inside _to_row: nothing
\* is queued, what was queued stays, and the transaction's names are gone.
AddLookupAborts(n) ==
  /\ Aborts
  /\ CanAdd /\ Hand(n)
  /\ ~Known(n)
  /\ table' = committed /\ aborted' = TRUE
  /\ UNCHANGED <<committed, cache, pending, stored, dropped>>
  /\ Raised

-----------------------------------------------------------------------------
(* The caller between files *)

\* The file has no more entries, or its end is not reached for the fatal
\* error of another chunk; either way process_tracev3 returns normally.
EndOfFile ==
  /\ ~dead /\ emitting /\ file <= NumFiles
  /\ emitting' = FALSE
  /\ UNCHANGED <<handed, lookup, pending, stored, dropped, file, parsed, dead, parallel, aborted>>

\* mark_file_parsed and its commit, for the next file to begin.
Mark ==
  /\ parsed' = parsed \cup {file}
  /\ file' = file + 1
  /\ emitting' = TRUE
  /\ UNCHANGED <<dead, parallel, aborted>>

\* writer.flush(), then mark_file_parsed.
FlushAndMark ==
  /\ ~dead /\ ~emitting
  /\ IF pending = <<>>
     THEN committed' = table /\ UNCHANGED <<table, pending, stored, dropped>>
     ELSE FlushOutcome(pending, table)
  /\ Mark
  /\ UNCHANGED <<handed, cache>>

\* This flush is outside process_tracev3: what it raises ends either run.
FlushDies ==
  /\ Aborts
  /\ ~dead /\ ~emitting /\ pending # <<>>
  /\ FlushAborted
  /\ dead' = TRUE
  /\ UNCHANGED <<handed, cache, file, emitting, parsed, parallel>>

Add ==
  \E n \in ProcessNames :
    \/ AddQueues(n) \/ AddFlushes(n) \/ AddFlushAborts(n) \/ AddLookupAborts(n)

WriterNext == Add \/ EndOfFile \/ FlushAndMark \/ FlushDies

WriterSpec == WriterInit /\ [][WriterNext]_writer

-----------------------------------------------------------------------------
(* What must hold *)

\* The name a stored row resolves to through its id is the name its entry
\* carried: no log line is ever attributed to another process.  writer.py says
\* of a failed batch that the lookup inserts made before its savepoint
\* "survive and the cached ids stay valid".
IdsOutliveAborts ==
  \A i \in DOMAIN stored :
    LET r == stored[i]
    IN r[2] \in DOMAIN committed /\ committed[r[2]] = handed[r[1]][2]

\* The same for a run that has lost no transaction, or that ends when it does:
\* whatever rows SQLite rejects, the ids of the others name their processes.
NamesAreTrue == parallel \/ ~aborted => IdsOutliveAborts

\* parse_completed_at: no entry of a marked file is still in the buffer.
MarkedIsFlushed ==
  \A i \in DOMAIN pending : handed[pending[i][1]][1] \notin parsed

\* Rows of one file reach the table in the order the file holds them, which
\* assign_ordering relies on for its last tie-break.
StoredInFileOrder ==
  \A i, j \in DOMAIN stored : i < j => stored[i][1] < stored[j][1]

\* An entry handed to add() is never lost silently: until the run dies it is
\* stored, still queued, or counted in write_errors, and in only one of them;
\* a serial run that goes on after an aborted transaction stores none twice,
\* and a file is marked parsed only once its last entry has been flushed.  Rows come in
\* the order of their file.
EveryEntryAccounted ==
  LET inDb == {r[1] : r \in ToSet(stored)}
      inQueue == {r[1] : r \in ToSet(pending)}
  IN /\ WriterTypeOK /\ MarkedIsFlushed /\ StoredInFileOrder
     /\ Len(stored) = Cardinality(inDb)
     /\ inDb \cap inQueue = {} /\ (inDb \cup inQueue) \cap dropped = {}
     /\ dead \/ (aborted /\ ~parallel) \/ inDb \cup inQueue \cup dropped = Handed
=============================================================================
