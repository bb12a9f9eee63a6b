----------------------------- MODULE LogFormat -----------------------------
(***************************************************************************)
(* The write-ahead log as src/omen/wal.rs lays it out: entries are written *)
(* word by word behind each other, a write may stop in the middle (the     *)
(* process ends, or the disk is full and the process goes on), and an open *)
(* makes of the words what it can.                                         *)
(*                                                                         *)
(* A word is a natural number and stands for one field: a length, a        *)
(* timestamp, a checksum, a string, a float.  A header is four words.  The *)
(* epoch of the log is the business of OmenStore.                          *)
(***************************************************************************)
EXTENDS Integers, Sequences, FiniteSets, SequencesExt

CONSTANTS
  Payload,     \* what callers log: see EncodedPayload
  None,        \* an absent vector, metadata document, or cutoff
  MaxEntry,    \* MAX_ENTRY_SIZE in words; checksums are larger
  MaxAppends, MaxFaults, MaxRestarts   \* bounds

ASSUME BoundsAssumption == {MaxEntry, MaxAppends, MaxFaults, MaxRestarts} \subseteq Nat

VARIABLES
  file,      \* the words of x.wal
  pos,       \* where the file handle writes next
  nextTs,    \* next_timestamp
  count,     \* entry_count
  up,        \* the store is open
  cutoff,    \* the manifest's replay cutoff for this log, or None
  written,   \* history: the entries acknowledged since the log was truncated
  intact,    \* history: how many of them precede the first torn entry
  covered,   \* history: how many of them the manifest contains
  budget

vars == <<file, pos, nextTs, count, up, cutoff, written, intact, covered, budget>>

Largest(S) == CHOOSE x \in S : \A y \in S : y <= x

-----------------------------------------------------------------------------
\* Entries as words.

TypeCode == [upsert |-> 1, delete |-> 2, insert_edge |-> 3, delete_edge |-> 4]

Known(code) == code \in {1, 2, 3, 4, 100}

\* A checksum: 0 for no data, otherwise a number larger than any length.
Crc(data) ==
  IF data = << >> THEN 0
  ELSE FoldLeft(LAMBDA a, w : (a * 31 + w + 1) % 60013, 7, data) + 10 * MaxEntry

Sized(s) == IF s = None THEN <<0>> ELSE <<Len(s)>> \o s

EncodedUpsert(r) ==
  Sized(<<r.id>>) \o <<0>> \o Sized(r.dense)
  \o (IF r.sparse = None THEN <<0>> ELSE Sized(r.sparse.indices) \o Sized(r.sparse.values))
  \o (IF r.multi = None THEN <<0>>
      ELSE <<Len(r.multi)>> \o <<IF r.multi = << >> THEN 0 ELSE Len(r.multi[1])>>
           \o FlattenSeq(r.multi))
  \o Sized(r.meta)

EncodedDelete(r) == Sized(<<r.id>>)

EncodedInsertEdge(r) ==
  Sized(<<r.from>>) \o Sized(<<r.to>>) \o Sized(<<r.kind>>) \o <<r.weight>> \o Sized(r.meta)

EncodedDeleteEdge(r) == Sized(<<r.from>>) \o Sized(<<r.to>>) \o Sized(<<r.kind>>)

EncodedPayload(r) == CASE r.op = "upsert" -> EncodedUpsert(r)
                       [] r.op = "delete" -> EncodedDelete(r)
                       [] r.op = "insert_edge" -> EncodedInsertEdge(r)
                       [] r.op = "delete_edge" -> EncodedDeleteEdge(r)

\* WalEntryHeader::to_bytes, then the data.
EntryWords(ts, r) ==
  LET data == EncodedPayload(r)
  IN  <<TypeCode[r.op], ts, Len(data), Crc(data)>> \o data

-----------------------------------------------------------------------------
\* The parsers.  They see data whose checksum fits, so that no read of theirs runs
\* past its end, or no data at all, on which they fail.

\* A length at p and so many words of width w; the next field starts at `next'.
Field(data, p, w) ==
  [val |-> IF data[p] = 0 THEN None ELSE SubSeq(data, p + 1, p + w * data[p]),
   next |-> p + 1 + w * data[p]]

\* (Mutation of ParsedUpsert: the length of the sparse values is not read.)
ParsedUpsertBlind(data) ==
  LET dense   == Field(data, 4, 1)
      indices == Field(data, dense.next, 1)
      values  == Field(data, indices.next, 1)
      meta    == Field(data, values.next, 1)
  IN  [op |-> "upsert", id |-> data[2], dense |-> dense.val, sparse |-> None,
       multi |-> None, meta |-> meta.val]

ParsedUpsert(data) ==
  LET dense   == Field(data, 4, 1)
      indices == Field(data, dense.next, 1)
      values  == IF indices.val = None THEN indices ELSE Field(data, indices.next, 1)
      count0  == data[values.next]
      dim     == IF count0 = 0 THEN 0 ELSE data[values.next + 1]
      rows    == values.next + (IF count0 = 0 THEN 1 ELSE 2)
      meta    == Field(data, rows + count0 * dim, 1)
  IN  [op |-> "upsert", id |-> data[2], dense |-> dense.val,
       sparse |-> IF indices.val = None THEN None
                  ELSE [indices |-> indices.val, values |-> values.val],
       multi |-> IF count0 = 0 THEN None
                 ELSE [i \in 1..count0 |->
                         SubSeq(data, rows + (i - 1) * dim, rows + i * dim - 1)],
       meta |-> meta.val]

ParsedInsertEdge(data) ==
  [op |-> "insert_edge", from |-> data[2], to |-> data[4], kind |-> data[6],
   weight |-> data[7], meta |-> Field(data, 8, 1).val]

ParsedPayload(code, data) ==
  CASE code = 1 -> ParsedUpsert(data)
    [] code = 2 -> [op |-> "delete", id |-> data[2]]
    [] code = 3 -> ParsedInsertEdge(data)
    [] code = 4 -> [op |-> "delete_edge", from |-> data[2], to |-> data[4], kind |-> data[6]]

-----------------------------------------------------------------------------
\* Reading a log.

HeaderAt(f, p) == [code |-> f[p], ts |-> f[p + 1], len |-> f[p + 2], crc |-> f[p + 3]]

\* entries_after_checkpoint: a torn header ends the log, torn data and a length
\* that is too large fail, an entry of an unknown type and one whose checksum does
\* not fit are passed over; replay also passes over an entry without data, which no
\* parser takes.  An entry of an unknown type may reach past the end of the file, and
\* then so does the file position.
RECURSIVE ReadFrom(_, _, _)
ReadFrom(f, p, found) ==
  IF p + 3 > Len(f)
  THEN [ok |-> TRUE, entries |-> found, pos |-> Largest({p, Len(f) + 1})]
  ELSE LET h    == HeaderAt(f, p)
           next == p + 4 + h.len
           data == SubSeq(f, p + 4, next - 1)
       IN  IF h.len > MaxEntry \/ (Known(h.code) /\ next - 1 > Len(f))
           THEN [ok |-> FALSE, entries |-> << >>, pos |-> p]
           ELSE IF ~Known(h.code) \/ Crc(data) # h.crc \/ (data = << >> /\ h.code # 100)
           THEN ReadFrom(f, next, found)
           ELSE IF h.code = 100 THEN ReadFrom(f, next, << >>)
           ELSE ReadFrom(f, next, Append(found, [ts |-> h.ts,
                                                 payload |-> ParsedPayload(h.code, data)]))

PendingEntries(f) == ReadFrom(f, 1, << >>)

\* scan_for_timestamp: the timestamps of the headers, whatever their checksums.
RECURSIVE TimesFrom(_, _)
TimesFrom(f, p) ==
  IF p + 3 > Len(f) THEN << >>
  ELSE LET h    == HeaderAt(f, p)
           rest == TimesFrom(f, p + 4 + h.len)
       IN  IF Known(h.code) THEN <<h.ts>> \o rest ELSE rest

\* (Mutation of NextTimestamp: the highest timestamp is given out again.)
NextTimestampReused(f) ==
  IF f = << >> THEN 0 ELSE Largest({0} \cup ToSet(TimesFrom(f, 1)))

NextTimestamp(f) ==
  IF f = << >> THEN 0 ELSE Largest({0} \cup ToSet(TimesFrom(f, 1))) + 1

-----------------------------------------------------------------------------
\* Writing it.

\* The file after `words' are written at p; a gap before p reads as zeros.
WrittenAt(f, p, words) ==
  [i \in 1..Largest({Len(f), p + Len(words) - 1}) |->
     IF i >= p /\ i < p + Len(words) THEN words[i - p + 1]
     ELSE IF i <= Len(f) THEN f[i] ELSE 0]

Init == /\ file = << >> /\ pos = 1
        /\ nextTs = 0 /\ count = 0
        /\ up = TRUE
        /\ cutoff = None
        /\ written = << >> /\ intact = 0 /\ covered = 0
        /\ budget = [appends |-> MaxAppends, faults |-> MaxFaults, restarts |-> MaxRestarts]

NoFault == budget.faults = MaxFaults

\* Wal::append and sync.
AppendEntry(r) ==
  LET words == EntryWords(nextTs, r)
  IN  /\ up /\ budget.appends > 0
      /\ file' = WrittenAt(file, pos, words)
      /\ pos' = pos + Len(words)
      /\ nextTs' = nextTs + 1
      /\ count' = count + 1
      /\ written' = Append(written, [ts |-> nextTs, payload |-> r])
      /\ intact' = IF intact = Len(written) /\ pos = Len(file) + 1 /\ NoFault
                   THEN intact + 1 ELSE intact
      /\ budget' = [budget EXCEPT !.appends = @ - 1]
      /\ UNCHANGED <<up, cutoff, covered>>

\* The write stops after n words and the call fails: the timestamp is used up, the
\* entry not counted.  A process that ends here reopens next.
CutShort(r, n) ==
  /\ up /\ budget.appends > 0 /\ budget.faults > 0
  /\ file' = WrittenAt(file, pos, SubSeq(EntryWords(nextTs, r), 1, n))
  /\ pos' = pos + n
  /\ nextTs' = nextTs + 1
  /\ budget' = [budget EXCEPT !.appends = @ - 1, !.faults = @ - 1]
  /\ UNCHANGED <<count, up, cutoff, written, intact, covered>>

\* A full checkpoint publishes its manifest with max_timestamp as the cutoff.
Publish ==
  /\ up
  /\ cutoff' = IF count = 0 THEN None ELSE Largest({0, nextTs - 1})
  /\ covered' = Len(written)
  /\ UNCHANGED <<file, pos, nextTs, count, up, written, intact, budget>>

\* Wal::truncate, after a published manifest.  next_timestamp goes on.
Truncate ==
  /\ up /\ covered = Len(written)
  /\ file' = << >> /\ pos' = 1
  /\ count' = 0
  /\ cutoff' = None
  /\ written' = << >> /\ intact' = 0 /\ covered' = 0
  /\ UNCHANGED <<nextTs, up, budget>>

\* The process ends, and Wal::open and entries_after_checkpoint read the log.
Reopen ==
  LET read == PendingEntries(file)
  IN  /\ up /\ budget.restarts > 0
      /\ budget' = [budget EXCEPT !.restarts = @ - 1]
      /\ up' = read.ok
      /\ IF read.ok
         THEN /\ pos' = read.pos
              /\ nextTs' = NextTimestamp(file)
              /\ count' = Len(TimesFrom(file, 1))
         ELSE UNCHANGED <<pos, nextTs, count>>
      /\ UNCHANGED <<file, cutoff, written, intact, covered>>

Next == \/ \E r \in Payload : AppendEntry(r)
        \/ \E r \in Payload : \E n \in 0..Len(EncodedPayload(r)) + 3 : CutShort(r, n)
        \/ Publish \/ Truncate \/ Reopen

Spec == Init /\ [][Next]_vars

-----------------------------------------------------------------------------
\* The sequence without the elements whose positions are not in S.
Picked(s, S) == LET order == SetToSortSeq(S, <) IN [i \in 1..Len(order) |-> s[order[i]]]

\* What an open reads: every acknowledged entry before the first torn one, each with
\* its fields, in order, and after them only acknowledged entries, in order, never one
\* made of pieces.  Without a torn entry it reads them all and does not fail.
KeepsAcknowledged ==
  LET read == PendingEntries(file)
  IN  /\ NoFault => read.ok /\ read.entries = written
      /\ read.ok => /\ IsPrefix(SubSeq(written, 1, intact), read.entries)
                    /\ \E S \in SUBSET DOMAIN written : read.entries = Picked(written, S)

\* The replay after a checkpoint that published its manifest but did not truncate the
\* log skips the entries up to the manifest's cutoff: these are the ones the manifest
\* contains and no others, also when the log is written on after reopening.
CutoffSeparates ==
  NoFault /\ covered > 0 =>
    \A i \in DOMAIN written : i <= covered <=> cutoff # None /\ written[i].ts <= cutoff
=============================================================================
