--------------------------- MODULE PartitionStore ---------------------------
(***************************************************************************)
(* The three stores of Parquet files: bars by symbol and year, snapshots   *)
(* by symbol and day (parquet_io.rs), factor values by day, with all their *)
(* symbols in one file (storage.rs).  A write reads a file, adds to it,    *)
(* sorts, drops duplicates and replaces it; a query reads the files of its *)
(* range, filters and sorts.  One writer: MarketSync has several.          *)
(*                                                                         *)
(* Files are chosen by trading_date on the way in and by the date of the   *)
(* timestamp on the way out.  PartOf stands for both: the sidecar stamps   *)
(* records within the trading day.                                         *)
(***************************************************************************)
EXTENDS Partitions, Listings, Functions

CONSTANTS
  MaxName,        \* bound: symbols are 1..MaxName, in the order of their names
  MaxStamp,       \* bound: timestamps are 1..MaxStamp
  PartOf,         \* the year, or the day, of each timestamp
  Versions,       \* what tells records of a key apart
  MaxBatch,       \* bound: records of one write
  MaxWrites       \* bound: writes

Names  == 1..MaxName
Stamps == 1..MaxStamp

ASSUME StoreAssumption ==
  /\ MaxName \in Nat /\ MaxStamp \in Nat /\ MaxBatch \in Nat /\ MaxWrites \in Nat
  /\ PartOf \in [Stamps -> Int]
  /\ \A t, u \in Stamps : t <= u => PartOf[t] <= PartOf[u]

Records == [symbol : Names, ts : Stamps, ver : Versions]

Batches == UNION {[1..n -> Records] : n \in 1..MaxBatch}

VARIABLES
  store,          \* which of the three
  disk,           \* its files: sequences of records
  first,          \* history: the version of each key that was written first
  writes          \* how many writes there were

storeVars == <<store, disk, first, writes>>

StoreInit ==
  /\ store \in {"bars", "snapshots", "values"}
  /\ disk = [p \in {} |-> <<>>]
  /\ first = [k \in {} |-> 0]
  /\ writes = 0

-----------------------------------------------------------------------------
(* BarPartition, SnapshotPartition, FactorPartition *)
PathAt(symbol, part) == IF store = "values" THEN <<part>> ELSE <<symbol, part>>

Path(r) == PathAt(r.symbol, PartOf[r.ts])

Read(path) == IF path \in DOMAIN disk THEN disk[path] ELSE <<>>

(* cmp(a).then_with(cmp(b)), as a number: b is at most bound. *)
Lexical(a, b, bound) == a * (bound + 1) + b

(* What a file is sorted by, and the answer to a query. *)
FileKey(r)  == IF store = "values" THEN Lexical(r.symbol, r.ts, MaxStamp) ELSE r.ts
QueryKey(r) == IF store = "values" THEN Lexical(r.ts, r.symbol, MaxName) ELSE r.ts

SortedFile(seq)   == SortedOn(seq, [i \in DOMAIN seq |-> FileKey(seq[i])])
SortedAnswer(seq) == SortedOn(seq, [i \in DOMAIN seq |-> QueryKey(seq[i])])

Same(r, s) == r.symbol = s.symbol /\ r.ts = s.ts

(* dedup_by: of neighbours that agree the first stays. *)
Deduped(seq) == Filtered(seq, {n \in DOMAIN seq : n > 1 => ~Same(seq[n - 1], seq[n])})

(* Mutant of Merged: what is new comes first. *)
MergedNewFirst(path, new) == Deduped(SortedFile(new \o Read(path)))

Merged(path, new) == Deduped(SortedFile(Read(path) \o new))

(* by_partition: the records of a batch that belong in a file *)
PartOfBatch(batch, path) == Filtered(batch, {i \in DOMAIN batch : Path(batch[i]) = path})

(* The version of each key that comes first in a batch. *)
FirstOf(batch) ==
  [k \in {<<batch[i].symbol, batch[i].ts>> : i \in DOMAIN batch} |->
     LET at == {i \in DOMAIN batch : <<batch[i].symbol, batch[i].ts>> = k}
     IN  batch[CHOOSE i \in at : \A j \in at : i <= j].ver]

(* write_bars_sync, write_snapshot_sync, write_values_sync *)
Write(batch) ==
  /\ writes < MaxWrites
  /\ store = "snapshots" => Len(batch) = 1
  /\ LET paths == {Path(batch[i]) : i \in DOMAIN batch}
     IN  disk' = [p \in DOMAIN disk \cup paths |->
                    IF p \in paths THEN Merged(p, PartOfBatch(batch, p)) ELSE disk[p]]
  /\ first' = KeepFirst(first, FirstOf(batch))
  /\ writes' = writes + 1
  /\ UNCHANGED store

StoreNext == \E batch \in Batches : Write(batch)

StoreSpec == StoreInit /\ [][StoreNext]_storeVars

-----------------------------------------------------------------------------
(* The files a query opens, one after the other: the parts of its range,    *)
(* with that of its end although the range does not include it.             *)
Collected(symbol, from, to) ==
  Joined([n \in 1..(PartOf[to] - PartOf[from] + 1) |->
            Read(PathAt(symbol, PartOf[from] + n - 1))])

InRange(r, symbols, from, to) == r.symbol \in symbols /\ from <= r.ts /\ r.ts < to

(* query_bars_sync, of one symbol, and query_values_sync, of some or all;   *)
(* snapshots are read a day at a time (read_snapshots).                     *)
Query(symbols, from, to) ==
  LET found == Collected(CHOOSE s \in symbols : TRUE, from, to)
  IN  SortedAnswer(Filtered(found, {i \in DOMAIN found : InRange(found[i], symbols, from, to)}))

-----------------------------------------------------------------------------
RecordsOf(map) == {[symbol |-> k[1], ts |-> k[2], ver |-> map[k]] : k \in DOMAIN map}

InTime(seq) == \A m, n \in DOMAIN seq : m < n => seq[m].ts < seq[n].ts

InTimeAndName(seq) ==
  \A m, n \in DOMAIN seq : m < n =>
    \/ seq[m].ts < seq[n].ts
    \/ seq[m].ts = seq[n].ts /\ seq[m].symbol < seq[n].symbol

(***************************************************************************)
(* Whatever was written, in whatever batches, twice or out of order, a     *)
(* query of a range answers with each record of the range once, sorted,    *)
(* and with the version of it that was written first: the files are the    *)
(* map KeepFirst builds (write_bars_sync, query_bars_sync and their like). *)
(***************************************************************************)
QueriesAreKeptFirst ==
  \A from, to \in Stamps : from <= to =>
    /\ store = "bars" => \A s \in Names :
         LET answer == Query({s}, from, to)
         IN  /\ Range(answer) = {r \in RecordsOf(first) : InRange(r, {s}, from, to)}
             /\ InTime(answer)
    /\ store = "values" => \A symbols \in (SUBSET Names) \ {{}} :
         LET answer == Query(symbols, from, to)
         IN  /\ Range(answer) = {r \in RecordsOf(first) : InRange(r, symbols, from, to)}
             /\ InTimeAndName(answer)
    /\ store = "snapshots" => \A s \in Names :
         LET answer == Read(<<s, PartOf[from]>>)
         IN  /\ Range(answer) = {r \in RecordsOf(first) :
                                   r.symbol = s /\ PartOf[r.ts] = PartOf[from]}
             /\ InTime(answer)

-----------------------------------------------------------------------------
(* The invariant behind it: every file is sorted, without duplicates, and   *)
(* has the records of the map that belong in it.                            *)

StoreTypeOK ==
  /\ store \in {"bars", "snapshots", "values"}
  /\ disk \in [DOMAIN disk -> Seq(Records)]
  /\ first \in [DOMAIN first -> Versions] /\ DOMAIN first \subseteq Names \X Stamps
  /\ writes \in 0..MaxWrites

InFileOrder(seq) == \A m, n \in DOMAIN seq : m < n => FileKey(seq[m]) < FileKey(seq[n])

FilesAreKeptFirst ==
  /\ \A p \in DOMAIN disk : InFileOrder(disk[p])
  /\ \A p \in DOMAIN disk, r \in Records : r \in Range(disk[p]) => Path(r) = p
  /\ \A r \in Records : r \in Range(Read(Path(r))) <=> r \in RecordsOf(first)

StoreInv == StoreTypeOK /\ FilesAreKeptFirst

=============================================================================
