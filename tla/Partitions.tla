----------------------------- MODULE Partitions -----------------------------
(***************************************************************************)
(* What the writers of Parquet partitions do (parquet_io.rs of             *)
(* tg-persistence, storage.rs of tg-factor-engine), for partitions seen as *)
(* functions from keys to records: what is stored of a key already is      *)
(* kept.  PartitionStore has the files.                                    *)
(***************************************************************************)
EXTENDS Integers, Sequences, SequencesExt

KeepFirst(stored, new) ==
  [k \in DOMAIN stored \cup DOMAIN new |-> IF k \in DOMAIN stored THEN stored[k] ELSE new[k]]

=============================================================================
