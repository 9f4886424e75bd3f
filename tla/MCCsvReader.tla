---------------------------- MODULE MCCsvReader ----------------------------
(* Small instances of the CSV reader for TLC. *)
EXTENDS CsvProperties

TerminatorBytes == {"nl", "cr", "a", "b"}
LineBytes == {"nl", "cr", "ctl", "comma", "a"}
=============================================================================
