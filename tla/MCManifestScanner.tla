------------------------- MODULE MCManifestScanner -------------------------
(* Small instances of the manifest scanner for TLC. *)
EXTENDS ManifestProperties

StructureBytes == {"{", "}", "[", "]", ":", ",", "quote", "1"}
RuleBytes == {"{", "[", "]", ",", "1", "sp"}
StringBytes == {"[", "]", "quote", "back", "t", "ctl", "sp"}
DocumentBytes == StructureBytes \cup StringBytes
=============================================================================
