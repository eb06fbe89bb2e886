----------------------------- MODULE MCAuditLog -----------------------------
(***************************************************************************)
(* Instances of AuditLog: a few writers and readers on a short file.       *)
(***************************************************************************)
EXTENDS AuditLog

CONSTANTS w1, w2, r1, r2

OneWriter  == {w1}
TwoWriters == {w1, w2}
OneReader  == {r1}
TwoReaders == {r1, r2}

MCReports == {Add(EmptyReport, <<Flag("schema_existence", "critical")>>)}

AnyCrash == {"nothing", "prefix", "record", "line"}
NoCrash == {}
AnyAlteration == {"edit", "reseal", "drop", "duplicate"}
NoAlteration == {}

=============================================================================
