---------------------------- MODULE MCSealedLogs ----------------------------
(* One host with a log and an error file, pulled and then diagnosed, and    *)
(* scans that verify, that seal and verify, that only read, and one that    *)
(* asks for a manifest without a directory.                                 *)
EXTENDS SealedLogs

MCUnits == <<"h1">>
MCContents == {"clean", "bad"}
MCSeverity == [c \in MCContents |-> IF c = "bad" THEN 2 ELSE 0]
MCCaptures == <<"pull", "diag">>
S(d, w, v, f) == [dir |-> d, write |-> w, verify |-> v, failOn |-> f]
MCScans == {S(TRUE, FALSE, TRUE, 2), S(TRUE, TRUE, TRUE, 3), S(FALSE, TRUE, FALSE, 1), S(TRUE, FALSE, FALSE, 1)}
=============================================================================
