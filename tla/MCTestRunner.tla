---------------------------- MODULE MCTestRunner ----------------------------
(***************************************************************************)
(* An instance of TestRunner: two workers; three suites, one of them        *)
(* skipped, and one example.                                                *)
(***************************************************************************)
EXTENDS TestRunner

MCSuites == {1, 2, 3}
MCSkipped == {2}
=============================================================================
