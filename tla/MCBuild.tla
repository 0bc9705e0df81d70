------------------------------- MODULE MCBuild ------------------------------
(* Instances of the build for TLC: two targets, of two sources that share  *)
(* a directory or of one source with a directory each.                     *)
EXTENDS BuildProperties

SnippetsMC == [v \in Texts |-> IF v = "one" THEN {"all", "a"} ELSE {"all"}]

(* A text can be cut behind its first snippet, or nothing of it is left.   *)
BeginningsMC == [v \in Versions |-> IF v = "one" THEN {"two"} ELSE {Empty}]

(* One of two targets goes wrong in every way, or crashes and cannot write  *)
(* its copy; the other one only loses races.                               *)
Failing(what) == [t \in Targets |-> IF t = "x.extract" THEN what ELSE {}]
AnyFailure    == Failing({"crash", "write", "copy", "database", "directory", "file"})
SomeFailures  == Failing({"crash", "copy"})
NoFailure     == Failing({})

TwoSources == [t \in Targets |-> IF t = "x.extract" THEN "x" ELSE "y"]
OneDir     == [t \in Targets |-> ".extractor"]

OneSource  == [t \in Targets |-> "x"]
TwoDirs    == [t \in Targets |-> IF t = "x.extract" THEN ".extractor" ELSE ".ex2"]
=============================================================================
