-------------------------- MODULE MCGitCheckpoint --------------------------
(***************************************************************************)
(* A work tree with a directory that may become a file, an ignored file in *)
(* it, a directory below it and an ignore file that may get or lose its    *)
(* rule.                                                                   *)
(***************************************************************************)
EXTENDS GitCheckpoint

InA == {"a/x", "a/log", "a/d", "a/tmp"}
MCPaths == {".gitignore", "a", "tmp"} \cup InA
MCParent == [p \in MCPaths |-> IF p \in InA THEN "a" ELSE "/"]
MCTempOf == [d \in {"/", "a"} |-> IF d = "/" THEN "tmp" ELSE "a/tmp"]
MCRules == [c \in Contents |-> IF c = "v1" THEN {"a/log"} ELSE {}]

Files(f) == [p \in MCPaths |-> IF p \in DOMAIN f THEN f[p] ELSE "none"]
MCStarts ==
  {Files([p \in {".gitignore", "a", "a/x", "a/log"} |-> IF p = "a" THEN "dir" ELSE "v1"]),
   Files([p \in {".gitignore", "a"} |-> "v1"]),
   Files([p \in {".gitignore", "a", "a/x"} |-> IF p = "a" THEN "dir" ELSE "v2"])}
=============================================================================
