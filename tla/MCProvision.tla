---- MODULE MCProvision ----
(* A catalog with the shapes of compat/config/*.yaml, and command lines.    *)
EXTENDS Provision

MCReleaseMappings == <<[id |-> "1.3", core_commit |-> "c13"],
                       [id |-> "3.1.0", core_commit |-> "c310"],
                       [id |-> "4.0.0", core_commit |-> "c400"]>>
MCAliases == [n \in {"oldest-supported", "latest", "head"} |->
                CASE n = "oldest-supported" -> "1.3" [] n = "latest" -> "4.0.0" [] n = "head" -> "head"]
MCFirmwares == <<[id |-> "1.3", ref |-> "c13"], [id |-> "3.1.0", ref |-> "c310"],
                 [id |-> "4.0.0", ref |-> "c400"], [id |-> "head", ref |-> "master"]>>
MCCompatPatches == [c \in {"c13", "c310"} |-> IF c = "c13" THEN {"device-sim"} ELSE {"fabrication"}]
MCSkipIfPresent == {"device-sim"}

MCCommits == {"c13", "c310", "c400", "m1"}
MCBranchMoves == {"c400", "m1"}
MCCallerTrees == {[commit |-> "c13", edits |-> {}], [commit |-> "c13", edits |-> {"device-sim"}],
                  [commit |-> "c310", edits |-> {"local"}], [commit |-> "c310", edits |-> {"fabrication"}],
                  [commit |-> "m1", edits |-> {}]}

Names == {"all-supported-releases", "oldest-supported", "latest", "head", "3.1.0", "missing"}
MCProfiles == BoundedSeq(Names, 3)

CommandLine(source, ref, only, dir, keep) ==
  [source |-> source, ref |-> ref, build_only |-> only, build_dir |-> dir,
   keep_on_failure |-> keep, test_command |-> ~only, timeout |-> 60]
MCCommandLines ==
  {CommandLine("ref", "1.3", TRUE, FALSE, FALSE), CommandLine("ref", "3.1.0", FALSE, TRUE, TRUE),
   CommandLine("ref", "c400", TRUE, TRUE, FALSE), CommandLine("ref", "master", FALSE, FALSE, TRUE),
   CommandLine("ref", "gone", FALSE, FALSE, FALSE), CommandLine("external", "", FALSE, TRUE, FALSE),
   CommandLine("submodule", "", FALSE, FALSE, FALSE),
   [CommandLine("external", "", FALSE, FALSE, FALSE) EXCEPT !.test_command = FALSE],
   [CommandLine("submodule", "", FALSE, FALSE, FALSE) EXCEPT !.timeout = 0]}
====
