----------------------------- MODULE MCConsole ------------------------------
(* Lists of two entries that do not share a page, before and after a change,*)
(* a list with an entry twice, and one with an entry too long for any page. *)
EXTENDS ConsoleFetch

Entry(id, val, size) == [id |-> id, val |-> val, size |-> size]
MCLists == {<<Entry("a", 0, 1), Entry("b", 0, 2)>>,
            <<Entry("a", 1, 1), Entry("b", 1, 2)>>,
            <<Entry("a", 0, 1), Entry("a", 1, 1)>>,
            <<Entry("a", 0, 3)>>}

(* What a node lists and logs changes while something is read from it, and  *)
(* the second node lists one thing, and logs one.  Reads and the things     *)
(* that upset them are three together.                                      *)
Reading == fetch.kind # "None" \/ pull.active
Upsets  == changes + records + probes + failures
ConsoleMCInit == ConsoleInit /\ lists["m"] = <<Entry("a", 0, 1), Entry("b", 0, 2)>>
                             /\ logs["m"] = <<1>>
ConsoleMCNext ==
  /\ ConsoleNext
  /\ reads' + Upsets' <= 3
  /\ nodeVars' # nodeVars => Reading /\ lists'["m"] = lists["m"] /\ logs'["m"] = logs["m"]
=============================================================================
