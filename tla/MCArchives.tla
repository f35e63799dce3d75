----------------------------- MODULE MCArchives -----------------------------
(* Every archive of up to three entries of one alphabet: names that are      *)
(* spelled differently, beneath each other, outside, or control paths; every *)
(* kind and mode; links in and out.                                          *)
EXTENDS ArchiveInspection, TLC

File(name) ==
  [name |-> name, kind |-> "-", bits |-> {}, target |-> << >>, good |-> TRUE]
Link(name, target) == [File(name) EXCEPT !.kind = "l", !.target = target,
                                        !.bits = {"writable"}]
With(name, bits) == [File(name) EXCEPT !.bits = bits]

MCParts ==
  {"/", ".", "..", "a", "b", "c", "d", "x", "su", "etc", "rules", ".INSTALL"}
MCControlFiles == {<<".INSTALL">>}
MCControlDirs == {<<"etc", "rules">>}
MCInstalled == <<"su">> :> {"setuid"}

Entries ==
  {Link(<<".">>, <<"d">>), File(<<"a">>), File(<<"a", "b">>), File(<<"a", "b", "c">>), File(<<".">>),
   [File(<<"a", "/">>) EXCEPT !.kind = "d", !.bits = {"writable", "sticky"}],
   [File(<<"d">>) EXCEPT !.kind = "h"],
   File(<< >>), File(<<"/", "a">>), File(<<"a", "..", "b">>),
   Link(<<"a">>, <<"d">>), Link(<<"a">>, << >>), Link(<<"a">>, <<"..", "d">>),
   Link(<<".", "a">>, <<"/", "d">>), Link(<<"a", "b">>, <<"..", "d">>),
   Link(<<"a", "b">>, <<".", "..", "..", "d">>),
   With(<<"su">>, {"setuid"}), With(<<"su">>, {"setgid"}),
   With(<<"d">>, {"setuid"}), With(<<"d">>, {"writable"}),
   File(<<".INSTALL">>), [File(<<".", ".INSTALL">>) EXCEPT !.good = FALSE],
   [File(<<"etc", "rules", "x">>) EXCEPT !.good = FALSE],
   [File(<<"a", "b">>) EXCEPT !.good = FALSE]}

MCArchives == UNION {[1 .. n -> Entries] : n \in 0 .. 3}
MCRewrites ==
  {<< >>, <<File(<<"a">>)>>, <<File(<<".INSTALL">>), Link(<<"a">>, <<"d">>)>>}
=============================================================================
