---------------------------- MODULE MCStableRead ----------------------------
(* Two inodes under one path, files of one or two blocks.                    *)
EXTENDS StableRead
CONSTANTS a, b
MCContents == {<<a>>, <<a, a>>, <<a, b>>}

(* Bound: each inode starts with one version, but any of them may be a FIFO. *)
OneMode == CHOOSE m \in Modes : TRUE
MCInit ==
  /\ Init
  /\ \A n \in Inodes : inode[n].blocks = <<a, a>> /\ inode[n].mode = OneMode
MCSpec == MCInit /\ [][Next]_vars /\ Fairness
=============================================================================
