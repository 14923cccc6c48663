------------------------- MODULE MCOrchestratorSetup -------------------------
(***************************************************************************)
(* Two shard files of one or two megabytes, compressed or not, whole or    *)
(* damaged; limits around what they and one or two runners need.           *)
(***************************************************************************)
EXTENDS OrchestratorSetup

CONSTANTS p1, p2, comment

\* Contents are counted in half megabytes; a header is half a megabyte.
MCContents == {Intact(2), Intact(3), OtherVersion(3)} \cup Damaged(Intact(2))

\* Damage, faults of the file and compression are tried one at a time.
MCFiles ==
    {[contents |-> c, xz |-> FALSE, disk |-> c.size, io |-> "ok"] : c \in MCContents}
      \cup {[contents |-> c, xz |-> TRUE, disk |-> 1, io |-> io] :
              c \in {Intact(3)}, io \in {"ok", "unreadable", "truncated", "trailing"}}

\* At the start one file at most is unusual.
MCFileSystems ==
    {fs \in [Paths -> MCFiles] :
        \E p \in Paths : fs[p].io = "ok" /\ fs[p].contents = Intact(fs[p].contents.size)}

MCShardLists == {<<comment>>, <<p1, comment, p2>>, <<p2, p2>>}
MCBodyBytes == [start |-> 1, result |-> 2, summary |-> 1]

=============================================================================
