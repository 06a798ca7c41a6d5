----------------------------- MODULE MCEtcTree -----------------------------
(***************************************************************************)
(* A tree with a directory, a file beside it and two files in it, and for  *)
(* the unit check a second tree that it walks first; a walk limited to two *)
(* paths and evidence limited to one entry.                                *)
(***************************************************************************)
EXTENDS EtcTree, FiniteSetsExt, TLC

M(kind, root_owned, other_write) ==
    [kind |-> kind, root_owned |-> root_owned, other_write |-> other_write]

Absent == M("absent", TRUE, FALSE)
SafeFile == M("file", TRUE, FALSE)
WritableFile == M("file", TRUE, TRUE)
OwnedFile == M("file", FALSE, FALSE)
SafeDir == M("dir", TRUE, FALSE)
Denied == M("denied", TRUE, FALSE)

MCNode == {"conf", "passwd", "conf/a", "conf/b", "usr/a"}

MCParent ==
    [p \in MCNode |-> CASE p \in {"conf/a", "conf/b"} -> "conf"
                         [] p = "usr/a" -> "usr"
                         [] OTHER -> "etc"]

MCRootsOf ==
    [c \in {"writable", "ownership", "units"} |->
        IF c = "units" THEN {"usr", "etc"} ELSE {"etc"}]

MCPlace == [r \in {"usr", "etc"} |-> IF r = "usr" THEN 1 ELSE 2]

MetasOf ==
    [p \in MCNode \cup {"etc", "usr"} |->
        CASE p = "usr"    -> {SafeDir}
          [] p = "usr/a"  -> {SafeFile, OwnedFile}
          [] p = "etc"    -> {SafeDir, Absent, M("dir", FALSE, FALSE)}
          [] p = "conf"   -> {SafeDir, M("unlistable", TRUE, FALSE), M("dir", TRUE, TRUE), Absent}
          [] p = "passwd" -> {SafeFile, WritableFile, M("link", TRUE, TRUE), Denied}
          [] p = "conf/a" -> {SafeFile, WritableFile, OwnedFile, Denied}
          [] OTHER        -> {Absent, SafeFile, WritableFile, Denied}]

(* The trees in which each path has one of its metadata.                   *)
MCTrees ==
    FoldSet(LAMBDA p, trees : {(p :> meta) @@ tree : meta \in MetasOf[p], tree \in trees},
            {<<>>}, DOMAIN MetasOf)

MCChangedMetas == {Absent, SafeFile, WritableFile}

AllChecks == {"writable", "ownership", "units"}

=============================================================================
