----------------------------- MODULE MCPathScan -----------------------------
(***************************************************************************)
(* The nine checks over a directory with two names they inspect and, for   *)
(* the listing ones, the metadata that tells their rules apart.            *)
(***************************************************************************)
EXTENDS PathScan

M(kind, owner, mode) == [kind |-> kind, owner |-> owner, mode |-> mode]

MCNames == {"first", "second"}

MCDirMetas ==
    {M("absent", "root", "private"), M("denied", "root", "private"), M("io", "root", "private"),
     M("dir", "root", "readable"), M("dir", "other", "world"), M("unlistable", "other", "group")}

MCMetas ==
    {M("absent", "root", "private"), M("denied", "root", "private"),
     M("file", "root", "private"), M("file", "other", "group"),
     M("link", "root", "private"), M("dir", "root", "sticky"), M("dir", "root", "world")}

(* The filter of the private keys excludes one of the names (a .pub file). *)
MCIgnored ==
    [c \in CheckName |-> IF c = "private-keys" THEN {"second"} ELSE {}]

=============================================================================
