------------------------------ MODULE MCNineP -------------------------------
(***************************************************************************)
(* A small instance of NineP.  Each behaviour works on one aspect of the   *)
(* namespace: links and references, file sizes and quotas, notifications,  *)
(* locks, or directories that are listed.                                  *)
(***************************************************************************)
EXTENDS NineP

MCAccesses == {{"read"}, {"read", "write"}}

\* owners: the lock owners that use each session; last: the last inode.
Work(operations, owners, numbers, names, last) ==
  [operations |-> operations, sessions |-> DOMAIN owners, owners |-> owners,
   fids |-> numbers, names |-> names, last |-> last]

Links == Work({"walk", "directory", "symlink", "link", "rename", "unlink", "malformed", "hostReset"},
              "s1" :> {}, {1, 2}, {"a", "b"}, 4)
Sizes == Work({"create", "open", "write", "unlink", "hostWrite", "hostMkdir", "hostLink", "hostRemove", "hostClear"},
              "s1" :> {}, {1, 2}, {"a", "b"}, 3)
Events == Work({"subscribe", "directory", "unlink", "hostRename", "hostClear", "hostReset"},
               "s1" :> {}, {1}, {"a", "b"}, 3)
Touches == Work({"subscribe", "directory", "setattr", "unlink", "hostAttributes"}, "s1" :> {}, {1}, {"a"}, 2)
Rivals == Work({"create", "lock"}, "s1" :> {"p1"} @@ "s2" :> {"p2"}, {1}, {"a"}, 2)
Shared == Work({"create", "lock", "unlink"}, "s1" :> {"p1"} @@ "s2" :> {"p1"}, {1}, {"a"}, 2)
Listings == Work({"open", "readdir", "hostMkdir", "hostLink", "hostRename"}, "s1" :> {}, {1}, {"a", "b"}, 3)
MCWorkloads == {Links, Sizes, Events, Touches, Rivals, Shared, Listings}

=============================================================================
