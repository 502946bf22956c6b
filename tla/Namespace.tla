----------------------------- MODULE Namespace ------------------------------
(***************************************************************************)
(* The resident file tree shared by the guest's 9P mounts and the host     *)
(* (src/ninep.rs, Filesystem).  The whole structure is one record fs, and  *)
(* every method that changes it is an operator from the old record to the  *)
(* new one; what a method refuses is its guard, since each of them checks  *)
(* everything before it changes anything.                                  *)
(*                                                                         *)
(*   inode       a record for every inode in the arena                     *)
(*   entry       <<directory, name>> to inode: the maps of all directories *)
(*   cookie      <<directory, name>> to the entry's cookie                 *)
(*   back        the reverse links, as triples <<inode, directory, name>>  *)
(*   bytes       logical_bytes          entries   directory_entries        *)
(*   locks       byte-range locks       changes   the notification queue   *)
(*   tracking    record_changes         root, next, generation             *)
(*                                                                         *)
(* A file is its size.  Times, modes, owners and QID versions are left     *)
(* out; a path is a sequence of names.                                     *)
(***************************************************************************)
EXTENDS Integers, Sequences, FiniteSets, FiniteSetsExt, Functions, SequencesExt

CONSTANTS
  Names,         \* names of directory entries
  LastInode,     \* bound on the inodes ever allocated
  MaxFileBytes, MaxTreeBytes, MaxInodes, MaxEntries,  \* Limits
  MaxChanges,    \* 1024 in the code
  LastByte,      \* the last byte a lock can cover, u64::MAX
  LastCookie,    \* u64::MAX
  Owners,        \* pairs of process and client
  Sessions       \* the protocol sessions

ASSUME NamespaceAssumption ==
  /\ {LastInode, MaxInodes} \subseteq Nat \ {0}
  /\ {MaxFileBytes, MaxTreeBytes, MaxEntries, MaxChanges, LastByte, LastCookie}
       \subseteq Nat

None == 0
Inodes == 1 .. LastInode
Paths == SeqOf(Names, MaxInodes - 1)

\* The map f with x leading to v.
With(f, x, v) == [y \in DOMAIN f \cup {x} |-> IF y = x THEN v ELSE f[y]]

NewInode(kind, parent, size) ==
  [kind |-> kind, parent |-> parent, links |-> 1, refs |-> 0, size |-> size, next_cookie |-> 1]

\* Filesystem::new with the root replace_root gives it.
Fresh(root, generation, tracking) ==
  [root |-> root, next |-> root + 1, generation |-> generation,
   inode |-> [i \in {root} |-> NewInode("directory", None, 0)],
   entry |-> <<>>, cookie |-> <<>>, back |-> {}, bytes |-> 0, entries |-> 0,
   locks |-> {}, changes |-> <<>>, tracking |-> tracking]

Exists(fs, i) == i \in DOMAIN fs.inode
IsDirectory(fs, i) == Exists(fs, i) /\ fs.inode[i].kind = "directory"
IsFile(fs, i) == Exists(fs, i) /\ fs.inode[i].kind = "file"
Listed(fs, d, n) == <<d, n>> \in DOMAIN fs.entry
Empty(fs, d) == \A n \in Names : ~Listed(fs, d, n)

\* directory_entries: what is in d, and of that what has a cookie after offset.
Contents(fs, d) == {x \in DOMAIN fs.entry : x[1] = d}
After(fs, d, offset) == {x \in Contents(fs, d) : fs.cookie[x] > offset}

\* The next cookie of d is given to its entry n.
MayNumber(fs, d) == fs.inode[d].next_cookie < LastCookie
Numbered(fs, d, n) ==
  [fs EXCEPT !.cookie = With(@, <<d, n>>, fs.inode[d].next_cookie),
             !.inode[d].next_cookie = @ + 1]

\* lookup: None if a part is missing or is not a directory.
Child(fs, d, n) == IF Listed(fs, d, n) THEN fs.entry[<<d, n>>] ELSE None
Lookup(fs, path) ==
  LET at[k \in 0 .. Len(path)] == IF k = 0 THEN fs.root ELSE Child(fs, at[k - 1], path[k])
  IN at[Len(path)]

\* paths_of, for a directory: the path collected by climbing its reverse links,
\* of which every directory but the root has one, and where the climb ends.
Climb(fs, d) ==
  LET up[k \in 0 .. MaxInodes] ==
        IF k = 0 THEN [top |-> d, path |-> <<>>]
        ELSE LET below == up[k - 1]
                 links == {b \in fs.back : b[1] = below.top}
             IN IF below.top = fs.root \/ links = {} THEN below
                ELSE LET link == CHOOSE b \in links : TRUE
                     IN [top |-> link[2], path |-> <<link[3]>> \o below.path]
  IN up[MaxInodes]

\* entry_path: an entry may be made or looked for below d; its path is needed
\* for notifications only.
MayEnter(fs, d) ==
  /\ IsDirectory(fs, d)
  /\ fs.inode[d].links > 0
  /\ fs.tracking => Climb(fs, d).top = fs.root
EntryPath(fs, d, n) ==
  IF fs.tracking THEN Append(Climb(fs, d).path, n) ELSE <<>>

-----------------------------------------------------------------------------
(* Notifications.                                                          *)

Change(kind, i, path, old) == [kind |-> kind, inode |-> i, path |-> path, old |-> old]
Rescan == Change("rescan", None, <<>>, <<>>)
Invalidated(fs) == fs.changes # <<>> /\ Head(fs.changes).kind = "rescan"

\* Fault: the queue overflows and keeps its newest records.
Emit_Drop(fs, change) ==
  IF ~fs.tracking THEN fs
  ELSE [fs EXCEPT !.changes = IF Len(@) >= MaxChanges THEN Append(Tail(@), change)
                                                      ELSE Append(@, change)]

\* emit: a queue that overflows is replaced by one invalidation, which
\* swallows everything until it is taken.
Emit(fs, change) ==
  IF ~fs.tracking \/ Invalidated(fs) THEN fs
  ELSE [fs EXCEPT !.changes = IF Len(@) >= MaxChanges THEN <<Rescan>> ELSE Append(@, change)]

SetChangeTracking(fs, enabled) ==
  IF fs.tracking = enabled THEN fs
  ELSE Emit([fs EXCEPT !.tracking = enabled, !.changes = <<>>], Rescan)

-----------------------------------------------------------------------------
(* References.                                                             *)

\* The arena without an inode that has neither links nor references.  Its
\* bytes are credited and its locks dropped.
Reclaimed(fs, i) ==
  IF fs.inode[i].links > 0 \/ fs.inode[i].refs > 0 THEN fs
  ELSE [fs EXCEPT !.inode = Restrict(@, DOMAIN @ \ {i}),
                  !.back = {b \in @ : b[1] # i},
                  !.bytes = @ - fs.inode[i].size,
                  !.locks = {l \in @ : l.inode # i}]

RetainFid(fs, i) == [fs EXCEPT !.inode[i].refs = @ + 1]

ReleaseFid(fs, i) == Reclaimed([fs EXCEPT !.inode[i].refs = @ - 1], i)

-----------------------------------------------------------------------------
(* Entries.                                                                *)

\* insert, as create_at and write_file use it.
MayInsert(fs, d, n) ==
  /\ MayEnter(fs, d)
  /\ ~Listed(fs, d, n)
  /\ Cardinality(DOMAIN fs.inode) < MaxInodes
  /\ fs.entries < MaxEntries
  /\ fs.next <= LastInode
  /\ MayNumber(fs, d)
Inserted(fs, d, n, kind, size) ==
  LET i == fs.next
      parent == IF kind = "directory" THEN d ELSE None
  IN Emit([Numbered(fs, d, n) EXCEPT
                     !.inode = With(@, i, NewInode(kind, parent, size)),
                     !.entry = With(@, <<d, n>>, i),
                     !.back = @ \cup {<<i, d, n>>},
                     !.bytes = @ + size,
                     !.entries = @ + 1,
                     !.next = @ + 1],
          Change("create", i, EntryPath(fs, d, n), <<>>))

MayUnlink(fs, d, n) ==
  /\ MayEnter(fs, d)
  /\ Listed(fs, d, n)
  /\ Empty(fs, fs.entry[<<d, n>>])

Unlinked(fs, d, n) ==
  LET i == fs.entry[<<d, n>>]
      unlinked == [fs EXCEPT !.entry = Restrict(@, DOMAIN @ \ {<<d, n>>}),
                             !.cookie = Restrict(@, DOMAIN @ \ {<<d, n>>}),
                             !.back = @ \ {<<i, d, n>>},
                             !.entries = @ - 1,
                             !.inode[i].links = @ - 1,
                             !.inode[i].parent = IF fs.inode[i].links = 1 THEN None ELSE @]
  IN Emit(Reclaimed(unlinked, i), Change("remove", i, EntryPath(fs, d, n), <<>>))

MayLink(fs, d, n, i) ==
  /\ MayEnter(fs, d)
  /\ Exists(fs, i) /\ ~IsDirectory(fs, i)
  /\ ~Listed(fs, d, n)
  /\ fs.entries < MaxEntries
  /\ MayNumber(fs, d)
Linked(fs, d, n, i) ==
  Emit([Numbered(fs, d, n) EXCEPT
          !.entry = With(@, <<d, n>>, i),
          !.back = @ \cup {<<i, d, n>>},
          !.entries = @ + 1,
          !.inode[i].links = @ + 1],
       Change("create", i, EntryPath(fs, d, n), <<>>))

-----------------------------------------------------------------------------
(* Moves.                                                                  *)

\* parent_inode, repeated: d and the directories above it.
Ancestors(fs, d) ==
  LET up[k \in 0 .. LastInode] ==
        IF k = 0 THEN d
        ELSE LET below == up[k - 1]
             IN IF Exists(fs, below) THEN fs.inode[below].parent ELSE None
  IN {up[k] : k \in 0 .. LastInode} \ {None}

\* Fault: a directory may be moved below itself.
MayMove_Cycle(fs, d, n, e, m) ==
  /\ MayEnter(fs, d) /\ MayEnter(fs, e)
  /\ Listed(fs, d, n)
  /\ Listed(fs, e, m) =>
       LET i == fs.entry[<<d, n>>]
           j == fs.entry[<<e, m>>]
       IN i # j /\ IsDirectory(fs, i) = IsDirectory(fs, j) /\ Empty(fs, j)

\* rename_at moves <<d, n>> to <<e, m>>; renaming a name to another name of
\* the same inode succeeds and changes nothing.
MayMove(fs, d, n, e, m) ==
  /\ MayEnter(fs, d) /\ MayEnter(fs, e)
  /\ Listed(fs, d, n)
  /\ d # e => MayNumber(fs, e)
  /\ LET i == fs.entry[<<d, n>>]
         j == Child(fs, e, m)
     IN /\ IsDirectory(fs, i) => i \notin Ancestors(fs, e)
        /\ i # j
        /\ j # None => IsDirectory(fs, i) = IsDirectory(fs, j) /\ Empty(fs, j)

\* Fault: the entry keeps its cookie in the new directory.
Renumbered_Keep(fs, d, n, e, m) ==
  [fs EXCEPT !.cookie = With(Restrict(@, DOMAIN @ \ {<<d, n>>}), <<e, m>>, fs.cookie[<<d, n>>])]

\* Fault: every rename takes a new cookie.
Renumbered_Always(fs, d, n, e, m) ==
  Numbered([fs EXCEPT !.cookie = Restrict(@, DOMAIN @ \ {<<d, n>>})], e, m)

\* An entry keeps its cookie within its directory and takes a new one elsewhere.
Renumbered(fs, d, n, e, m) ==
  LET rest == [fs EXCEPT !.cookie = Restrict(@, DOMAIN @ \ {<<d, n>>})]
  IN IF d = e THEN [rest EXCEPT !.cookie = With(@, <<e, m>>, fs.cookie[<<d, n>>])]
     ELSE Numbered(rest, e, m)

\* Fault: the reverse link still names the old entry.
Moved_KeepLink(fs, d, n, e, m) ==
  LET i == fs.entry[<<d, n>>]
      freed == IF Listed(fs, e, m) THEN Unlinked(fs, e, m) ELSE fs
  IN Emit([Renumbered(freed, d, n, e, m) EXCEPT
             !.entry = With(Restrict(@, DOMAIN @ \ {<<d, n>>}), <<e, m>>, i),
             !.inode[i].parent = IF IsDirectory(fs, i) THEN e ELSE None],
          Change("rename", i, EntryPath(fs, e, m), EntryPath(fs, d, n)))

Moved(fs, d, n, e, m) ==
  LET i == fs.entry[<<d, n>>]
      freed == IF Listed(fs, e, m) THEN Unlinked(fs, e, m) ELSE fs
  IN Emit([Renumbered(freed, d, n, e, m) EXCEPT
             !.entry = With(Restrict(@, DOMAIN @ \ {<<d, n>>}), <<e, m>>, i),
             !.back = (@ \ {<<i, d, n>>}) \cup {<<i, e, m>>},
             !.inode[i].parent = IF IsDirectory(fs, i) THEN e ELSE None],
          Change("rename", i, EntryPath(fs, e, m), EntryPath(fs, d, n)))

-----------------------------------------------------------------------------
(* Whole trees.                                                            *)

NamedPaths(fs) == {p \in Paths \ {<<>>} : Lookup(fs, p) # None}
Tree(fs) == {<<p, Lookup(fs, p)>> : p \in NamedPaths(fs)}

\* clear unlinks every entry it finds on its way down from the root, what is
\* below a directory before the directory's own entry.
Leaves(fs) == {x \in DOMAIN fs.entry : fs.root \in Ancestors(fs, x[1]) /\ Empty(fs, fs.entry[x])}
Pruned(fs) ==
  IF Leaves(fs) = {} THEN fs
  ELSE LET x == CHOOSE x \in Leaves(fs) : TRUE IN Unlinked(fs, x[1], x[2])
Cleared(fs) ==
  LET tree[k \in 0 .. Cardinality(DOMAIN fs.entry)] ==
        IF k = 0 THEN fs ELSE Pruned(tree[k - 1])
  IN tree[Cardinality(DOMAIN fs.entry)]

\* Fault: the numbering of inodes starts again.
Replaced_Renumber(fs) ==
  Emit(Fresh(1, fs.generation + 1, fs.tracking), Change("reset", None, <<>>, <<>>))

\* reset, while an inode number is left for the new root.
MayReplace(fs) == fs.next <= LastInode
Replaced(fs) ==
  Emit(Fresh(fs.next, fs.generation + 1, fs.tracking), Change("reset", None, <<>>, <<>>))

-----------------------------------------------------------------------------
(* File sizes.                                                             *)

\* Fault: the bytes the file had are forgotten.
Resized_Leak(fs, i, size) ==
  Emit([fs EXCEPT !.inode[i].size = size, !.bytes = @ + size],
       Change("write", i, <<>>, <<>>))

MayResize(fs, i, size) ==
  /\ IsFile(fs, i)
  /\ size <= MaxFileBytes
  /\ fs.bytes - fs.inode[i].size + size <= MaxTreeBytes
Resized(fs, i, size) ==
  Emit([fs EXCEPT !.inode[i].size = size, !.bytes = @ - fs.inode[i].size + size],
       Change("write", i, <<>>, <<>>))

\* The size after count > 0 bytes are written at offset, or at the end.
SizeAfter(fs, i, offset, count, append) ==
  LET old == fs.inode[i].size
  IN Max({old, (IF append THEN old ELSE offset) + count})

\* update_attributes without a size.
Retouched(fs, i) == Emit(fs, Change("metadata", i, <<>>, <<>>))

\* write_file replaces a file's bytes or makes a new file.
MayWriteFile(fs, d, n, size) ==
  /\ IsDirectory(fs, d)
  /\ size <= MaxFileBytes
  /\ IF Listed(fs, d, n) THEN MayResize(fs, fs.entry[<<d, n>>], size)
     ELSE fs.bytes + size <= MaxTreeBytes /\ MayInsert(fs, d, n)
FileWritten(fs, d, n, size) ==
  IF Listed(fs, d, n) THEN Resized(fs, fs.entry[<<d, n>>], size)
  ELSE Inserted(fs, d, n, "file", size)

-----------------------------------------------------------------------------
(* Byte-range locks: [inode, session, owner, kind, start, length].  A lock *)
(* of length 0 reaches the end of the file's address space.                *)

Unbounded == 2 * LastByte + 2    \* u128::MAX in ranges_overlap
Reach(l) == IF l.length = 0 THEN Unbounded ELSE l.start + l.length
Overlap(l, r) == l.start < Reach(r) /\ r.start < Reach(l)
LockEnd(l) == IF l.length = 0 THEN LastByte + 1 ELSE Min({l.start + l.length, LastByte + 1})

Conflicts(fs, r) ==
  \E l \in fs.locks :
    /\ l.inode = r.inode /\ l.owner # r.owner
    /\ "write" \in {l.kind, r.kind}
    /\ Overlap(l, r)

\* Fault: the part after the request is given the length of the whole.
Remainder_Shift(l, r) ==
  (IF l.start < r.start THEN {[l EXCEPT !.length = r.start - l.start]} ELSE {})
  \cup
  (IF LockEnd(r) < LockEnd(l) THEN {[l EXCEPT !.start = LockEnd(r)]} ELSE {})

\* What is left of l outside the request.
Remainder(l, r) ==
  (IF l.start < r.start THEN {[l EXCEPT !.length = r.start - l.start]} ELSE {})
  \cup
  (IF LockEnd(r) < LockEnd(l)
   THEN {[l EXCEPT !.start = LockEnd(r),
                   !.length = IF LockEnd(l) = LastByte + 1 THEN 0
                                                           ELSE LockEnd(l) - LockEnd(r)]}
   ELSE {})

\* subtract_owned_range
Subtracted(fs, r) ==
  LET mine == {l \in fs.locks : l.inode = r.inode /\ l.owner = r.owner /\ Overlap(l, r)}
  IN (fs.locks \ mine) \cup UNION {Remainder(l, r) : l \in mine}

Locked(fs, r) == [fs EXCEPT !.locks = Subtracted(fs, r) \cup {r}]
Unlocked(fs, r) == [fs EXCEPT !.locks = Subtracted(fs, r)]
ReleaseSessionLocks(fs, s) == [fs EXCEPT !.locks = {l \in @ : l.session # s}]

=============================================================================
