-------------------------------- MODULE NineP -------------------------------
(***************************************************************************)
(* Guest 9P sessions, the host's file operations and a host listener, over *)
(* one shared namespace (src/ninep_protocol.rs, src/filesystem_abi.rs and  *)
(* js/storage.ts over src/ninep.rs).                                       *)
(*                                                                         *)
(* A request runs to its end inside one activation, so it is one step.     *)
(* Everything a request refuses is refused before anything changes: a      *)
(* refused request is a stuttering step, except a malformed one, after     *)
(* which the endpoint answers nothing until its device is reset.           *)
(*                                                                         *)
(* Change records wait in the namespace while the guest runs.  When        *)
(* control is back in JavaScript they are copied out (Service) and each    *)
(* becomes a microtask that calls the listener later (Deliver).            *)
(***************************************************************************)
EXTENDS Namespace

CONSTANTS
  Fids,          \* fid numbers a session may use
  Accesses,      \* access modes used to open, subsets of {"read", "write"}
  MaxWalk,       \* bound on the names in one walk
  MaxDepth,      \* bound on the names in a host's path
  MaxTasks,      \* bound on the microtasks waiting when the host acts
  Workloads      \* what a behaviour is made of: a set of operations, and bounds

ASSUME NinePAssumption ==
  /\ Accesses \subseteq SUBSET {"read", "write"} \ {{}}
  /\ {MaxWalk, MaxDepth, MaxTasks} \subseteq Nat
  /\ IsFiniteSet(Fids) /\ IsFiniteSet(Sessions)

\* A behaviour uses names, sessions, fid numbers and lock owners there are.
ASSUME WorkloadsAssumption ==
  \A w \in Workloads :
    /\ w.names \subseteq Names /\ w.fids \subseteq Fids /\ w.sessions \subseteq Sessions
    /\ \A s \in w.sessions : w.owners[s] \subseteq Owners

VARIABLES
  fs,            \* the namespace
  running,       \* whether the VM runs; otherwise it is halted
  fids,          \* each session's table: fid number to [inode, open]
  generation,    \* each session's namespace generation
  negotiated,    \* sessions that agreed on a protocol version
  failed,        \* sessions whose endpoint waits for a reset
  subscribed,    \* whether the listener is subscribed
  microtasks,    \* change records on their way to the listener
  mirror,        \* the listener's view: pairs of path and inode
  listing,       \* how far the guest has listed a directory
  workload       \* what this behaviour is made of, one of Workloads

sessionVars == <<running, fids, generation, negotiated, failed>>
hostVars == <<subscribed, microtasks, mirror>>
vars == <<fs, running, fids, generation, negotiated, failed,
          subscribed, microtasks, mirror, listing, workload>>

\* A reader of directories: the fid it uses, the cookie it has come to, how often it
\* was told of each inode; which of these have had no name or several names in the
\* directory since, and what it had not been told of when its last listing ended.
NoListing == [reader |-> <<>>, dir |-> None, offset |-> 0, told |-> [i \in Inodes |-> 0],
              strayed |-> {}, missed |-> {}]

Closed == {}
Uses(operation) == operation \in workload.operations
Room == fs.next <= workload.last    \* bound on the inodes of this behaviour

Init ==
  /\ fs = Fresh(1, 1, FALSE)
  /\ running = FALSE
  /\ fids = [s \in Sessions |-> <<>>]
  /\ generation = [s \in Sessions |-> 1]
  /\ negotiated = {} /\ failed = {}
  /\ subscribed = FALSE /\ microtasks = <<>> /\ mirror = {}
  /\ listing = NoListing
  /\ workload \in Workloads

-----------------------------------------------------------------------------
(* Sessions.                                                               *)

\* sync_generation: fids of an earlier generation are forgotten.
Table(s) == IF generation[s] = fs.generation THEN fids[s] ELSE <<>>
Held(s, f) == Table(s)[f].inode

Ready(s) == running /\ s \notin failed /\ s \in negotiated

\* Cookies are remembered where a behaviour lists directories.
Remembered(tree) ==
  IF Uses("readdir") THEN tree
  ELSE [tree EXCEPT !.cookie = [x \in DOMAIN @ |-> 1],
                    !.inode = [i \in DOMAIN @ |-> [@[i] EXCEPT !.next_cookie = 1]]]

\* The end of a request: the namespace and the session's table.
Reply(s, tree, table) ==
  /\ fs' = Remembered(tree)
  /\ fids' = [fids EXCEPT ![s] = table]
  /\ generation' = [generation EXCEPT ![s] = fs.generation]
  /\ UNCHANGED <<running, negotiated, failed, hostVars, workload>>

\* release_fids
Released(tree, s, table) ==
  ReleaseSessionLocks(
    FoldSet(LAMBDA f, t : ReleaseFid(t, table[f].inode), tree, DOMAIN table), s)

\* Fault: the reference of the fid that is replaced is kept.
Installed_Leak(tree, table, f, i) == RetainFid(tree, i)

\* install_fid takes the new reference before it drops the old one.
Installed(tree, table, f, i) ==
  LET kept == RetainFid(tree, i)
  IN IF f \in DOMAIN table THEN ReleaseFid(kept, table[f].inode) ELSE kept
Install(s, tree, f, i, open) ==
  Reply(s, Installed(tree, Table(s), f, i),
        With(Table(s), f, [inode |-> i, open |-> open]))

\* Tversion starts the session over, whatever version it names.
Version(s, known) ==
  /\ running /\ s \notin failed
  /\ fs' = Released(fs, s, Table(s))
  /\ fids' = [fids EXCEPT ![s] = <<>>]
  /\ generation' = [generation EXCEPT ![s] = fs.generation]
  /\ negotiated' = IF known THEN negotiated \cup {s} ELSE negotiated \ {s}
  /\ UNCHANGED <<running, failed, hostVars, workload>>

Attach(s, f) ==
  /\ Ready(s) /\ f \notin DOMAIN Table(s)
  /\ Install(s, fs, f, fs.root, Closed)

\* One name of a walk; ".." of the root is the root.
Up == ".."
Stepped(d, n) ==
  IF ~IsDirectory(fs, d) THEN None
  ELSE IF n # Up THEN Child(fs, d, n)
  ELSE IF d = fs.root THEN d ELSE fs.inode[d].parent

\* A walk that stops early answers how far it came and installs nothing.
Walk(s, f, g, names) ==
  /\ Uses("walk") /\ Ready(s)
  /\ f \in DOMAIN Table(s) /\ Table(s)[f].open = Closed
  /\ g = f \/ g \notin DOMAIN Table(s)
  /\ LET i == FoldLeft(Stepped, Held(s, f), names)
     IN i # None /\ Install(s, fs, g, i, Closed)

\* Tlopen, perhaps with O_TRUNC.
Open(s, f, access, truncate) ==
  /\ Uses("open") /\ Ready(s)
  /\ f \in DOMAIN Table(s) /\ Table(s)[f].open = Closed
  /\ LET i == Held(s, f)
     IN /\ fs.inode[i].kind # "symlink"
        /\ IsDirectory(fs, i) => "write" \notin access
        /\ truncate => "write" \in access /\ MayResize(fs, i, 0)
        /\ Reply(s, IF truncate THEN Resized(fs, i, 0) ELSE fs,
                 [Table(s) EXCEPT ![f].open = access])

\* Tlcreate opens the file of that name, or makes it; the fid moves to it.
Create(s, f, n, access, truncate) ==
  /\ Uses("create") /\ Ready(s)
  /\ f \in DOMAIN Table(s) /\ Table(s)[f].open = Closed
  /\ truncate => "write" \in access
  /\ LET d == Held(s, f)
         i == Child(fs, d, n)
     IN /\ IsDirectory(fs, d)
        /\ \/ /\ IsFile(fs, i)
              /\ truncate => MayResize(fs, i, 0)
              /\ Install(s, IF truncate THEN Resized(fs, i, 0) ELSE fs, f, i, access)
           \/ /\ i = None /\ Room /\ MayInsert(fs, d, n)
              /\ Install(s, Inserted(fs, d, n, "file", 0), f, fs.next, access)

Clunk(s, f) ==
  /\ Ready(s) /\ f \in DOMAIN Table(s)
  /\ Reply(s, ReleaseFid(fs, Held(s, f)), Restrict(Table(s), DOMAIN Table(s) \ {f}))

Write(s, f, offset, count, append) ==
  /\ Uses("write") /\ Ready(s)
  /\ f \in DOMAIN Table(s) /\ "write" \in Table(s)[f].open
  /\ LET i == Held(s, f)
         size == SizeAfter(fs, i, offset, count, append)
     IN IsFile(fs, i) /\ MayResize(fs, i, size) /\ Reply(s, Resized(fs, i, size), Table(s))

\* Tsetattr with a size and without.
Truncate(s, f, size) ==
  /\ Uses("write") /\ Ready(s) /\ f \in DOMAIN Table(s)
  /\ MayResize(fs, Held(s, f), size)
  /\ Reply(s, Resized(fs, Held(s, f), size), Table(s))
Setattr(s, f) ==
  /\ Uses("setattr") /\ Ready(s) /\ f \in DOMAIN Table(s)
  /\ Reply(s, Retouched(fs, Held(s, f)), Table(s))

\* Tmkdir and Tsymlink.
Mkdir(s, f, n, kind) ==
  /\ Uses(kind) /\ Room /\ Ready(s) /\ f \in DOMAIN Table(s)
  /\ MayInsert(fs, Held(s, f), n)
  /\ Reply(s, Inserted(fs, Held(s, f), n, kind, 0), Table(s))
Link(s, f, n, g) ==
  /\ Uses("link") /\ Ready(s) /\ {f, g} \subseteq DOMAIN Table(s)
  /\ MayLink(fs, Held(s, f), n, Held(s, g))
  /\ Reply(s, Linked(fs, Held(s, f), n, Held(s, g)), Table(s))
Rename(s, f, n, g, m) ==
  /\ Uses("rename") /\ Ready(s) /\ {f, g} \subseteq DOMAIN Table(s)
  /\ MayMove(fs, Held(s, f), n, Held(s, g), m)
  /\ Reply(s, Moved(fs, Held(s, f), n, Held(s, g), m), Table(s))
Unlink(s, f, n) ==
  /\ Uses("unlink") /\ Ready(s) /\ f \in DOMAIN Table(s)
  /\ MayUnlink(fs, Held(s, f), n)
  /\ Reply(s, Unlinked(fs, Held(s, f), n), Table(s))

\* Treaddir: up to count of the entries after the cookie of the last one read, in
\* the order of their cookies.  A reader begins again whenever it likes, and its
\* listing ends when it is told of nothing more.  It asks with room for at least
\* one entry: less room is answered like the end of the directory.
InodesOf(tree, d) == {tree.entry[x] : x \in Contents(tree, d)}
Known(l) == {i \in Inodes : l.told[i] > 0}
Strayed(tree, l) ==
  l.strayed \cup {i \in Known(l) : Cardinality({x \in Contents(tree, l.dir) : tree.entry[x] = i}) # 1}
Readdir(s, f, count, again) ==
  LET d == Held(s, f)
      l == IF again THEN [NoListing EXCEPT !.reader = <<s, f>>, !.dir = d] ELSE listing
      ahead == After(fs, d, l.offset)
      reply == {x \in ahead : Cardinality({y \in ahead : fs.cookie[y] < fs.cookie[x]}) < count}
      read == [l EXCEPT !.told = [i \in Inodes |-> @[i] + Cardinality({x \in reply : fs.entry[x] = i})],
                        !.offset = Max({fs.cookie[x] : x \in reply})]
  IN /\ Uses("readdir") /\ Ready(s)
     /\ f \in DOMAIN Table(s) /\ "read" \in Table(s)[f].open /\ IsDirectory(fs, d)
     /\ ~again => listing.reader = <<s, f>> /\ listing.dir = d
     /\ Reply(s, fs, Table(s))
     /\ listing' = IF reply = {}
                   THEN [NoListing EXCEPT !.missed = InodesOf(fs, d) \ Known(l)]
                   ELSE [read EXCEPT !.strayed = Strayed(fs, read)]

\* What every other step means for the reader.
Meanwhile == listing' = [listing EXCEPT !.strayed = Strayed(fs', listing)]

\* Tlock: the range is taken, refused or given up.
Request(s, f, owner, kind, start, length) ==
  [inode |-> Held(s, f), session |-> s, owner |-> owner, kind |-> kind,
   start |-> start, length |-> length]
Lockable(s, f) ==
  f \in DOMAIN Table(s) /\ Table(s)[f].open # Closed /\ IsFile(fs, Held(s, f))
Lock(s, f, owner, kind, start, length) ==
  LET r == Request(s, f, owner, kind, start, length)
  IN /\ Uses("lock") /\ Ready(s)
     /\ Lockable(s, f) /\ kind \in Table(s)[f].open
     /\ ~Conflicts(fs, r)
     /\ Reply(s, Locked(fs, r), Table(s))
Unlock(s, f, owner, start, length) ==
  /\ Uses("lock") /\ Ready(s)
  /\ Lockable(s, f)
  /\ Reply(s, Unlocked(fs, Request(s, f, owner, "read", start, length)), Table(s))

\* An envelope that cannot be answered closes the endpoint.
Malformed(s) ==
  /\ Uses("malformed")
  /\ running /\ s \notin failed
  /\ failed' = failed \cup {s}
  /\ fids' = [fids EXCEPT ![s] = Table(s)]
  /\ generation' = [generation EXCEPT ![s] = fs.generation]
  /\ UNCHANGED <<fs, running, negotiated, hostVars, workload>>

-----------------------------------------------------------------------------
(* Devices and the machine.                                                *)

\* NinePSession::reset of the sessions in S.
ResetSessions(S) ==
  /\ fs' = FoldSet(LAMBDA s, tree : IF generation[s] = fs.generation
                                    THEN Released(tree, s, fids[s]) ELSE tree, fs, S)
  /\ fids' = [s \in Sessions |-> IF s \in S THEN <<>> ELSE fids[s]]
  /\ generation' = [s \in Sessions |-> IF s \in S THEN fs.generation ELSE generation[s]]
  /\ negotiated' = negotiated \ S
  /\ failed' = failed \ S
  /\ UNCHANGED <<hostVars, workload>>

\* The driver writes 0 to the status register.
DeviceReset(s) == running /\ ResetSessions({s}) /\ UNCHANGED running

\* Fault: the devices keep their state when the VM halts.
Halt_KeepSessions ==
  /\ running /\ running' = FALSE
  /\ UNCHANGED <<fs, fids, generation, negotiated, failed, hostVars, workload>>

Halt == running /\ ResetSessions(Sessions) /\ running' = FALSE
Boot == ResetSessions(Sessions) /\ running' = TRUE

-----------------------------------------------------------------------------
(* The host.                                                               *)

\* filesystemChanged: the records of a host operation are copied out at once.
HostDone(tree) ==
  /\ Len(microtasks) <= MaxTasks
  /\ fs' = [Remembered(tree) EXCEPT !.changes = <<>>]
  /\ microtasks' = microtasks \o tree.changes
  /\ UNCHANGED <<sessionVars, subscribed, mirror, workload>>

HostWriteFile(p, size) ==
  /\ Uses("hostWrite") /\ (Room \/ Lookup(fs, p) # None)
  /\ LET d == Lookup(fs, Front(p))
     IN MayWriteFile(fs, d, Last(p), size) /\ HostDone(FileWritten(fs, d, Last(p), size))
HostMkdir(p, kind) ==
  /\ Uses("hostMkdir") /\ Room
  /\ LET d == Lookup(fs, Front(p))
     IN MayInsert(fs, d, Last(p)) /\ HostDone(Inserted(fs, d, Last(p), kind, 0))
HostRemove(p) ==
  /\ Uses("hostRemove")
  /\ LET d == Lookup(fs, Front(p))
     IN MayUnlink(fs, d, Last(p)) /\ HostDone(Unlinked(fs, d, Last(p)))
HostLink(p, q) ==
  /\ Uses("hostLink")
  /\ LET i == Lookup(fs, p)
         d == Lookup(fs, Front(q))
     IN MayLink(fs, d, Last(q), i) /\ HostDone(Linked(fs, d, Last(q), i))
HostRename(p, q) ==
  /\ Uses("hostRename")
  /\ LET d == Lookup(fs, Front(p))
         e == Lookup(fs, Front(q))
     IN MayMove(fs, d, Last(p), e, Last(q)) /\ HostDone(Moved(fs, d, Last(p), e, Last(q)))
HostAttributes(p) ==
  Uses("hostAttributes") /\ Lookup(fs, p) # None /\ HostDone(Retouched(fs, Lookup(fs, p)))
HostClear == Uses("hostClear") /\ HostDone(Cleared(fs))
HostReset == Uses("hostReset") /\ Room /\ ~running /\ MayReplace(fs) /\ HostDone(Replaced(fs))

\* The first listener turns the recording of changes on, the last one off.
Subscribe ==
  /\ Uses("subscribe") /\ ~subscribed /\ Len(microtasks) <= MaxTasks
  /\ subscribed' = TRUE
  /\ LET tree == SetChangeTracking(fs, TRUE)
     IN /\ fs' = [tree EXCEPT !.changes = <<>>]
        /\ microtasks' = microtasks \o tree.changes
  /\ UNCHANGED <<sessionVars, mirror, workload>>
Unsubscribe ==
  /\ subscribed
  /\ subscribed' = FALSE
  /\ fs' = SetChangeTracking(fs, FALSE)
  /\ mirror' = {}
  /\ UNCHANGED <<sessionVars, microtasks, workload>>

\* poll, when a slice of the guest's quantum ends.
Service ==
  /\ fs.changes # <<>> /\ Len(microtasks) <= MaxTasks
  /\ microtasks' = microtasks \o fs.changes
  /\ fs' = [fs EXCEPT !.changes = <<>>]
  /\ UNCHANGED <<sessionVars, subscribed, mirror, workload>>

\* A listener that keeps a list of the tree the way STORAGE-ABI.md tells it to:
\* a rename invalidates what is below both paths, a rescan everything.
Below(path, p) == IsPrefix(path, p)
Listened(view, change) ==
  LET kept(invalid(_)) == {x \in view : ~invalid(x[1])} \cup {x \in Tree(fs) : invalid(x[1])}
  IN CASE change.kind = "create" -> {x \in view : x[1] # change.path}
                                     \cup {<<change.path, change.inode>>}
       [] change.kind = "remove" -> {x \in view : x[1] # change.path}
       [] change.kind = "rename" -> kept(LAMBDA p : Below(change.path, p) \/ Below(change.old, p))
       [] change.kind \in {"reset", "rescan"} -> Tree(fs)
       [] OTHER -> view

\* Microtasks run when no JavaScript and so no quantum is active.
Deliver ==
  /\ microtasks # <<>> /\ fs.changes = <<>>
  /\ microtasks' = Tail(microtasks)
  /\ mirror' = IF subscribed THEN Listened(mirror, Head(microtasks)) ELSE mirror
  /\ UNCHANGED <<fs, sessionVars, subscribed, workload>>

-----------------------------------------------------------------------------
Bytes == 0 .. LastByte
EntryPaths == SeqOf(Names, MaxDepth) \ {<<>>}
Walks == SeqOf(Names \cup {Up}, MaxWalk)

SessionNext(s) ==
  \/ \E known \in BOOLEAN : Version(s, known)
  \/ Malformed(s)
  \/ DeviceReset(s)
  \/ \E f \in workload.fids :
       \/ Attach(s, f) \/ Clunk(s, f) \/ Setattr(s, f)
       \/ \E g \in workload.fids, names \in Walks : Walk(s, f, g, names)
       \/ \E a \in Accesses, t \in BOOLEAN :
            Open(s, f, a, t) \/ \E n \in workload.names : Create(s, f, n, a, t)
       \/ \E o, c \in 0 .. MaxFileBytes, a \in BOOLEAN : c > 0 /\ Write(s, f, o, c, a)
       \/ \E z \in 0 .. MaxFileBytes : Truncate(s, f, z)
       \/ \E n \in workload.names :
            \/ Unlink(s, f, n)
            \/ \E kind \in {"directory", "symlink"} : Mkdir(s, f, n, kind)
            \/ \E g \in workload.fids : Link(s, f, n, g) \/ \E m \in workload.names : Rename(s, f, n, g, m)
       \/ \E o \in workload.owners[s], b, c \in Bytes :
            Unlock(s, f, o, b, c) \/ \E kind \in {"read", "write"} : Lock(s, f, o, kind, b, c)

HostNext ==
  \/ Halt \/ Boot \/ HostClear \/ HostReset
  \/ Subscribe \/ Unsubscribe \/ Service \/ Deliver
  \/ \E p \in EntryPaths :
       \/ HostRemove(p) \/ HostAttributes(p)
       \/ \E z \in 0 .. MaxFileBytes : HostWriteFile(p, z)
       \/ \E kind \in {"directory", "symlink"} : HostMkdir(p, kind)
       \/ \E q \in EntryPaths : HostLink(p, q) \/ HostRename(p, q)

ReaderNext ==
  \E s \in workload.sessions, f \in workload.fids, count \in 1 .. 2, again \in BOOLEAN :
    Readdir(s, f, count, again)

Next ==
  \/ ReaderNext
  \/ (HostNext \/ \E s \in workload.sessions : SessionNext(s)) /\ Meanwhile
Spec == Init /\ [][Next]_vars

-----------------------------------------------------------------------------
(* Properties.                                                             *)

Tables == {x \in Sessions \X Fids : x[2] \in DOMAIN fids[x[1]]}
Referring(i) == {x \in Tables : fids[x[1]][x[2]].inode = i}
Named == Range(fs.entry)

\* Type correctness.
NinePTypeOK ==
  /\ DOMAIN fs.inode \subseteq Inodes /\ fs.root \in DOMAIN fs.inode
  /\ \A i \in DOMAIN fs.inode :
       fs.inode[i] \in [kind : {"directory", "file", "symlink"}, parent : 0 .. LastInode,
                        links : Nat, refs : Nat, size : 0 .. MaxFileBytes,
                        next_cookie : 1 .. LastCookie]
  /\ DOMAIN fs.entry \subseteq Inodes \X Names /\ Named \subseteq Inodes
  /\ fs.back \subseteq Inodes \X Inodes \X Names
  /\ fs.bytes \in 0 .. MaxTreeBytes /\ fs.entries \in 0 .. MaxEntries
  /\ fs.locks \subseteq [inode : Inodes, session : Sessions, owner : Owners,
                          kind : {"read", "write"}, start : 0 .. LastByte, length : 0 .. LastByte]
  /\ fs.next \in 2 .. LastInode + 1 /\ fs.generation \in 1 .. LastInode
  /\ fs.tracking = subscribed /\ Len(fs.changes) <= MaxChanges
  /\ running \in BOOLEAN /\ negotiated \subseteq Sessions /\ failed \subseteq Sessions
  /\ \A s \in Sessions : DOMAIN fids[s] \subseteq Fids
  /\ \A x \in Tables : fids[x[1]][x[2]] \in [inode : Inodes, open : Accesses \cup {Closed}]
  /\ generation \in [Sessions -> 1 .. LastInode]
  /\ mirror \subseteq Paths \X Inodes

\* The three records of a link agree through every create, link, rename over
\* an existing name and removal: the directories' entries, the reverse links
\* and the link counts; directory_entries is their number.
LinksAgree ==
  /\ fs.back = {<<fs.entry[x], x[1], x[2]>> : x \in DOMAIN fs.entry}
  /\ \A i \in DOMAIN fs.inode :
       fs.inode[i].links = Cardinality({b \in fs.back : b[1] = i})
                             + (IF i = fs.root THEN 1 ELSE 0)
  /\ fs.entries = Cardinality(DOMAIN fs.entry)

\* The arena holds what can still be reached and nothing else: an inode is
\* there exactly while a name or a fid leads to it, and its references are the
\* fids of all sessions.  So no sequence of walks, creates, removals, clunks,
\* version requests, device resets, halts and namespace resets leaks an inode
\* or frees one too early (retain_fid, release_fid, remove_at).
ArenaExact ==
  /\ DOMAIN fs.inode = {fs.root} \cup Named \cup {fids[x[1]][x[2]].inode : x \in Tables}
  /\ \A i \in DOMAIN fs.inode : fs.inode[i].refs = Cardinality(Referring(i))

\* Directories form a tree: a linked directory hangs by its parent below the
\* root, a removed one is empty and has no parent (rename_at, remove_at).
TreeSound ==
  \A d \in {i \in DOMAIN fs.inode : IsDirectory(fs, i)} :
    IF fs.inode[d].links = 0 THEN fs.inode[d].parent = None /\ Empty(fs, d)
    ELSE /\ fs.root \in Ancestors(fs, d)
         /\ d # fs.root => \E n \in Names : <<d, fs.inode[d].parent, n>> \in fs.back

\* logical_bytes is the bytes of all files, those without a name but with a
\* fid included; the subtractions in validate_resize cannot wrap.
QuotaExact ==
  fs.bytes = MapThenSumSet(LAMBDA i : fs.inode[i].size, DOMAIN fs.inode)

\* The records of the namespace agree with one another in every state: links,
\* arena, tree and quota (insert, remove_at, rename_at, release_fid).
NamespaceSound == LinksAgree /\ ArenaExact /\ TreeSound /\ QuotaExact

\* A halted VM has no fids and no locks, which is what makes replacing the
\* namespace safe (enter_halted, riscbox_fs_call); a running session is never
\* of an earlier generation.
HaltedSessionsClosed ==
  /\ ~running => fids = [s \in Sessions |-> <<>>] /\ fs.locks = {} /\ negotiated = {}
  /\ running => \A s \in Sessions : generation[s] = fs.generation

\* The listener that follows the notifications ends with the exact tree,
\* although records overflow into a rescan, a rescan is read later than the
\* tree it announces, and unsubscribing loses records.
MirrorExact ==
  subscribed /\ fs.changes = <<>> /\ microtasks = <<>> => mirror = Tree(fs)

\* A directory that is listed in pieces while it changes is listed whole: when
\* the reader is told of nothing more it has been told of all that is there, and
\* of nothing twice that kept one name in between (readdir, rename_at, insert).
ListingExact ==
  /\ listing.missed = {}
  /\ \A i \in Inodes : listing.told[i] > 1 => i \in listing.strayed

\* Both ways to follow the tree from outside, the listener's notifications and
\* the guest's cookies, show it as it is.
ViewsExact == MirrorExact /\ ListingExact

\* Inode numbers are never used again, not even by a new namespace (insert,
\* reset): a fid or a notification cannot mean two files.
FreshIdentities ==
  [][/\ fs'.next >= fs.next
     /\ DOMAIN fs'.inode \ DOMAIN fs.inode \subseteq fs.next .. fs'.next - 1
     /\ fs'.generation # fs.generation => DOMAIN fs'.inode \cap DOMAIN fs.inode = {}]_vars

\* The list of ranges means one lock per byte and owner, converted, split and
\* released byte by byte: try_lock, unlock, the release of sessions and the
\* reclaiming of files do what ByteLocks says.
LockedBytes ==
  UNION {{[inode |-> l.inode, byte |-> b, owner |-> l.owner, kind |-> l.kind,
           session |-> l.session] : b \in l.start .. LockEnd(l) - 1} : l \in fs.locks}
Promise == INSTANCE ByteLocks WITH held <- LockedBytes,
                                   files <- {i \in DOMAIN fs.inode : IsFile(fs, i)}
LocksImplemented == Promise!Spec

=============================================================================
