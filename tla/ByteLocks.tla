------------------------------ MODULE ByteLocks -----------------------------
(***************************************************************************)
(* What advisory record locks promise, byte by byte.  A held byte is a     *)
(* record [inode, byte, owner, kind, session]: the owner locked this byte  *)
(* of the file, the lock came through the session.  An owner has at most   *)
(* one lock on a byte, and writers exclude everyone else.                  *)
(***************************************************************************)
EXTENDS Naturals

CONSTANTS Inodes, LastByte, Owners, Sessions

VARIABLES
  held,     \* the locked bytes
  files     \* the files that exist

Span(i, o, lo, hi) == {h \in held : h.inode = i /\ h.owner = o /\ h.byte \in lo .. hi}

Init == held = {} /\ files = {}

\* The owner's lock on the bytes lo .. hi becomes this one.
Acquire(i, o, kind, s, lo, hi) ==
  /\ \A h \in held : h.inode = i /\ h.owner # o /\ h.byte \in lo .. hi
                       => h.kind = "read" /\ kind = "read"
  /\ held' = (held \ Span(i, o, lo, hi))
               \cup {[inode |-> i, byte |-> b, owner |-> o, kind |-> kind, session |-> s]
                       : b \in lo .. hi}
  /\ UNCHANGED files

Release(i, o, lo, hi) ==
  held' = held \ Span(i, o, lo, hi) /\ UNCHANGED files

\* Files come and go; a file's locks go with it.  Sessions end, and their
\* locks go with them.
Forget(S) ==
  /\ files' \subseteq Inodes
  /\ held' = {h \in held : h.session \notin S /\ h.inode \in files'}

Next ==
  \/ \E S \in SUBSET Sessions : Forget(S)
  \/ \E i \in files, o \in Owners, lo \in 0 .. LastByte : \E hi \in lo .. LastByte :
       \/ Release(i, o, lo, hi)
       \/ \E kind \in {"read", "write"}, s \in Sessions : Acquire(i, o, kind, s, lo, hi)

Spec == Init /\ [][Next]_<<held, files>>

=============================================================================
