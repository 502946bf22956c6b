----------------------------- MODULE SectorDisk -----------------------------
(***************************************************************************)
(* What a disk of riscbox promises to its two users, the guest's VirtIO    *)
(* block driver and the host's JavaScript facade: an array of sectors, in  *)
(* which a read that succeeds returns exactly what was written last, or    *)
(* the immutable image where nothing was.  A read may also be answered     *)
(* without data (not resident yet, backing error, bad range), which        *)
(* changes nothing.  A disk that owns its bytes (BlockBase::Array) is this *)
(* module without Discard; HttpBlockStore is shown to implement it.        *)
(***************************************************************************)
EXTENDS Integers

CONSTANTS
  Sectors,  \* the sector numbers of the disk
  Data,     \* the contents a sector may have
  Base      \* the immutable image, [Sectors -> Data]

VARIABLES
  disk,     \* the current content of every sector
  reply     \* the last call's answer: the sectors read or written, if any

vars == <<disk, reply>>

Transfers(d) == DOMAIN d \subseteq Sectors /\ d \in [DOMAIN d -> Data]
Declined == {"none", "missing", "failed", "range"}

Init ==
  /\ disk = Base
  /\ reply = [kind |-> "none", data |-> <<>>]

Read ==
  /\ reply'.kind = "data"
  /\ Transfers(reply'.data)
  /\ \A s \in DOMAIN reply'.data : reply'.data[s] = disk[s]
  /\ UNCHANGED disk

Write ==
  /\ reply'.kind = "written"
  /\ Transfers(reply'.data)
  /\ disk' = [s \in Sectors |->
                IF s \in DOMAIN reply'.data THEN reply'.data[s] ELSE disk[s]]

Discard ==
  /\ disk' = Base
  /\ reply' = [kind |-> "discarded", data |-> <<>>]

\* A call that moves no data, or a step that is no call of a user.
Decline ==
  /\ reply'.kind \in Declined
  /\ UNCHANGED disk

Next == Read \/ Write \/ Discard \/ Decline

Spec == Init /\ [][Next]_vars

=============================================================================
