---------------------------- MODULE RequestQueue ----------------------------
(***************************************************************************)
(* What a virtqueue is for: requests are served one at a time in the order *)
(* of their submission, each is answered at most once, and the answers are *)
(* collected in the same order.  The server may hold one request while it  *)
(* waits for something, and may refuse one, which is then never answered.  *)
(***************************************************************************)
EXTENDS Sequences, Integers

CONSTANT Requests

VARIABLES
  waiting,    \* submitted, not yet taken; oldest first
  held,       \* << >> or the one request the server holds
  answers,    \* answered, not yet collected; oldest first
  idle        \* requests the client may submit; none before it starts

vars == <<waiting, held, answers, idle>>

Init ==
  /\ waiting = << >> /\ held = << >> /\ answers = << >>
  /\ idle = {}

Submit(r) ==
  /\ r \in idle
  /\ idle' = idle \ {r}
  /\ waiting' = Append(waiting, r)
  /\ UNCHANGED <<held, answers>>

\* The server answers the request it holds and the next n, and then perhaps
\* holds or refuses another.
Serve(n) ==
  /\ answers' = answers \o held \o SubSeq(waiting, 1, n)
  /\ \E taken \in {n, n + 1} \cap 0 .. Len(waiting) :
       /\ waiting' = SubSeq(waiting, taken + 1, Len(waiting))
       /\ held' \in {<< >>, SubSeq(waiting, n + 1, taken)}
  /\ idle' = idle

Collect ==
  /\ answers # << >>
  /\ idle' = idle \cup {Head(answers)}
  /\ answers' = Tail(answers)
  /\ UNCHANGED <<waiting, held>>

\* The server forgets everything; then the client may start again.
Forget == waiting' = << >> /\ held' = << >> /\ answers' = << >> /\ idle' = {}
Start ==
  /\ waiting = << >> /\ held = << >> /\ answers = << >> /\ idle = {}
  /\ idle' = Requests
  /\ UNCHANGED <<waiting, held, answers>>

Next ==
  \/ \E r \in Requests : Submit(r)
  \/ \E n \in 0 .. Len(waiting) : Serve(n)
  \/ Collect \/ Forget \/ Start

Spec == Init /\ [][Next]_vars

=============================================================================
