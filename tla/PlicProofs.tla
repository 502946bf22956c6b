----------------------------- MODULE PlicProofs -----------------------------
(***************************************************************************)
(* For every set of sources and every priority range: the controller's     *)
(* registers stay consistent, no interrupt is lost, the CPU is told of     *)
(* every interrupt it is to serve, and each source is a gateway.           *)
(***************************************************************************)
EXTENDS Plic, OrderLemmas

PlicInv ==
  /\ PlicTypeOK
  /\ Exclusive
  /\ NotLost
  /\ Signalled

\* What update_device_irqs needs to find: registers of the right types, and
\* sources that are pending or claimed, not both, by one context.
Ready(lines, pend, cl) ==
  /\ lines \subseteq Sources /\ pend \subseteq Sources
  /\ cl \in [Contexts -> SUBSET Sources]
  /\ cl[0] \cap cl[1] = {}
  /\ pend \cap Served(cl) = {}

\* update_device_irqs leaves the controller consistent with the lines.
LEMMA UpdateKeeps ==
  ASSUME NEW lines, NEW pend, NEW cl, Ready(lines, pend, cl),
         UpdateDeviceIrqs(lines, pend, cl)
  PROVE  /\ level' \subseteq Sources /\ pending' \subseteq Sources
         /\ claimed' \in [Contexts -> SUBSET Sources]
         /\ Exclusive' /\ NotLost'
  BY DEF Ready, UpdateDeviceIrqs, Exclusive, NotLost, Served

\* sync_interrupts tells the CPU of every source that is not lost.
LEMMA SyncKeeps ==
  ASSUME NotLost', pending' \subseteq Sources, SyncInterrupts, sleeping \in BOOLEAN
  PROVE  /\ mip' \subseteq Contexts
         /\ sleeping' \in BOOLEAN
         /\ Signalled'
<1>1. mip' = CpuInterrupts
  BY DEF SyncInterrupts
<1>2. mip' \subseteq Contexts /\ sleeping' \in BOOLEAN
  BY <1>1 DEF SyncInterrupts, CpuInterrupts
<1>3. ASSUME NEW c \in Contexts, NEW i \in (line' \cap level') \ Served(claimed'),
             i \in enable'[c], priority'[i] > threshold'[c]
      PROVE  c \in mip'
  <2>1. i \in pending'
    BY <1>3 DEF NotLost, Served
  <2> QED
    BY <1>1, <1>3, <2>1 DEF CpuInterrupts
<1> QED
  BY <1>2, <1>3 DEF Signalled, Served

\* best_irq chooses a pending source, if it chooses any.
LEMMA BestIsPending ==
  ASSUME PlicTypeOK, NEW c \in Contexts, Best(c, pending) # 0
  PROVE  Best(c, pending) \in pending
<1> DEFINE cand == Candidates(c, pending)
           Depth(i) == MaxPriority - priority[i]
           Depths == {Depth(i) : i \in cand}
           First(i) == \A j \in cand : priority[j] < priority[i]
                                       \/ (priority[j] = priority[i] /\ i <= j)
<1>1. cand # {}
  BY DEF Best
<1>2. cand \subseteq pending /\ cand \subseteq Sources /\ cand \subseteq Nat
  <2>1. cand \subseteq pending
    BY DEF Candidates
  <2>2. pending \subseteq Sources
    BY DEF PlicTypeOK
  <2>3. \A i \in Sources : i \in Nat
    BY PlicAssumption
  <2> HIDE DEF cand
  <2> QED
    BY <2>1, <2>2, <2>3
<1>3. \A i \in cand : priority[i] \in 0 .. MaxPriority /\ i \in Nat
  BY <1>2 DEF PlicTypeOK, Priorities
<1>4. Depths \in SUBSET Nat /\ Depths # {}
  BY <1>1, <1>3, PlicAssumption
<1>5. PICK d \in Depths : \A e \in Depths : d <= e
  BY <1>4, LeastNatural
<1> DEFINE top == {i \in cand : Depth(i) = d}
<1>6. top \in SUBSET Nat /\ top # {}
  BY <1>2, <1>5
<1>7. PICK i \in top : \A j \in top : i <= j
  BY <1>6, LeastNatural
<1>8. ASSUME NEW j \in cand
      PROVE  priority[j] < priority[i] \/ (priority[j] = priority[i] /\ i <= j)
  <2>1. Depth(i) = d /\ i \in cand /\ d <= Depth(j)
    BY <1>5, <1>7
  <2>2. priority[i] \in Nat /\ priority[j] \in Nat /\ MaxPriority \in Nat
    BY <1>3, <2>1, PlicAssumption
  <2>3. CASE Depth(j) = d
    BY <1>7, <2>1, <2>2, <2>3
  <2>4. CASE Depth(j) # d
    BY <2>1, <2>2, <2>4
  <2> QED
    BY <2>3, <2>4
<1>9. \E k \in cand : First(k)
  BY <1>7, <1>8
<1>10. Best(c, pending) = CHOOSE k \in cand : First(k)
  BY <1>1 DEF Best
<1>11. Best(c, pending) \in cand
  BY <1>9, <1>10
<1> QED
  BY <1>2, <1>11

-----------------------------------------------------------------------------

\* A step that updates the controller from a consistent state and then tells
\* the CPU keeps the invariant.
LEMMA UpdateAndSync ==
  ASSUME PlicInv, NEW lines, NEW pend, NEW cl, Ready(lines, pend, cl),
         UpdateDeviceIrqs(lines, pend, cl), SyncInterrupts,
         line' \subseteq Sources,
         priority' \in [Sources -> Priorities],
         enable' \in [Contexts -> SUBSET Sources],
         threshold' \in [Contexts -> Priorities],
         mie' \subseteq Enableable, executing' \in BOOLEAN,
         ~(sleeping' /\ executing')
  PROVE  PlicInv'
<1>1. /\ level' \subseteq Sources /\ pending' \subseteq Sources
      /\ claimed' \in [Contexts -> SUBSET Sources]
      /\ Exclusive' /\ NotLost'
  BY UpdateKeeps
<1>2. sleeping \in BOOLEAN
  BY DEF PlicInv, PlicTypeOK
<1>3. mip' \subseteq Contexts /\ sleeping' \in BOOLEAN /\ Signalled'
  BY <1>1, <1>2, SyncKeeps
<1>4. PlicTypeOK'
  BY <1>1, <1>3 DEF PlicTypeOK
<1> QED
  BY <1>1, <1>3, <1>4 DEF PlicInv

\* The values reset gives the registers have the registers' types.
LEMMA ResetTypes ==
  /\ [c \in Contexts |-> {}] \in [Contexts -> SUBSET Sources]
  /\ [i \in Sources |-> 0] \in [Sources -> Priorities]
  /\ [c \in Contexts |-> 0] \in [Contexts -> Priorities]
<1>1. 0 \in Priorities
  BY PlicAssumption DEF Priorities
<1>2. {} \in SUBSET Sources
  OBVIOUS
<1> QED
  BY <1>1, <1>2

\* The reset state is consistent.
LEMMA PlicInitInv ==
  Init => PlicInv
<1> SUFFICES ASSUME Init
             PROVE  PlicInv
  OBVIOUS
<1>1. PlicTypeOK
  BY ResetTypes DEF Init, PlicTypeOK
<1>2. Exclusive /\ NotLost
  BY DEF Init, Exclusive, NotLost, Served, Contexts
<1>3. Signalled
  BY DEF Init, Signalled
<1> QED
  BY <1>1, <1>2, <1>3 DEF PlicInv

\* Every step keeps the controller consistent.
LEMMA PlicNextInv ==
  PlicInv /\ [Next]_vars => PlicInv'
<1> SUFFICES ASSUME PlicInv, [Next]_vars
             PROVE  PlicInv'
  OBVIOUS
<1>1. /\ line \subseteq Sources /\ level \subseteq Sources /\ pending \subseteq Sources
      /\ claimed \in [Contexts -> SUBSET Sources]
      /\ priority \in [Sources -> Priorities]
      /\ enable \in [Contexts -> SUBSET Sources]
      /\ threshold \in [Contexts -> Priorities]
      /\ mip \subseteq Contexts /\ mie \subseteq Enableable
      /\ sleeping \in BOOLEAN /\ executing \in BOOLEAN
      /\ ~(sleeping /\ executing)
  BY DEF PlicInv, PlicTypeOK
<1>2. Exclusive /\ NotLost /\ Signalled
  BY DEF PlicInv
<1>3. Ready(line, pending, claimed)
  BY <1>1, <1>2 DEF Ready, Exclusive
<1>4. \A i \in Sources : Ready(line \cup {i}, pending, claimed)
                         /\ Ready(line \ {i}, pending, claimed)
  BY <1>3 DEF Ready
<1>5. ASSUME NEW i \in Sources, HostRaises(i)
      PROVE  PlicInv'
  <2>1. /\ level' \subseteq Sources /\ pending' \subseteq Sources
        /\ claimed' \in [Contexts -> SUBSET Sources]
        /\ Exclusive' /\ NotLost'
    BY <1>4, <1>5, UpdateKeeps DEF HostRaises
  <2>2. PlicTypeOK'
    BY <1>1, <1>5, <2>1 DEF HostRaises, PlicTypeOK, configVars, cpuVars
  <2>3. Signalled'
    BY <1>5 DEF HostRaises, cpuVars, Signalled
  <2> QED
    BY <2>1, <2>2, <2>3 DEF PlicInv
<1>6. ASSUME NEW i \in Sources, GuestRaises(i) \/ GuestLowers(i)
      PROVE  PlicInv'
  <2>1. PICK lines \in {line \cup {i}, line \ {i}} :
          /\ executing /\ executing' = executing
          /\ line' = lines
          /\ UpdateDeviceIrqs(lines, pending, claimed)
          /\ SyncInterrupts
          /\ UNCHANGED <<configVars, mie>>
    BY <1>6 DEF GuestRaises, GuestLowers
  <2>2. Ready(lines, pending, claimed) /\ lines \subseteq Sources
    BY <1>1, <1>4, <2>1
  <2>3. ~sleeping'
    BY <1>1, <2>1 DEF SyncInterrupts
  <2> QED
    BY <1>1, <2>1, <2>2, <2>3, UpdateAndSync DEF configVars
<1>7. ASSUME NEW i \in Sources, FailedNotify(i)
      PROVE  PlicInv'
  <2>1. Exclusive' /\ NotLost' /\ pending' \subseteq Sources
    BY <1>1, <1>2, <1>7 DEF FailedNotify, plicVars, Exclusive, NotLost
  <2>2. mip' \subseteq Contexts /\ sleeping' \in BOOLEAN /\ Signalled'
    BY <1>1, <1>7, <2>1, SyncKeeps DEF FailedNotify
  <2>3. ~sleeping'
    BY <1>1, <1>7 DEF FailedNotify, SyncInterrupts
  <2>4. PlicTypeOK'
    BY <1>1, <1>7, <2>2, <2>3 DEF FailedNotify, plicVars, configVars, PlicTypeOK
  <2> QED
    BY <2>1, <2>2, <2>4 DEF PlicInv
<1>8. CASE StartRun
  <2>1. executing' \in BOOLEAN /\ ~(sleeping' /\ executing')
    BY <1>1, <1>8 DEF StartRun, SyncInterrupts
  <2> QED
    BY <1>1, <1>3, <1>8, <2>1, UpdateAndSync DEF StartRun, configVars
<1>9. CASE EndRun
  <2>1. Exclusive' /\ NotLost' /\ pending' \subseteq Sources
    BY <1>1, <1>2, <1>9 DEF EndRun, plicVars, Exclusive, NotLost
  <2>2. mip' \subseteq Contexts /\ sleeping' \in BOOLEAN /\ Signalled'
    BY <1>1, <1>9, <2>1, SyncKeeps DEF EndRun
  <2>3. PlicTypeOK'
    BY <1>1, <1>9, <2>2 DEF EndRun, plicVars, configVars, PlicTypeOK
  <2> QED
    BY <2>1, <2>2, <2>3 DEF PlicInv
<1>10. CASE Access
  <2>1. ~sleeping'
    BY <1>1, <1>10 DEF Access, SyncInterrupts
  <2> QED
    BY <1>1, <1>3, <1>10, <2>1, UpdateAndSync DEF Access, configVars
<1>11. CASE Wfi
  <2>1. PlicTypeOK'
    BY <1>1, <1>11 DEF Wfi, plicVars, configVars, PlicTypeOK
  <2>2. Exclusive' /\ NotLost' /\ Signalled'
    BY <1>2, <1>11 DEF Wfi, plicVars, Exclusive, NotLost, Signalled
  <2> QED
    BY <2>1, <2>2 DEF PlicInv
<1>12. CASE Reset
  <2>1. PlicTypeOK'
    BY <1>12, ResetTypes DEF Reset, PlicTypeOK
  <2>2. Exclusive' /\ NotLost' /\ Signalled'
    BY <1>12 DEF Reset, Exclusive, NotLost, Served, Signalled, Contexts
  <2> QED
    BY <2>1, <2>2 DEF PlicInv
<1>13. ASSUME NEW c \in Contexts, Claim(c)
       PROVE  PlicInv'
  <2> DEFINE b == Best(c, pending)
             cl == [claimed EXCEPT ![c] = @ \cup {b}]
  <2>1. b \in pending
    BY <1>13, BestIsPending DEF Claim, PlicInv
  <2>2. Ready(line, pending \ {b}, cl)
    <3>1. cl \in [Contexts -> SUBSET Sources]
      BY <1>1, <2>1
    <3>2. c = 0 \/ c = 1
      BY DEF Contexts
    <3>3. cl[0] \cap cl[1] = {} /\ (pending \ {b}) \cap Served(cl) = {}
      BY <1>1, <1>2, <2>1, <3>2 DEF Exclusive, Served, Contexts
    <3> HIDE DEF b, cl
    <3> QED
      BY <1>1, <3>1, <3>3 DEF Ready
  <2>3. ~sleeping'
    BY <1>1, <1>13 DEF Claim, SyncInterrupts
  <2>4. UpdateDeviceIrqs(line, pending \ {b}, cl) /\ SyncInterrupts
        /\ UNCHANGED <<line, configVars, mie, executing>>
    BY <1>13 DEF Claim
  <2> HIDE DEF b, cl
  <2> QED
    BY <1>1, <2>2, <2>3, <2>4, UpdateAndSync DEF configVars
<1>14. ASSUME NEW c \in Contexts, NEW i \in Sources, Complete(c, i)
       PROVE  PlicInv'
  <2> DEFINE pend == IF i \in level THEN pending \cup {i} ELSE pending
             cl == [claimed EXCEPT ![c] = @ \ {i}]
  <2>1. Ready(line, pend, cl)
    <3>1. cl \in [Contexts -> SUBSET Sources] /\ pend \subseteq Sources
      BY <1>1
    <3>2. c = 0 \/ c = 1
      BY DEF Contexts
    <3>3. i \in claimed[c]
      BY <1>14 DEF Complete
    <3>4. cl[0] \cap cl[1] = {} /\ pend \cap Served(cl) = {}
      BY <1>1, <1>2, <3>2, <3>3 DEF Exclusive, Served, Contexts
    <3> HIDE DEF pend, cl
    <3> QED
      BY <1>1, <3>1, <3>4 DEF Ready
  <2>2. ~sleeping'
    BY <1>1, <1>14 DEF Complete, SyncInterrupts
  <2>3. UpdateDeviceIrqs(line, pend, cl) /\ SyncInterrupts
        /\ UNCHANGED <<line, configVars, mie, executing>>
    BY <1>14 DEF Complete
  <2> HIDE DEF pend, cl
  <2> QED
    BY <1>1, <2>1, <2>2, <2>3, UpdateAndSync DEF configVars
<1>15. CASE Configure
  <2>1. CASE \E S \in SUBSET Enableable : SetMie(S)
    <3>1. PlicTypeOK'
      BY <1>1, <2>1 DEF SetMie, plicVars, configVars, PlicTypeOK
    <3>2. Exclusive' /\ NotLost' /\ Signalled'
      BY <1>2, <2>1 DEF SetMie, plicVars, configVars, Exclusive, NotLost, Signalled
    <3> QED
      BY <3>1, <3>2 DEF PlicInv
  <2>2. ASSUME Configured, priority' \in [Sources -> Priorities],
               enable' \in [Contexts -> SUBSET Sources],
               threshold' \in [Contexts -> Priorities]
        PROVE  PlicInv'
    <3>1. ~sleeping'
      BY <1>1, <2>2 DEF Configured, SyncInterrupts
    <3> QED
      BY <1>1, <1>3, <2>2, <3>1, UpdateAndSync DEF Configured
  <2>3. ASSUME NEW i \in Sources, NEW p \in Priorities, SetPriority(i, p)
        PROVE  PlicInv'
    BY <1>1, <2>2, <2>3 DEF SetPriority
  <2>4. ASSUME NEW c \in Contexts, NEW S \in SUBSET Sources, SetEnable(c, S)
        PROVE  PlicInv'
    BY <1>1, <2>2, <2>4 DEF SetEnable
  <2>5. ASSUME NEW c \in Contexts, NEW p \in Thresholds, SetThreshold(c, p)
        PROVE  PlicInv'
    BY <1>1, <2>2, <2>5, PlicAssumption DEF SetThreshold, Priorities
  <2> QED
    BY <1>15, <2>1, <2>3, <2>4, <2>5 DEF Configure
<1>16. CASE UNCHANGED vars
  BY <1>16, <1>2, <1>1 DEF vars, plicVars, configVars, cpuVars, PlicInv, PlicTypeOK,
                      Exclusive, NotLost, Signalled
<1> QED
  BY <1>5, <1>6, <1>7, <1>8, <1>9, <1>10, <1>11, <1>12, <1>13, <1>14, <1>15, <1>16
  DEF Next, Raise

\* The registers of the controller stay consistent with each other, with the
\* lines and with the CPU.
THEOREM PlicInvariant == Spec => []PlicInv
  BY PlicInitInv, PlicNextInv, PTL DEF Spec

\* platform.rs loses no interrupt and gives none to two contexts.
THEOREM PlicLosesNothing == Spec => [](Exclusive /\ NotLost)
<1>1. PlicInv => Exclusive /\ NotLost
  BY DEF PlicInv
<1> QED
  BY <1>1, PlicInvariant, PTL

\* The CPU never executes, nor enters WFI, unaware of an interrupt.
THEOREM PlicSignals == Spec => []Signalled
<1>1. PlicInv => Signalled
  BY DEF PlicInv
<1> QED
  BY <1>1, PlicInvariant, PTL

-----------------------------------------------------------------------------
(* Refinement: the registers are the gateways' states.                     *)

\* A step that passes levels on without a claim or a completion.
LEMMA UpdateIsLevels ==
  ASSUME NEW lines \in SUBSET Sources, UpdateDeviceIrqs(lines, pending, claimed)
  PROVE  Gateway!Levels(lines)
<1>1. level' = lines
  BY DEF UpdateDeviceIrqs
<1>2. ASSUME NEW i \in Sources
      PROVE  SourceState(i)' = IF SourceState(i) = 2 /\ i \in lines THEN 3 ELSE SourceState(i)
  BY DEF UpdateDeviceIrqs, SourceState, Served
<1>3. \A i \in Sources : [j \in Sources |-> SourceState(j)][i] = SourceState(i)
  OBVIOUS
<1> QED
  BY <1>1, <1>2, <1>3 DEF Gateway!Levels

\* claim gives the source to the context that reads the register.
LEMMA ClaimIsClaim ==
  ASSUME PlicInv, NEW c \in Contexts, Claim(c)
  PROVE  Best(c, pending) \in Sources /\ Gateway!Claim(c, Best(c, pending), line)
<1>1. PICK b \in Sources : b = Best(c, pending) /\ b \in pending
  BY BestIsPending DEF Claim, PlicInv, PlicTypeOK
<1>2. /\ level' = line
      /\ pending' = (pending \ {b}) \cup (line \ Served(claimed'))
      /\ claimed' = [claimed EXCEPT ![c] = @ \cup {b}]
  BY <1>1 DEF Claim, UpdateDeviceIrqs
<1>3. /\ claimed \in [Contexts -> SUBSET Sources] /\ b \notin Served(claimed)
      /\ claimed[0] \cap claimed[1] = {}
  BY <1>1 DEF PlicInv, PlicTypeOK, Exclusive
<1>4. c \in {0, 1} /\ 0 \in Contexts /\ 1 \in Contexts
  BY DEF Contexts
<1>5. SourceState(b) = 3
  BY <1>1, <1>3 DEF SourceState, Served
<1>6. b \in claimed'[c] /\ \A d \in Contexts : d # c => claimed'[d] = claimed[d]
  BY <1>2, <1>3
<1>7. SourceState(b)' = c
  BY <1>3, <1>4, <1>6 DEF SourceState, Served
<1>8. ASSUME NEW j \in Sources, j # b
      PROVE  SourceState(j)' = IF SourceState(j) = 2 /\ j \in line THEN 3 ELSE SourceState(j)
  <2>1. /\ j \in claimed'[0] <=> j \in claimed[0]
        /\ j \in claimed'[1] <=> j \in claimed[1]
    BY <1>2, <1>3, <1>4, <1>8
  <2> QED
    BY <1>2, <1>8, <2>1 DEF SourceState, Served
<1>9. \A j \in Sources : [k \in Sources |-> SourceState(k)][j] = SourceState(j)
  OBVIOUS
<1> QED
  BY <1>1, <1>2, <1>5, <1>7, <1>8, <1>9 DEF Gateway!Claim

\* complete ends the service; a level that is high is a request again.
LEMMA CompleteIsComplete ==
  ASSUME PlicInv, NEW c \in Contexts, NEW i \in Sources, Complete(c, i)
  PROVE  Gateway!Complete(c, i, line)
<1> DEFINE pend == IF i \in level THEN pending \cup {i} ELSE pending
<1>1. /\ i \in claimed[c]
      /\ level' = line
      /\ pending' = pend \cup (line \ Served(claimed'))
      /\ claimed' = [claimed EXCEPT ![c] = @ \ {i}]
  BY DEF Complete, UpdateDeviceIrqs
<1>2. /\ claimed \in [Contexts -> SUBSET Sources]
      /\ claimed[0] \cap claimed[1] = {}
      /\ pending \cap Served(claimed) = {}
  BY DEF PlicInv, PlicTypeOK, Exclusive
<1>3. c \in {0, 1} /\ 0 \in Contexts /\ 1 \in Contexts
  BY DEF Contexts
<1>4. SourceState(i) = c
  BY <1>1, <1>2, <1>3 DEF SourceState
<1>5. i \notin Served(claimed')
  BY <1>1, <1>2, <1>3 DEF Served
<1>6. SourceState(i)' = IF i \in level \cup line THEN 3 ELSE 2
  <2>1. i \in Served(claimed)
    BY <1>1, <1>3 DEF Served
  <2>2. i \notin pending
    BY <1>2, <2>1
  <2>3. i \in pending' <=> i \in level \cup line
    BY <1>1, <1>5, <2>2
  <2> QED
    BY <1>5, <2>3 DEF SourceState, Served
<1>7. ASSUME NEW j \in Sources, j # i
      PROVE  SourceState(j)' = IF SourceState(j) = 2 /\ j \in line THEN 3 ELSE SourceState(j)
  <2>1. /\ j \in claimed'[0] <=> j \in claimed[0]
        /\ j \in claimed'[1] <=> j \in claimed[1]
    BY <1>1, <1>2, <1>3, <1>7
  <2> QED
    BY <1>1, <1>7, <2>1 DEF SourceState, Served
<1>8. \A j \in Sources : [k \in Sources |-> SourceState(k)][j] = SourceState(j)
  OBVIOUS
<1> HIDE DEF pend
<1> QED
  BY <1>1, <1>4, <1>6, <1>7, <1>8 DEF Gateway!Complete

\* Whatever the bus, the guest and the CPU do, Plic treats each source as a
\* gateway does: every step of the model is a step of InterruptGateway.
THEOREM PlicImplementsGateway == Spec => ImplementsGateway
<1>1. Init => Gateway!Init
  BY DEF Init, Gateway!Init, SourceState, Contexts
<1>2. ASSUME PlicInv, [Next]_vars
      PROVE  [Gateway!Next]_Gateway!vars
  <2>1. line \in SUBSET Sources /\ \A i \in Sources : line \cup {i} \in SUBSET Sources
                                                     /\ line \ {i} \in SUBSET Sources
    BY <1>2 DEF PlicInv, PlicTypeOK
  <2>2. ASSUME UNCHANGED plicVars
        PROVE  UNCHANGED Gateway!vars
    BY <2>2 DEF plicVars, Gateway!vars, SourceState
  <2>3. ASSUME NEW lines \in SUBSET Sources, UpdateDeviceIrqs(lines, pending, claimed)
        PROVE  Gateway!Next
    BY <2>3, UpdateIsLevels DEF Gateway!Next
  <2>4. CASE Raise
    BY <2>1, <2>2, <2>3, <2>4 DEF Raise, HostRaises, GuestRaises, FailedNotify
  <2>5. CASE Configure
    BY <2>1, <2>2, <2>3, <2>5
    DEF Configure, SetPriority, SetEnable, SetThreshold, SetMie, Configured
  <2>6. CASE StartRun \/ Access
    BY <2>1, <2>3, <2>6 DEF StartRun, Access
  <2>7. CASE EndRun \/ Wfi
    BY <2>2, <2>7 DEF EndRun, Wfi
  <2>8. CASE Reset
    <3>1. Gateway!Reset
      BY <2>8 DEF Reset, Gateway!Reset, SourceState, Contexts
    <3> QED
      BY <3>1 DEF Gateway!Next
  <2>9. ASSUME NEW i \in Sources, GuestLowers(i)
        PROVE  Gateway!Next
    BY <2>1, <2>3, <2>9 DEF GuestLowers
  <2>10. ASSUME NEW c \in Contexts, Claim(c)
         PROVE  Gateway!Next
    BY <1>2, <2>1, <2>10, ClaimIsClaim DEF Gateway!Next
  <2>11. ASSUME NEW c \in Contexts, NEW i \in Sources, Complete(c, i)
         PROVE  Gateway!Next
    BY <1>2, <2>1, <2>11, CompleteIsComplete DEF Gateway!Next
  <2>12. CASE UNCHANGED vars
    BY <2>2, <2>12 DEF vars
  <2> QED
    BY <1>2, <2>4, <2>5, <2>6, <2>7, <2>8, <2>9, <2>10, <2>11, <2>12 DEF Next
<1> QED
  BY <1>1, <1>2, PlicInvariant, PTL DEF Spec, ImplementsGateway, Gateway!Spec

=============================================================================
