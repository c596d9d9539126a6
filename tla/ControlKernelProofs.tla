------------------------ MODULE ControlKernelProofs ------------------------
(* Proofs about the Control Kernel for every valid lifecycle graph, every    *)
(* budget, every set of events and contexts and every history.               *)
EXTENDS ControlKernel, LifecycleGraph, TLAPS

\* A step either leaves everything alone or applies one event by one route.
Applied(e, c, r) == Ordered(e) /\ Selected(e) = {r} /\ Apply(e, c, r)

LEMMA StepApplies ==
    ASSUME [Next]_vars
    PROVE  \/ UNCHANGED vars
           \/ \E e \in Events, c \in Contexts, r \in Routes : Applied(e, c, r)
  <1>1. CASE UNCHANGED vars
    BY <1>1
  <1>2. CASE Next
    <2>1. PICK e \in Events :
             \/ Dismiss(e)
             \/ /\ Ordered(e)
                /\ \E c \in Contexts :
                      \/ Refuse(e, c)
                      \/ \E r \in Selected(e) : Apply(e, c, r)
      BY <1>2 DEF Next
    <2>2. CASE Dismiss(e)
      BY <2>2 DEF Dismiss
    <2>3. CASE Ordered(e) /\ \E c \in Contexts : Refuse(e, c)
      BY <2>3 DEF Refuse
    <2>4. CASE Ordered(e) /\ \E c \in Contexts : \E r \in Selected(e) : Apply(e, c, r)
      <3>1. PICK c \in Contexts, r \in Selected(e) : Apply(e, c, r)
        BY <2>4
      <3>2. r \in Routes
        BY DEF Selected, Candidates
      <3>3. Selected(e) = {r}
        BY <3>1 DEF Apply, Accepts
      <3> QED BY <2>4, <3>1, <3>2, <3>3 DEF Applied
    <2> QED BY <2>1, <2>2, <2>3, <2>4
  <1> QED BY <1>1, <1>2

----------------------------------------------------------------------------
(* Facts about a valid graph and a selected route *)

LEMMA RouteFacts ==
    ASSUME NEW r \in Routes
    PROVE  /\ r \in RouteType /\ ValidRoute(r)
           /\ r.from \in States /\ r.to \in States /\ r.event \in EventTypes
           /\ r.maxAttempts \in Nat /\ r.retryable \in BOOLEAN
  BY GraphAssumption DEF ValidGraph, RouteType

LEMMA SelectedFacts ==
    ASSUME NEW e, NEW r, Selected(e) = {r}
    PROVE  r \in Routes /\ r.from = state /\ r.event = e.type
  BY DEF Selected, Candidates

LEMMA EventFacts ==
    ASSUME NEW e \in Events
    PROVE  /\ e.id \in Nat /\ e.delivery \in Nat /\ e.sequence \in Nat
           /\ e.units \in Nat /\ e.loops \in Nat /\ e.type \in EventTypes
  BY KernelAssumption DEF KernelEvent

LEMMA AddUsageType ==
    ASSUME NEW used \in Usage, NEW e \in Events
    PROVE  /\ AddUsage(used, e) \in Usage
           /\ AddUsage(used, e).units >= used.units
           /\ AddUsage(used, e).loops >= used.loops
           /\ AddUsage(used, e).retries >= used.retries
  BY EventFacts DEF AddUsage, Usage

LEMMA NextAccordType ==
    ASSUME TypeOK, NEW e, NEW c, RebindValid(e, c)
    PROVE  NextAccord(e, c) \in Revisions
  BY DEF NextAccord, RebindValid, TypeOK

LEMMA DestinationType ==
    ASSUME TypeOK, NEW r \in Routes
    PROVE  DestinationAuthority(r) \in ActiveStates \cup {None}
  BY DEF DestinationAuthority, TypeOK

LEMMA ReceiptTyped ==
    ASSUME TypeOK, NEW e \in Events, NEW c, NEW r \in Routes, RebindValid(e, c)
    PROVE  Receipt(e, c, r) \in ReceiptType
  BY NextAccordType, DestinationType DEF Receipt, ReceiptType, TypeOK

----------------------------------------------------------------------------
(* Type correctness *)

LEMMA InitType == ASSUME Init PROVE TypeOK
  <1>1. 1 \in Revisions /\ 0 \in 0..MaxSafeInteger
    BY KernelAssumption DEF Revisions
  <1>2. << >> \in Seq(ReceiptType)
    OBVIOUS
  <1> QED BY <1>1, <1>2 DEF Init, TypeOK, States, NullAuthorityStates, EmptyUsage, Usage

LEMMA StepType ==
    ASSUME TypeOK, [Next]_vars
    PROVE  TypeOK'
  <1>1. CASE UNCHANGED vars
    BY <1>1 DEF TypeOK, vars, position, counters, history
  <1>2. ASSUME NEW e \in Events, NEW c \in Contexts, NEW r \in Routes, Applied(e, c, r)
        PROVE  TypeOK'
    <2> USE DEF Applied
    <2>1. Accepts(e, c, r) /\ RebindValid(e, c) /\ BudgetsHold(e, c, r)
      BY <1>2 DEF Apply, Accepts
    <2>2. /\ state' \in States /\ lastEventSequence' \in Nat
      BY <1>2, RouteFacts, EventFacts DEF Apply
    <2>3. stateVersion' \in 0..MaxSafeInteger /\ receiptHead' \in Nat
      BY <1>2, <2>1, KernelAssumption DEF Apply, BudgetsHold, TypeOK
    <2>4. accord' \in Revisions
      BY <1>2, <2>1, NextAccordType DEF Apply
    <2>5. authority' \in ActiveStates \cup {None}
      BY <1>2, DestinationType DEF Apply
    <2>6. suspendedState' \in States \cup {None} /\ recoveryState' \in States \cup {None}
      BY <1>2, RouteFacts DEF Apply, NextSuspended, NextRecovery, TypeOK
    <2>7. usage' \in Usage /\ phaseUsage' \in Usage
      <3>1. EmptyUsage \in Usage
        BY DEF EmptyUsage, Usage
      <3> QED BY <1>2, <3>1, AddUsageType DEF Apply, NextUsage, NextPhaseUsage, TypeOK
    <2>8. routeAttempts' \in [Routes -> Nat]
      BY <1>2 DEF Apply, TypeOK
    <2>9. processedEvents' \subseteq [event: Events, receipt: Nat]
      BY <1>2 DEF Apply, TypeOK
    <2>10. receipts' \in Seq(ReceiptType)
      BY <1>2, <2>1, ReceiptTyped DEF Apply, TypeOK
    <2> QED
      BY <2>2, <2>3, <2>4, <2>5, <2>6, <2>7, <2>8, <2>9, <2>10 DEF TypeOK
  <1> QED BY <1>1, <1>2, StepApplies

\* Every reachable snapshot and every emitted receipt is well typed, and the
\* state version never leaves the safe integers.
THEOREM KernelTypeCorrect == Spec => []TypeOK
  <1>1. Init => TypeOK
    BY InitType
  <1>2. TypeOK /\ [Next]_vars => TypeOK'
    BY StepType
  <1> QED BY <1>1, <1>2, PTL DEF Spec

----------------------------------------------------------------------------
(* Budgets *)

LEMMA StepBudgets ==
    ASSUME TypeOK, BudgetsRespected, [Next]_vars
    PROVE  BudgetsRespected'
  <1>1. CASE UNCHANGED vars
    BY <1>1 DEF BudgetsRespected, vars, position, counters
  <1>2. ASSUME NEW e \in Events, NEW c \in Contexts, NEW r \in Routes, Applied(e, c, r)
        PROVE  BudgetsRespected'
    <2>1. BudgetsHold(e, c, r) /\ Apply(e, c, r)
      BY <1>2 DEF Applied, Apply, Accepts
    <2>2. Within(usage', Budget[accord'])
      BY <2>1 DEF BudgetsHold, Apply
    <2>3. ASSUME authority' # None
          PROVE  Within(phaseUsage', EffectiveLimits(accord', authority'))
      <3>1. DestinationAuthority(r) # None
        BY <2>1, <2>3 DEF Apply
      <3>2. r.event = e.type /\ ValidRoute(r)
        BY <1>2, SelectedFacts, RouteFacts DEF Applied
      <3>3. ~Rebinds(e)
        BY <3>1, <3>2 DEF Rebinds, ValidRoute, DestinationAuthority
      <3>4. accord' = accord
        BY <2>1, <3>3 DEF Apply, NextAccord
      <3> QED BY <2>1, <3>1, <3>4 DEF BudgetsHold, Apply
    <2>4. ASSUME NEW q \in Routes, q.retryable
          PROVE  routeAttempts'[q] <= q.maxAttempts
      <3>1. routeAttempts[q] \in Nat /\ routeAttempts[q] <= q.maxAttempts
        BY <2>4 DEF TypeOK, BudgetsRespected
      <3>2. q.maxAttempts \in Nat
        BY RouteFacts
      <3>3. CASE q = r
        <4>1. routeAttempts[r] + 1 <= Lesser(r.maxAttempts, MaxSafeInteger)
          BY <2>1, <2>4, <3>3 DEF Apply, Accepts, RetryAllowed
        <4>2. routeAttempts' = [routeAttempts EXCEPT ![r] = @ + 1]
          BY <2>1, <2>4, <3>3 DEF Apply
        <4> QED BY <3>1, <3>2, <3>3, <4>1, <4>2, KernelAssumption DEF Lesser, TypeOK
      <3>4. CASE q # r
        BY <2>1, <2>4, <3>1, <3>4 DEF Apply, TypeOK
      <3> QED BY <3>3, <3>4
    <2> QED BY <2>2, <2>3, <2>4 DEF BudgetsRespected
  <1> QED BY <1>1, <1>2, StepApplies

\* For every budget, every ceiling and every history of events, leases and
\* rebinds, what was spent stays within the Accord in force and within the
\* limits compiled for the phase in force.
THEOREM KernelBudgetsRespected == Spec => []BudgetsRespected
  <1>1. Init => BudgetsRespected
    <2>1. ASSUME Init PROVE Budget[1] \in Usage /\ accord = 1 /\ usage = EmptyUsage
      BY <2>1, KernelAssumption DEF Init, Revisions
    <2>2. ASSUME Init, NEW r \in Routes PROVE routeAttempts[r] <= r.maxAttempts
      BY <2>2, RouteFacts DEF Init
    <2> QED BY <2>1, <2>2 DEF Init, BudgetsRespected, Within, EmptyUsage, Usage
  <1>2. TypeOK /\ BudgetsRespected /\ [Next]_vars => BudgetsRespected'
    BY StepBudgets
  <1> QED BY <1>1, <1>2, KernelTypeCorrect, PTL DEF Spec

----------------------------------------------------------------------------
(* Authority and retained states *)

LEMMA StepNeverWedged ==
    ASSUME TypeOK, NeverWedged, [Next]_vars
    PROVE  NeverWedged'
  <1>1. CASE UNCHANGED vars
    BY <1>1 DEF NeverWedged, vars, position, SemanticsHold, CurrentAuthorityHolds,
                ExpectedAuthority
  <1>2. ASSUME NEW e \in Events, NEW c \in Contexts, NEW r \in Routes, Applied(e, c, r)
        PROVE  NeverWedged'
    <2>1. /\ Apply(e, c, r) /\ CurrentAuthorityHolds
          /\ SemanticsHold(r.to, DestinationAuthority(r), NextSuspended(r), NextRecovery(r))
      BY <1>2 DEF Applied, Apply, Accepts
    <2>2. r.from = state /\ ValidRoute(r) /\ r.to \in States
      BY <1>2, SelectedFacts, RouteFacts DEF Applied
    <2>3. SemanticsHold(state, authority, suspendedState, recoveryState)'
      BY <2>1 DEF Apply, SemanticsHold
    <2>4. ASSUME state' \notin TerminalStates PROVE CurrentAuthorityHolds'
      <3>1. CASE authority' = None
        BY <2>3, <3>1 DEF SemanticsHold, CurrentAuthorityHolds
      <3>2. CASE authority' # None /\ r.to \in ActiveStates
        BY <2>1, <3>2 DEF Apply, DestinationAuthority, CurrentAuthorityHolds,
                          ExpectedAuthority, ActiveStates
      <3>3. CASE authority' # None /\ r.to \in {"PAUSED", "BLOCKED"}
        <4>1. state \in ActiveStates /\ authority' = authority
          BY <2>1, <2>2, <3>3 DEF Apply, ValidRoute, DestinationAuthority, ActiveStates
        <4>2. authority = state
          <5>1. ExpectedAuthority = state
            BY <4>1 DEF ExpectedAuthority, ActiveStates
          <5> QED BY <2>1, <3>3, <4>1, <5>1 DEF CurrentAuthorityHolds
        <4>3. r.to = "PAUSED"  => suspendedState' = state
          BY <2>1, <2>2 DEF Apply, NextSuspended
        <4>4. r.to = "BLOCKED" => recoveryState' = state
          BY <2>1, <2>2 DEF Apply, NextRecovery
        <4> QED
          BY <2>1, <3>3, <4>1, <4>2, <4>3, <4>4
             DEF Apply, CurrentAuthorityHolds, ExpectedAuthority, ActiveStates
      <3>4. state' \in ActiveStates \cup {"PAUSED", "BLOCKED"} \cup NullAuthorityStates
        BY <2>1, <2>2, <2>4 DEF Apply, States
      <3>5. CASE authority' # None /\ r.to \in NullAuthorityStates
        BY <2>1, <2>3, <3>5 DEF Apply, SemanticsHold
      <3> QED BY <2>1, <3>1, <3>2, <3>3, <3>4, <3>5 DEF Apply
    <2>5. (suspendedState # None <=> state = "PAUSED")'
      BY <2>1, <2>2
         DEF Apply, NextSuspended, NeverWedged, None, ValidRoute, ActiveStates, States
    <2>6. (recoveryState # None <=> state = "BLOCKED")'
      BY <2>1, <2>2
         DEF Apply, NextRecovery, NeverWedged, None, ValidRoute, ActiveStates, States
    <2> QED BY <2>3, <2>4, <2>5, <2>6 DEF NeverWedged
  <1> QED BY <1>1, <1>2, StepApplies

\* For every valid lifecycle graph, the snapshot the kernel installs passes the
\* checks the kernel makes before the next event, and only a paused or blocked
\* work item retains a state to go back to.
THEOREM KernelNeverWedged == Spec => []NeverWedged
  <1>1. Init => NeverWedged
    BY DEF Init, NeverWedged, SemanticsHold, CurrentAuthorityHolds, NullAuthorityStates,
           None, TerminalStates
  <1>2. TypeOK /\ NeverWedged /\ [Next]_vars => NeverWedged'
    BY StepNeverWedged
  <1> QED BY <1>1, <1>2, KernelTypeCorrect, PTL DEF Spec

----------------------------------------------------------------------------
(* History *)

\* The receipt chain is only inductive with the version each receipt carries,
\* and the order of the applied events with the sequence the snapshot keeps.
ReceiptsNumbered ==
    \A i \in DOMAIN receipts : receipts[i].stateVersion = i
SequenceKept ==
    receipts # << >> => lastEventSequence = receipts[Len(receipts)].event.sequence
HistoryInv ==
    TypeOK /\ ReceiptsReplayToSnapshot /\ AppliedOnce /\ ReceiptsNumbered /\ SequenceKept

LEMMA AppendFacts ==
    ASSUME NEW S, NEW s \in Seq(S), NEW x \in S
    PROVE  /\ Len(Append(s, x)) = Len(s) + 1
           /\ DOMAIN Append(s, x) = 1..Len(s) + 1
           /\ DOMAIN s = 1..Len(s) /\ Len(s) \in Nat
           /\ \A i \in 1..Len(s) : Append(s, x)[i] = s[i]
           /\ Append(s, x)[Len(s) + 1] = x
           /\ Append(s, x) # << >>
           /\ (s = << >>) <=> (Len(s) = 0)
  OBVIOUS

LEMMA StepHistory ==
    ASSUME HistoryInv, [Next]_vars
    PROVE  HistoryInv'
  <1>0. TypeOK'
    BY StepType DEF HistoryInv
  <1>1. CASE UNCHANGED vars
    BY <1>0, <1>1 DEF HistoryInv, ReceiptsReplayToSnapshot, AppliedOnce, ReceiptsNumbered,
                SequenceKept, ChainVerifies, vars, position, history
  <1>2. ASSUME NEW e \in Events, NEW c \in Contexts, NEW r \in Routes, Applied(e, c, r)
        PROVE  HistoryInv'
    <2> DEFINE n == Len(receipts)
               new == Receipt(e, c, r)
    <2>1. Apply(e, c, r) /\ Ordered(e) /\ r.from = state
      BY <1>2, SelectedFacts DEF Applied
    <2>2. /\ n \in Nat /\ DOMAIN receipts = 1..n /\ stateVersion = n
          /\ receipts' = Append(receipts, new)
      BY <2>1 DEF Apply, HistoryInv, TypeOK, ReceiptsReplayToSnapshot
    <2>9. receipts \in Seq(ReceiptType) /\ new \in ReceiptType
      BY <2>1, ReceiptTyped DEF HistoryInv, TypeOK, Apply, Accepts
    <2>3. /\ Len(receipts') = n + 1 /\ DOMAIN receipts' = 1..n + 1
          /\ \A i \in 1..n : receipts'[i] = receipts[i]
          /\ receipts'[n + 1] = new /\ receipts' # << >>
          /\ (receipts = << >>) <=> (n = 0)
      BY <2>2, <2>9, AppendFacts
    <2>4. /\ new.stateVersion = n + 1 /\ new.previousReceipt = receiptHead
          /\ new.route = r /\ new.event = e
          /\ new.accord = accord /\ new.destinationAccord = accord'
          /\ new.authority = authority /\ new.destinationAuthority = authority'
      BY <2>1, <2>2 DEF Receipt, Apply
    <2>5. ReceiptsNumbered'
      BY <2>2, <2>3, <2>4 DEF HistoryInv, ReceiptsNumbered
    <2>6. SequenceKept'
      BY <2>1, <2>3, <2>4 DEF SequenceKept, Apply
    <2>7. ReceiptsReplayToSnapshot'
      <3>1. ASSUME n > 0
            PROVE  /\ receiptHead = receipts[n].stateVersion
                   /\ receipts[n].stateVersion = n
                   /\ receipts[n].route.to = state
                   /\ receipts[n].destinationAccord = accord
                   /\ receipts[n].destinationAuthority = authority
        BY <2>2, <2>3, <3>1
           DEF HistoryInv, ReceiptsReplayToSnapshot, ChainVerifies, ReceiptsNumbered
      <3>2. n = 0 => receiptHead = 0
        BY <2>3 DEF HistoryInv, ReceiptsReplayToSnapshot, ChainVerifies
      <3>3. \A i \in DOMAIN receipts' :
               LET prior == receipts'[i - 1] IN
               IF i = 1 THEN receipts'[i].previousReceipt = 0
               ELSE /\ receipts'[i].previousReceipt = prior.stateVersion
                    /\ receipts'[i].route.from = prior.route.to
                    /\ receipts'[i].stateVersion = prior.stateVersion + 1
                    /\ receipts'[i].accord = prior.destinationAccord
                    /\ receipts'[i].authority = prior.destinationAuthority
        <4>1. ASSUME NEW i \in 1..n
              PROVE LET prior == receipts'[i - 1] IN
               IF i = 1 THEN receipts'[i].previousReceipt = 0
               ELSE /\ receipts'[i].previousReceipt = prior.stateVersion
                    /\ receipts'[i].route.from = prior.route.to
                    /\ receipts'[i].stateVersion = prior.stateVersion + 1
                    /\ receipts'[i].accord = prior.destinationAccord
                    /\ receipts'[i].authority = prior.destinationAuthority
          <5>1. receipts'[i] = receipts[i] /\ (i # 1 => receipts'[i - 1] = receipts[i - 1])
            BY <2>2, <2>3
          <5> QED BY <2>2, <5>1 DEF HistoryInv, ReceiptsReplayToSnapshot, ChainVerifies
        <4>2. ASSUME NEW i \in DOMAIN receipts', i = n + 1
              PROVE LET prior == receipts'[i - 1] IN
               IF i = 1 THEN receipts'[i].previousReceipt = 0
               ELSE /\ receipts'[i].previousReceipt = prior.stateVersion
                    /\ receipts'[i].route.from = prior.route.to
                    /\ receipts'[i].stateVersion = prior.stateVersion + 1
                    /\ receipts'[i].accord = prior.destinationAccord
                    /\ receipts'[i].authority = prior.destinationAuthority
          <5>1. CASE n = 0
            BY <2>3, <2>4, <3>2, <4>2, <5>1
          <5>2. CASE n > 0
            <6>1. i - 1 = n /\ i # 1 /\ n \in 1..n
              BY <2>2, <4>2, <5>2
            <6>2. receipts'[i - 1] = receipts[n] /\ receipts'[i] = new
              BY <2>3, <4>2, <6>1
            <6> QED BY <2>1, <2>4, <3>1, <5>2, <6>1, <6>2
          <5> QED BY <2>2, <5>1, <5>2
        <4>3. \A i \in DOMAIN receipts' : i \in 1..n \/ i = n + 1
          BY <2>2, <2>3
        <4> QED BY <4>1, <4>2, <4>3
      <3>4. receiptHead' = receipts'[Len(receipts')].stateVersion
        BY <2>1, <2>2, <2>3, <2>4 DEF Apply
      <3>5. /\ stateVersion' = Len(receipts')
            /\ state' = receipts'[Len(receipts')].route.to
            /\ authority' = receipts'[Len(receipts')].destinationAuthority
            /\ accord' = receipts'[Len(receipts')].destinationAccord
        BY <2>1, <2>2, <2>3, <2>4 DEF Apply
      <3> QED BY <2>3, <3>3, <3>4, <3>5 DEF ReceiptsReplayToSnapshot, ChainVerifies
    <2>8. AppliedOnce'
      <3> DEFINE mark == [event |-> e, receipt |-> n + 1]
      <3>1. processedEvents' = processedEvents \cup {mark}
        BY <2>1, <2>2 DEF Apply
      <3>2. \A p \in processedEvents :
               /\ p.receipt \in 1..n /\ receipts[p.receipt].event = p.event
               /\ p.event.id # e.id /\ p.event.delivery # e.delivery
        BY <2>1, <2>2 DEF HistoryInv, AppliedOnce, Ordered, Seen
      <3>3. \A p, q \in processedEvents' :
               p # q => /\ p.event.id # q.event.id
                        /\ p.event.delivery # q.event.delivery
                        /\ p.receipt # q.receipt
        BY <2>2, <3>1, <3>2 DEF HistoryInv, AppliedOnce
      <3>4. \A p \in processedEvents' :
               p.receipt \in DOMAIN receipts' /\ receipts'[p.receipt].event = p.event
        BY <2>2, <2>3, <2>4, <3>1, <3>2
      <3>5. ASSUME NEW i \in DOMAIN receipts'
            PROVE  /\ \E p \in processedEvents' : p.receipt = i
                   /\ i > 1 => receipts'[i - 1].event.sequence < receipts'[i].event.sequence
        <4>1. CASE i \in 1..n
          <5>1. receipts'[i] = receipts[i] /\ (i > 1 => receipts'[i - 1] = receipts[i - 1])
            BY <2>2, <2>3, <4>1
          <5> QED BY <2>2, <3>1, <4>1, <5>1 DEF HistoryInv, AppliedOnce
        <4>2. CASE i = n + 1
          <5>1. \E p \in processedEvents' : p.receipt = i
            <6>1. mark \in processedEvents' /\ mark.receipt = i
              BY <3>1, <4>2
            <6> QED BY <6>1
          <5>2. ASSUME i > 1
                PROVE  receipts'[i - 1].event.sequence < receipts'[i].event.sequence
            <6>0. i - 1 = n /\ n \in 1..n /\ n # 0
              BY <2>2, <4>2, <5>2
            <6>1. receipts'[i - 1] = receipts[n] /\ receipts # << >>
              BY <2>3, <6>0
            <6>2. receipts[n].event.sequence = lastEventSequence
              BY <6>1 DEF HistoryInv, SequenceKept
            <6>3. e.sequence > lastEventSequence /\ e.sequence \in Nat /\ lastEventSequence \in Nat
              BY <2>1, EventFacts DEF Ordered, HistoryInv, TypeOK
            <6> QED BY <2>3, <2>4, <4>2, <6>1, <6>2, <6>3
          <5> QED BY <5>1, <5>2
        <4> QED BY <2>2, <2>3, <4>1, <4>2
      <3> QED BY <3>3, <3>4, <3>5 DEF AppliedOnce
    <2> QED BY <1>0, <2>5, <2>6, <2>7, <2>8 DEF HistoryInv
  <1> QED BY <1>1, <1>2, StepApplies

LEMMA HistoryInvariant == Spec => []HistoryInv
  <1>1. Init => HistoryInv
    <2>1. ASSUME Init PROVE TypeOK
      BY <2>1, InitType
    <2>2. ASSUME Init PROVE receipts = << >> /\ DOMAIN receipts = {} /\ Len(receipts) = 0
      BY <2>2 DEF Init
    <2> QED
      BY <2>1, <2>2 DEF Init, HistoryInv, ReceiptsReplayToSnapshot, ChainVerifies,
                        AppliedOnce, ReceiptsNumbered, SequenceKept
  <1>2. HistoryInv /\ [Next]_vars => HistoryInv'
    BY StepHistory
  <1> QED BY <1>1, <1>2, PTL DEF Spec

\* However late, repeated, reordered or forged the events come in, the emitted
\* receipts verify as one chain that ends in the snapshot.
THEOREM KernelReceiptsReplay == Spec => []ReceiptsReplayToSnapshot
  <1>1. HistoryInv => ReceiptsReplayToSnapshot
    BY DEF HistoryInv
  <1> QED BY <1>1, HistoryInvariant, PTL

\* No event identity and no delivery identity is ever applied twice.
THEOREM KernelAppliedOnce == Spec => []AppliedOnce
  <1>1. HistoryInv => AppliedOnce
    BY DEF HistoryInv
  <1> QED BY <1>1, HistoryInvariant, PTL

----------------------------------------------------------------------------
(* The approvals behind a completed work item.  They hold by the gates of    *)
(* the reviewed graph, so they are proved for every part of it.              *)

\* The phase the work item is in, or will go back to.
Live == IF state = "PAUSED" THEN suspendedState
        ELSE IF state = "BLOCKED" THEN recoveryState ELSE state

Framed(frame) == /\ ApprovedAt(frame, "accept-frame")
                 /\ \A i \in frame..Len(receipts) : receipts[i].accord = accord

FrameHeld == \E frame \in 1..Len(receipts) : Framed(frame)

PlanHeld ==
    \E frame \in 1..Len(receipts) : \E plan \in frame..Len(receipts) :
        Framed(frame) /\ ApprovedAt(plan, "accept-plan")

Verified(verified) ==
    /\ receipts[verified].route.event = "verification-passed"
    /\ \A i \in verified..Len(receipts) : receipts[i].route.to # "EXECUTING"

VerificationHeld ==
    \E frame \in 1..Len(receipts) : \E plan \in frame..Len(receipts) :
    \E verified \in plan..Len(receipts) :
        Framed(frame) /\ ApprovedAt(plan, "accept-plan") /\ Verified(verified)

\* Each phase is lived in only on the approvals that lead to it, under the
\* Accord in force; a pause or a block keeps them.
ApprovalInv ==
    /\ Live \in {"PLANNED", "EXECUTING", "VERIFYING", "HUMAN_REVIEW"} => FrameHeld
    /\ Live \in {"EXECUTING", "VERIFYING", "HUMAN_REVIEW"} => PlanHeld
    /\ Live = "HUMAN_REVIEW" => VerificationHeld
    /\ CompletionApproved

\* What the reviewed graph demands of the routes into each of those phases.
Returns(r) == r.from \in {"PAUSED", "BLOCKED"}
GatesReviewed ==
    \A r \in Routes :
        /\ Returns(r) /\ r.to \in ActiveStates => RetainedChoice(r.from, r.event)
        /\ r.to = "PLANNED" /\ ~Returns(r) =>
               \/ r.from = "FRAMING" /\ r.gate = "accept-frame"
               \/ r.from = "VERIFYING"
        /\ r.to = "EXECUTING" /\ ~Returns(r) =>
               \/ r.from = "PLANNED" /\ r.gate = "accept-plan"
               \/ r.from \in {"VERIFYING", "HUMAN_REVIEW"}
        /\ r.to = "VERIFYING" /\ ~Returns(r) => r.from = "EXECUTING"
        /\ r.to = "HUMAN_REVIEW" /\ ~Returns(r) =>
               r.from = "VERIFYING" /\ r.event = "verification-passed"
        /\ r.to = "COMPLETED" =>
               r.from = "HUMAN_REVIEW" /\ r.gate = "approve-current-head"

LEMMA ReviewedGates == Routes \subseteq ReviewedRoutes => GatesReviewed
  <1> SUFFICES ASSUME Routes \subseteq ReviewedRoutes, NEW r \in Routes
               PROVE  /\ Returns(r) /\ r.to \in ActiveStates => RetainedChoice(r.from, r.event)
                      /\ r.to = "PLANNED" /\ ~Returns(r) =>
                             \/ r.from = "FRAMING" /\ r.gate = "accept-frame"
                             \/ r.from = "VERIFYING"
                      /\ r.to = "EXECUTING" /\ ~Returns(r) =>
                             \/ r.from = "PLANNED" /\ r.gate = "accept-plan"
                             \/ r.from \in {"VERIFYING", "HUMAN_REVIEW"}
                      /\ r.to = "VERIFYING" /\ ~Returns(r) => r.from = "EXECUTING"
                      /\ r.to = "HUMAN_REVIEW" /\ ~Returns(r) =>
                             r.from = "VERIFYING" /\ r.event = "verification-passed"
                      /\ r.to = "COMPLETED" =>
                             r.from = "HUMAN_REVIEW" /\ r.gate = "approve-current-head"
    BY DEF GatesReviewed
  <1> USE DEF Route, RetryRoute, Returns, RetainedChoice, ActiveStates
  <1>1. r \in ReviewedRoutes
    OBVIOUS
  <1>2. CASE r \in ForwardRoutes
    BY <1>2 DEF ForwardRoutes
  <1>3. CASE r \in BackwardRoutes
    BY <1>3 DEF BackwardRoutes
  <1>4. CASE r \in PauseRoutes
    <2>1. \/ \E s \in ActiveStates : r.from = s /\ r.to = "PAUSED"
          \/ r.from = "PAUSED" /\ r.event = "resume-requested" /\ r.to \in ActiveStates
      BY <1>4 DEF PauseRoutes
    <2> QED BY <2>1
  <1>5. CASE r \in BlockRoutes
    <2>0. \A s, event, gate, classes, attempts :
             LET q == RetryRoute("BLOCKED", event, s, gate, classes, attempts) IN
             q.from = "BLOCKED" /\ q.event = event /\ q.to = s
      OBVIOUS
    <2>1. \/ \E s \in ActiveStates : r.from = s /\ r.to = "BLOCKED"
          \/ /\ r.from = "BLOCKED" /\ r.event \in {"retry-requested", "recovery-approved"}
             /\ r.to \in ActiveStates
      <3> HIDE DEF RetryRoute
      <3> QED BY <1>5, <2>0 DEF BlockRoutes
    <2> QED BY <2>1
  <1>6. CASE r \in AuthorityRoutes
    BY <1>6 DEF AuthorityRoutes
  <1> QED BY <1>1, <1>2, <1>3, <1>4, <1>5, <1>6 DEF ReviewedRoutes

\* A receipt added under the same Accord keeps what was approved, and adds
\* what it approves itself.
LEMMA ApprovalsGrow ==
    ASSUME NEW n \in Nat, n = Len(receipts), Len(receipts') = n + 1, accord' = accord,
           \A i \in 1..n : receipts'[i] = receipts[i],
           receipts'[n + 1].accord = accord
    PROVE  /\ FrameHeld \/ ApprovedAt(n + 1, "accept-frame")' => FrameHeld'
           /\ PlanHeld \/ (FrameHeld /\ ApprovedAt(n + 1, "accept-plan")') => PlanHeld'
           /\ /\ \/ VerificationHeld
                 \/ PlanHeld /\ receipts'[n + 1].route.event = "verification-passed"
              /\ receipts'[n + 1].route.to # "EXECUTING"
              => VerificationHeld'
  <1>1. \A i \in 1..n, gate \in Gates : ApprovedAt(i, gate) => ApprovedAt(i, gate)'
    BY DEF ApprovedAt
  <1>2. \A i \in 1..n : Framed(i) => Framed(i)'
    <2> SUFFICES ASSUME NEW i \in 1..n, Framed(i) PROVE Framed(i)'
      OBVIOUS
    <2>1. ApprovedAt(i, "accept-frame")'
      BY <1>1 DEF Framed, Gates
    <2>2. \A j \in i..n + 1 : receipts'[j].accord = accord
      BY DEF Framed
    <2> QED BY <2>1, <2>2 DEF Framed
  <1>3. ApprovedAt(n + 1, "accept-frame")' => Framed(n + 1)'
    BY DEF Framed
  <1>4. \A i \in 1..n : Verified(i) /\ receipts'[n + 1].route.to # "EXECUTING" => Verified(i)'
    BY DEF Verified
  <1>5. receipts'[n + 1].route.event = "verification-passed"
            /\ receipts'[n + 1].route.to # "EXECUTING" => Verified(n + 1)'
    BY DEF Verified
  <1>6. FrameHeld \/ ApprovedAt(n + 1, "accept-frame")' => FrameHeld'
    <2>1. ASSUME FrameHeld PROVE FrameHeld'
      <3>1. PICK frame \in 1..n : Framed(frame)
        BY <2>1 DEF FrameHeld
      <3>2. Framed(frame)' /\ frame \in 1..n + 1
        BY <1>2, <3>1
      <3> QED BY <3>2 DEF FrameHeld
    <2>2. ASSUME ApprovedAt(n + 1, "accept-frame")' PROVE FrameHeld'
      BY <1>3, <2>2 DEF FrameHeld
    <2> QED BY <2>1, <2>2
  <1>7. PlanHeld \/ (FrameHeld /\ ApprovedAt(n + 1, "accept-plan")') => PlanHeld'
    <2>1. ASSUME PlanHeld PROVE PlanHeld'
      <3>1. PICK frame \in 1..n : \E plan \in frame..n :
                Framed(frame) /\ ApprovedAt(plan, "accept-plan")
        BY <2>1 DEF PlanHeld
      <3>2. PICK plan \in frame..n : Framed(frame) /\ ApprovedAt(plan, "accept-plan")
        BY <3>1
      <3>3. /\ Framed(frame)' /\ ApprovedAt(plan, "accept-plan")'
            /\ frame \in 1..n + 1 /\ plan \in frame..n + 1
        BY <1>1, <1>2, <3>2 DEF Gates
      <3> QED BY <3>3 DEF PlanHeld
    <2>2. ASSUME FrameHeld, ApprovedAt(n + 1, "accept-plan")' PROVE PlanHeld'
      <3>1. PICK frame \in 1..n : Framed(frame)
        BY <2>2 DEF FrameHeld
      <3>2. Framed(frame)' /\ frame \in 1..n + 1 /\ n + 1 \in frame..n + 1
        BY <1>2, <3>1
      <3> QED BY <2>2, <3>2 DEF PlanHeld
    <2> QED BY <2>1, <2>2
  <1>8. ASSUME \/ VerificationHeld
               \/ PlanHeld /\ receipts'[n + 1].route.event = "verification-passed",
               receipts'[n + 1].route.to # "EXECUTING"
        PROVE  VerificationHeld'
    <2>1. CASE VerificationHeld
      <3>0. PICK frame \in 1..n : \E plan \in frame..n : \E verified \in plan..n :
                Framed(frame) /\ ApprovedAt(plan, "accept-plan") /\ Verified(verified)
        BY <2>1 DEF VerificationHeld
      <3>4. PICK plan \in frame..n : \E verified \in plan..n :
                Framed(frame) /\ ApprovedAt(plan, "accept-plan") /\ Verified(verified)
        BY <3>0
      <3>1. PICK verified \in plan..n :
                Framed(frame) /\ ApprovedAt(plan, "accept-plan") /\ Verified(verified)
        BY <3>4
      <3>2. /\ Framed(frame)' /\ ApprovedAt(plan, "accept-plan")' /\ Verified(verified)'
            /\ frame \in 1..n + 1 /\ plan \in frame..n + 1 /\ verified \in plan..n + 1
        BY <1>1, <1>2, <1>4, <1>8, <3>1 DEF Gates
      <3> QED BY <3>2 DEF VerificationHeld
    <2>2. CASE PlanHeld /\ receipts'[n + 1].route.event = "verification-passed"
      <3>0. PICK frame \in 1..n : \E plan \in frame..n :
                Framed(frame) /\ ApprovedAt(plan, "accept-plan")
        BY <2>2 DEF PlanHeld
      <3>1. PICK plan \in frame..n : Framed(frame) /\ ApprovedAt(plan, "accept-plan")
        BY <3>0
      <3>2. /\ Framed(frame)' /\ ApprovedAt(plan, "accept-plan")' /\ Verified(n + 1)'
            /\ frame \in 1..n + 1 /\ plan \in frame..n + 1 /\ n + 1 \in plan..n + 1
        BY <1>1, <1>2, <1>5, <1>8, <2>2, <3>1 DEF Gates
      <3> QED BY <3>2 DEF VerificationHeld
    <2> QED BY <1>8, <2>1, <2>2
  <1> QED BY <1>6, <1>7, <1>8

\* What the kernel read when it applied a route through a human gate.
LEMMA GateFacts ==
    ASSUME NEW e, NEW c, NEW r, Accepts(e, c, r), r.gate # None
    PROVE  /\ Human(e.actor)
           /\ r.gate \in IndependentGates => e.actor.id # Requester
           /\ r.gate = "approve-current-head" => accord \in HeadBound
  <1>1. GateApproved(r.gate, e.actor, c)
    BY DEF Accepts, ActorAuthorized
  <1> QED BY <1>1 DEF GateApproved

\* Where the work item lives after a route.
LEMMA LiveFacts ==
    ASSUME TypeOK, NeverWedged, GatesReviewed,
           NEW e \in Events, NEW c \in Contexts, NEW r \in Routes, Applied(e, c, r)
    PROVE  /\ r.to \in {"PAUSED", "BLOCKED"} => Live' = Live
           /\ r.to \notin {"PAUSED", "BLOCKED"} => Live' = r.to
           /\ Returns(r) /\ r.to \in ActiveStates => Live' = Live
           /\ ~Returns(r) => Live = r.from
           /\ r.to # "ACTIVATION_PENDING" => accord' = accord
  <1>1. /\ r.from = state /\ r.event = e.type /\ ValidRoute(r) /\ state' = r.to
        /\ suspendedState' = NextSuspended(r) /\ recoveryState' = NextRecovery(r)
        /\ accord' = NextAccord(e, c)
    BY SelectedFacts, RouteFacts DEF Applied, Apply
  <1>2. r.to \in {"PAUSED", "BLOCKED"} => r.from \in ActiveStates
    BY <1>1 DEF ValidRoute
  <1>3. ~Returns(r) => Live = r.from
    BY <1>1 DEF Returns, Live
  <1>4. r.to \in {"PAUSED", "BLOCKED"} => Live' = Live
    BY <1>1, <1>2, <1>3 DEF Live, NextSuspended, NextRecovery, Returns, ActiveStates
  <1>5. r.to \notin {"PAUSED", "BLOCKED"} => Live' = r.to
    BY <1>1 DEF Live
  <1>6. ASSUME Returns(r), r.to \in ActiveStates PROVE Live' = Live
    <2>1. RetainedChoice(state, e.type)
      BY <1>1, <1>6 DEF GatesReviewed
    <2>2. r.to = IF state = "PAUSED" THEN suspendedState ELSE recoveryState
      BY <2>1 DEF Applied, Selected, Candidates
    <2>3. Live = r.to
      BY <1>1, <1>6, <2>2 DEF Live, Returns
    <2> QED BY <1>5, <1>6, <2>3 DEF ActiveStates
  <1>7. r.to # "ACTIVATION_PENDING" => accord' = accord
    BY <1>1 DEF NextAccord, Rebinds, ValidRoute
  <1> QED BY <1>3, <1>4, <1>5, <1>6, <1>7

LEMMA StepApprovals ==
    ASSUME GatesReviewed, TypeOK, NeverWedged, ApprovalInv, [Next]_vars
    PROVE  ApprovalInv'
  <1>1. CASE UNCHANGED vars
    <2>1. UNCHANGED <<state, suspendedState, recoveryState, accord, receipts>>
      BY <1>1 DEF vars, position, history
    <2> QED BY <2>1 DEF ApprovalInv, Live, FrameHeld, PlanHeld, VerificationHeld, Framed,
                        Verified, ApprovedAt, CompletionApproved
  <1>2. ASSUME NEW e \in Events, NEW c \in Contexts, NEW r \in Routes, Applied(e, c, r)
        PROVE  ApprovalInv'
    <2> DEFINE new == Receipt(e, c, r)
    <2>0. PICK n \in Nat : n = Len(receipts)
      BY DEF TypeOK
    <2>1. /\ Accepts(e, c, r) /\ r.from = state /\ state' = r.to /\ ValidRoute(r)
          /\ r.to \in States /\ receipts' = Append(receipts, new)
      BY <1>2, SelectedFacts, RouteFacts DEF Applied, Apply
    <2>2. receipts \in Seq(ReceiptType) /\ new \in ReceiptType
      BY <1>2, <2>1, ReceiptTyped DEF TypeOK, Accepts
    <2>3. /\ Len(receipts') = n + 1 /\ receipts'[n + 1] = new
          /\ \A i \in 1..n : receipts'[i] = receipts[i]
      BY <2>0, <2>1, <2>2, AppendFacts
    <2>4. new.accord = accord /\ new.route = r /\ new.event = e
      BY DEF Receipt
    <2>5. /\ r.to \in {"PAUSED", "BLOCKED"} => Live' = Live
          /\ r.to \notin {"PAUSED", "BLOCKED"} => Live' = r.to
          /\ Returns(r) /\ r.to \in ActiveStates => Live' = Live
          /\ ~Returns(r) => Live = r.from
          /\ r.to # "ACTIVATION_PENDING" => accord' = accord
      BY <1>2, LiveFacts
    <2>6. CASE r.to = "ACTIVATION_PENDING"
      BY <2>1, <2>5, <2>6 DEF ApprovalInv, CompletionApproved
    <2>7. CASE r.to # "ACTIVATION_PENDING"
      <3>1. /\ FrameHeld \/ ApprovedAt(n + 1, "accept-frame")' => FrameHeld'
            /\ PlanHeld \/ (FrameHeld /\ ApprovedAt(n + 1, "accept-plan")') => PlanHeld'
            /\ /\ VerificationHeld \/ (PlanHeld /\ r.event = "verification-passed")
               /\ r.to # "EXECUTING"
               => VerificationHeld'
        BY <2>0, <2>3, <2>4, <2>5, <2>7, ApprovalsGrow
      <3>2. \A gate \in Gates : r.gate = gate => ApprovedAt(n + 1, gate)'
        <4> SUFFICES ASSUME NEW gate \in Gates, r.gate = gate PROVE ApprovedAt(n + 1, gate)'
          OBVIOUS
        <4>1. r.gate # None
          BY DEF Gates, None
        <4>2. Human(e.actor) /\ (gate \in IndependentGates => e.actor.id # Requester)
          BY <2>1, <4>1, GateFacts
        <4> QED BY <2>3, <2>4, <4>2 DEF ApprovedAt
      <3>3. /\ r.to = "PLANNED" /\ ~Returns(r) =>
                   \/ r.from = "FRAMING" /\ r.gate = "accept-frame"
               \/ r.from = "VERIFYING"
            /\ r.to = "EXECUTING" /\ ~Returns(r) =>
                   \/ r.from = "PLANNED" /\ r.gate = "accept-plan"
                   \/ r.from \in {"VERIFYING", "HUMAN_REVIEW"}
            /\ r.to = "VERIFYING" /\ ~Returns(r) => r.from = "EXECUTING"
            /\ r.to = "HUMAN_REVIEW" /\ ~Returns(r) =>
                   r.from = "VERIFYING" /\ r.event = "verification-passed"
            /\ r.to = "COMPLETED" =>
                   r.from = "HUMAN_REVIEW" /\ r.gate = "approve-current-head"
        BY DEF GatesReviewed
      <3>4. Live' = Live \/ (~Returns(r) /\ Live = r.from /\ Live' = r.to)
                         \/ Live' \notin ActiveStates
        BY <2>5
      <3>5. Live' \in {"PLANNED", "EXECUTING", "VERIFYING", "HUMAN_REVIEW"} =>
               \/ Live \in {"PLANNED", "EXECUTING", "VERIFYING", "HUMAN_REVIEW"}
               \/ r.gate = "accept-frame"
        BY <3>3, <3>4 DEF ActiveStates
      <3>6. Live' \in {"EXECUTING", "VERIFYING", "HUMAN_REVIEW"} =>
               \/ Live \in {"EXECUTING", "VERIFYING", "HUMAN_REVIEW"}
               \/ Live = "PLANNED" /\ r.gate = "accept-plan"
        BY <3>3, <3>4 DEF ActiveStates
      <3>7. Live' = "HUMAN_REVIEW" =>
               /\ r.to # "EXECUTING"
               /\ \/ Live = "HUMAN_REVIEW"
                  \/ Live = "VERIFYING" /\ r.event = "verification-passed"
        BY <2>5, <3>3, <3>4 DEF ActiveStates
      <3>8. Live' \in {"PLANNED", "EXECUTING", "VERIFYING", "HUMAN_REVIEW"} => FrameHeld'
        BY <3>1, <3>2, <3>5 DEF ApprovalInv, Gates
      <3>9. Live' \in {"EXECUTING", "VERIFYING", "HUMAN_REVIEW"} => PlanHeld'
        BY <3>1, <3>2, <3>6 DEF ApprovalInv, Gates
      <3>10. Live' = "HUMAN_REVIEW" => VerificationHeld'
        BY <3>1, <3>7 DEF ApprovalInv
      <3>11. CompletionApproved'
        <4> SUFFICES ASSUME r.to = "COMPLETED" PROVE CompletionApproved'
          BY <2>1 DEF CompletionApproved
        <4>1. Live = "HUMAN_REVIEW" /\ r.gate = "approve-current-head"
          BY <2>5, <3>3 DEF Returns
        <4>2. VerificationHeld' /\ ApprovedAt(n + 1, "approve-current-head")'
          BY <3>1, <3>2, <4>1 DEF ApprovalInv, Gates
        <4>3. accord' \in HeadBound
          BY <2>1, <2>5, <2>7, <4>1, GateFacts DEF None
        <4> QED BY <2>3, <4>2, <4>3 DEF CompletionApproved, VerificationHeld, Framed, Verified
      <3> QED BY <3>8, <3>9, <3>10, <3>11 DEF ApprovalInv
    <2> QED BY <2>6, <2>7
  <1> QED BY <1>1, <1>2, StepApplies

\* In every part of the reviewed graph, and whatever events, contexts and
\* rebinds come, work is completed only behind a human acceptance of its frame,
\* its plan and its verified outcome, by the independent reviewers the policy
\* names and under the Accord in force.
THEOREM KernelCompletionApproved ==
    ASSUME Routes \subseteq ReviewedRoutes
    PROVE  Spec => []CompletionApproved
  <1>1. GatesReviewed
    BY ReviewedGates
  <1>2. Init => ApprovalInv
    BY DEF Init, ApprovalInv, Live, CompletionApproved
  <1>3. TypeOK /\ NeverWedged /\ ApprovalInv /\ [Next]_vars => ApprovalInv'
    BY <1>1, StepApprovals
  <1>4. Spec => []NeverWedged
    BY KernelNeverWedged
  <1>5. ApprovalInv => CompletionApproved
    BY DEF ApprovalInv
  <1> QED BY <1>2, <1>3, <1>4, <1>5, KernelTypeCorrect, PTL DEF Spec
=============================================================================
