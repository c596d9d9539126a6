--------------------------- MODULE AuthorityProofs ---------------------------
(* Proofs about what is done under an authority that may have passed: the     *)
(* scheduling of model calls under a run fence, for any number of workflows;  *)
(* the delivery of an authorized execution, an administrator's change by      *)
(* plan, confirmation and readback, and an installation, for every age, lease *)
(* and bound, and for any number of jobs and operators.                       *)
EXTENDS MCAuthorized, TLAPS, SequenceTheorems

-----------------------------------------------------------------------------
(* The demo scheduler: its inductive invariant. *)

BeforeCall(w) == pc[w] \in {"fenced", "reserving", "reserved", "refreshing", "beginning",
                            "refreshing again", "invoking"}

SettledUnder(fence) ==
    \E i \in DOMAIN ledger : ledger[i].fence = fence /\ ledger[i].kind = "settlement"

\* What a workflow saw is a prefix of what is there, and as long as it is all of
\* it, the budget has a call and tokens left and the run state no fence.
SeenPast(w) ==
    /\ seen[w].fences <= Len(fences) /\ seen[w].ledger <= Len(ledger)
    /\ pc[w] # "idle" /\ seen[w].ledger = Len(ledger) =>
           AvailableCalls >= 1 /\ AvailableTokens >= 1
    /\ pc[w] = "acquiring" /\ seen[w].fences = Len(fences) =>
           \A i \in DOMAIN fences : fences[i].base # seen[w].run.version

Undisturbed(w) ==
    /\ Fenced(w) => OwnFence(w) /\ fences[Mine(w)].base = seen[w].run.version
    /\ BeforeSettlement(w) => OwnReservation(w)
    /\ Refreshed(w) => run = seen[w].run

\* Its call is the first under its fence, and it knows what it settled.
CallsOnce(w) ==
    /\ BeforeCall(w) => \A c \in calls : c.fence # Mine(w)
    /\ pc[w] = "releasing" => SettledUnder(Mine(w))

LocalInv(w) == SeenPast(w) /\ Undisturbed(w) /\ CallsOnce(w)

OneFencePerRunState ==
    \A i, j \in DOMAIN fences :
        fences[i].status = "acquired" /\ fences[j].status = "acquired"
            /\ fences[i].base = fences[j].base => i = j

ArtifactsReleased ==
    \A i \in artifacts : /\ i \in DOMAIN fences /\ i + 1 \in DOMAIN fences
                         /\ fences[i].status = "acquired"

CallsOfFences ==
    \A c \in calls : /\ c.fence \in DOMAIN fences
                     /\ fences[c.fence].status = "acquired"
                     /\ fences[c.fence].base = c.base

OneCallPerFence == \A c, d \in calls : c.fence = d.fence => c = d

ReservedFirst == \A i \in DOMAIN ledger : ledger[i].kind = "settlement" => i # 1

SharedInv == /\ OneFencePerRunState /\ ArtifactsReleased
             /\ CallsOfFences /\ OneCallPerFence /\ ReservedFirst /\ CallsCovered

ScheduleInv == TypeOK /\ SharedInv /\ \A w \in Workflows : LocalInv(w)

-----------------------------------------------------------------------------
(* Sequences, and what a workflow changes *)

FenceRecords == [status : {"acquired", "released"}, holder : Workflows, base : Nat]
Entries == [kind : {"reservation", "settlement"}, fence : Nat, used : 0 .. MaxTokens,
            held : 0 .. MaxTokens, calls : Nat]

LEMMA AppendFacts ==
    ASSUME NEW S, NEW s \in Seq(S), NEW e \in S
    PROVE  /\ Append(s, e) \in Seq(S)
           /\ Len(s) \in Nat /\ DOMAIN s = 1 .. Len(s)
           /\ Len(Append(s, e)) = Len(s) + 1
           /\ DOMAIN Append(s, e) = 1 .. Len(s) + 1
           /\ \A i \in 1 .. Len(s) : Append(s, e)[i] = s[i] /\ s[i] \in S
           /\ Append(s, e)[Len(s) + 1] = e
  OBVIOUS

\* The types of what the steps look at.
LEMMA Types ==
    ASSUME TypeOK
    PROVE  /\ fences \in Seq(FenceRecords) /\ Len(fences) \in Nat
           /\ DOMAIN fences = 1 .. Len(fences)
           /\ \A i \in DOMAIN fences : fences[i] \in FenceRecords
           /\ ledger \in Seq(Entries) /\ Len(ledger) \in Nat
           /\ DOMAIN ledger = 1 .. Len(ledger)
           /\ \A i \in DOMAIN ledger : ledger[i] \in Entries
           /\ \A w \in Workflows : /\ seen[w].fences \in Nat /\ seen[w].ledger \in Nat
                                   /\ Mine(w) = seen[w].fences + 1 /\ Mine(w) \in Nat
                                   /\ seen[w].run \in RunStates
  <1>1. fences \in Seq(FenceRecords) /\ ledger \in Seq(Entries)
    BY DEF TypeOK, FenceRecords, Entries
  <1>2. seen \in [Workflows -> [fences : Nat, ledger : Nat, run : RunStates]]
    BY DEF TypeOK
  <1>3. \A w \in Workflows : /\ seen[w].fences \in Nat /\ seen[w].ledger \in Nat
                             /\ seen[w].run \in RunStates
    BY <1>2
  <1> QED BY <1>1, <1>3 DEF Mine

LEMMA BudgetFacts ==
    ASSUME TypeOK
    PROVE  /\ ledger = <<>> => Budget = Genesis
           /\ ledger # <<>> => Budget = ledger[Len(ledger)] /\ Budget \in Entries
           /\ Budget.used \in 0 .. MaxTokens /\ Budget.held \in 0 .. MaxTokens
           /\ Budget.calls \in Nat /\ Budget.fence \in Nat
           /\ Outstanding => ledger # <<>>
           /\ MaxTokens \in Nat /\ MaxCalls \in Nat
           /\ Budget.used + Budget.held <= MaxTokens
  <1>1. MaxTokens \in Nat /\ MaxCalls \in Nat
    BY ScheduleAssumption
  <1>2. ledger = <<>> => Budget = Genesis
    BY DEF Budget
  <1>3. ledger # <<>> => Budget = ledger[Len(ledger)] /\ Budget \in Entries
    BY Types DEF Budget
  <1>4. Budget = Genesis \/ Budget \in Entries
    BY <1>2, <1>3
  <1>5. /\ Budget.used \in 0 .. MaxTokens /\ Budget.held \in 0 .. MaxTokens
        /\ Budget.calls \in Nat /\ Budget.fence \in Nat
    BY <1>1, <1>4 DEF Genesis, Entries
  <1>6. Outstanding => ledger # <<>>
    BY <1>2 DEF Outstanding, Genesis
  <1>7. MaxTokens - Budget.used - Budget.held >= 0
    BY DEF TypeOK, AvailableTokens
  <1> QED BY <1>1, <1>2, <1>3, <1>5, <1>6, <1>7

\* One holder at a time.
LEMMA Alone ==
    ASSUME TypeOK, NEW v \in Workflows, NEW w \in Workflows,
           Fenced(v) => OwnFence(v), Fenced(w) => OwnFence(w), Fenced(v), Fenced(w)
    PROVE  v = w
  BY DEF OwnFence

LEMMA GotoFacts ==
    ASSUME TypeOK, NEW w \in Workflows, NEW p, Goto(w, p)
    PROVE  /\ seen' = seen /\ failed' = failed
           /\ pc'[w] = p
           /\ \A v \in Workflows : v # w => pc'[v] = pc[v]
           /\ p \in Places => pc' \in [Workflows -> Places]
  BY DEF TypeOK, Goto

LEMMA EndFacts ==
    ASSUME TypeOK, NEW w \in Workflows, End(w)
    PROVE  /\ pc'[w] = "idle" /\ seen'[w] = Nothing
           /\ \A v \in Workflows : v # w => pc'[v] = pc[v] /\ seen'[v] = seen[v]
           /\ pc' \in [Workflows -> Places]
           /\ seen' \in [Workflows -> [fences : Nat, ledger : Nat, run : RunStates]]
           /\ failed' \in [Workflows -> BOOLEAN]
  BY DEF TypeOK, End, Nothing, Places, RunStates

\* A workflow that has ended promises nothing.
LEMMA EndedKeeps ==
    ASSUME TypeOK, NEW w \in Workflows, End(w),
           Len(fences') \in Nat, Len(ledger') \in Nat
    PROVE  LocalInv(w)'
  <1>1. pc'[w] = "idle" /\ seen'[w].fences = 0 /\ seen'[w].ledger = 0
    BY EndFacts DEF Nothing
  <1>2. SeenPast(w)'
    BY <1>1 DEF SeenPast
  <1>3. Undisturbed(w)'
    BY <1>1 DEF Undisturbed, Fenced, BeforeSettlement, Refreshed
  <1>4. CallsOnce(w)'
    BY <1>1 DEF CallsOnce, BeforeCall
  <1> QED BY <1>2, <1>3, <1>4 DEF LocalInv

\* Steps that leave what is shared keep what another workflow relies on.
LEMMA BystanderKeeps ==
    ASSUME TypeOK, NEW v \in Workflows, LocalInv(v),
           pc'[v] = pc[v], seen'[v] = seen[v], UNCHANGED <<fences, ledger, calls>>,
           Refreshed(v) => run' = run
    PROVE  LocalInv(v)'
  BY DEF LocalInv, SeenPast, Undisturbed, CallsOnce, Fenced, BeforeSettlement, Refreshed,
         BeforeCall, OwnFence, OwnReservation, Mine, Held, Acquired, Outstanding, Budget,
         AvailableCalls, AvailableTokens, SettledUnder, Genesis

LEMMA SharedKept ==
    ASSUME SharedInv, UNCHANGED <<fences, ledger, calls, artifacts>>
    PROVE  SharedInv'
  BY DEF SharedInv, OneFencePerRunState, ArtifactsReleased, CallsOfFences, OneCallPerFence,
         ReservedFirst, CallsCovered, Charged

-----------------------------------------------------------------------------
(* The steps. *)

LEMMA InitHolds == ASSUME Init PROVE ScheduleInv
  <1>1. TypeOK
    BY ScheduleAssumption DEF Init, TypeOK, AvailableTokens, AvailableCalls, Outstanding, Budget,
       Genesis, Nothing, RunStates, Places
  <1>2. SharedInv
    BY DEF Init, SharedInv, OneFencePerRunState, ArtifactsReleased, CallsOfFences,
           OneCallPerFence, ReservedFirst, CallsCovered
  <1>3. ASSUME NEW w \in Workflows PROVE LocalInv(w)
    <2>1. pc[w] = "idle" /\ seen[w].fences = 0 /\ seen[w].ledger = 0
      BY DEF Init, Nothing
    <2> QED BY <2>1 DEF Init, LocalInv, SeenPast, Undisturbed, CallsOnce, Fenced,
                        BeforeSettlement, Refreshed, BeforeCall
  <1> QED BY <1>1, <1>2, <1>3 DEF ScheduleInv

\* A workflow looks, and goes on in what it may rely on already, or ends.
LEMMA LookKeeps ==
    ASSUME ScheduleInv, NEW w \in Workflows,
           UNCHANGED <<fences, ledger, calls, artifacts, world>>, attempts' \subseteq Nat,
           NEW p \in Places \ {"idle", "acquiring", "releasing"},
           \/ /\ Goto(w, p)
              /\ Fenced(w)
              /\ BeforeSettlement(w)' => BeforeSettlement(w)
              /\ BeforeCall(w)' => BeforeCall(w)
              /\ Refreshed(w)' => run = seen[w].run
           \/ End(w)
    PROVE  ScheduleInv'
  <1> USE DEF ScheduleInv
  <1>1. UNCHANGED <<fences, ledger, calls, artifacts, run, kernel>>
    BY DEF world
  <1>2. TypeOK'
    <2>1. /\ pc' \in [Workflows -> Places] /\ failed' \in [Workflows -> BOOLEAN]
          /\ seen' \in [Workflows -> [fences : Nat, ledger : Nat, run : RunStates]]
      BY GotoFacts, EndFacts DEF TypeOK
    <2> QED BY <1>1, <2>1 DEF TypeOK, AvailableTokens, AvailableCalls, Outstanding, Budget
  <1>3. SharedInv'
    BY <1>1, SharedKept
  <1>4. ASSUME NEW v \in Workflows, v # w PROVE LocalInv(v)'
    BY <1>1, <1>4, GotoFacts, EndFacts, BystanderKeeps
  <1>5. LocalInv(w)'
    <2>1. CASE End(w)
      BY <1>1, <2>1, EndedKeeps, Types
    <2>2. CASE Goto(w, p) /\ Fenced(w) /\ (BeforeSettlement(w)' => BeforeSettlement(w))
               /\ (BeforeCall(w)' => BeforeCall(w)) /\ (Refreshed(w)' => run = seen[w].run)
      <3>1. pc'[w] = p /\ seen' = seen /\ pc[w] # "idle" /\ pc[w] # "acquiring"
        BY <2>2, GotoFacts DEF Fenced
      <3>2. SeenPast(w)'
        BY <1>1, <3>1 DEF LocalInv, SeenPast, AvailableCalls, AvailableTokens, Budget, Outstanding
      <3>3. Undisturbed(w)'
        BY <1>1, <2>2, <3>1 DEF LocalInv, Undisturbed, Fenced, OwnFence, Mine, Held, Acquired,
           OwnReservation, Outstanding, Budget
      <3>4. CallsOnce(w)'
        BY <1>1, <2>2, <3>1 DEF LocalInv, CallsOnce, Mine
      <3> QED BY <3>2, <3>3, <3>4 DEF LocalInv
    <2> QED BY <2>1, <2>2
  <1> QED BY <1>2, <1>3, <1>4, <1>5

LEMMA LooksKeep ==
    ASSUME ScheduleInv, NEW w \in Workflows,
           \/ ObserveFence(w) \/ RereadBudget(w) \/ Refresh(w) \/ Begin(w) \/ RefreshAgain(w)
           \/ NoUsage(w) \/ Die(w)
    PROVE  ScheduleInv'
  <1> USE DEF ScheduleInv, Places, Fenced, BeforeSettlement, BeforeCall, Refreshed
  <1>0. TypeOK /\ LocalInv(w) /\ Mine(w) \in Nat
    BY Types
  <1>1. CASE ObserveFence(w)
    <2>1. pc[w] = "fenced" /\ (Goto(w, "reserving") \/ End(w))
      BY <1>1 DEF ObserveFence
    <2>2. /\ UNCHANGED <<fences, ledger, calls, artifacts, world>> /\ attempts' \subseteq Nat
      BY <1>0, <1>1 DEF ObserveFence, stores, TypeOK
    <2>3. CASE Goto(w, "reserving")
      <3>1. pc'[w] = "reserving"
        BY <1>0, <2>3, GotoFacts
      <3> QED BY <1>1, <2>1, <2>2, <2>3, <3>1, LookKeeps DEF ObserveFence
    <2>4. CASE End(w)
      BY <2>1, <2>2, <2>4, LookKeeps
    <2> QED BY <2>1, <2>3, <2>4
  <1>2. CASE RereadBudget(w)
    <2>1. pc[w] = "reserved" /\ (Goto(w, "refreshing") \/ End(w))
      BY <1>2 DEF RereadBudget
    <2>2. /\ UNCHANGED <<fences, ledger, calls, artifacts, world>> /\ attempts' \subseteq Nat
      BY <1>0, <1>2 DEF RereadBudget, stores, TypeOK
    <2>3. CASE Goto(w, "refreshing")
      <3>1. pc'[w] = "refreshing"
        BY <1>0, <2>3, GotoFacts
      <3> QED BY <1>2, <2>1, <2>2, <2>3, <3>1, LookKeeps DEF RereadBudget
    <2>4. CASE End(w)
      BY <2>1, <2>2, <2>4, LookKeeps
    <2> QED BY <2>1, <2>3, <2>4
  <1>3. CASE Refresh(w)
    <2>1. pc[w] = "refreshing" /\ (Goto(w, "beginning") \/ End(w))
      BY <1>3 DEF Refresh, Revalidate, StillRunning
    <2>2. /\ UNCHANGED <<fences, ledger, calls, artifacts, world>> /\ attempts' \subseteq Nat
      BY <1>0, <1>3 DEF Refresh, Revalidate, StillRunning, stores, TypeOK
    <2>3. CASE Goto(w, "beginning")
      <3>1. pc'[w] = "beginning"
        BY <1>0, <2>3, GotoFacts
      <3> QED BY <1>3, <2>1, <2>2, <2>3, <3>1, LookKeeps DEF Refresh, Revalidate, StillRunning
    <2>4. CASE End(w)
      BY <2>1, <2>2, <2>4, LookKeeps
    <2> QED BY <2>1, <2>3, <2>4
  <1>4. CASE RefreshAgain(w)
    <2>1. pc[w] = "refreshing again" /\ (Goto(w, "invoking") \/ End(w))
      BY <1>4 DEF RefreshAgain, Revalidate, StillRunning
    <2>2. /\ UNCHANGED <<fences, ledger, calls, artifacts, world>> /\ attempts' \subseteq Nat
      BY <1>0, <1>4 DEF RefreshAgain, Revalidate, StillRunning, stores, TypeOK
    <2>3. CASE Goto(w, "invoking")
      <3>1. pc'[w] = "invoking"
        BY <1>0, <2>3, GotoFacts
      <3> QED BY <1>4, <2>1, <2>2, <2>3, <3>1, LookKeeps DEF RefreshAgain, Revalidate, StillRunning
    <2>4. CASE End(w)
      BY <2>1, <2>2, <2>4, LookKeeps
    <2> QED BY <2>1, <2>3, <2>4
  <1>5. CASE Begin(w)
    <2>1. pc[w] = "beginning" /\ (Goto(w, "refreshing again") \/ End(w))
      BY <1>5 DEF Begin
    <2>2. /\ UNCHANGED <<fences, ledger, calls, artifacts, world>> /\ attempts' \subseteq Nat
      BY <1>0, <1>5 DEF Begin, stores, TypeOK
    <2>3. CASE Goto(w, "refreshing again")
      <3>1. pc'[w] = "refreshing again"
        BY <1>0, <2>3, GotoFacts
      <3> QED BY <1>0, <1>5, <2>1, <2>2, <2>3, <3>1, LookKeeps DEF Begin, LocalInv, Undisturbed
    <2>4. CASE End(w)
      BY <2>1, <2>2, <2>4, LookKeeps
    <2> QED BY <2>1, <2>3, <2>4
  <1>6. CASE NoUsage(w)
    <2>1. pc[w] = "invoked" /\ (Goto(w, "releasing failed") \/ End(w))
      BY <1>6 DEF NoUsage
    <2>2. /\ UNCHANGED <<fences, ledger, calls, artifacts, world>> /\ attempts' \subseteq Nat
      BY <1>0, <1>6 DEF NoUsage, stores, TypeOK
    <2>3. CASE Goto(w, "releasing failed")
      <3>1. pc'[w] = "releasing failed"
        BY <1>0, <2>3, GotoFacts
      <3> QED BY <1>0, <1>6, <2>1, <2>2, <2>3, <3>1, LookKeeps DEF NoUsage, LocalInv, Undisturbed
    <2>4. CASE End(w)
      BY <2>1, <2>2, <2>4, LookKeeps
    <2> QED BY <2>1, <2>3, <2>4
  <1>7. CASE Die(w)
    <2>1. UNCHANGED <<fences, ledger, calls, artifacts, world>> /\ attempts' \subseteq Nat
      BY <1>0, <1>7 DEF Die, stores, TypeOK
    <2> QED BY <1>7, <2>1, LookKeeps DEF Die
  <1> QED BY <1>1, <1>2, <1>3, <1>4, <1>5, <1>6, <1>7

\* Who holds no fence is not affected by what is appended to either chain.
LEMMA OutsiderKeeps ==
    ASSUME TypeOK, NEW v \in Workflows, LocalInv(v), ~ Fenced(v),
           pc'[v] = pc[v], seen'[v] = seen[v],
           fences' = fences \/ Len(fences') = Len(fences) + 1,
           ledger' = ledger \/ Len(ledger') = Len(ledger) + 1
    PROVE  LocalInv(v)'
  <1>1. pc[v] \in {"idle", "acquiring"} /\ pc'[v] \in {"idle", "acquiring"}
    BY DEF Fenced
  <1>2. /\ Len(fences) \in Nat /\ Len(ledger) \in Nat
        /\ seen[v].fences \in Nat /\ seen[v].ledger \in Nat
    BY Types
  <1>3. seen[v].fences <= Len(fences) /\ seen[v].ledger <= Len(ledger)
    BY DEF LocalInv, SeenPast
  <1>4. seen'[v].ledger = Len(ledger') => ledger' = ledger
    BY <1>2, <1>3
  <1>5. seen'[v].fences = Len(fences') => fences' = fences
    BY <1>2, <1>3
  <1>6. SeenPast(v)'
    BY <1>2, <1>3, <1>4, <1>5 DEF LocalInv, SeenPast, AvailableCalls, AvailableTokens, Budget, Outstanding
  <1>7. Undisturbed(v)' /\ CallsOnce(v)'
    BY <1>1 DEF Undisturbed, CallsOnce, Fenced, BeforeSettlement, Refreshed, BeforeCall
  <1> QED BY <1>6, <1>7 DEF LocalInv

\* While one workflow holds the fence, every other is an outsider.
LEMMA OnlyHolder ==
    ASSUME ScheduleInv, NEW w \in Workflows, Fenced(w), NEW v \in Workflows, v # w
    PROVE  ~ Fenced(v)
  BY Alone DEF ScheduleInv, LocalInv, Undisturbed

LEMMA StartKeeps ==
    ASSUME ScheduleInv, NEW w \in Workflows, Start(w) PROVE ScheduleInv'
  <1> USE DEF ScheduleInv
  <1>1. UNCHANGED <<fences, ledger, calls, artifacts, attempts, run, kernel, failed>>
    BY DEF Start, stores, world
  <1>2. SharedInv'
    BY <1>1, SharedKept
  <1>3. CASE UNCHANGED <<pc, seen>>
    <2>1. TypeOK'
      BY <1>1, <1>3 DEF TypeOK, AvailableTokens, AvailableCalls, Outstanding, Budget
    <2> QED BY <1>1, <1>2, <1>3, <2>1, BystanderKeeps
  <1>4. CASE /\ AvailableCalls >= 1 /\ AvailableTokens >= 1 /\ MayInvoke
             /\ seen' = [seen EXCEPT ![w] = [fences |-> Len(fences), ledger |-> Len(ledger),
                                              run |-> run]]
             /\ pc' = [pc EXCEPT ![w] = "acquiring"]
    <2>1. /\ pc' \in [Workflows -> Places]
          /\ seen' \in [Workflows -> [fences : Nat, ledger : Nat, run : RunStates]]
          /\ pc'[w] = "acquiring"
          /\ seen'[w] = [fences |-> Len(fences), ledger |-> Len(ledger), run |-> run]
          /\ \A v \in Workflows : v # w => pc'[v] = pc[v] /\ seen'[v] = seen[v]
      BY <1>4, Types DEF TypeOK, Places
    <2>2. TypeOK'
      BY <1>1, <2>1 DEF TypeOK, AvailableTokens, AvailableCalls, Outstanding, Budget
    <2>3. ASSUME NEW v \in Workflows, v # w PROVE LocalInv(v)'
      BY <1>1, <2>1, <2>3, BystanderKeeps
    <2>4. LocalInv(w)'
      <3>1. SeenPast(w)'
        BY <1>1, <1>4, <2>1, Types DEF SeenPast, MayInvoke, Running, AvailableCalls, AvailableTokens,
           Budget, Outstanding
      <3>2. Undisturbed(w)' /\ CallsOnce(w)'
        BY <2>1 DEF Undisturbed, CallsOnce, Fenced, BeforeSettlement, Refreshed, BeforeCall
      <3> QED BY <3>1, <3>2 DEF LocalInv
    <2> QED BY <1>2, <2>2, <2>3, <2>4
  <1> QED BY <1>3, <1>4 DEF Start

\* An exception or a refusal before anything was written.
LEMMA GivingUpKeeps ==
    ASSUME ScheduleInv, NEW w \in Workflows, End(w),
           UNCHANGED <<fences, ledger, attempts, calls, artifacts, world>>
    PROVE  ScheduleInv'
  <1>1. "fenced" \in Places \ {"idle", "acquiring", "releasing"} /\ attempts' \subseteq Nat
    BY DEF Places, ScheduleInv, TypeOK
  <1> QED BY <1>1, LookKeeps

LEMMA AcquireKeeps ==
    ASSUME ScheduleInv, NEW w \in Workflows, Acquire(w) PROVE ScheduleInv'
  <1> USE DEF ScheduleInv
  <1>1. CASE UNCHANGED fences /\ End(w)
    BY <1>1, GivingUpKeeps DEF Acquire
  <1>2. CASE /\ MayAcquire(w)
             /\ fences' = Append(fences, [status |-> "acquired", holder |-> w,
                                          base |-> seen[w].run.version])
             /\ Goto(w, "fenced") \/ End(w)
    <2> DEFINE fence == [status |-> "acquired", holder |-> w, base |-> seen[w].run.version]
    <2>1. /\ pc[w] = "acquiring" /\ TypeOK /\ LocalInv(w)
          /\ UNCHANGED <<ledger, attempts, calls, artifacts, run, kernel>>
      BY DEF Acquire, world
    <2>2. fence \in FenceRecords
      BY Types DEF FenceRecords, RunStates
    <2> HIDE DEF fence
    <2>3. /\ fences' \in Seq(FenceRecords)
          /\ Len(fences) \in Nat /\ DOMAIN fences = 1 .. Len(fences)
          /\ Len(fences') = Len(fences) + 1
          /\ DOMAIN fences' = 1 .. Len(fences) + 1
          /\ \A i \in 1 .. Len(fences) : fences'[i] = fences[i]
          /\ fences'[Len(fences) + 1] = fence
      BY <1>2, <2>2, Types, AppendFacts DEF fence
    <2>4. /\ pc' \in [Workflows -> Places] /\ failed' \in [Workflows -> BOOLEAN]
          /\ seen' \in [Workflows -> [fences : Nat, ledger : Nat, run : RunStates]]
          /\ \A v \in Workflows : v # w => pc'[v] = pc[v] /\ seen'[v] = seen[v]
      BY <1>2, GotoFacts, EndFacts DEF TypeOK, Places
    <2>5. TypeOK'
      BY <2>1, <2>3, <2>4
         DEF TypeOK, FenceRecords, AvailableTokens, AvailableCalls, Outstanding, Budget
    <2>6. \A i \in DOMAIN fences : fences[i].base # seen[w].run.version
      BY <1>2, <2>1 DEF LocalInv, SeenPast, MayAcquire
    <2>7. \A v \in Workflows : ~ Fenced(v)
      BY <1>2 DEF MayAcquire, LocalInv, Undisturbed, OwnFence
    <2>8. SharedInv'
      <3>1. OneFencePerRunState'
        BY <2>3, <2>6 DEF SharedInv, OneFencePerRunState, fence
      <3>2. ArtifactsReleased' /\ CallsOfFences'
        BY <2>1, <2>3 DEF SharedInv, ArtifactsReleased, CallsOfFences
      <3>3. OneCallPerFence' /\ ReservedFirst' /\ CallsCovered'
        BY <2>1 DEF SharedInv, OneCallPerFence, ReservedFirst, CallsCovered, Charged
      <3> QED BY <3>1, <3>2, <3>3 DEF SharedInv
    <2>9. ASSUME NEW v \in Workflows, v # w PROVE LocalInv(v)'
      BY <2>1, <2>3, <2>4, <2>7, <2>9, OutsiderKeeps
    <2>10. LocalInv(w)'
      <3>1. CASE End(w)
        BY <2>1, <2>3, <3>1, EndedKeeps, Types
      <3>2. CASE Goto(w, "fenced")
        <4>1. pc'[w] = "fenced" /\ seen' = seen /\ Mine(w) = Len(fences) + 1
          BY <1>2, <2>1, <3>2, GotoFacts DEF Mine, MayAcquire
        <4>2. SeenPast(w)'
          BY <1>2, <2>1, <2>3, <4>1 DEF LocalInv, SeenPast, MayAcquire, AvailableCalls, AvailableTokens,
             Budget, Outstanding
        <4>3. OwnFence(w)' /\ fences'[Mine(w)].base = seen[w].run.version
          BY <2>3, <4>1 DEF OwnFence, Mine, Held, Acquired, fence
        <4>4. Undisturbed(w)'
          BY <4>1, <4>3 DEF Undisturbed, BeforeSettlement, Refreshed, Mine
        <4>5. CallsOnce(w)'
          BY <2>1, <2>3, <4>1 DEF CallsOnce, SharedInv, CallsOfFences, Mine
        <4> QED BY <4>2, <4>4, <4>5 DEF LocalInv
      <3> QED BY <1>2, <3>1, <3>2
    <2> QED BY <2>5, <2>8, <2>9, <2>10
  <1> QED BY <1>1, <1>2 DEF Acquire

LEMMA ReleaseKeeps ==
    ASSUME ScheduleInv, NEW w \in Workflows, Release(w) PROVE ScheduleInv'
  <1> USE DEF ScheduleInv
  <1>1. CASE UNCHANGED <<fences, artifacts>>
    BY <1>1, GivingUpKeeps DEF Release
  <1>2. CASE /\ MayRelease(w)
             /\ fences' = Append(fences, [fences[Mine(w)] EXCEPT !.status = "released"])
             /\ \/ pc[w] = "releasing" /\ artifacts' = artifacts \cup {Mine(w)}
                \/ UNCHANGED artifacts
    <2> DEFINE fence == [fences[Mine(w)] EXCEPT !.status = "released"]
    <2>1. /\ pc[w] \in {"releasing", "releasing failed"} /\ End(w) /\ TypeOK /\ LocalInv(w)
          /\ UNCHANGED <<ledger, attempts, calls, run, kernel>>
      BY DEF Release, world
    <2>2. /\ Mine(w) \in DOMAIN fences /\ Mine(w) = Len(fences)
          /\ fences[Mine(w)].status = "acquired"
          /\ fence \in FenceRecords /\ fence.status = "released"
      BY <1>2, Types DEF MayRelease, OwnFence, Held, Acquired, FenceRecords
    <2> HIDE DEF fence
    <2>3. /\ fences' \in Seq(FenceRecords)
          /\ Len(fences) \in Nat /\ DOMAIN fences = 1 .. Len(fences)
          /\ Len(fences') = Len(fences) + 1
          /\ DOMAIN fences' = 1 .. Len(fences) + 1
          /\ \A i \in 1 .. Len(fences) : fences'[i] = fences[i]
          /\ fences'[Len(fences) + 1] = fence
      BY <1>2, <2>2, Types, AppendFacts DEF fence
    <2>4. /\ pc' \in [Workflows -> Places] /\ failed' \in [Workflows -> BOOLEAN]
          /\ seen' \in [Workflows -> [fences : Nat, ledger : Nat, run : RunStates]]
          /\ \A v \in Workflows : v # w => pc'[v] = pc[v] /\ seen'[v] = seen[v]
      BY <2>1, EndFacts
    <2>5. TypeOK'
      <3>1. artifacts' \subseteq Nat
        BY <1>2, Types DEF TypeOK
      <3> QED BY <2>1, <2>3, <2>4, <3>1
         DEF TypeOK, FenceRecords, AvailableTokens, AvailableCalls, Outstanding, Budget
    <2>6. SharedInv'
      <3>1. OneFencePerRunState'
        BY <2>2, <2>3 DEF SharedInv, OneFencePerRunState
      <3>2. ASSUME NEW i \in artifacts' PROVE /\ i \in DOMAIN fences' /\ i + 1 \in DOMAIN fences'
                                              /\ fences'[i].status = "acquired"
        <4>1. CASE i \in artifacts
          BY <2>3, <4>1 DEF SharedInv, ArtifactsReleased
        <4>2. CASE i = Mine(w)
          BY <2>2, <2>3, <4>2
        <4> QED BY <1>2, <4>1, <4>2
      <3>6. CallsOfFences'
        <4>1. calls' = calls /\ CallsOfFences
          BY <2>1 DEF SharedInv
        <4> QED BY <2>3, <4>1 DEF CallsOfFences
      <3>3. OneCallPerFence' /\ ReservedFirst'
        BY <2>1 DEF SharedInv, OneCallPerFence, ReservedFirst
      <3>4. \A f \in artifacts' : SettledUnder(f)
        <4>1. \A f \in artifacts : SettledUnder(f)
          BY DEF SharedInv, CallsCovered, SettledUnder
        <4>2. pc[w] = "releasing" => SettledUnder(Mine(w))
          BY <2>1 DEF LocalInv, CallsOnce
        <4> QED BY <1>2, <4>1, <4>2
      <3>5. CallsCovered'
        BY <2>1, <3>4 DEF SharedInv, CallsCovered, Charged, SettledUnder
      <3> QED BY <3>1, <3>2, <3>3, <3>5, <3>6 DEF SharedInv, ArtifactsReleased
    <2>7. ASSUME NEW v \in Workflows, v # w PROVE LocalInv(v)'
      <3>1. ~ Fenced(v)
        BY <2>1, <2>7, OnlyHolder DEF Fenced
      <3>2. /\ pc'[v] = pc[v] /\ seen'[v] = seen[v] /\ ledger' = ledger
            /\ TypeOK /\ LocalInv(v)
        BY <2>1, <2>4, <2>7
      <3>3. fences' = fences \/ Len(fences') = Len(fences) + 1
        BY <2>3
      <3> QED BY <3>1, <3>2, <3>3, OutsiderKeeps
    <2>8. LocalInv(w)'
      <3>1. Len(ledger') \in Nat
        BY <2>1, Types
      <3>2. Len(fences') \in Nat
        BY <2>3
      <3> QED BY <2>1, <3>1, <3>2, EndedKeeps
    <2> QED BY <2>5, <2>6, <2>7, <2>8
  <1> QED BY <1>1, <1>2 DEF Release

LEMMA ReserveKeeps ==
    ASSUME ScheduleInv, NEW w \in Workflows, Reserve(w) PROVE ScheduleInv'
  <1> USE DEF ScheduleInv
  <1>1. CASE UNCHANGED ledger /\ End(w)
    BY <1>1, GivingUpKeeps DEF Reserve
  <1> DEFINE entry == [kind |-> "reservation", fence |-> Mine(w), used |-> Budget.used,
                       held |-> ReservedTokens, calls |-> Budget.calls]
  <1>2. CASE MayReserve(w) /\ ledger' = Append(ledger, entry) /\ (Goto(w, "reserved") \/ End(w))
    <2>1. /\ pc[w] = "reserving" /\ TypeOK /\ LocalInv(w)
          /\ UNCHANGED <<fences, attempts, calls, artifacts, run, kernel>>
      BY DEF Reserve, world
    <2>2. /\ entry \in Entries /\ entry.kind = "reservation" /\ entry.fence = Mine(w)
          /\ entry.used + entry.held <= MaxTokens
          /\ entry.calls = Budget.calls
      <3>1. /\ Budget.used \in 0 .. MaxTokens /\ Budget.held \in 0 .. MaxTokens
            /\ Budget.calls \in Nat /\ MaxTokens \in Nat
            /\ Budget.used + Budget.held <= MaxTokens /\ Mine(w) \in Nat
        BY <2>1, BudgetFacts, Types
      <3>2. /\ ReservedTokens \in 0 .. MaxTokens
            /\ Budget.used + ReservedTokens <= MaxTokens
        BY <3>1 DEF ReservedTokens, AvailableTokens
      <3> QED BY <3>1, <3>2 DEF Entries
    <2> HIDE DEF entry
    <2>3. /\ ledger' \in Seq(Entries)
          /\ Len(ledger) \in Nat /\ DOMAIN ledger = 1 .. Len(ledger)
          /\ Len(ledger') = Len(ledger) + 1
          /\ DOMAIN ledger' = 1 .. Len(ledger) + 1
          /\ \A i \in 1 .. Len(ledger) : ledger'[i] = ledger[i]
          /\ ledger'[Len(ledger) + 1] = entry
      BY <1>2, <2>2, Types, AppendFacts
    <2>4. /\ pc' \in [Workflows -> Places] /\ failed' \in [Workflows -> BOOLEAN]
          /\ seen' \in [Workflows -> [fences : Nat, ledger : Nat, run : RunStates]]
          /\ \A v \in Workflows : v # w => pc'[v] = pc[v] /\ seen'[v] = seen[v]
      BY <1>2, GotoFacts, EndFacts DEF TypeOK, Places
    <2>5. Budget' = entry /\ Outstanding'
      BY <2>2, <2>3 DEF Budget, Outstanding
    <2>6. TypeOK'
      <3>1. AvailableCalls >= 1
        BY <1>2, <2>1 DEF MayReserve, LocalInv, SeenPast
      <3>2. MaxCalls - Budget.calls >= 1 /\ Budget.calls \in Nat /\ MaxCalls \in Nat
        BY <1>2, <2>1, <3>1, BudgetFacts DEF AvailableCalls, MayReserve
      <3>3. AvailableCalls' >= 0
        BY <2>2, <2>5, <3>2 DEF AvailableCalls
      <3>4. AvailableTokens' >= 0
        BY <2>2, <2>5, BudgetFacts, <2>1 DEF AvailableTokens, Entries
      <3> QED BY <2>1, <2>3, <2>4, <3>3, <3>4 DEF TypeOK, Entries
    <2>7. SharedInv'
      <3>1. OneFencePerRunState' /\ ArtifactsReleased' /\ CallsOfFences' /\ OneCallPerFence'
        BY <2>1 DEF SharedInv, OneFencePerRunState, ArtifactsReleased, CallsOfFences,
           OneCallPerFence
      <3>2. ReservedFirst'
        BY <2>2, <2>3 DEF SharedInv, ReservedFirst
      <3>3. \A i \in DOMAIN ledger :
               /\ i \in DOMAIN ledger' /\ ledger'[i] = ledger[i]
               /\ ledger[i].kind = "settlement" => Charged(i)' = Charged(i)
        BY <2>3 DEF SharedInv, ReservedFirst, Charged
      <3>4. \A i \in DOMAIN ledger : i = Len(ledger) => ledger[i].kind # "reservation"
        BY <1>2, <2>3 DEF MayReserve, Outstanding, Budget
      <3>5. CallsCovered'
        BY <2>1, <3>3, <3>4 DEF SharedInv, CallsCovered
      <3> QED BY <3>1, <3>2, <3>5 DEF SharedInv
    <2>8. ASSUME NEW v \in Workflows, v # w PROVE LocalInv(v)'
      <3>1. ~ Fenced(v)
        BY <2>1, <2>8, OnlyHolder DEF Fenced
      <3>2. /\ pc'[v] = pc[v] /\ seen'[v] = seen[v] /\ fences' = fences
            /\ TypeOK /\ LocalInv(v)
        BY <2>1, <2>4, <2>8
      <3>3. ledger' = ledger \/ Len(ledger') = Len(ledger) + 1
        BY <2>3
      <3> QED BY <3>1, <3>2, <3>3, OutsiderKeeps
    <2>9. LocalInv(w)'
      <3>1. CASE End(w)
        <4>1. TypeOK /\ Len(fences') \in Nat /\ Len(ledger') \in Nat
          BY <2>1, <2>3, Types
        <4> QED BY <3>1, <4>1, EndedKeeps
      <3>2. CASE Goto(w, "reserved")
        <4>1. /\ pc'[w] = "reserved" /\ seen' = seen /\ seen[w].ledger = Len(ledger)
              /\ fences' = fences /\ run' = run /\ calls' = calls
          BY <1>2, <2>1, <3>2, GotoFacts DEF MayReserve
        <4>2. SeenPast(w)'
          <5>1. seen[w].fences <= Len(fences)
            BY <2>1 DEF LocalInv, SeenPast
          <5>2. seen[w].ledger <= Len(ledger') /\ seen[w].ledger # Len(ledger')
            <6>1. Len(ledger) \in Nat /\ Len(ledger') = Len(ledger) + 1
              BY <2>3
            <6>2. seen[w].ledger = Len(ledger)
              BY <4>1
            <6> QED BY <6>1, <6>2
          <5>3. /\ seen'[w].fences <= Len(fences') /\ seen'[w].ledger <= Len(ledger')
                /\ seen'[w].ledger # Len(ledger') /\ pc'[w] # "acquiring"
            BY <4>1, <5>1, <5>2
          <5> QED BY <5>3 DEF SeenPast
        <4>3. Undisturbed(w)'
          <5>1. OwnFence(w)' /\ fences'[Mine(w)'].base = seen'[w].run.version
            BY <2>1, <4>1 DEF LocalInv, Undisturbed, Fenced, OwnFence, Held, Acquired, Mine
          <5>2. OwnReservation(w)'
            BY <2>2, <2>3, <2>5, <4>1 DEF OwnReservation, Mine
          <5> QED BY <4>1, <5>1, <5>2 DEF Undisturbed, Refreshed
        <4>4. CallsOnce(w)'
          <5>1. \A c \in calls : c.fence # Mine(w)
            BY <2>1 DEF LocalInv, CallsOnce, BeforeCall
          <5> QED BY <4>1, <5>1 DEF CallsOnce, Mine
        <4> QED BY <4>2, <4>3, <4>4 DEF LocalInv
      <3> QED BY <1>2, <3>1, <3>2
    <2> QED BY <2>6, <2>7, <2>8, <2>9
  <1> QED BY <1>1, <1>2 DEF Reserve

LEMMA InvokeKeeps ==
    ASSUME ScheduleInv, NEW w \in Workflows, Invoke(w) PROVE ScheduleInv'
  <1> USE DEF ScheduleInv
  <1>1. PICK bill \in Bills :
            calls' = calls \cup {[fence |-> Mine(w), base |-> seen[w].run.version,
                                  bill |-> bill]}
    BY DEF Invoke
  <1> DEFINE call == [fence |-> Mine(w), base |-> seen[w].run.version, bill |-> bill]
  <1>2. /\ pc[w] = "invoking" /\ TypeOK /\ LocalInv(w) /\ Fenced(w)
        /\ UNCHANGED <<fences, ledger, attempts, artifacts, run, kernel, seen>>
        /\ pc' \in [Workflows -> Places] /\ pc'[w] = "invoked"
        /\ \A v \in Workflows : v # w => pc'[v] = pc[v]
        /\ failed' \in [Workflows -> BOOLEAN]
    BY DEF Invoke, world, TypeOK, Places, Fenced
  <1>3. /\ call \in [fence : Nat, base : Nat, bill : Bills]
        /\ call.fence = Mine(w) /\ call.base = seen[w].run.version
    BY <1>2, Types DEF RunStates
  <1>4. /\ OwnFence(w) /\ fences[Mine(w)].base = seen[w].run.version
        /\ OwnReservation(w) /\ \A c \in calls : c.fence # Mine(w)
    BY <1>2 DEF LocalInv, Undisturbed, CallsOnce, Fenced, BeforeSettlement, BeforeCall
  <1> HIDE DEF call
  <1>5. calls' = calls \cup {call}
    BY <1>1 DEF call
  <1>6. TypeOK'
    BY <1>2, <1>3, <1>5 DEF TypeOK, AvailableTokens, AvailableCalls, Outstanding, Budget
  <1>7. SharedInv'
    <2>1. OneFencePerRunState' /\ ArtifactsReleased' /\ ReservedFirst'
      BY <1>2 DEF SharedInv, OneFencePerRunState, ArtifactsReleased, ReservedFirst
    <2>2. CallsOfFences'
      <3>1. /\ Mine(w) \in DOMAIN fences /\ fences[Mine(w)].status = "acquired"
        BY <1>4 DEF OwnFence, Held, Acquired
      <3> QED BY <1>2, <1>3, <1>4, <1>5, <3>1 DEF SharedInv, CallsOfFences
    <2>3. OneCallPerFence'
      BY <1>3, <1>4, <1>5 DEF SharedInv, OneCallPerFence
    <2>4. CallsCovered'
      <3>1. /\ Len(ledger) \in DOMAIN ledger /\ ledger[Len(ledger)].fence = Mine(w)
            /\ ledger[Len(ledger)].kind = "reservation"
        BY <1>2, <1>4, BudgetFacts, Types DEF OwnReservation, Outstanding
      <3> QED BY <1>2, <1>3, <1>5, <3>1 DEF SharedInv, CallsCovered, Charged
    <2> QED BY <2>1, <2>2, <2>3, <2>4 DEF SharedInv
  <1>8. ASSUME NEW v \in Workflows, v # w PROVE LocalInv(v)'
    <2>1. ~ Fenced(v)
      BY <1>2, <1>8, OnlyHolder
    <2>2. /\ pc'[v] = pc[v] /\ seen'[v] = seen[v] /\ fences' = fences /\ ledger' = ledger
          /\ TypeOK /\ LocalInv(v)
      BY <1>2, <1>8
    <2> QED BY <2>1, <2>2, OutsiderKeeps
  <1>9. LocalInv(w)'
    <2>1. SeenPast(w)'
      BY <1>2 DEF LocalInv, SeenPast, AvailableCalls, AvailableTokens, Budget, Outstanding
    <2>2. Undisturbed(w)'
      BY <1>2 DEF LocalInv, Undisturbed, Fenced, BeforeSettlement, Refreshed, OwnFence, Mine,
         Held, Acquired, OwnReservation, Outstanding, Budget
    <2>3. CallsOnce(w)'
      BY <1>2 DEF CallsOnce, BeforeCall
    <2> QED BY <2>1, <2>2, <2>3 DEF LocalInv
  <1> QED BY <1>6, <1>7, <1>8, <1>9

LEMMA SettleKeeps ==
    ASSUME ScheduleInv, NEW w \in Workflows, Settle(w) PROVE ScheduleInv'
  <1> USE DEF ScheduleInv
  <1>1. CASE UNCHANGED ledger /\ End(w)
    BY <1>1, GivingUpKeeps DEF Settle
  <1>2. ASSUME MaySettle(w), NEW tokens \in ToldUsage(w),
               ledger' = Append(ledger, [kind |-> "settlement", fence |-> Mine(w),
                                         used |-> Budget.used + tokens, held |-> 0,
                                         calls |-> Budget.calls + 1]),
               \/ Goto(w, "releasing") \/ Goto(w, "releasing failed") \/ End(w)
        PROVE  ScheduleInv'
    <2> DEFINE entry == [kind |-> "settlement", fence |-> Mine(w),
                         used |-> Budget.used + tokens, held |-> 0,
                         calls |-> Budget.calls + 1]
    <2>1. /\ pc[w] = "invoked" /\ TypeOK /\ LocalInv(w) /\ Fenced(w)
          /\ UNCHANGED <<fences, attempts, calls, artifacts, run, kernel>>
      BY DEF Settle, world, Fenced
    <2>2. /\ Outstanding /\ Budget.fence = Mine(w) /\ Len(ledger) = seen[w].ledger + 1
          /\ ledger # <<>> /\ Budget = ledger[Len(ledger)] /\ Budget.kind = "reservation"
      BY <1>2, <2>1, BudgetFacts DEF MaySettle, OwnReservation, Outstanding
    <2>3. /\ tokens \in Nat /\ tokens <= Budget.held
          /\ \E c \in calls : c.fence = Mine(w) /\ c.bill = tokens
      BY <2>1, ScheduleAssumption DEF ToldUsage, TypeOK, Bills
    <2>4. /\ entry \in Entries /\ entry.kind = "settlement" /\ entry.fence = Mine(w)
          /\ entry.used = Budget.used + tokens /\ entry.held = 0
          /\ entry.calls = Budget.calls + 1 /\ entry.used <= MaxTokens
      <3>1. /\ Budget.used \in 0 .. MaxTokens /\ Budget.held \in 0 .. MaxTokens
            /\ Budget.calls \in Nat /\ MaxTokens \in Nat
            /\ Budget.used + Budget.held <= MaxTokens /\ Mine(w) \in Nat
        BY <2>1, BudgetFacts, Types
      <3>2. Budget.used + tokens \in 0 .. MaxTokens
        BY <2>3, <3>1
      <3> QED BY <3>1, <3>2 DEF Entries
    <2> HIDE DEF entry
    <2>5. /\ ledger' \in Seq(Entries)
          /\ Len(ledger) \in Nat /\ DOMAIN ledger = 1 .. Len(ledger)
          /\ Len(ledger') = Len(ledger) + 1
          /\ DOMAIN ledger' = 1 .. Len(ledger) + 1
          /\ \A i \in 1 .. Len(ledger) : ledger'[i] = ledger[i]
          /\ ledger'[Len(ledger) + 1] = entry
      <3>1. ledger' = Append(ledger, entry)
        BY <1>2 DEF entry
      <3>2. ledger \in Seq(Entries)
        BY <2>1, Types
      <3> QED BY <2>4, <3>1, <3>2, AppendFacts
    <2>6. /\ pc' \in [Workflows -> Places] /\ failed' \in [Workflows -> BOOLEAN]
          /\ seen' \in [Workflows -> [fences : Nat, ledger : Nat, run : RunStates]]
          /\ \A v \in Workflows : v # w => pc'[v] = pc[v] /\ seen'[v] = seen[v]
      BY <1>2, GotoFacts, EndFacts DEF TypeOK, Places
    <2>7. Budget' = entry /\ ~ Outstanding'
      BY <2>4, <2>5 DEF Budget, Outstanding
    <2>8. TypeOK'
      <3>1. AvailableCalls >= 0 /\ MaxCalls \in Nat /\ Budget.calls \in Nat
        BY <2>1, BudgetFacts DEF TypeOK
      <3>2. MaxCalls - Budget.calls - 1 >= 0
        BY <2>2, <3>1 DEF AvailableCalls
      <3>3. AvailableCalls' >= 0
        BY <2>4, <2>7, <3>1, <3>2 DEF AvailableCalls
      <3>4. AvailableTokens' >= 0
        BY <2>4, <2>7, ScheduleAssumption DEF AvailableTokens, Entries
      <3> QED BY <2>1, <2>5, <2>6, <3>3, <3>4 DEF TypeOK, Entries
    <2>9. SharedInv'
      <3>1. OneFencePerRunState' /\ ArtifactsReleased' /\ CallsOfFences' /\ OneCallPerFence'
        BY <2>1 DEF SharedInv, OneFencePerRunState, ArtifactsReleased, CallsOfFences,
           OneCallPerFence
      <3>2. ReservedFirst' /\ Len(ledger) # 0
        <4>1. Len(ledger) # 0
          BY <2>1, <2>2, Types
        <4> QED BY <2>5, <4>1 DEF SharedInv, ReservedFirst
      <3>3. \A i \in DOMAIN ledger :
               /\ i \in DOMAIN ledger' /\ ledger'[i] = ledger[i]
               /\ ledger[i].kind = "settlement" => Charged(i)' = Charged(i)
        BY <2>5 DEF SharedInv, ReservedFirst, Charged
      <3>4. PICK n : n = Len(ledger) + 1
        OBVIOUS
      <3>5. /\ n \in DOMAIN ledger' /\ ledger'[n].kind = "settlement"
            /\ ledger'[n].fence = Mine(w) /\ Charged(n)' = tokens
        <4>1. n - 1 = Len(ledger) /\ Len(ledger) \in DOMAIN ledger
          BY <2>5, <3>2, <3>4
        <4>2. ledger'[n - 1] = Budget /\ ledger'[n] = entry /\ n \in DOMAIN ledger'
          BY <2>2, <2>5, <3>4, <4>1
        <4>3. /\ ledger'[n].used = Budget.used + tokens /\ ledger'[n - 1].used = Budget.used
              /\ n \in Nat
          BY <2>4, <2>5, <3>4, <4>2
        <4>4. Budget.used \in Nat
          BY <2>1, BudgetFacts
        <4>5. Charged(n)' = tokens
          <5>1. Charged(n)' = ledger'[n].used - ledger'[n - 1].used
            BY DEF Charged
          <5> QED BY <2>3, <4>3, <4>4, <5>1
        <4> QED BY <2>4, <4>2, <4>5
      <3>6. ASSUME NEW c \in calls
            PROVE  \E i \in DOMAIN ledger' :
                      /\ ledger'[i].fence = c.fence
                      /\ ledger'[i].kind = "settlement" /\ Charged(i)' = c.bill
        <4>1. PICK i \in DOMAIN ledger :
                 /\ ledger[i].fence = c.fence
                 /\ \/ i = Len(ledger) /\ ledger[i].kind = "reservation"
                    \/ ledger[i].kind = "settlement" /\ Charged(i) = c.bill
          BY DEF SharedInv, CallsCovered
        <4>2. CASE ledger[i].kind = "settlement" /\ Charged(i) = c.bill
          BY <3>3, <4>1, <4>2
        <4>3. CASE i = Len(ledger)
          <5>1. c.fence = Mine(w)
            BY <2>2, <4>1, <4>3
          <5>2. c.bill = tokens
            BY <2>3, <5>1 DEF SharedInv, OneCallPerFence
          <5> QED BY <3>5, <5>1, <5>2
        <4> QED BY <4>1, <4>2, <4>3
      <3>7. \A f \in artifacts : \E i \in DOMAIN ledger' :
                ledger'[i].fence = f /\ ledger'[i].kind = "settlement"
        BY <3>3 DEF SharedInv, CallsCovered
      <3>8. CallsCovered'
        BY <2>1, <3>7, <3>6 DEF CallsCovered
      <3> QED BY <3>1, <3>2, <3>8 DEF SharedInv
    <2>10. ASSUME NEW v \in Workflows, v # w PROVE LocalInv(v)'
      <3>1. ~ Fenced(v)
        BY <2>1, <2>10, OnlyHolder
      <3>2. /\ pc'[v] = pc[v] /\ seen'[v] = seen[v] /\ fences' = fences
            /\ TypeOK /\ LocalInv(v)
        BY <2>1, <2>6, <2>10
      <3>3. ledger' = ledger \/ Len(ledger') = Len(ledger) + 1
        BY <2>5
      <3> QED BY <3>1, <3>2, <3>3, OutsiderKeeps
    <2>11. LocalInv(w)'
      <3>1. CASE End(w)
        <4>1. TypeOK /\ Len(fences') \in Nat /\ Len(ledger') \in Nat
          BY <2>1, <2>5, Types
        <4> QED BY <3>1, <4>1, EndedKeeps
      <3>2. CASE Goto(w, "releasing") \/ Goto(w, "releasing failed")
        <4>1. /\ pc'[w] \in {"releasing", "releasing failed"} /\ seen' = seen
              /\ fences' = fences /\ run' = run
          BY <2>1, <3>2, GotoFacts
        <4>2. SeenPast(w)'
          <5>1. seen[w].fences <= Len(fences) /\ seen[w].ledger \in Nat
            BY <2>1, Types DEF LocalInv, SeenPast
          <5>2. seen[w].ledger <= Len(ledger') /\ seen[w].ledger # Len(ledger')
            BY <2>2, <2>5, <5>1
          <5> QED BY <4>1, <5>1, <5>2 DEF SeenPast
        <4>3. Undisturbed(w)'
          <5>1. /\ OwnFence(w) /\ fences[Mine(w)].base = seen[w].run.version
                /\ run = seen[w].run
            BY <2>1 DEF LocalInv, Undisturbed, Refreshed
          <5>2. OwnFence(w)' /\ fences'[Mine(w)'].base = seen'[w].run.version
            BY <4>1, <5>1 DEF OwnFence, Held, Acquired, Mine
          <5> QED BY <4>1, <5>1, <5>2 DEF Undisturbed, BeforeSettlement
        <4>4. CallsOnce(w)'
          <5>1. /\ Len(ledger) + 1 \in DOMAIN ledger'
                /\ ledger'[Len(ledger) + 1].fence = Mine(w)
                /\ ledger'[Len(ledger) + 1].kind = "settlement"
            BY <2>4, <2>5
          <5>2. Mine(w)' = Mine(w)
            BY <4>1 DEF Mine
          <5>3. SettledUnder(Mine(w))'
            BY <5>1, <5>2 DEF SettledUnder
          <5> QED BY <4>1, <5>3 DEF CallsOnce, BeforeCall
        <4> QED BY <4>2, <4>3, <4>4 DEF LocalInv
      <3> QED BY <1>2, <3>1, <3>2
    <2> QED BY <2>8, <2>9, <2>10, <2>11
  <1> QED BY <1>1, <1>2 DEF Settle

\* The host replaces the run state only while nobody has passed a refresh.
LEMMA HostKeeps ==
    ASSUME ScheduleInv, CompleteStage \/ Control \/ Recover PROVE ScheduleInv'
  <1> USE DEF ScheduleInv
  <1>1. UNCHANGED <<fences, ledger, attempts, calls, artifacts, pc, seen, failed>>
    BY DEF CompleteStage, Control, Recover, stores
  <1>2. TypeOK'
    <2>1. run \in RunStates /\ kernel \in Nat
      BY DEF TypeOK
    <2>2. run' \in RunStates /\ kernel' \in Nat
      <3>1. CASE CompleteStage
        <4>1. kernel' \in Nat /\ run' = [run EXCEPT !.version = @ + 1, !.core = kernel']
          BY <2>1, <3>1 DEF CompleteStage
        <4>2. run' = [version |-> run.version + 1, generation |-> run.generation,
                      core |-> kernel']
          BY <2>1, <4>1 DEF RunStates
        <4> QED BY <2>1, <4>1, <4>2 DEF RunStates
      <3>2. CASE Control
        BY <2>1, <3>2 DEF Control
      <3>3. CASE Recover
        BY <2>1, <3>3 DEF Recover, RunStates
      <3> QED BY <3>1, <3>2, <3>3
    <2> QED BY <1>1, <2>2 DEF TypeOK, AvailableTokens, AvailableCalls, Outstanding, Budget
  <1>3. SharedInv'
    BY <1>1, SharedKept
  <1>4. ASSUME NEW w \in Workflows, Refreshed(w) PROVE run' = run
    <2>1. /\ Mine(w) = Len(fences) /\ Mine(w) \in DOMAIN fences
          /\ fences[Mine(w)].status = "acquired" /\ Held
          /\ fences[Mine(w)].base = run.version
      BY <1>4 DEF LocalInv, Undisturbed, Fenced, Refreshed, OwnFence, Held, Acquired
    <2>2. CASE CompleteStage
      <3>1. PICK i \in artifacts : fences[i].base = run.version
        BY <2>2 DEF CompleteStage
      <3>2. i \in DOMAIN fences /\ i + 1 \in DOMAIN fences /\ fences[i].status = "acquired"
        BY DEF SharedInv, ArtifactsReleased
      <3>3. i = Len(fences)
        BY <2>1, <3>1, <3>2 DEF SharedInv, OneFencePerRunState
      <3> QED BY <3>2, <3>3, Types
    <2>3. CASE Control
      BY <2>3 DEF Control
    <2>4. CASE Recover
      BY <2>1, <2>4 DEF Recover, MayRecover, Running
    <2> QED BY <2>2, <2>3, <2>4
  <1>5. ASSUME NEW w \in Workflows PROVE LocalInv(w)'
    BY <1>1, <1>4, BystanderKeeps
  <1> QED BY <1>2, <1>3, <1>5

LEMMA StepKeeps == ASSUME ScheduleInv, [Next]_vars PROVE ScheduleInv'
  <1>1. CASE UNCHANGED vars
    <2>1. UNCHANGED <<fences, ledger, attempts, calls, artifacts, run, kernel, pc, seen, failed>>
      BY <1>1 DEF vars, stores, world
    <2>2. TypeOK'
      BY <2>1 DEF ScheduleInv, TypeOK, AvailableTokens, AvailableCalls, Outstanding, Budget
    <2> QED BY <2>1, <2>2, SharedKept, BystanderKeeps DEF ScheduleInv
  <1>2. ASSUME NEW w \in Workflows, Schedule(w) PROVE ScheduleInv'
    BY <1>2, StartKeeps, AcquireKeeps, LooksKeep, ReserveKeeps, InvokeKeeps, SettleKeeps,
       ReleaseKeeps DEF Schedule
  <1> QED BY <1>1, <1>2, HostKeeps DEF Next

LEMMA Invariance == Spec => []ScheduleInv
  <1>1. Init => ScheduleInv
    BY InitHolds
  <1>2. ScheduleInv /\ [Next]_vars => ScheduleInv'
    BY StepKeeps
  <1> QED BY <1>1, <1>2, PTL DEF Spec

\* Whatever workflows start, race, die or lose an acknowledgement of, nobody
\* disturbs the one that holds the fence (scheduleDemoDispatch).
THEOREM HolderIsUndisturbed == Spec => []HolderUndisturbed
  <1>1. ScheduleInv => HolderUndisturbed
    BY DEF ScheduleInv, HolderUndisturbed, LocalInv, Undisturbed
  <1> QED BY <1>1, Invariance, PTL

\* One run state is never sent to the model twice (scheduleDemoDispatch).
THEOREM RunStateCalledOnce == Spec => []OneCallPerRunState
  <1>1. ScheduleInv => OneCallPerRunState
    BY DEF ScheduleInv, SharedInv, OneFencePerRunState, CallsOfFences, OneCallPerFence,
           OneCallPerRunState
  <1> QED BY <1>1, Invariance, PTL

\* Every call of the model is held for or settled for what it cost, and every
\* artifact the host was given is settled (scheduleDemoDispatch).
THEOREM EveryCallCovered == Spec => []CallsCovered
  <1>1. ScheduleInv => CallsCovered
    BY DEF ScheduleInv, SharedInv
  <1> QED BY <1>1, Invariance, PTL

-----------------------------------------------------------------------------
(* Scheduling is metered calls. *)

LEMMA MeteredInit == ASSUME Init PROVE Metered!Init
  BY DEF Init, Metered!Init, Outstanding, Budget, Genesis

LEMMA MeteredStep ==
    ASSUME ScheduleInv, [Next]_vars PROVE [Metered!Next]_Metered!vars
  <1> USE DEF ScheduleInv, Metered!vars
  <1>1. ASSUME UNCHANGED <<ledger, calls>> PROVE UNCHANGED Metered!vars
    BY <1>1 DEF Outstanding, Budget
  <1>2. CASE UNCHANGED vars \/ CompleteStage \/ Control \/ Recover
    BY <1>1, <1>2 DEF vars, stores, CompleteStage, Control, Recover
  <1>3. ASSUME NEW w \in Workflows, Schedule(w) PROVE [Metered!Next]_Metered!vars
    <2>1. CASE UNCHANGED <<ledger, calls>>
      BY <1>1, <2>1
    <2>2. CASE Reserve(w) /\ ledger' # ledger
      <3> DEFINE entry == [kind |-> "reservation", fence |-> Mine(w), used |-> Budget.used,
                           held |-> ReservedTokens, calls |-> Budget.calls]
                 r == [id |-> Mine(w), amount |-> ReservedTokens]
      <3>1. /\ pc[w] = "reserving" /\ MayReserve(w) /\ calls' = calls
            /\ ledger' = Append(ledger, entry) /\ TypeOK /\ LocalInv(w)
        BY <2>2 DEF Reserve
      <3>2. Budget' = entry /\ Outstanding' /\ ~ Outstanding
        BY <3>1, Types DEF Budget, Outstanding, MayReserve
      <3>3. \A c \in calls : c.fence # Mine(w)
        BY <3>1 DEF LocalInv, CallsOnce, BeforeCall
      <3>4. ReservedTokens \in 1 .. MaxTokens - Budget.used
        <4>1. AvailableTokens >= 1
          BY <3>1 DEF LocalInv, SeenPast, MayReserve
        <4>2. /\ Budget.used \in 0 .. MaxTokens /\ Budget.held \in 0 .. MaxTokens
              /\ MaxTokens \in Nat
          BY <3>1, BudgetFacts
        <4> QED BY <4>1, <4>2 DEF ReservedTokens, AvailableTokens
      <3>5. (IF Outstanding THEN {[id |-> Budget.fence, amount |-> Budget.held]} ELSE {})' = {r}
        BY <3>2
      <3>6. Metered!Reserve
        BY <3>1, <3>2, <3>3, <3>4, <3>5 DEF Metered!Reserve
      <3> QED BY <3>6 DEF Metered!Next
    <2>3. CASE Invoke(w)
      <3>1. PICK bill \in Bills :
                calls' = calls \cup {[fence |-> Mine(w), base |-> seen[w].run.version,
                                      bill |-> bill]}
        BY <2>3 DEF Invoke
      <3>2. /\ OwnReservation(w) /\ ledger' = ledger
            /\ \A c \in calls : c.fence # Mine(w)
        <4>1. pc[w] = "invoking" /\ LocalInv(w) /\ ledger' = ledger
          BY <2>3 DEF Invoke
        <4> QED BY <4>1 DEF LocalInv, Undisturbed, CallsOnce, BeforeSettlement, BeforeCall
      <3> DEFINE r == [id |-> Budget.fence, amount |-> Budget.held]
      <3>3. /\ Outstanding /\ r.id = Mine(w) /\ Outstanding' /\ Budget' = Budget
        BY <3>2 DEF OwnReservation, Outstanding, Budget
      <3>4. {c.fence : c \in calls'} = {c.fence : c \in calls} \cup {r.id}
        <4> DEFINE made == [fence |-> Mine(w), base |-> seen[w].run.version, bill |-> bill]
        <4>1. made.fence = r.id
          BY <3>3
        <4> HIDE DEF made
        <4>2. {c.fence : c \in calls \cup {made}} = {c.fence : c \in calls} \cup {made.fence}
          OBVIOUS
        <4> QED BY <3>1, <4>1, <4>2 DEF made
      <3>5. r.id \notin {c.fence : c \in calls}
        BY <3>2, <3>3
      <3>6. /\ (IF Outstanding THEN {[id |-> Budget.fence, amount |-> Budget.held]} ELSE {})
                = {r}
            /\ (IF Outstanding THEN {[id |-> Budget.fence, amount |-> Budget.held]} ELSE {})'
                = {r}
            /\ Budget'.used = Budget.used
        BY <3>3
      <3>7. Metered!Call(r)
        <4> HIDE DEF r
        <4> QED BY <3>4, <3>6, <3>5 DEF Metered!Call
      <3>8. r \in IF Outstanding THEN {[id |-> Budget.fence, amount |-> Budget.held]} ELSE {}
        BY <3>3
      <3>9. Metered!Next
        <4> HIDE DEF r
        <4> QED BY <3>7, <3>8 DEF Metered!Next, Metered!Call
      <3> QED BY <3>9
    <2>4. CASE Settle(w) /\ ledger' # ledger
      <3>1. PICK tokens \in ToldUsage(w) :
                ledger' = Append(ledger, [kind |-> "settlement", fence |-> Mine(w),
                                          used |-> Budget.used + tokens, held |-> 0,
                                          calls |-> Budget.calls + 1])
        BY <2>4 DEF Settle
      <3>2. MaySettle(w) /\ calls' = calls /\ TypeOK
        BY <2>4 DEF Settle
      <3>3. /\ tokens \in 0 .. Budget.held
            /\ Mine(w) \in {c.fence : c \in calls}
        BY <3>2, ScheduleAssumption DEF ToldUsage, TypeOK, Bills
      <3> DEFINE r == [id |-> Budget.fence, amount |-> Budget.held]
      <3>4. Outstanding /\ r.id = Mine(w)
        BY <3>2 DEF MaySettle, OwnReservation
      <3>5. ~ Outstanding' /\ Budget'.used = Budget.used + tokens
        BY <3>1, <3>2, Types DEF Outstanding, Budget
      <3>6. Metered!Settle(r)
        BY <3>2, <3>3, <3>4, <3>5 DEF Metered!Settle
      <3> QED BY <3>4, <3>6 DEF Metered!Next
    <2> QED BY <1>3, <2>1, <2>2, <2>3, <2>4
         DEF Schedule, Start, Acquire, ObserveFence, Reserve, RereadBudget, Refresh, Revalidate,
             Begin, RefreshAgain, NoUsage, Settle, Release, Die, stores
  <1> QED BY <1>2, <1>3 DEF Next

\* One reservation open at a time, one call under it, closed for what the call
\* cost: scheduleDemoDispatch implements MeteredCalls.
THEOREM SchedulingIsMetered == Spec => ImplementsMeteredCalls
  <1>1. Init => Metered!Init
    BY MeteredInit
  <1>2. ScheduleInv /\ [Next]_vars => [Metered!Next]_Metered!vars
    BY MeteredStep
  <1> QED BY <1>1, <1>2, Invariance, PTL DEF Spec, ImplementsMeteredCalls, Metered!Spec

-----------------------------------------------------------------------------
(* The delivery of an authorized execution *)

Bundle == [nonce : Nat, redeemed : Nat]
JobSteps == {"idle", "resolved", "snapshot", "start", "claimed", "applied", "bound"}
EvidenceStates == {"none", "pending", "rejected", "partial", "completed"}

\* A bundle stands for the one redemption of its nonce, in time.
Redeemed(b) ==
    /\ b \in Bundle
    /\ b.nonce \in redeemed
    /\ 0 < Exec!Expires(b.nonce)

JobRecord == [step : JobSteps, bundle : bundles \cup {None}, ordinal : Exec!Ordinals,
              read : bundles \cup {None}]
EvidenceRecord == [plan : bundles \cup {None}, state : EvidenceStates, at : Nat]
GitHubRecord == [branch : BOOLEAN, commit : bundles \cup {None}, pull : bundles \cup {None},
                 binding : bundles \cup {None}]

AuthorityTyped ==
    /\ now \in Nat
    /\ states \in Seq(Nat) /\ Len(states) <= MaxStates
    /\ redeemed \subseteq DOMAIN states
    /\ asks \subseteq [nonce : Nat \ {0}, at : Nat]
    /\ \A b \in held \cup bundles : Redeemed(b)

DeliveryTyped ==
    /\ job \in [Jobs -> JobRecord]
    /\ \A j \in Jobs : job[j].step # "idle" => job[j].bundle \in bundles
    /\ evidence \in [Exec!Ordinals -> EvidenceRecord]
    /\ github \in GitHubRecord
    /\ decided \in [1 .. MaxStates -> Nat]

\* A nonce is redeemed once, and every decision about its effects was in time.
InTime(b) == decided[b.nonce] <= b.redeemed + MaxAge /\ decided[b.nonce] < Exec!Expires(b.nonce)
Decided ==
    /\ \A b, c \in held \cup bundles : b.nonce = c.nonce => b = c
    /\ \A b \in held \cup bundles : InTime(b)
    /\ \A n \in 1 .. MaxStates \ redeemed : decided[n] = 0

\* The effects stand on each other, and a job has those behind it recorded complete.
Stacked ==
    /\ github.binding # None => github.pull = github.binding
    /\ github.pull # None => github.commit = github.pull
    /\ github.commit # None => github.branch
AllComplete == \A k \in Exec!Ordinals : evidence[k].state = "completed"
Behind(j) == \A k \in Exec!Ordinals :
    k < job[j].ordinal \/ job[j].step = "bound" => evidence[k].state = "completed"

Delivered ==
    /\ Stacked
    /\ \A j \in Jobs : Behind(j)
    /\ told \subseteq bundles
    /\ told # {} => AllComplete
    /\ \A b \in told : github.binding = b

DeliveryInv == AuthorityTyped /\ DeliveryTyped /\ Decided /\ Delivered

-----------------------------------------------------------------------------
(* An administrator's change *)

\* An attempt was made behind its gate, and is the one of its plan.
Gated(t) ==
    /\ t.plan \in plans /\ t.plan \in Nat
    /\ t.confirmation.at \in Nat /\ t.before.at \in Nat /\ t.attempted \in Nat
    /\ t.confirmation.plan = t.plan /\ t.before.plan = t.plan
    /\ t.before.confirmation = t.confirmation /\ t.before.actual = "expected"
    /\ t.plan <= t.confirmation.at /\ t.confirmation.at <= t.before.at
    /\ t.before.at <= t.attempted
    /\ \A u \in tries : u.plan = t.plan => u = t

\* A readback behind an attempt is of an attempt that was made.
Read(a) ==
    /\ a.at \in Nat
    /\ \E t \in tries : /\ t.plan = a.plan /\ t.confirmation = a.confirmation
                           /\ t.before = a.before /\ t.attempted = a.attempted
                           /\ t.acknowledged = a.acknowledged

ChangeInv ==
    /\ clock \in 0 .. MaxClock /\ target \in Handoff!States
    /\ plans \subseteq 0 .. clock
    /\ \A c \in confirmations : c.plan \in plans /\ c.at \in Nat /\ c.at <= clock
    /\ \A b \in befores : /\ b.plan \in plans /\ b.confirmation \in confirmations
                          /\ b.at \in Nat /\ b.at <= clock
    /\ \A t \in tries : Gated(t) /\ t.before \in befores
    /\ \A a \in afters : Read(a)
    /\ Handoff!OneChain

-----------------------------------------------------------------------------
(* An installation *)

States == [status : {"stable", "partial"}, version : Versions \cup {None},
           sequence : Nat, commits : Nat]

\* Where a plan begins: at the receipt before it, as of which its versions were checked.
Based(plan) ==
    /\ plan.expected \in States /\ plan.result \in States
    /\ plan.expected.sequence \in 0 .. Len(journal) /\ plan.expected.sequence < Capacity
    /\ plan.op = "recover" => /\ plan.expected.status = "partial"
                              /\ plan.base.sequence = plan.expected.sequence
    /\ plan.op # "recover" => plan.base = plan.expected
    /\ plan.expected.sequence > 0 => journal[plan.expected.sequence].result = plan.base
    /\ plan.base.version # None /\ plan.result.version # None =>
          \A v \in plan.result.version .. plan.base.version - 1 : v \notin Irreversible

Chain(k) == LET was == journal[k - 1].result.version
                is == journal[k].result.version
            IN  /\ Install!Follows(journal[k], journal[k - 1])
                /\ was # None /\ is # None => \A v \in is .. was - 1 : v \notin Irreversible

\* What an operator holds is a plan, persisted where it was found to be.
InStep(o) ==
    /\ step[o] # "idle" => hand[o] \in designs
    /\ step[o] = "found" => Install!Persisted(hand[o])
    /\ step[o] = "observed" => hand[o].result \in been

InstallInv ==
    /\ inst \in been /\ been \subseteq States
    /\ journal \in Seq(designs) /\ Len(journal) <= Capacity
    /\ \A plan \in designs : Based(plan)
    /\ step \in [Operators -> {"idle", "found", "authorized", "applying", "applied", "observed"}]
    /\ hand \in [Operators -> designs \cup {None}]
    /\ \A o \in Operators : InStep(o)
    /\ \A plan \in answered : Install!Persisted(plan) /\ plan.result \in been
    /\ \A k \in 2 .. Len(journal) : Chain(k)

-----------------------------------------------------------------------------
(* The proof about the change *)

\* The documents there are keep what they were when an attempt is added, or none.
LEMMA DocumentsKeep ==
    ASSUME ChangeInv, UNCHANGED tries, plans \subseteq plans'
    PROVE  /\ \A t \in tries' : Gated(t)'
           /\ \A a : Read(a) => Read(a)'
  BY DEF ChangeInv, Gated, Read

LEMMA ChangeTimeKeeps ==
    ASSUME ChangeInv, Handoff!Tick \/ Handoff!Drift
    PROVE  ChangeInv'
  <1>1. /\ clock \in Nat /\ clock' \in 0 .. MaxClock /\ clock <= clock'
        /\ target' \in Handoff!States
        /\ UNCHANGED <<plans, confirmations, befores, tries, afters, judged>>
    BY AuthorityAssumption DEF ChangeInv, Handoff!Tick, Handoff!Drift, Handoff!documents
  <1>2. \A t \in tries' : Gated(t)'
    BY <1>1, DocumentsKeep DEF ChangeInv
  <1>3. \A a \in afters' : Read(a)'
    BY <1>1, DocumentsKeep DEF ChangeInv
  <1>4. Handoff!OneChain'
    BY <1>1 DEF ChangeInv, Handoff!OneChain
  <1>5. /\ plans' \subseteq 0 .. clock'
        /\ \A c \in confirmations' : c.plan \in plans' /\ c.at \in Nat /\ c.at <= clock'
        /\ \A b \in befores' : /\ b.plan \in plans' /\ b.confirmation \in confirmations'
                               /\ b.at \in Nat /\ b.at <= clock'
    BY <1>1 DEF ChangeInv
  <1>6. \A t \in tries' : t.before \in befores'
    BY <1>1 DEF ChangeInv
  <1> QED BY <1>1, <1>2, <1>3, <1>4, <1>5, <1>6 DEF ChangeInv

LEMMA PaperKeeps ==
    ASSUME ChangeInv,
           \/ Handoff!PlanApply
           \/ \E plan \in plans : Handoff!Confirm(plan)
           \/ \E plan \in plans, c \in confirmations : Handoff!ReadBefore(plan, c)
    PROVE  ChangeInv'
  <1>1. clock \in Nat
    BY AuthorityAssumption DEF ChangeInv
  <1>2. UNCHANGED <<clock, target, tries, afters, judged>>
    BY DEF Handoff!PlanApply, Handoff!Confirm, Handoff!ReadBefore
  <1>3. /\ plans \subseteq plans' /\ confirmations \subseteq confirmations'
        /\ befores \subseteq befores'
    BY DEF Handoff!PlanApply, Handoff!Confirm, Handoff!ReadBefore
  <1>4. /\ plans' \subseteq 0 .. clock'
        /\ \A c \in confirmations' : c.plan \in plans' /\ c.at \in Nat /\ c.at <= clock'
        /\ \A b \in befores' : /\ b.plan \in plans' /\ b.confirmation \in confirmations'
                               /\ b.at \in Nat /\ b.at <= clock'
    BY <1>1, <1>2, <1>3
       DEF ChangeInv, Handoff!PlanApply, Handoff!Confirm, Handoff!ReadBefore
  <1>5. \A t \in tries' : Gated(t)'
    BY <1>2, <1>3, DocumentsKeep
  <1>6. \A a \in afters' : Read(a)'
    BY <1>2, <1>3, DocumentsKeep DEF ChangeInv
  <1>7. Handoff!OneChain'
    BY <1>2 DEF ChangeInv, Handoff!OneChain
  <1>8. \A t \in tries' : t.before \in befores'
    BY <1>2, <1>3 DEF ChangeInv
  <1> QED BY <1>2, <1>4, <1>5, <1>6, <1>7, <1>8 DEF ChangeInv

\* The attempt is the first of its plan, so those before it stay the only ones of theirs.
LEMMA ApplyKeeps ==
    ASSUME ChangeInv, NEW plan \in plans, NEW c \in confirmations, NEW b \in befores,
           Handoff!Apply(plan, c, b)
    PROVE  ChangeInv'
  <1>1. PICK acknowledged \in BOOLEAN :
            tries' = tries \cup
                {[plan |-> plan, confirmation |-> c, before |-> b, attempted |-> clock,
                  acknowledged |-> acknowledged]}
    BY DEF Handoff!Apply
  <1>2. /\ UNCHANGED <<clock, plans, confirmations, befores, afters, judged>>
        /\ target' \in Handoff!States
    BY DEF Handoff!Apply, ChangeInv, Handoff!States
  <1>3. PICK new : new = [plan |-> plan, confirmation |-> c, before |-> b, attempted |-> clock,
                          acknowledged |-> acknowledged]
    OBVIOUS
  <1>4. /\ tries' = tries \cup {new}
        /\ new.plan = plan /\ new.confirmation = c /\ new.before = b /\ new.attempted = clock
    BY <1>1, <1>3
  <1>5. \A t \in tries : t.plan # plan
    BY DEF Handoff!Apply
  <1>6. /\ plan \in Nat /\ c.at \in Nat /\ b.at \in Nat /\ clock \in Nat
        /\ c.plan = plan /\ b.plan = plan /\ b.confirmation = c /\ b.actual = "expected"
        /\ plan <= c.at /\ c.at <= b.at /\ b.at <= clock
    BY AuthorityAssumption DEF ChangeInv, Handoff!Apply, Handoff!Gate, Handoff!ReadbackBase
  <1>7. \A t \in tries' : Gated(t)'
    <2>1. Gated(new)'
      BY <1>2, <1>4, <1>5, <1>6 DEF Gated
    <2>2. \A t \in tries : Gated(t)'
      BY <1>2, <1>4, <1>5 DEF Gated, ChangeInv
    <2> QED BY <1>4, <2>1, <2>2
  <1>8. \A a \in afters' : Read(a)'
    BY <1>2, <1>4 DEF ChangeInv, Read
  <1>9. Handoff!OneChain'
    <2> SUFFICES ASSUME NEW j \in judged
                 PROVE  \E t \in tries' :
                    /\ t.plan = j.plan /\ t.acknowledged
                    /\ t.confirmation = j.confirmation /\ t.before = j.before
                    /\ \A u \in tries' : u.plan = t.plan => u = t
                    /\ j.confirmation.plan = j.plan /\ j.plan <= j.confirmation.at
                    /\ j.confirmation.at <= j.before.at /\ j.before.at <= t.attempted
                    /\ t.attempted <= j.after.at /\ j.after.at <= j.at
                    /\ j.before.actual = "expected" /\ j.after.actual = "desired"
                    /\ j.at - j.confirmation.at <= MaxAge /\ j.at <= j.plan + Lease
      BY <1>2 DEF Handoff!OneChain
    <2>1. PICK t \in tries :
              /\ t.plan = j.plan /\ t.acknowledged
              /\ t.confirmation = j.confirmation /\ t.before = j.before
              /\ \A u \in tries : u.plan = t.plan => u = t
              /\ j.confirmation.plan = j.plan /\ j.plan <= j.confirmation.at
              /\ j.confirmation.at <= j.before.at /\ j.before.at <= t.attempted
              /\ t.attempted <= j.after.at /\ j.after.at <= j.at
              /\ j.before.actual = "expected" /\ j.after.actual = "desired"
              /\ j.at - j.confirmation.at <= MaxAge /\ j.at <= j.plan + Lease
      BY DEF ChangeInv, Handoff!OneChain
    <2>2. \A u \in tries' : u.plan = t.plan => u = t
      BY <1>4, <1>5, <2>1
    <2> QED BY <1>4, <2>1, <2>2
  <1>10. \A t \in tries' : t.before \in befores'
    BY <1>2, <1>4 DEF ChangeInv
  <1>11. /\ clock' \in 0 .. MaxClock /\ plans' \subseteq 0 .. clock'
         /\ \A d \in confirmations' : d.plan \in plans' /\ d.at \in Nat /\ d.at <= clock'
         /\ \A d \in befores' : /\ d.plan \in plans' /\ d.confirmation \in confirmations'
                                /\ d.at \in Nat /\ d.at <= clock'
    BY <1>2 DEF ChangeInv
  <1> QED BY <1>2, <1>7, <1>8, <1>9, <1>10, <1>11 DEF ChangeInv

LEMMA ReadAfterKeeps ==
    ASSUME ChangeInv, NEW t \in tries, Handoff!ReadAfter(t)
    PROVE  ChangeInv'
  <1>1. UNCHANGED <<clock, target, plans, confirmations, befores, tries, judged>>
    BY DEF Handoff!ReadAfter
  <1>2. clock \in Nat
    BY AuthorityAssumption DEF ChangeInv
  <1>3. \A a \in afters' : Read(a)'
    <2>1. \A a \in afters : Read(a)'
      BY <1>1, DocumentsKeep DEF ChangeInv
    <2> DEFINE new == [plan |-> t.plan, confirmation |-> t.confirmation, before |-> t.before,
                       attempted |-> t.attempted, acknowledged |-> t.acknowledged,
                       at |-> clock, actual |-> target]
    <2>2. Read(new)'
      BY <1>1, <1>2 DEF Read
    <2> QED BY <2>1, <2>2 DEF Handoff!ReadAfter
  <1>4. \A u \in tries' : Gated(u)'
    BY <1>1, DocumentsKeep
  <1>5. Handoff!OneChain'
    BY <1>1 DEF ChangeInv, Handoff!OneChain
  <1>6. /\ clock' \in 0 .. MaxClock
        /\ target' \in Handoff!States /\ plans' \subseteq 0 .. clock'
        /\ \A c \in confirmations' : c.plan \in plans' /\ c.at \in Nat /\ c.at <= clock'
        /\ \A b \in befores' : /\ b.plan \in plans' /\ b.confirmation \in confirmations'
                               /\ b.at \in Nat /\ b.at <= clock'
        /\ \A u \in tries' : u.before \in befores'
    BY <1>1 DEF ChangeInv
  <1> QED BY <1>3, <1>4, <1>5, <1>6 DEF ChangeInv

\* What is judged was read behind an attempt, and that attempt went through its gate.
LEMMA JudgeKeeps ==
    ASSUME ChangeInv, NEW plan \in plans, NEW c \in confirmations, NEW b \in befores,
           NEW a \in afters, Handoff!Judge(plan, c, b, a)
    PROVE  ChangeInv'
  <1>1. UNCHANGED <<clock, target, plans, confirmations, befores, tries, afters>>
    BY DEF Handoff!Judge, Handoff!documents
  <1>2. PICK t \in tries : /\ t.plan = a.plan /\ t.confirmation = a.confirmation
                              /\ t.before = a.before /\ t.attempted = a.attempted
                              /\ t.acknowledged = a.acknowledged
    BY DEF ChangeInv, Read
  <1>3. PICK j : j = [plan |-> plan, confirmation |-> c, before |-> b, after |-> a, at |-> clock]
    OBVIOUS
  <1>4. /\ judged' = judged \cup {j}
        /\ j.plan = plan /\ j.confirmation = c /\ j.before = b /\ j.after = a /\ j.at = clock
    BY <1>3 DEF Handoff!Judge
  <1>5. /\ a.plan = plan /\ a.confirmation = c /\ a.before = b /\ a.acknowledged
        /\ c.plan = plan /\ b.actual = "expected" /\ a.actual = "desired"
        /\ plan <= c.at /\ c.at <= b.at /\ b.at <= a.attempted /\ a.attempted <= a.at
        /\ a.at <= clock /\ clock - c.at <= MaxAge /\ clock <= plan + Lease
    BY DEF Handoff!Judge, Handoff!PostApply, Handoff!Gate, Handoff!ReadbackBase, Handoff!Binds,
           Handoff!Fresh, Handoff!NotExpired
  <1>6. \A u \in tries : u.plan = t.plan => u = t
    BY DEF ChangeInv, Gated
  <1>7. Handoff!OneChain'
    <2> DEFINE Chained(d) == \E u \in tries :
                  /\ u.plan = d.plan /\ u.acknowledged
                  /\ u.confirmation = d.confirmation /\ u.before = d.before
                  /\ \A v \in tries : v.plan = u.plan => v = u
                  /\ d.confirmation.plan = d.plan /\ d.plan <= d.confirmation.at
                  /\ d.confirmation.at <= d.before.at /\ d.before.at <= u.attempted
                  /\ u.attempted <= d.after.at /\ d.after.at <= d.at
                  /\ d.before.actual = "expected" /\ d.after.actual = "desired"
                  /\ d.at - d.confirmation.at <= MaxAge /\ d.at <= d.plan + Lease
    <2>1. \A d \in judged : Chained(d)
      BY DEF ChangeInv, Handoff!OneChain
    <2>2. Chained(j)
      <3>1. /\ t.plan = j.plan /\ t.acknowledged
            /\ t.confirmation = j.confirmation /\ t.before = j.before
            /\ t.attempted = a.attempted
        BY <1>2, <1>4, <1>5
      <3> QED BY <3>1, <1>4, <1>5, <1>6
    <2>3. \A d \in judged' : Chained(d)
      BY <1>4, <2>1, <2>2
    <2> QED BY <1>1, <2>3 DEF Handoff!OneChain
  <1>8. /\ \A u \in tries' : Gated(u)'
        /\ \A d \in afters' : Read(d)'
    BY <1>1, DocumentsKeep DEF ChangeInv
  <1>9. /\ clock' \in 0 .. MaxClock
        /\ target' \in Handoff!States /\ plans' \subseteq 0 .. clock'
        /\ \A d \in confirmations' : d.plan \in plans' /\ d.at \in Nat /\ d.at <= clock'
        /\ \A d \in befores' : /\ d.plan \in plans' /\ d.confirmation \in confirmations'
                               /\ d.at \in Nat /\ d.at <= clock'
        /\ \A u \in tries' : u.before \in befores'
    BY <1>1 DEF ChangeInv
  <1> QED BY <1>7, <1>8, <1>9 DEF ChangeInv

\* Whatever documents of whatever plans are handed in together, a change is said to be
\* observed only on one chain: the human confirmed this plan, then the target was as
\* expected, then came the one attempt of the plan, and then the target was as desired.
THEOREM ChangeIsOneChain == PartsSpec => []OneChain
  <1>1. PartsInit => ChangeInv
    BY AuthorityAssumption
       DEF PartsInit, Handoff!Init, ChangeInv, Handoff!OneChain, Handoff!States
  <1>2. ASSUME ChangeInv, [PartsNext]_<<part, vars, execution, handoff, installation>>
        PROVE  ChangeInv'
    <2>1. CASE UNCHANGED handoff
      <3>1. UNCHANGED <<clock, target, plans, confirmations, befores, tries, afters, judged>>
        BY <2>1 DEF handoff
      <3> QED BY <1>2, <3>1 DEF ChangeInv, Gated, Read, Handoff!OneChain
    <2>2. CASE Handoff!Tick \/ Handoff!Drift
      BY <1>2, <2>2, ChangeTimeKeeps
    <2>3. CASE \/ Handoff!PlanApply
               \/ \E plan \in plans : Handoff!Confirm(plan)
               \/ \E plan \in plans, c \in confirmations : Handoff!ReadBefore(plan, c)
      BY <1>2, <2>3, PaperKeeps
    <2>4. CASE \E plan \in plans, c \in confirmations, b \in befores : Handoff!Apply(plan, c, b)
      BY <1>2, <2>4, ApplyKeeps
    <2>5. CASE \E t \in tries : Handoff!ReadAfter(t)
      BY <1>2, <2>5, ReadAfterKeeps
    <2>6. CASE \E plan \in plans, c \in confirmations, b \in befores, a \in afters :
                  Handoff!Judge(plan, c, b, a)
      BY <1>2, <2>6, JudgeKeeps
    <2> QED BY <1>2, <2>1, <2>2, <2>3, <2>4, <2>5, <2>6 DEF PartsNext, Handoff!Next
  <1>3. ChangeInv => OneChain
    BY DEF ChangeInv, Gated, OneChain, Handoff!TypeOK
  <1> QED BY <1>1, <1>2, <1>3, PTL DEF PartsSpec

-----------------------------------------------------------------------------
(* The proof about the installation *)

\* A receipt that is appended goes on from the last one, as its plan was based on it.
LEMMA ReceiptFollows ==
    ASSUME InstallInv, NEW plan \in designs, Install!Swaps(plan), designs' = designs,
           journal' = Append(journal, plan)
    PROVE  /\ journal' \in Seq(designs') /\ Len(journal') <= Capacity
           /\ \A p \in designs' : Based(p)'
           /\ \A k \in 2 .. Len(journal') : Chain(k)'
           /\ \A p : Install!Persisted(p) \/ p = plan => Install!Persisted(p)'
  <1> DEFINE n == Len(journal)
  <1>1. /\ journal \in Seq(designs) /\ n \in Nat /\ n = plan.expected.sequence
        /\ \A p \in designs : Based(p)
        /\ \A k \in 2 .. n : Chain(k)
    BY DEF InstallInv, Install!Swaps
  <1>2. /\ journal' \in Seq(designs') /\ Len(journal') = n + 1 /\ journal'[n + 1] = plan
        /\ \A k \in 1 .. n : journal'[k] = journal[k]
    BY <1>1
  <1> HIDE DEF n
  <1>3. \A p \in designs' : Based(p)'
    <2> SUFFICES ASSUME NEW p \in designs
                 PROVE  Based(p)'
      OBVIOUS
    <2>1. Based(p)
      BY <1>1
    <2>2. p.expected.sequence \in 0 .. n
      BY <2>1 DEF Based, n
    <2>3. p.expected.sequence > 0 => journal'[p.expected.sequence] = journal[p.expected.sequence]
      BY <1>1, <1>2, <2>2
    <2> QED BY <1>1, <1>2, <2>1, <2>2, <2>3 DEF Based
  <1>4. ASSUME NEW k \in 2 .. Len(journal')
        PROVE  Chain(k)'
    <2>1. CASE k \in 2 .. n
      <3>1. journal'[k] = journal[k] /\ journal'[k - 1] = journal[k - 1]
        BY <1>1, <1>2, <2>1
      <3> QED BY <1>1, <2>1, <3>1 DEF Chain, Install!Follows
    <2>2. CASE k = n + 1
      <3>1. journal'[k] = plan /\ journal'[k - 1] = journal[n] /\ n > 0
        BY <1>1, <1>2, <2>2
      <3>2. Based(plan) /\ journal[n].result = plan.base
        BY <1>1, <3>1 DEF Based
      <3> QED BY <3>1, <3>2, <1>1 DEF Chain, Based, Install!Follows
    <2> QED BY <1>1, <1>2, <2>1, <2>2
  <1>5. \A p : Install!Persisted(p) \/ p = plan => Install!Persisted(p)'
    <2>1. \A p : Install!Persisted(p) <=> \E k \in 1 .. n : journal[k] = p
      BY <1>1 DEF Install!Persisted, Install!ToSet, n
    <2>2. \A p : Install!Persisted(p)' <=> \E k \in 1 .. n + 1 : journal'[k] = p
      BY <1>1, <1>2 DEF Install!Persisted, Install!ToSet
    <2> QED BY <1>1, <1>2, <2>1, <2>2
  <1>6. Len(journal') <= Capacity
    BY <1>1, <1>2, AuthorityAssumption DEF Based
  <1> QED BY <1>2, <1>3, <1>4, <1>5, <1>6

\* An operator's step that appends no receipt, and after which what it holds is in step.
LEMMA OperatorKeeps ==
    ASSUME InstallInv, NEW o \in Operators,
           UNCHANGED <<journal, designs>>,
           inst' \in been', been \subseteq been', been' \subseteq States,
           step' = [step EXCEPT ![o] = step'[o]], hand' = [hand EXCEPT ![o] = hand'[o]],
           step'[o] \in {"idle", "found", "authorized", "applying", "applied", "observed"},
           hand'[o] \in designs \cup {None}, InStep(o)',
           \A plan \in answered' \ answered : Install!Persisted(plan) /\ plan.result \in been
    PROVE  InstallInv'
  <1>1. \A p \in designs' : Based(p)'
    BY DEF InstallInv, Based
  <1>2. \A k \in 2 .. Len(journal') : Chain(k)'
    BY DEF InstallInv, Chain, Install!Follows
  <1>3. \A p : Install!Persisted(p)' = Install!Persisted(p)
    BY DEF Install!Persisted
  <1>4. \A u \in Operators : InStep(u)'
    <2> SUFFICES ASSUME NEW u \in Operators, u # o
                 PROVE  InStep(u)'
      OBVIOUS
    <2>1. step'[u] = step[u] /\ hand'[u] = hand[u]
      BY DEF InstallInv
    <2> QED BY <1>3, <2>1 DEF InstallInv, InStep
  <1>5. /\ step' \in [Operators -> {"idle", "found", "authorized", "applying", "applied",
                                    "observed"}]
        /\ hand' \in [Operators -> designs' \cup {None}]
    BY DEF InstallInv
  <1>6. \A plan \in answered' : Install!Persisted(plan)' /\ plan.result \in been'
    BY <1>3 DEF InstallInv
  <1> QED BY <1>1, <1>2, <1>4, <1>5, <1>6 DEF InstallInv

\* An operator's step in which the receipt of what it holds is appended.
LEMMA AppendKeeps ==
    ASSUME InstallInv, NEW o \in Operators, hand[o] \in designs, Install!Swaps(hand[o]),
           journal' = Append(journal, hand[o]), UNCHANGED <<designs, answered>>,
           inst' \in been', been \subseteq been', been' \subseteq States,
           step' = [step EXCEPT ![o] = step'[o]], hand' = [hand EXCEPT ![o] = hand'[o]],
           step'[o] \in {"idle", "applied"}, hand'[o] \in designs \cup {None},
           step'[o] = "applied" => hand'[o] = hand[o]
    PROVE  InstallInv'
  <1>1. /\ journal' \in Seq(designs') /\ Len(journal') <= Capacity
        /\ \A p \in designs' : Based(p)'
        /\ \A k \in 2 .. Len(journal') : Chain(k)'
        /\ \A p : Install!Persisted(p) => Install!Persisted(p)'
    BY ReceiptFollows
  <1>2. \A u \in Operators : InStep(u)'
    <2>1. InStep(o)'
      BY DEF InStep
    <2>2. ASSUME NEW u \in Operators, u # o
          PROVE  InStep(u)'
      <3>1. step'[u] = step[u] /\ hand'[u] = hand[u]
        BY <2>2 DEF InstallInv
      <3> QED BY <1>1, <3>1 DEF InstallInv, InStep
    <2> QED BY <2>1, <2>2
  <1>3. /\ step' \in [Operators -> {"idle", "found", "authorized", "applying", "applied",
                                    "observed"}]
        /\ hand' \in [Operators -> designs' \cup {None}]
    BY DEF InstallInv
  <1>4. \A plan \in answered' : Install!Persisted(plan)' /\ plan.result \in been'
    BY <1>1 DEF InstallInv
  <1> QED BY <1>1, <1>2, <1>3, <1>4 DEF InstallInv

LEMMA PlanKeeps ==
    ASSUME InstallInv, Install!PlanInstallation
    PROVE  InstallInv'
  <1>1. UNCHANGED <<inst, journal, been, step, hand, answered>>
    BY DEF Install!PlanInstallation, Install!adapter
  <1>2. PICK op \in Install!Operations, state \in been, current \in Versions :
            \E to \in IF op = "uninstall" THEN {None} ELSE Versions,
               base \in IF op = "recover" THEN Install!RecoveryBase(state) ELSE {state} :
                  Install!PlanWith(op, state, to, current, base)
    BY DEF Install!PlanInstallation
  <1>3. PICK to \in IF op = "uninstall" THEN {None} ELSE Versions :
            \E base \in IF op = "recover" THEN Install!RecoveryBase(state) ELSE {state} :
                     Install!PlanWith(op, state, to, current, base)
    BY <1>2
  <1>4. PICK base \in IF op = "recover" THEN Install!RecoveryBase(state) ELSE {state} :
            Install!PlanWith(op, state, to, current, base)
    BY <1>3
  <1>5. PICK plan : plan = [op |-> op, expected |-> state, base |-> base,
                            result |-> Install!Result(state, to)]
    OBVIOUS
  <1>6. /\ designs' = designs \cup {plan}
        /\ plan.op = op /\ plan.expected = state /\ plan.base = base
        /\ plan.result.version = to
    BY <1>4, <1>5 DEF Install!PlanWith, Install!Result
  <1>7. /\ (op = "recover") = (state.status = "partial")
        /\ state.sequence = Len(journal) /\ Len(journal) \in Nat /\ Len(journal) < Capacity
        /\ Len(journal) > 0 => journal[Len(journal)].result = base
        /\ base.version # None /\ to # None =>
              \A v \in to .. base.version - 1 : v \notin Irreversible
    BY <1>4
       DEF Install!PlanWith, Install!Authentic, Install!MigrationPath, Install!Last, InstallInv
  <1>8. /\ op = "recover" => base.sequence = state.sequence
        /\ op # "recover" => base = state
    BY <1>4 DEF Install!RecoveryBase
  <1>9. Based(plan)'
    <2>1. state \in States /\ to \in Versions \cup {None}
      BY <1>2, <1>4 DEF InstallInv
    <2>2. Install!Result(state, to) \in States
      BY <2>1 DEF States, Install!Result
    <2>3. plan.expected \in States /\ plan.result \in States
      BY <1>5, <2>1, <2>2
    <2> QED BY <1>1, <1>6, <1>7, <1>8, <2>3 DEF Based
  <1>10. \A p \in designs : Based(p)'
    BY <1>1 DEF InstallInv, Based
  <1>11. \A k \in 2 .. Len(journal') : Chain(k)'
    BY <1>1 DEF InstallInv, Chain, Install!Follows
  <1>12. \A o \in Operators : InStep(o)'
    BY <1>1, <1>6 DEF InstallInv, InStep, Install!Persisted
  <1>13. journal' \in Seq(designs')
    <2>1. Seq(designs) \subseteq Seq(designs')
      BY <1>6
    <2> QED BY <1>1, <2>1 DEF InstallInv
  <1>14. \A p \in answered' : Install!Persisted(p)' /\ p.result \in been'
    BY <1>1 DEF InstallInv, Install!Persisted
  <1>15. /\ inst' \in been' /\ been' \subseteq States /\ Len(journal') <= Capacity
         /\ hand' \in [Operators -> designs' \cup {None}]
    BY <1>1, <1>6 DEF InstallInv
  <1>16. step' \in [Operators -> {"idle", "found", "authorized", "applying", "applied",
                                  "observed"}]
    BY <1>1 DEF InstallInv
  <1> QED BY <1>6, <1>9, <1>10, <1>11, <1>12, <1>13, <1>14, <1>15, <1>16 DEF InstallInv

\* Whatever fails halfway, an operator finds, observes or reads back before it tells.
LEMMA OperatorStepKeeps ==
    ASSUME InstallInv, NEW o \in Operators,
           \/ Install!Find(o) \/ Install!ObserveFound(o) \/ Install!ObserveBefore(o)
           \/ Install!ObserveAfter(o) \/ Install!FindAgain(o) \/ Install!Stop(o)
    PROVE  InstallInv'
  <1>1. /\ step \in [Operators -> {"idle", "found", "authorized", "applying", "applied",
                                   "observed"}]
        /\ hand \in [Operators -> designs \cup {None}]
        /\ inst \in been /\ been \subseteq States /\ InStep(o)
    BY DEF InstallInv
  <1>2. UNCHANGED <<inst, journal, been, designs>>
    BY DEF Install!Find, Install!ObserveFound, Install!ObserveBefore, Install!ObserveAfter,
           Install!FindAgain, Install!Stop, Install!adapter
  <1>3. CASE Install!Find(o)
    <2>1. PICK plan \in designs :
             /\ hand' = [hand EXCEPT ![o] = plan]
             /\ step' = [step EXCEPT ![o] = IF Install!Persisted(plan) THEN "found"
                                            ELSE "authorized"]
             /\ answered' = answered
      BY <1>3 DEF Install!Find, Install!Goto
    <2>2. /\ hand'[o] = plan
          /\ step'[o] = IF Install!Persisted(plan) THEN "found" ELSE "authorized"
      BY <1>1, <2>1
    <2>3. InStep(o)'
      BY <1>2, <2>2 DEF InStep, Install!Persisted
    <2> QED BY <1>1, <1>2, <2>1, <2>2, <2>3, OperatorKeeps
  <1>4. CASE \/ Install!ObserveFound(o) \/ Install!FindAgain(o) \/ Install!Stop(o)
    <2>1. /\ hand' = [hand EXCEPT ![o] = None] /\ step' = [step EXCEPT ![o] = "idle"]
      BY <1>4 DEF Install!ObserveFound, Install!FindAgain, Install!Stop, Install!Tell,
                  Install!End, Install!Goto
    <2>2. hand'[o] = None /\ step'[o] = "idle"
      BY <1>1, <2>1
    <2>3. InStep(o)'
      BY <2>2 DEF InStep
    <2>4. \A plan \in answered' \ answered : Install!Persisted(plan) /\ plan.result \in been
      BY <1>1, <1>4
         DEF Install!ObserveFound, Install!FindAgain, Install!Stop, Install!Tell, InStep
    <2> QED BY <1>1, <1>2, <2>1, <2>2, <2>3, <2>4, OperatorKeeps
  <1>5. CASE Install!ObserveBefore(o) \/ Install!ObserveAfter(o)
    <2>1. CASE step'[o] = "idle"
      <3>1. /\ hand' = [hand EXCEPT ![o] = None] /\ step' = [step EXCEPT ![o] = "idle"]
            /\ answered' = answered
        BY <1>1, <1>5, <2>1
           DEF Install!ObserveBefore, Install!ObserveAfter, Install!End, Install!Goto
      <3>2. hand'[o] = None /\ step'[o] = "idle"
        BY <1>1, <3>1
      <3>3. InStep(o)'
        BY <3>2 DEF InStep
      <3> QED BY <1>1, <1>2, <3>1, <3>2, <3>3, OperatorKeeps
    <2>2. CASE step'[o] # "idle"
      <3>1. /\ hand' = hand /\ step[o] # "idle" /\ answered' = answered
            /\ \/ step' = [step EXCEPT ![o] = "applying"]
               \/ step' = [step EXCEPT ![o] = "observed"] /\ inst = hand[o].result
        BY <1>1, <1>5, <2>2
           DEF Install!ObserveBefore, Install!ObserveAfter, Install!End, Install!Goto
      <3>2. /\ step'[o] \in {"applying", "observed"} /\ hand'[o] = hand[o]
            /\ step'[o] = "observed" => inst = hand[o].result
            /\ step' = [step EXCEPT ![o] = step'[o]] /\ hand' = [hand EXCEPT ![o] = hand'[o]]
        BY <1>1, <3>1
      <3>3. InStep(o)'
        BY <1>1, <1>2, <3>1, <3>2 DEF InStep
      <3> QED BY <1>1, <1>2, <3>1, <3>2, <3>3, OperatorKeeps
    <2> QED BY <2>1, <2>2
  <1> QED BY <1>3, <1>4, <1>5

\* The adapter compares before it appends, whether it then fails or not.
LEMMA AdapterKeeps ==
    ASSUME InstallInv, NEW o \in Operators, Install!Apply(o) \/ Install!ApplyBadly(o)
    PROVE  InstallInv'
  <1>1. /\ step \in [Operators -> {"idle", "found", "authorized", "applying", "applied",
                                   "observed"}]
        /\ hand \in [Operators -> designs \cup {None}]
        /\ inst \in been /\ step[o] = "applying" /\ hand[o] \in designs
    BY DEF InstallInv, InStep, Install!Apply, Install!ApplyBadly
  <1>2. UNCHANGED <<designs, answered>>
    BY DEF Install!Apply, Install!ApplyBadly
  <1>3. inst' \in been' /\ been \subseteq been' /\ been' \subseteq States
    <2>1. /\ inst \in States /\ been \subseteq States
          /\ hand[o].expected \in States /\ hand[o].result \in States
      BY <1>1 DEF InstallInv, Based
    <2>2. Install!Partial(hand[o]) \subseteq States
      <3>1. PICK e \in States, t \in States : e = hand[o].expected /\ t = hand[o].result
        BY <2>1
      <3>2. ASSUME NEW v \in {e.version, t.version}
            PROVE  [e EXCEPT !.status = "partial", !.version = v] \in States
        BY <3>1 DEF States
      <3> QED BY <3>1, <3>2 DEF Install!Partial
    <2>3. \/ inst' = inst /\ been' = been
          \/ \E state \in Install!Partial(hand[o]) \cup {inst, hand[o].result} :
                Install!Becomes(state)
      BY DEF Install!Apply, Install!ApplyBadly, Install!adapter
    <2>4. CASE inst' = inst /\ been' = been
      BY <1>1, <2>1, <2>4
    <2>5. ASSUME NEW state \in States, Install!Becomes(state)
          PROVE  inst' \in been' /\ been \subseteq been' /\ been' \subseteq States
      BY <2>1, <2>5 DEF Install!Becomes
    <2>6. CASE \E state \in Install!Partial(hand[o]) \cup {inst, hand[o].result} :
                  Install!Becomes(state)
      <3>1. PICK state \in Install!Partial(hand[o]) \cup {inst, hand[o].result} :
                Install!Becomes(state)
        BY <2>6
      <3>2. state \in States
        BY <2>1, <2>2
      <3> QED BY <2>5, <3>1, <3>2
    <2> QED BY <2>3, <2>4, <2>6
  <1>4. \/ step' = [step EXCEPT ![o] = "applied"] /\ hand' = hand
        \/ step' = [step EXCEPT ![o] = "idle"] /\ hand' = [hand EXCEPT ![o] = None]
    BY DEF Install!Apply, Install!ApplyBadly, Install!End, Install!Goto
  <1>5. /\ step' = [step EXCEPT ![o] = step'[o]] /\ hand' = [hand EXCEPT ![o] = hand'[o]]
        /\ \/ step'[o] = "applied" /\ hand'[o] = hand[o]
           \/ step'[o] = "idle" /\ hand'[o] = None
    BY <1>1, <1>4
  <1>6. \/ journal' = journal
        \/ journal' = Append(journal, hand[o]) /\ Install!Swaps(hand[o])
    BY DEF Install!Apply, Install!ApplyBadly, Install!adapter
  <1>7. CASE journal' = journal
    <2>1. InStep(o)'
      BY <1>1, <1>2, <1>5 DEF InStep
    <2> QED BY <1>1, <1>2, <1>3, <1>5, <1>7, <2>1, OperatorKeeps
  <1>8. CASE journal' = Append(journal, hand[o]) /\ Install!Swaps(hand[o])
    BY <1>1, <1>2, <1>3, <1>5, <1>8, AppendKeeps
  <1> QED BY <1>6, <1>7, <1>8

\* Whatever was planned from whatever state there ever was, and however the adapter
\* fails, the receipts follow one another, and what an operator is told is among them.
THEOREM InstallationExplained == PartsSpec => []JournalExplains
  <1>1. PartsInit => InstallInv
    <2> SUFFICES ASSUME Install!Init
                 PROVE  InstallInv
      BY DEF PartsInit
    <2>1. /\ inst \in been /\ journal = <<>> /\ designs = {} /\ answered = {}
          /\ step = [o \in Operators |-> "idle"] /\ hand = [o \in Operators |-> None]
      BY DEF Install!Init
    <2>2. journal \in Seq(designs) /\ Len(journal) = 0 /\ Len(journal) <= Capacity
      BY <2>1, AuthorityAssumption
    <2>3. been \subseteq States
      BY DEF Install!Init, Install!NotInstalled, States
    <2> QED BY <2>1, <2>2, <2>3 DEF InstallInv, InStep
  <1>2. ASSUME InstallInv, [PartsNext]_<<part, vars, execution, handoff, installation>>
        PROVE  InstallInv'
    <2>1. CASE UNCHANGED <<journal, designs, step, hand, answered>> /\ inst' \in been'
               /\ been \subseteq been' /\ been' \subseteq States
      BY <1>2, <2>1 DEF InstallInv, InStep, Based, Chain, Install!Follows, Install!Persisted
    <2>2. CASE UNCHANGED installation
      BY <1>2, <2>1, <2>2 DEF installation, InstallInv
    <2>3. CASE Install!Commit
      <3>1. [inst EXCEPT !.commits = inst.commits + 1] \in States
        BY <1>2 DEF InstallInv, States
      <3> QED BY <1>2, <2>1, <2>3, <3>1 DEF InstallInv, Install!Commit, Install!Becomes
    <2>4. CASE Install!PlanInstallation
      BY <1>2, <2>4, PlanKeeps
    <2>5. ASSUME NEW o \in Operators,
                 \/ Install!Find(o) \/ Install!ObserveFound(o) \/ Install!ObserveBefore(o)
                 \/ Install!ObserveAfter(o) \/ Install!FindAgain(o) \/ Install!Stop(o)
          PROVE  InstallInv'
      BY <1>2, <2>5, OperatorStepKeeps
    <2>6. ASSUME NEW o \in Operators, Install!Apply(o) \/ Install!ApplyBadly(o)
          PROVE  InstallInv'
      BY <1>2, <2>6, AdapterKeeps
    <2> QED BY <1>2, <2>2, <2>3, <2>4, <2>5, <2>6 DEF PartsNext, Install!Next
  <1>3. InstallInv => JournalExplains
    BY DEF InstallInv, States, Chain, JournalExplains, Install!TypeOK, Install!JournalExplains
  <1> QED BY <1>1, <1>2, <1>3, PTL DEF PartsSpec

-----------------------------------------------------------------------------
(* The proof about the delivery *)

LEMMA AuthorityFacts == MaxAge \in Nat /\ Lease \in Nat /\ MaxStates \in Nat /\ None \notin Bundle
  BY AuthorityAssumption DEF Bundle

\* A step of the authority alone, by which what was handed off before is handed off still.
LEMMA AuthorityKeeps ==
    ASSUME DeliveryInv, AuthorityTyped', UNCHANGED <<job, evidence, github, decided, told>>,
           bundles \subseteq bundles', redeemed \subseteq redeemed',
           \A b, c \in held' \cup bundles' : b.nonce = c.nonce => b = c,
           \A b \in held' \cup bundles' : InTime(b)'
    PROVE  DeliveryInv'
  <1>1. DeliveryTyped'
    <2>1. job' \in [Jobs -> JobRecord']
      BY DEF DeliveryInv, DeliveryTyped, JobRecord
    <2>2. evidence' \in [Exec!Ordinals -> EvidenceRecord']
      BY DEF DeliveryInv, DeliveryTyped, EvidenceRecord
    <2>3. github' \in GitHubRecord'
      BY DEF DeliveryInv, DeliveryTyped, GitHubRecord
    <2> QED BY <2>1, <2>2, <2>3 DEF DeliveryInv, DeliveryTyped
  <1>2. Decided'
    BY DEF DeliveryInv, Decided
  <1>3. Delivered'
    BY DEF DeliveryInv, Delivered, Stacked, AllComplete, Behind
  <1> QED BY <1>1, <1>2, <1>3 DEF DeliveryInv

LEMMA OthersKeep ==
    ASSUME DeliveryInv, Exec!Tick \/ Exec!Publish \/ Exec!Revoke \/ Exec!MoveBase \/ Exec!Evaluate
    PROVE  DeliveryInv'
  <1>1. /\ now \in Nat /\ states \in Seq(Nat) /\ redeemed \subseteq DOMAIN states
        /\ \A b \in held \cup bundles : Redeemed(b) /\ InTime(b)
    BY DEF DeliveryInv, AuthorityTyped, Decided
  <1>2. UNCHANGED <<job, evidence, github, decided, told, bundles, held, redeemed>>
    BY
       DEF Exec!Tick, Exec!Publish, Exec!Revoke, Exec!MoveBase, Exec!Evaluate, Exec!authority,
           Exec!delivery
  <1>3. /\ states' \in Seq(Nat) /\ Len(states') <= MaxStates
        /\ \A n \in DOMAIN states : n \in DOMAIN states' /\ states'[n] = states[n]
    <2>1. CASE Exec!Publish
      BY AuthorityFacts, <1>1, <2>1 DEF Exec!Publish
    <2>2. CASE ~ Exec!Publish
      BY <1>1, <2>2
         DEF Exec!Tick, Exec!Revoke, Exec!MoveBase, Exec!Evaluate, Exec!authority, DeliveryInv,
             AuthorityTyped
    <2> QED BY <2>1, <2>2
  <1>4. now' \in Nat /\ asks' \subseteq [nonce : Nat \ {0}, at : Nat]
    <2>1. CASE Exec!Evaluate
      BY <1>1, <2>1 DEF Exec!Evaluate, DeliveryInv, AuthorityTyped
    <2>2. CASE ~ Exec!Evaluate
      BY <1>1, <2>2
         DEF Exec!Tick, Exec!Publish, Exec!Revoke, Exec!MoveBase, Exec!authority, DeliveryInv,
             AuthorityTyped
    <2> QED BY <2>1, <2>2
  <1>5. \A b \in held \cup bundles : Exec!Expires(b.nonce)' = Exec!Expires(b.nonce)
    BY <1>1, <1>3 DEF Exec!Expires, Redeemed
  <1>6. \A b \in held' \cup bundles' : Redeemed(b)' /\ InTime(b)'
    BY <1>1, <1>2, <1>5 DEF Redeemed, InTime
  <1>7. AuthorityTyped'
    BY <1>1, <1>2, <1>3, <1>4, <1>6 DEF AuthorityTyped
  <1>8. \A b, c \in held' \cup bundles' : b.nonce = c.nonce => b = c
    BY <1>2 DEF DeliveryInv, Decided
  <1> QED BY <1>2, <1>6, <1>7, <1>8, AuthorityKeeps

\* A nonce that is redeemed was not, and nothing was decided under it yet.
LEMMA RedeemKeeps ==
    ASSUME DeliveryInv, NEW a \in asks, Exec!Redeem(a)
    PROVE  DeliveryInv'
  <1> DEFINE n == a.nonce
             new == [nonce |-> a.nonce, redeemed |-> now]
  <1>1. /\ now \in Nat /\ states \in Seq(Nat) /\ redeemed \subseteq DOMAIN states
        /\ Len(states) <= MaxStates /\ a \in [nonce : Nat \ {0}, at : Nat]
        /\ \A b \in held \cup bundles : Redeemed(b) /\ InTime(b)
        /\ \A i \in 1 .. MaxStates \ redeemed : decided[i] = 0
    BY DEF DeliveryInv, AuthorityTyped, Decided
  <1>2. /\ n = Len(states) /\ n \notin redeemed /\ redeemed' = redeemed \cup {n}
        /\ UNCHANGED <<now, states, revoked, bundles, job, evidence, github, decided, told>>
        /\ asks' \subseteq asks
        /\ held' = held \/ (held' = held \cup {new} /\ now < Exec!Expires(n))
    BY DEF Exec!Redeem, Exec!delivery
  <1>3. ASSUME n \in DOMAIN states
        PROVE  DeliveryInv'
    <2>1. \A b \in held \cup bundles : Redeemed(b)' /\ InTime(b)' /\ b.nonce # n
      BY <1>1, <1>2 DEF Redeemed, InTime, Exec!Expires
    <2>2. now < Exec!Expires(n) => Redeemed(new)' /\ InTime(new)'
      <3> SUFFICES ASSUME now < Exec!Expires(n)
                   PROVE  Redeemed(new)' /\ InTime(new)'
        OBVIOUS
      <3>1. new \in Bundle /\ new.nonce = n /\ new.redeemed = now
        BY <1>1 DEF Bundle
      <3>2. n \in 1 .. MaxStates /\ decided[n] = 0 /\ states[n] \in Nat
        BY AuthorityFacts, <1>1, <1>2, <1>3
      <3>3. 0 < Exec!Expires(n) /\ Exec!Expires(n)' = Exec!Expires(n)
        BY AuthorityFacts, <1>1, <1>2, <3>2 DEF Exec!Expires
      <3>4. Redeemed(new)'
        BY <1>2, <3>1, <3>3 DEF Redeemed
      <3>5. InTime(new)'
        BY AuthorityFacts, <1>1, <1>2, <3>1, <3>2, <3>3 DEF InTime
      <3> QED BY <3>4, <3>5
    <2>3. \A b \in held' \cup bundles' : Redeemed(b)' /\ InTime(b)'
      BY <1>2, <2>1, <2>2
    <2>4. \A b, c \in held' \cup bundles' : b.nonce = c.nonce => b = c
      BY <1>2, <2>1 DEF DeliveryInv, Decided
    <2>5. AuthorityTyped'
      BY <1>1, <1>2, <1>3, <2>3 DEF DeliveryInv, AuthorityTyped
    <2> QED BY <1>2, <2>3, <2>4, <2>5, AuthorityKeeps
  <1>4. n \in DOMAIN states
    BY <1>1, <1>2
  <1> QED BY <1>3, <1>4

LEMMA HandoffKeeps ==
    ASSUME DeliveryInv, NEW b \in held, Exec!Handoff(b)
    PROVE  DeliveryInv'
  <1>1. /\ UNCHANGED <<now, states, redeemed, asks, job, evidence, github, decided, told>>
        /\ bundles \subseteq bundles' /\ held' \cup bundles' \subseteq held \cup bundles
    BY DEF Exec!Handoff, Exec!delivery
  <1>2. \A c \in held' \cup bundles' : Redeemed(c)' /\ InTime(c)'
    BY <1>1 DEF DeliveryInv, AuthorityTyped, Decided, Redeemed, InTime, Exec!Expires
  <1>3. AuthorityTyped'
    BY <1>1, <1>2 DEF DeliveryInv, AuthorityTyped
  <1>4. \A c, d \in held' \cup bundles' : c.nonce = d.nonce => c = d
    BY <1>1 DEF DeliveryInv, Decided
  <1> QED BY <1>1, <1>2, <1>3, <1>4, AuthorityKeeps

\* A job's step keeps what is complete and bound, and decides only in time.
LEMMA JobKeeps ==
    ASSUME DeliveryInv, NEW j \in Jobs, UNCHANGED <<now, Exec!authority>>,
           job' = [job EXCEPT ![j] = job'[j]], job'[j] \in JobRecord,
           job'[j].step # "idle" => job'[j].bundle \in bundles, Behind(j)',
           evidence' \in [Exec!Ordinals -> EvidenceRecord],
           \A k \in Exec!Ordinals :
              evidence[k].state = "completed" => evidence'[k].state = "completed",
           github' \in GitHubRecord, Stacked',
           github.binding # None => github'.binding = github.binding,
           \/ decided' = decided
           \/ /\ Exec!B(j) \in bundles /\ Exec!Fresh(Exec!B(j))
              /\ decided' = [decided EXCEPT ![Exec!B(j).nonce] = now],
           \/ told' = told
           \/ /\ Exec!B(j) \in bundles /\ AllComplete /\ github'.binding = Exec!B(j)
              /\ told' = told \cup {Exec!B(j)}
    PROVE  DeliveryInv'
  <1>1. UNCHANGED <<now, states, redeemed, asks, held, bundles>>
    BY DEF Exec!authority
  <1>2. AuthorityTyped'
    BY <1>1 DEF DeliveryInv, AuthorityTyped, Redeemed, Exec!Expires
  <1>3. \A b \in held \cup bundles : /\ Redeemed(b) /\ InTime(b) /\ b \in Bundle
                                     /\ b.nonce \in 1 .. MaxStates /\ b.redeemed \in Nat
                                     /\ b.nonce \in redeemed /\ states[b.nonce] \in Nat
    BY AuthorityFacts DEF DeliveryInv, AuthorityTyped, Decided, Redeemed, Bundle
  <1>4. decided' \in [1 .. MaxStates -> Nat] /\ Decided'
    <2>1. CASE decided' = decided
      BY <1>1, <2>1 DEF DeliveryInv, DeliveryTyped, Decided, InTime, Exec!Expires
    <2>2. CASE /\ Exec!B(j) \in bundles /\ Exec!Fresh(Exec!B(j))
               /\ decided' = [decided EXCEPT ![Exec!B(j).nonce] = now]
      <3> DEFINE b == Exec!B(j)
      <3>1. /\ now \in Nat /\ decided \in [1 .. MaxStates -> Nat]
            /\ b \in bundles /\ b.nonce \in 1 .. MaxStates /\ b.nonce \in redeemed
            /\ \A c \in held \cup bundles : c.nonce = b.nonce => c = b
            /\ \A n \in 1 .. MaxStates \ redeemed : decided[n] = 0
        BY <1>3, <2>2 DEF DeliveryInv, AuthorityTyped, DeliveryTyped, Decided
      <3>2. now <= b.redeemed + MaxAge /\ now < Exec!Expires(b.nonce)
        BY AuthorityFacts, <1>3, <2>2, <3>1 DEF Exec!Fresh, Exec!Aged
      <3> HIDE DEF b
      <3>3. /\ decided' \in [1 .. MaxStates -> Nat] /\ decided'[b.nonce] = now
            /\ \A n \in 1 .. MaxStates : n # b.nonce => decided'[n] = decided[n]
        BY <2>2, <3>1 DEF b
      <3>4. \A c \in held \cup bundles : InTime(c)'
        <4> SUFFICES ASSUME NEW c \in held \cup bundles
                     PROVE  InTime(c)'
          OBVIOUS
        <4>1. CASE c = b
          BY <1>1, <3>2, <3>3, <4>1 DEF InTime, Exec!Expires
        <4>2. CASE c # b
          <5>1. c.nonce # b.nonce /\ decided'[c.nonce] = decided[c.nonce]
            BY <1>3, <3>1, <3>3, <4>2
          <5> QED BY <1>1, <1>3, <5>1 DEF InTime, Exec!Expires
        <4> QED BY <4>1, <4>2
      <3>5. \A n \in 1 .. MaxStates \ redeemed : decided'[n] = 0
        BY <3>1, <3>3
      <3> QED BY <1>1, <3>3, <3>4, <3>5 DEF DeliveryInv, Decided
    <2> QED BY <2>1, <2>2
  <1>5. DeliveryTyped'
    <2>1. job' \in [Jobs -> JobRecord]
      BY DEF DeliveryInv, DeliveryTyped
    <2>2. JobRecord' = JobRecord /\ EvidenceRecord' = EvidenceRecord /\ GitHubRecord' = GitHubRecord
      BY <1>1 DEF JobRecord, EvidenceRecord, GitHubRecord
    <2>3. \A i \in Jobs : job'[i].step # "idle" => job'[i].bundle \in bundles
      BY DEF DeliveryInv, DeliveryTyped
    <2> QED BY <1>1, <1>4, <2>1, <2>2, <2>3 DEF DeliveryTyped
  <1>6. \A i \in Jobs : Behind(i)'
    <2> SUFFICES ASSUME NEW i \in Jobs, i # j
                 PROVE  Behind(i)'
      OBVIOUS
    <2>1. job'[i] = job[i] /\ Behind(i)
      BY DEF DeliveryInv, DeliveryTyped, Delivered
    <2> QED BY <2>1 DEF Behind
  <1>7. /\ told' \subseteq bundles' /\ (told' # {} => AllComplete')
        /\ \A b \in told' : github'.binding = b
    <2>1. /\ told \subseteq bundles /\ (told # {} => AllComplete)
          /\ \A b \in told : github.binding = b
      BY DEF DeliveryInv, Delivered
    <2>2. AllComplete => AllComplete'
      BY DEF AllComplete
    <2>3. \A b \in told : github'.binding = b
      BY AuthorityFacts, <1>3, <2>1
    <2> QED BY <1>1, <2>1, <2>2, <2>3
  <1>8. Delivered'
    BY <1>6, <1>7 DEF Delivered
  <1> QED BY <1>2, <1>4, <1>5, <1>8 DEF DeliveryInv

\* What a job's step may rely on.
LEMMA OfJob ==
    ASSUME DeliveryInv, NEW j \in Jobs
    PROVE  /\ job \in [Jobs -> JobRecord] /\ evidence \in [Exec!Ordinals -> EvidenceRecord]
           /\ job[j] \in JobRecord /\ evidence[Exec!K(j)] \in EvidenceRecord
           /\ github \in GitHubRecord /\ Stacked
           /\ job[j].step # "idle" => Exec!B(j) \in bundles
           /\ Behind(j) /\ now \in Nat /\ None \notin bundles
           /\ Exec!K(j) \in Exec!Ordinals /\ Exec!B(j) \in bundles \cup {None}
  <1>1. job \in [Jobs -> JobRecord] /\ job[j] \in JobRecord
    BY DEF DeliveryInv, DeliveryTyped
  <1>2. Exec!K(j) \in Exec!Ordinals /\ Exec!B(j) \in bundles \cup {None}
    BY <1>1 DEF JobRecord, Exec!K, Exec!B
  <1>3. None \notin bundles
    BY AuthorityFacts DEF DeliveryInv, AuthorityTyped, Redeemed
  <1> QED BY <1>1, <1>2, <1>3 DEF DeliveryInv, AuthorityTyped, DeliveryTyped, Delivered, Exec!B

LEMMA Ended ==
    ASSUME job \in [Jobs -> JobRecord], NEW j \in Jobs, Exec!EndJob(j)
    PROVE  /\ job' = [job EXCEPT ![j] = job'[j]] /\ job'[j] \in JobRecord
           /\ job'[j].step = "idle" /\ job'[j].ordinal = 1
  <1>1. job' = [job EXCEPT ![j] = Exec!NoJob] /\ job'[j] = Exec!NoJob
    BY DEF Exec!EndJob
  <1> QED BY <1>1 DEF Exec!NoJob, JobRecord, JobSteps, Exec!Ordinals

LEMMA Gone ==
    ASSUME job \in [Jobs -> JobRecord], NEW j \in Jobs, NEW s \in JobSteps, Exec!Goto(j, s)
    PROVE  /\ job' = [job EXCEPT ![j] = job'[j]] /\ job'[j] \in JobRecord
           /\ job'[j].step = s /\ job'[j].ordinal = job[j].ordinal /\ job'[j].bundle = job[j].bundle
  <1>1. job' = [job EXCEPT ![j] = [job[j] EXCEPT !.step = s]]
    BY DEF Exec!Goto
  <1>2. job'[j] = [job[j] EXCEPT !.step = s] /\ job[j] \in JobRecord
    BY <1>1
  <1> QED BY <1>1, <1>2 DEF JobRecord

LEMMA Advanced ==
    ASSUME job \in [Jobs -> JobRecord], NEW j \in Jobs, Exec!Advance(j),
           job[j].step \in {"start", "applied"}
    PROVE  /\ job' = [job EXCEPT ![j] = job'[j]] /\ job'[j] \in JobRecord
           /\ job'[j].bundle = job[j].bundle
           /\ \/ Exec!K(j) = 4 /\ job'[j].step = "bound" /\ job'[j].ordinal = 4
              \/ Exec!K(j) # 4 /\ job'[j].step = "start" /\ job'[j].ordinal = Exec!K(j) + 1
  <1> DEFINE next == [job[j] EXCEPT !.step = IF Exec!K(j) = 4 THEN "bound" ELSE "start",
                                    !.ordinal = IF Exec!K(j) = 4 THEN 4 ELSE Exec!K(j) + 1]
  <1>1. job[j] \in JobRecord /\ Exec!K(j) \in Exec!Ordinals
    BY DEF JobRecord, Exec!K
  <1>2. job' = [job EXCEPT ![j] = next]
    BY <1>1 DEF Exec!Advance, JobRecord, Exec!K
  <1>3. /\ next \in JobRecord /\ next.bundle = job[j].bundle
        /\ \/ Exec!K(j) = 4 /\ next.step = "bound" /\ next.ordinal = 4
           \/ Exec!K(j) # 4 /\ next.step = "start" /\ next.ordinal = Exec!K(j) + 1
    <2>1. CASE Exec!K(j) = 4
      BY <1>1, <2>1 DEF JobRecord, JobSteps, Exec!Ordinals
    <2>2. CASE Exec!K(j) # 4
      <3>1. Exec!K(j) + 1 \in Exec!Ordinals
        BY <1>1, <2>2 DEF Exec!Ordinals
      <3> QED BY <1>1, <2>2, <3>1 DEF JobRecord, JobSteps
    <2> QED BY <2>1, <2>2
  <1> HIDE DEF next
  <1>4. job'[j] = next
    BY <1>2
  <1> QED BY <1>2, <1>3, <1>4

\* The evidence of an effect is recorded; what is complete may only be recorded complete.
LEMMA RecordedKeeps ==
    ASSUME DeliveryInv, NEW j \in Jobs, job[j].step # "idle",
           NEW state \in EvidenceStates,
           \/ Exec!Recorded(j, state) /\ (Exec!State(j) = "completed" => state = "completed")
           \/ Exec!Excused(j, state)
    PROVE  /\ evidence' \in [Exec!Ordinals -> EvidenceRecord]
           /\ \A k \in Exec!Ordinals :
                 evidence[k].state = "completed" => evidence'[k].state = "completed"
  <1>1. /\ evidence \in [Exec!Ordinals -> EvidenceRecord] /\ Exec!K(j) \in Exec!Ordinals
        /\ Exec!Plan(j) \in bundles \cup {None} /\ now \in Nat
    BY OfJob DEF Exec!Plan
  <1>2. CASE UNCHANGED evidence
    BY <1>1, <1>2
  <1>3. CASE Exec!Recorded(j, state) /\ (Exec!State(j) = "completed" => state = "completed")
    <2> DEFINE new == [plan |-> Exec!Plan(j), state |-> state, at |-> now]
    <2>1. new \in EvidenceRecord /\ new.state = state
      BY <1>1 DEF EvidenceRecord
    <2> HIDE DEF new
    <2>2. evidence' = [evidence EXCEPT ![Exec!K(j)] = new]
      BY <1>3 DEF Exec!Recorded, new
    <2>3. /\ evidence'[Exec!K(j)] = new
          /\ \A k \in Exec!Ordinals : k # Exec!K(j) => evidence'[k] = evidence[k]
      BY <1>1, <2>2
    <2> QED BY <1>1, <1>3, <2>1, <2>2, <2>3 DEF Exec!State
  <1>4. CASE Exec!Excused(j, state)
    <2>1. CASE Exec!Claimed(j)
      <3>1. Exec!Recorded(j, state) /\ Exec!State(j) = "pending"
        BY <1>4, <2>1 DEF Exec!Excused, Exec!Claimed
      <3> QED BY <1>3, <3>1
    <2>2. CASE ~ Exec!Claimed(j)
      <3>1. UNCHANGED evidence
        BY <1>4, <2>2 DEF Exec!Excused
      <3> QED BY <1>2, <3>1
    <2> QED BY <2>1, <2>2
  <1> QED BY <1>2, <1>3, <1>4

\* What is left of a job that ends, or goes on at the same effect, is complete behind it.
LEMMA BehindKeeps ==
    ASSUME NEW j \in Jobs, Behind(j), Exec!K(j) \in Exec!Ordinals,
           \A k \in Exec!Ordinals :
              evidence[k].state = "completed" => evidence'[k].state = "completed",
           \/ job'[j].step # "bound" /\ job'[j].ordinal = 1
           \/ job'[j].ordinal = Exec!K(j) /\ job'[j].step # "bound"
           \/ /\ evidence'[Exec!K(j)].state = "completed"
              /\ \/ Exec!K(j) = 4 /\ job'[j].ordinal = 4
                 \/ job'[j].step # "bound" /\ job'[j].ordinal = Exec!K(j) + 1
    PROVE  Behind(j)'
  <1> SUFFICES ASSUME NEW k \in Exec!Ordinals, k < job'[j].ordinal \/ job'[j].step = "bound"
               PROVE  evidence'[k].state = "completed"
    BY DEF Behind
  <1>1. k < Exec!K(j) => evidence[k].state = "completed"
    BY DEF Behind, Exec!K
  <1> QED BY <1>1 DEF Exec!Ordinals

LEMMA ReadingKeeps ==
    ASSUME DeliveryInv, NEW j \in Jobs,
           Exec!Consume(j) \/ Exec!ReadCurrent(j) \/ Exec!Snapshot(j) \/ Exec!DieJob(j)
    PROVE  DeliveryInv'
  <1>1. UNCHANGED <<now, Exec!authority, evidence, github, decided, told>>
    BY DEF Exec!Consume, Exec!ReadCurrent, Exec!Snapshot, Exec!DieJob, Exec!JobOnly
  <1>2. /\ job \in [Jobs -> JobRecord] /\ job[j] \in JobRecord /\ github \in GitHubRecord
        /\ Stacked /\ Behind(j) /\ Exec!K(j) \in Exec!Ordinals
        /\ job[j].step # "idle" => Exec!B(j) \in bundles
    BY OfJob
  <1>3. /\ job' = [job EXCEPT ![j] = job'[j]] /\ job'[j] \in JobRecord
        /\ job'[j].step # "idle" => job'[j].bundle \in bundles
        /\ \/ job'[j].step # "bound" /\ job'[j].ordinal = 1
           \/ job'[j].ordinal = Exec!K(j) /\ job'[j].step # "bound"
    <2>1. CASE Exec!Consume(j)
      <3>1. PICK b \in bundles :
               job' = [job EXCEPT ![j] = [Exec!NoJob EXCEPT !.step = "resolved", !.bundle = b]]
        BY <2>1 DEF Exec!Consume
      <3> DEFINE next == [step |-> "resolved", bundle |-> b, ordinal |-> 1, read |-> None]
      <3>2. next \in JobRecord /\ next.step = "resolved" /\ next.bundle = b /\ next.ordinal = 1
        BY DEF JobRecord, JobSteps, Exec!Ordinals
      <3>3. job[j].step = "idle" /\ job' = [job EXCEPT ![j] = next]
        BY <2>1, <3>1 DEF Exec!Consume, Exec!NoJob
      <3> HIDE DEF next
      <3>4. job'[j] = next
        BY <1>2, <3>3
      <3>5. job'[j].ordinal = 1 /\ job'[j].step # "bound" /\ job'[j].step # "idle"
        BY <3>2, <3>4
      <3> QED BY <3>2, <3>3, <3>4, <3>5
    <2>2. CASE Exec!ReadCurrent(j)
      <3> DEFINE s == IF github.binding = None THEN "snapshot" ELSE "start"
                 next == [job[j] EXCEPT !.read = github.binding, !.step = s]
      <3>1. job' = [job EXCEPT ![j] = next] /\ job[j].step = "resolved"
        BY <1>2, <2>2 DEF Exec!ReadCurrent, JobRecord
      <3>2. /\ next \in JobRecord /\ next.step = s
            /\ next.bundle = Exec!B(j) /\ next.ordinal = Exec!K(j)
        BY <1>2 DEF JobRecord, JobSteps, GitHubRecord, Exec!K, Exec!B
      <3> HIDE DEF next
      <3>3. job'[j] = next
        BY <1>2, <3>1
      <3> QED BY <1>2, <3>1, <3>2, <3>3
    <2>3. CASE Exec!Snapshot(j)
      <3>1. CASE Exec!EndJob(j)
        BY <1>2, <3>1, Ended
      <3>2. CASE Exec!Goto(j, "start") /\ job[j].step # "idle"
        BY <1>2, <3>2, Gone DEF JobSteps, Exec!K, Exec!B
      <3> QED BY <2>3, <3>1, <3>2 DEF Exec!Snapshot
    <2>4. CASE Exec!DieJob(j)
      BY <1>2, <2>4, Ended DEF Exec!DieJob
    <2> QED BY <2>1, <2>2, <2>3, <2>4
  <1>4. Behind(j)'
    BY <1>1, <1>2, <1>3, BehindKeeps
  <1>5. evidence' \in [Exec!Ordinals -> EvidenceRecord] /\ github' \in GitHubRecord /\ Stacked'
    BY <1>1, OfJob DEF Stacked
  <1> QED BY <1>1, <1>3, <1>4, <1>5, JobKeeps

LEMMA BeginKeeps ==
    ASSUME DeliveryInv, NEW j \in Jobs, Exec!Begin(j)
    PROVE  DeliveryInv'
  <1>1. UNCHANGED <<now, Exec!authority, github, decided, told>> /\ job[j].step = "start"
    BY DEF Exec!Begin
  <1>2. /\ job \in [Jobs -> JobRecord] /\ evidence \in [Exec!Ordinals -> EvidenceRecord]
        /\ github \in GitHubRecord /\ Stacked /\ Behind(j) /\ Exec!K(j) \in Exec!Ordinals
        /\ Exec!B(j) \in bundles
    BY <1>1, OfJob
  <1>3. \/ Exec!EndJob(j) /\ UNCHANGED evidence
        \/ Exec!Advance(j) /\ UNCHANGED evidence /\ Exec!State(j) = "completed"
        \/ Exec!Advance(j) /\ Exec!Recorded(j, "completed")
        \/ Exec!Goto(j, "claimed") /\ Exec!Recorded(j, "pending") /\ Exec!State(j) # "completed"
    BY <1>2 DEF Exec!Begin, EvidenceRecord, EvidenceStates, Exec!State
  <1>4. /\ evidence' \in [Exec!Ordinals -> EvidenceRecord]
        /\ \A k \in Exec!Ordinals :
              evidence[k].state = "completed" => evidence'[k].state = "completed"
    BY <1>1, <1>2, <1>3, RecordedKeeps DEF EvidenceStates
  <1>5. Exec!Recorded(j, "completed") => evidence'[Exec!K(j)].state = "completed"
    BY <1>2 DEF Exec!Recorded
  <1>6. /\ job' = [job EXCEPT ![j] = job'[j]] /\ job'[j] \in JobRecord
        /\ job'[j].step # "idle" => job'[j].bundle \in bundles
        /\ \/ job'[j].step # "bound" /\ job'[j].ordinal = 1
           \/ job'[j].ordinal = Exec!K(j) /\ job'[j].step # "bound"
           \/ /\ evidence'[Exec!K(j)].state = "completed"
              /\ \/ Exec!K(j) = 4 /\ job'[j].ordinal = 4
                 \/ job'[j].step # "bound" /\ job'[j].ordinal = Exec!K(j) + 1
    <2>1. CASE Exec!EndJob(j)
      BY <1>2, <2>1, Ended
    <2>2. CASE Exec!Goto(j, "claimed")
      BY <1>2, <2>2, Gone DEF JobSteps, Exec!K, Exec!B
    <2>3. CASE Exec!Advance(j) /\ evidence'[Exec!K(j)].state = "completed"
      BY <1>1, <1>2, <2>3, Advanced DEF Exec!B
    <2> QED BY <1>2, <1>3, <1>4, <1>5, <2>1, <2>2, <2>3 DEF Exec!State
  <1>7. Behind(j)'
    BY <1>2, <1>4, <1>6, BehindKeeps
  <1>8. Stacked'
    BY <1>1, <1>2 DEF Stacked
  <1> QED BY <1>1, <1>2, <1>4, <1>6, <1>7, <1>8, JobKeeps

\* The effects are put on each other in their order, and the binding once.
LEMMA AppliedStacks ==
    ASSUME DeliveryInv, NEW j \in Jobs, job[j].step # "idle", Exec!Targets(j),
           github' = github \/ github' = Exec!Applied(j)
    PROVE  /\ github' \in [branch : BOOLEAN, commit : bundles \cup {None},
                           pull : bundles \cup {None}, binding : bundles \cup {None}]
           /\ Stacked'
           /\ github.binding # None => github'.binding = github.binding
  <1>1. /\ github \in GitHubRecord /\ Stacked /\ Exec!K(j) \in Exec!Ordinals
        /\ Exec!B(j) \in bundles /\ Exec!B(j) # None
    BY OfJob
  <1>2. CASE github' = github
    BY <1>1, <1>2 DEF GitHubRecord, Stacked
  <1> USE DEF GitHubRecord, Stacked, Exec!Targets, Exec!Applied
  <1>3. CASE Exec!K(j) = 1 /\ github' = Exec!Applied(j)
    <2>1. github' = [github EXCEPT !.branch = TRUE]
      BY <1>3
    <2>2. /\ github' \in GitHubRecord /\ github'.branch = TRUE /\ github'.commit = github.commit
          /\ github'.pull = github.pull /\ github'.binding = github.binding
      BY <1>1, <2>1
    <2> QED BY <1>1, <2>2
  <1>4. CASE Exec!K(j) = 2 /\ github' = Exec!Applied(j)
    BY <1>1, <1>4
  <1>5. CASE Exec!K(j) = 3 /\ github' = Exec!Applied(j)
    BY <1>1, <1>5
  <1>6. CASE Exec!K(j) = 4 /\ github' = Exec!Applied(j)
    BY <1>1, <1>6
  <1> QED BY <1>1, <1>2, <1>3, <1>4, <1>5, <1>6 DEF Exec!Ordinals

LEMMA WriteKeeps ==
    ASSUME DeliveryInv, NEW j \in Jobs, Exec!Write(j)
    PROVE  DeliveryInv'
  <1>1. UNCHANGED <<now, Exec!authority, told>> /\ job[j].step = "claimed"
    BY DEF Exec!Write
  <1>2. /\ job \in [Jobs -> JobRecord] /\ evidence \in [Exec!Ordinals -> EvidenceRecord]
        /\ github \in GitHubRecord /\ Stacked /\ Behind(j) /\ Exec!K(j) \in Exec!Ordinals
        /\ Exec!B(j) \in bundles
    BY <1>1, OfJob
  <1>3. /\ Exec!EndJob(j) \/ Exec!Goto(j, "applied")
        /\ UNCHANGED evidence \/ Exec!Excused(j, "partial") \/ Exec!Excused(j, "rejected")
        /\ \/ UNCHANGED <<github, decided>>
           \/ /\ Exec!Targets(j) /\ Exec!Fresh(Exec!B(j)) /\ github' \in {github, Exec!Applied(j)}
              /\ decided' = [decided EXCEPT ![Exec!B(j).nonce] = now]
    BY DEF Exec!Write
  <1>4. /\ evidence' \in [Exec!Ordinals -> EvidenceRecord]
        /\ \A k \in Exec!Ordinals :
              evidence[k].state = "completed" => evidence'[k].state = "completed"
    BY <1>1, <1>2, <1>3, RecordedKeeps DEF EvidenceStates
  <1>5. /\ github' \in GitHubRecord /\ Stacked'
        /\ github.binding # None => github'.binding = github.binding
    <2>1. CASE UNCHANGED github
      BY <1>2, <2>1 DEF Stacked
    <2>2. CASE Exec!Targets(j) /\ github' \in {github, Exec!Applied(j)}
      BY <1>1, <2>2, AppliedStacks DEF GitHubRecord
    <2> QED BY <1>3, <2>1, <2>2
  <1>6. /\ job' = [job EXCEPT ![j] = job'[j]] /\ job'[j] \in JobRecord
        /\ job'[j].step # "idle" => job'[j].bundle \in bundles
        /\ \/ job'[j].step # "bound" /\ job'[j].ordinal = 1
           \/ job'[j].ordinal = Exec!K(j) /\ job'[j].step # "bound"
    <2>1. CASE Exec!EndJob(j)
      BY <1>2, <2>1, Ended
    <2>2. CASE Exec!Goto(j, "applied")
      BY <1>2, <2>2, Gone DEF JobSteps, Exec!K, Exec!B
    <2> QED BY <1>3, <2>1, <2>2
  <1>7. Behind(j)'
    BY <1>2, <1>4, <1>6, BehindKeeps
  <1>8. \/ decided' = decided
        \/ /\ Exec!B(j) \in bundles /\ Exec!Fresh(Exec!B(j))
           /\ decided' = [decided EXCEPT ![Exec!B(j).nonce] = now]
    BY <1>2, <1>3
  <1> QED BY <1>1, <1>4, <1>5, <1>6, <1>7, <1>8, JobKeeps

LEMMA CompleteKeeps ==
    ASSUME DeliveryInv, NEW j \in Jobs, Exec!Complete(j)
    PROVE  DeliveryInv'
  <1>1. UNCHANGED <<now, Exec!authority, github, decided, told>> /\ job[j].step = "applied"
    BY DEF Exec!Complete
  <1>2. /\ job \in [Jobs -> JobRecord] /\ evidence \in [Exec!Ordinals -> EvidenceRecord]
        /\ github \in GitHubRecord /\ Stacked /\ Behind(j) /\ Exec!K(j) \in Exec!Ordinals
        /\ Exec!B(j) \in bundles
    BY <1>1, OfJob
  <1>3. \/ Exec!EndJob(j) /\ Exec!Excused(j, "partial")
        \/ Exec!Advance(j) /\ Exec!Recorded(j, "completed")
    BY DEF Exec!Complete
  <1>4. /\ evidence' \in [Exec!Ordinals -> EvidenceRecord]
        /\ \A k \in Exec!Ordinals :
              evidence[k].state = "completed" => evidence'[k].state = "completed"
    BY <1>1, <1>2, <1>3, RecordedKeeps DEF EvidenceStates
  <1>5. Exec!Recorded(j, "completed") => evidence'[Exec!K(j)].state = "completed"
    BY <1>2 DEF Exec!Recorded
  <1>6. /\ job' = [job EXCEPT ![j] = job'[j]] /\ job'[j] \in JobRecord
        /\ job'[j].step # "idle" => job'[j].bundle \in bundles
        /\ \/ job'[j].step # "bound" /\ job'[j].ordinal = 1
           \/ /\ evidence'[Exec!K(j)].state = "completed"
              /\ \/ Exec!K(j) = 4 /\ job'[j].ordinal = 4
                 \/ job'[j].step # "bound" /\ job'[j].ordinal = Exec!K(j) + 1
    <2>1. CASE Exec!EndJob(j)
      BY <1>2, <2>1, Ended
    <2>2. CASE Exec!Advance(j) /\ evidence'[Exec!K(j)].state = "completed"
      BY <1>1, <1>2, <2>2, Advanced DEF Exec!B
    <2> QED BY <1>3, <1>5, <2>1, <2>2
  <1>7. Behind(j)'
    BY <1>2, <1>4, <1>6, BehindKeeps
  <1>8. Stacked'
    BY <1>1, <1>2 DEF Stacked
  <1> QED BY <1>1, <1>2, <1>4, <1>6, <1>7, <1>8, JobKeeps

LEMMA TellKeeps ==
    ASSUME DeliveryInv, NEW j \in Jobs, Exec!Tell(j)
    PROVE  DeliveryInv'
  <1>1. /\ UNCHANGED <<now, Exec!authority, evidence, github, decided>>
        /\ job[j].step = "bound" /\ Exec!EndJob(j)
    BY DEF Exec!Tell
  <1>2. /\ job \in [Jobs -> JobRecord] /\ evidence \in [Exec!Ordinals -> EvidenceRecord]
        /\ github \in GitHubRecord /\ Stacked /\ Behind(j) /\ Exec!K(j) \in Exec!Ordinals
        /\ Exec!B(j) \in bundles
    BY <1>1, OfJob
  <1>3. /\ job' = [job EXCEPT ![j] = job'[j]] /\ job'[j] \in JobRecord
        /\ job'[j].step = "idle" /\ job'[j].ordinal = 1
    BY <1>1, <1>2, Ended
  <1>4. Behind(j)'
    BY <1>1, <1>2, <1>3, BehindKeeps
  <1>5. AllComplete
    BY <1>1, <1>2 DEF Behind, AllComplete
  <1>6. \/ told' = told
        \/ /\ Exec!B(j) \in bundles /\ AllComplete /\ github'.binding = Exec!B(j)
           /\ told' = told \cup {Exec!B(j)}
    BY <1>1, <1>2, <1>5 DEF Exec!Tell
  <1>7. Stacked'
    BY <1>1, <1>2 DEF Stacked
  <1> QED BY <1>1, <1>2, <1>3, <1>4, <1>6, <1>7, JobKeeps

\* However many jobs deliver however many bundles, and whatever they leave half done: no
\* effect is decided beyond the age and the lease of what authorized it, and a delivery
\* that is told stands whole, with its evidence complete, and stays so.
THEOREM DeliveredWithinAuthority == PartsSpec => []DeliveryWithinAuthority
  <1>1. PartsInit => DeliveryInv
    <2> SUFFICES ASSUME Exec!Init
                 PROVE  DeliveryInv
      BY DEF PartsInit
    <2>1. AuthorityTyped
      BY AuthorityFacts DEF Exec!Init, AuthorityTyped
    <2>2. DeliveryTyped
      BY
         DEF Exec!Init, DeliveryTyped, JobRecord, EvidenceRecord, GitHubRecord, Exec!NoJob,
             JobSteps,
             EvidenceStates, Exec!Ordinals
    <2>3. Decided
      BY DEF Exec!Init, Decided
    <2>4. Delivered
      BY DEF Exec!Init, Delivered, Stacked, Behind, Exec!NoJob, Exec!Ordinals
    <2> QED BY <2>1, <2>2, <2>3, <2>4 DEF DeliveryInv
  <1>2. ASSUME DeliveryInv, [PartsNext]_<<part, vars, execution, handoff, installation>>
        PROVE  DeliveryInv'
    <2>1. CASE UNCHANGED execution
      <3>1. UNCHANGED <<now, states, redeemed, asks, held, bundles, job, evidence, github,
                        decided, told>>
        BY <2>1 DEF execution
      <3>2. AuthorityTyped' /\ \A b \in held' \cup bundles' : InTime(b)'
        BY <1>2, <3>1 DEF DeliveryInv, AuthorityTyped, Decided, Redeemed, InTime, Exec!Expires
      <3>3. \A b, c \in held' \cup bundles' : b.nonce = c.nonce => b = c
        BY <1>2, <3>1 DEF DeliveryInv, Decided
      <3> QED BY <1>2, <3>1, <3>2, <3>3, AuthorityKeeps
    <2>2. CASE Exec!Tick \/ Exec!Publish \/ Exec!Revoke \/ Exec!MoveBase \/ Exec!Evaluate
      BY <1>2, <2>2, OthersKeep
    <2>3. CASE \E a \in asks : Exec!Redeem(a)
      BY <1>2, <2>3, RedeemKeeps
    <2>4. CASE \E b \in held : Exec!Handoff(b)
      BY <1>2, <2>4, HandoffKeeps
    <2>5. ASSUME NEW j \in Jobs, Exec!JobStep(j)
          PROVE  DeliveryInv'
      BY <1>2, <2>5, ReadingKeeps, BeginKeeps, WriteKeeps, CompleteKeeps, TellKeeps
         DEF Exec!JobStep
    <2> QED BY <1>2, <2>1, <2>2, <2>3, <2>4, <2>5 DEF PartsNext, Exec!Next
  <1>3. DeliveryInv => DeliveryWithinAuthority
    <2> SUFFICES ASSUME DeliveryInv
                 PROVE  Exec!TypeOK /\ Exec!DeliveryWithinAuthority
      BY DEF DeliveryWithinAuthority
    <2>1. \A b \in bundles : /\ decided[b.nonce] =< b.redeemed + MaxAge
                             /\ decided[b.nonce] < Exec!Expires(b.nonce)
      BY DEF DeliveryInv, Decided, InTime
    <2>2. ASSUME NEW b \in told
          PROVE  /\ github = [branch |-> TRUE, commit |-> b, pull |-> b, binding |-> b]
                 /\ \A k \in Exec!Ordinals : evidence[k].state = "completed"
      <3>1. /\ github.binding = b /\ b # None /\ Stacked /\ AllComplete /\ github \in GitHubRecord
        BY AuthorityFacts, <2>2
           DEF DeliveryInv, AuthorityTyped, DeliveryTyped, Delivered, Redeemed
      <3>2. github.branch = TRUE /\ github.commit = b /\ github.pull = b
        BY <3>1 DEF Stacked, GitHubRecord
      <3> QED BY <3>1, <3>2 DEF GitHubRecord, AllComplete
    <2>3. Exec!TypeOK
      BY
         DEF DeliveryInv, AuthorityTyped, DeliveryTyped, Delivered, Redeemed, JobRecord,
             JobSteps,
             GitHubRecord, Exec!TypeOK
    <2> QED BY <2>1, <2>2, <2>3 DEF Exec!DeliveryWithinAuthority
  <1> QED BY <1>1, <1>2, <1>3, PTL DEF PartsSpec
=============================================================================
