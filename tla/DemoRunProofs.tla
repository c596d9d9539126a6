---------------------------- MODULE DemoRunProofs ----------------------------
(* Proofs about the two components of MCDemoRun: the opening of a store file, *)
(* for every set of openers and identities, and the durable progress of a     *)
(* demo run, for every journey, lifecycle and set of workers.                 *)
EXTENDS MCDemoRun, TLAPS, SequenceTheorems, WellFoundedInduction

-----------------------------------------------------------------------------
(* Opening a store file. *)

\* Where an opener stands, it has seen or made what its next statement relies on:
\* the lock it works under, a file that has an identity unless it made one itself,
\* and a format version and an identity that are its own.
Opened(p) ==
    /\ at[p] \in {"provisioning", "committing"} => lock = p
    /\ made[p] => at[p] = "committing" /\ version = 0
    /\ at[p] = "committing" /\ ~ made[p] => version = Format[p]
    /\ at[p] \in {"binding", "open"} => version = Format[p]
    /\ at[p] = "open" => meta = Wanted[p]
    /\ at[p] # "STORE_CORRUPT"

OpenInv == /\ Open!TypeOK
           /\ (version = 0) <=> (meta = NoIdentity)
           /\ \A p \in Openers : Opened(p)

\* A file that is whole stays as it is; one that is not becomes whole.
Written == \/ version' = version /\ meta' = meta
           \/ version = 0 /\ \E p \in Openers : version' = Format[p] /\ meta' = Wanted[p]

LEMMA Formats ==
    ASSUME NEW p \in Openers
    PROVE  /\ Format[p] \in Nat /\ Format[p] # 0
           /\ Wanted[p] \in Identities /\ Wanted[p] # NoIdentity
           /\ p # NoProcess
  BY OpenAssumption

\* The other openers do not notice, but for the first identity of the file.
LEMMA OtherOpeners ==
    ASSUME OpenInv, NEW p \in Openers, NEW q \in Openers \ {p},
           at'[q] = at[q], made'[q] = made[q], lock = q => lock' = q,
           Written, version' # version => lock = p
    PROVE  Opened(q)'
  BY Formats DEF OpenInv, Opened, Written

LEMMA OpenedAtFirst == Open!Init => OpenInv
  BY Formats DEF Open!Init, OpenInv, Opened, Open!TypeOK, Open!Ended

\* What a step of an opener leaves alone, and what it must look to.
Alone(p) ==
    /\ \A q \in Openers \ {p} : /\ (at')[q] = at[q] /\ (made')[q] = made[q]
                                /\ lock = q => lock' = q
    /\ Written /\ (version' # version => lock = p)

LEMMA OpenKeeps ==
    ASSUME OpenInv, NEW p \in Openers, Open!TypeOK', Alone(p), Opened(p)'
    PROVE  OpenInv'
  <1>1. ASSUME NEW q \in Openers
        PROVE  Opened(q)'
    <2>1. CASE q = p
      BY <2>1
    <2>2. CASE q # p
      BY <2>2, OtherOpeners DEF Alone
    <2> QED BY <2>1, <2>2
  <1>2. ((version = 0) <=> (meta = NoIdentity))'
    BY Formats DEF OpenInv, Alone, Written
  <1> QED BY <1>1, <1>2 DEF OpenInv

LEMMA OpenStep == OpenInv /\ [Open!Next]_file => OpenInv'
  <1> SUFFICES ASSUME OpenInv, [Open!Next]_file PROVE OpenInv'
    OBVIOUS
  <1>s. CASE UNCHANGED file
    BY <1>s DEF file, OpenInv, Opened, Open!TypeOK
  <1>n. ASSUME NEW p \in Openers, Open!Probe(p) \/ Open!Statement(p) \/ Open!Die(p)
        PROVE  OpenInv'
    <2>1. /\ at \in [Openers -> Open!Ended \cup {"closed", "waiting", "provisioning",
                                                 "committing", "binding"}]
          /\ made \in [Openers -> BOOLEAN]
          /\ lock \in Openers \cup {NoProcess}
          /\ meta \in Identities \cup {NoIdentity}
          /\ version \in {0} \cup {Format[q] : q \in Openers}
      BY DEF OpenInv, Open!TypeOK
    <2>2. /\ Opened(p) /\ ((version = 0) <=> (meta = NoIdentity))
          /\ Open!TypeOK
      BY DEF OpenInv
    <2>p. CASE Open!Probe(p)
      <3>1. Alone(p)
        BY <2>1, <2>p
        DEF Open!Probe, Alone, Written
      <3>1t. Open!TypeOK'
        BY <2>1, <2>p
        DEF Open!Probe, Open!TypeOK, Open!Ended
      <3>2. Opened(p)'
        BY <2>1, <2>2, <2>p, Formats DEF Open!Probe, Open!Ended, Opened
      <3> QED BY <3>1, <3>1t, <3>2, OpenKeeps
    <2>b. CASE Open!BeginImmediate(p)
      <3>1. Alone(p)
        BY <2>1, <2>b, Formats
        DEF Open!BeginImmediate, Open!LockFree, Alone, Written
      <3>1t. Open!TypeOK'
        BY <2>1, <2>b, Formats
        DEF Open!BeginImmediate, Open!LockFree, Open!TypeOK, Open!Ended
      <3>2. Opened(p)'
        BY <2>1, <2>2, <2>b DEF Open!BeginImmediate, Opened
      <3> QED BY <3>1, <3>1t, <3>2, OpenKeeps
    <2>y. CASE Open!Busy(p)
      <3>1. Alone(p)
        BY <2>1, <2>y
        DEF Open!Busy, Alone, Written
      <3>1t. Open!TypeOK'
        BY <2>1, <2>y
        DEF Open!Busy, Open!TypeOK, Open!Ended
      <3>2. Opened(p)'
        BY <2>1, <2>2, <2>y DEF Open!Busy, Opened
      <3> QED BY <3>1, <3>1t, <3>2, OpenKeeps
    <2>v. CASE Open!Provision(p)
      <3>1. lock = p
        BY <2>2, <2>v DEF Open!Provision, Opened
      <3>2. Alone(p)
        BY <2>1, <2>v, <3>1
        DEF Open!Provision, Open!VersionNow, Alone, Written
      <3>2t. Open!TypeOK'
        BY <2>1, <2>v, <3>1
        DEF Open!Provision, Open!VersionNow, Open!TypeOK, Open!Ended
      <3>3. Opened(p)'
        BY <2>1, <2>2, <2>v, <3>1, Formats DEF Open!Provision, Open!VersionNow, Opened
      <3> QED BY <3>2, <3>2t, <3>3, OpenKeeps
    <2>c. CASE Open!Commit(p) \/ Open!CommitUnacknowledged(p)
      <3>1. /\ lock = p /\ at[p] = "committing"
            /\ made[p] => version = 0
            /\ ~ made[p] => version = Format[p]
        BY <2>2, <2>c DEF Open!Commit, Open!CommitUnacknowledged, Opened
      <3>2. PICK next \in {"binding", "ambiguous"} :
                /\ Open!Release(p, next)
                /\ Open!Land(p) \/ (next = "ambiguous" /\ UNCHANGED <<version, meta>>)
        BY <2>c DEF Open!Commit, Open!CommitUnacknowledged
      <3>3. Written
        BY <3>1, <3>2 DEF Open!Land, Written
      <3>4. Alone(p)
        BY <2>1, <3>1, <3>2, <3>3, Formats
        DEF Open!Release, Open!Land, Alone
      <3>4t. Open!TypeOK'
        BY <2>1, <3>1, <3>2, <3>3, Formats
        DEF Open!Release, Open!Land, Open!TypeOK, Open!Ended
      <3>5. Opened(p)'
        BY <2>1, <2>2, <3>1, <3>2, Formats DEF Open!Release, Open!Land, Opened
      <3> QED BY <3>4, <3>4t, <3>5, OpenKeeps
    <2>i. CASE Open!Bind(p)
      <3>1. Alone(p)
        BY <2>1, <2>i
        DEF Open!Bind, Open!BindingHolds, Alone, Written
      <3>1t. Open!TypeOK'
        BY <2>1, <2>i
        DEF Open!Bind, Open!BindingHolds, Open!TypeOK, Open!Ended
      <3>2. Opened(p)'
        BY <2>1, <2>2, <2>i, Formats DEF Open!Bind, Open!BindingHolds, Opened
      <3> QED BY <3>1, <3>1t, <3>2, OpenKeeps
    <2>d. CASE Open!Die(p)
      <3>1. Written /\ (version' # version => lock = p)
        BY <2>2, <2>d DEF Open!Die, Open!Land, Opened, Written
      <3>2. Alone(p)
        BY <2>1, <2>d, <3>1, Formats
        DEF Open!Die, Open!Land, Alone
      <3>2t. Open!TypeOK'
        BY <2>1, <2>d, <3>1, Formats
        DEF Open!Die, Open!Land, Open!TypeOK, Open!Ended
      <3>3. Opened(p)'
        BY <2>1, <2>d DEF Open!Die, Opened
      <3> QED BY <3>2, <3>2t, <3>3, OpenKeeps
    <2> QED BY <1>n, <2>p, <2>b, <2>y, <2>v, <2>c, <2>i, <2>d DEF Open!Statement
  <1> QED BY <1>s, <1>n DEF Open!Next

\* A file that is provisioned by openers of any number, releases and deployments
\* is provisioned whole or not at all, and those that are in agree on what they
\* opened (ProvisionedWhole), whatever became of the transactions on the way.
THEOREM OpenedWhole == PartsSpec => []ProvisionedWhole
  <1>1. PartsInit => OpenInv
    BY OpenedAtFirst DEF PartsInit
  <1>2. OpenInv /\ [PartsNext]_PartsVars => OpenInv'
    <2>1. [PartsNext]_PartsVars => [Open!Next]_file
      BY DEF PartsNext, PartsVars
    <2> QED BY <2>1, OpenStep
  <1>3. OpenInv => ProvisionedWhole
    BY DEF OpenInv, Opened, ProvisionedWhole, Open!ProvisionedWhole
  <1> QED BY <1>1, <1>2, <1>3, PTL DEF PartsSpec
-----------------------------------------------------------------------------
(* Following the receipts.  Each of them raises the stage, so that what holds  *)
(* of the end of a run of receipts holds by induction on the stages that are   *)
(* left: the induction is by least counterexample.                             *)

\* Where the receipts lead: the run state the recursion of Current defines.
Follow(rs) == CHOOSE f : f = [run \in RunStates |->
                                 IF run \in DOMAIN rs THEN f[rs[run]] ELSE run]

\* A receipt is for one run state and leads to the next stage.
Raises(rs) == \A r \in DOMAIN rs : r \in RunStates /\ rs[r] \in RunStates
                                   /\ rs[r].stage = r.stage + 1

LEMMA CurrentFollows == Current = Follow(receipts)[StoredRun]
  BY DEF Current, Follow

LEMMA Stages ==
    /\ DOMAIN Journey = 1 .. Len(Journey) /\ Len(Journey) \in Nat \ {0}
    /\ \A s \in DOMAIN Journey : Journey[s] \in States
  BY JourneyAssumption

LEMMA RunStateTyped ==
    ASSUME NEW r \in RunStates
    PROVE  /\ r.core \in Nat /\ r.stage \in 1 .. Len(Journey) /\ r.generation \in Nat
           /\ r = [core |-> r.core, stage |-> r.stage, generation |-> r.generation]
  BY Stages DEF RunStates

LEMMA LeastNatural ==
    ASSUME NEW T, T \subseteq Nat, T # {}
    PROVE  \E m \in T : \A n \in T : m <= n
  <1> DEFINE R == {p \in Nat \X Nat : p[1] < p[2]}
  <1>1. IsWellFoundedOn(R, Nat)
    BY NatLessThanWellFounded DEF OpToRel
  <1>2. PICK m \in T : \A n \in T : ~ (<<n, m>> \in R)
    BY <1>1, WFMin
  <1>3. ASSUME NEW n \in T PROVE m <= n
    <2>1. m \in Nat /\ n \in Nat
      OBVIOUS
    <2>2. n < m => <<n, m>> \in R
      BY <2>1
    <2> QED BY <1>2, <2>1, <2>2
  <1> QED BY <1>3

\* What holds of a run state when it holds of the one its receipt leads to,
\* holds of every run state.
LEMMA StageInduction ==
    ASSUME NEW rs, Raises(rs), NEW X,
           \A r \in RunStates : (r \in DOMAIN rs => rs[r] \in X) => r \in X
    PROVE  RunStates \subseteq X
  <1> SUFFICES ASSUME NEW q \in RunStates \ X PROVE FALSE
    OBVIOUS
  <1> DEFINE Left(r) == Len(Journey) - r.stage
             T == {Left(r) : r \in RunStates \ X}
  <1>1. T \subseteq Nat /\ T # {}
    BY RunStateTyped, Stages
  <1>2. PICK m \in T : \A n \in T : m <= n
    BY <1>1, LeastNatural
  <1>3. PICK r \in RunStates \ X : m = Left(r)
    OBVIOUS
  <1>4. CASE r \in DOMAIN rs
    <2>1. rs[r] \in RunStates /\ rs[r].stage = r.stage + 1
      BY <1>4 DEF Raises
    <2>2. r.stage \in Nat /\ Len(Journey) \in Nat
      BY RunStateTyped, Stages
    <2>3. Left(rs[r]) < m
      BY <1>3, <2>1, <2>2
    <2>4. rs[r] \notin X
      BY <1>4
    <2>5. Left(rs[r]) \in T
      BY <2>1, <2>4
    <2>6. m <= Left(rs[r])
      BY <1>2, <2>5
    <2> QED BY <1>3, <2>1, <2>2, <2>3, <2>6
  <1> QED BY <1>4

\* The recursion has a solution: it is correct up to one more stage, and one more.
FollowsFrom(rs, f, m) ==
    /\ f \in [RunStates -> RunStates]
    /\ \A r \in RunStates : Len(Journey) - r.stage < m =>
           f[r] = IF r \in DOMAIN rs THEN f[rs[r]] ELSE r

LEMMA FollowsOneMore ==
    ASSUME NEW rs, Raises(rs), NEW m \in Nat, NEW f, FollowsFrom(rs, f, m)
    PROVE  \E g : FollowsFrom(rs, g, m + 1)
  <1> DEFINE g == [r \in RunStates |-> IF r \in DOMAIN rs THEN f[rs[r]] ELSE r]
  <1>1. g \in [RunStates -> RunStates]
    BY DEF FollowsFrom, Raises
  <1>2. ASSUME NEW r \in RunStates, Len(Journey) - r.stage < m + 1
        PROVE  g[r] = IF r \in DOMAIN rs THEN g[rs[r]] ELSE r
    <2>1. CASE r \in DOMAIN rs
      <3>1. rs[r] \in RunStates /\ rs[r].stage = r.stage + 1
        BY <2>1 DEF Raises
      <3>2. Len(Journey) - rs[r].stage < m
        BY <1>2, <3>1, RunStateTyped, Stages
      <3>3. f[rs[r]] = IF rs[r] \in DOMAIN rs THEN f[rs[rs[r]]] ELSE rs[r]
        BY <3>1, <3>2 DEF FollowsFrom
      <3> QED BY <2>1, <3>1, <3>3
    <2> QED BY <2>1
  <1> HIDE DEF g
  <1>3. FollowsFrom(rs, g, m + 1)
    BY <1>1, <1>2 DEF FollowsFrom
  <1> QED BY <1>3

LEMMA FollowsAll ==
    ASSUME NEW rs, Raises(rs)
    PROVE  \A m \in Nat : \E f : FollowsFrom(rs, f, m)
  <1> DEFINE T == {m \in Nat : ~ \E f : FollowsFrom(rs, f, m)}
  <1> SUFFICES T = {}
    OBVIOUS
  <1>1. SUFFICES ASSUME T # {} PROVE FALSE
    OBVIOUS
  <1>2. PICK m \in T : \A n \in T : m <= n
    BY <1>1, LeastNatural
  <1>3. m # 0
    <2> DEFINE f == [r \in RunStates |-> r]
    <2>1. \A r \in RunStates : ~ (Len(Journey) - r.stage < 0)
      BY RunStateTyped, Stages
    <2>2. FollowsFrom(rs, f, 0)
      BY <2>1 DEF FollowsFrom
    <2> QED BY <2>2
  <1>4. m - 1 \in Nat /\ m - 1 \notin T
    BY <1>2, <1>3
  <1>5. PICK f : FollowsFrom(rs, f, m - 1)
    BY <1>4
  <1>6. \E g : FollowsFrom(rs, g, m - 1 + 1)
    BY <1>4, <1>5, FollowsOneMore
  <1> QED BY <1>2, <1>6

LEMMA FollowDef ==
    ASSUME NEW rs, Raises(rs)
    PROVE  Follow(rs) = [run \in RunStates |-> IF run \in DOMAIN rs THEN Follow(rs)[rs[run]]
                                               ELSE run]
  <1>1. PICK f : FollowsFrom(rs, f, Len(Journey))
    BY FollowsAll, Stages
  <1>2. \A r \in RunStates : Len(Journey) - r.stage < Len(Journey)
    BY RunStateTyped, Stages
  <1>3. f = [run \in RunStates |-> IF run \in DOMAIN rs THEN f[rs[run]] ELSE run]
    BY <1>1, <1>2 DEF FollowsFrom
  <1> QED BY <1>3 DEF Follow

LEMMA FollowStep ==
    ASSUME NEW rs, Raises(rs), NEW r \in RunStates
    PROVE  Follow(rs)[r] = IF r \in DOMAIN rs THEN Follow(rs)[rs[r]] ELSE r
  <1> DEFINE F == Follow(rs)
  <1>1. F = [run \in RunStates |-> IF run \in DOMAIN rs THEN F[rs[run]] ELSE run]
    BY FollowDef
  <1> HIDE DEF F
  <1>2. F[r] = IF r \in DOMAIN rs THEN F[rs[r]] ELSE r
    BY <1>1
  <1> QED BY <1>2 DEF F

\* Receipts that stay in a set lead to a member of it that has no receipt.
LEMMA FollowIn ==
    ASSUME NEW rs, Raises(rs), NEW X, X \subseteq RunStates,
           \A r \in X : r \in DOMAIN rs => rs[r] \in X
    PROVE  \A r \in X : Follow(rs)[r] \in X \ DOMAIN rs
  <1> DEFINE Y == {r \in RunStates : r \in X => Follow(rs)[r] \in X \ DOMAIN rs}
  <1>1. \A r \in RunStates : (r \in DOMAIN rs => rs[r] \in Y) => r \in Y
    BY FollowStep
  <1> HIDE DEF Y
  <1>2. RunStates \subseteq Y
    BY <1>1, StageInduction
  <1> QED BY <1>2 DEF Y

\* A receipt more leads on from where it was awaited.
LEMMA FollowMore ==
    ASSUME NEW rs, Raises(rs), NEW ss, Raises(ss), NEW R \in RunStates, NEW N \in RunStates,
           DOMAIN ss = DOMAIN rs \cup {R}, R \notin DOMAIN rs,
           \A r \in DOMAIN rs : ss[r] = rs[r],
           ss[R] = N, N \notin DOMAIN ss
    PROVE  \A r \in RunStates :
               Follow(ss)[r] = IF Follow(rs)[r] = R THEN N ELSE Follow(rs)[r]
  <1> DEFINE Y == {r \in RunStates :
                      Follow(ss)[r] = IF Follow(rs)[r] = R THEN N ELSE Follow(rs)[r]}
  <1>1. ASSUME NEW r \in RunStates, r \in DOMAIN ss => ss[r] \in Y
        PROVE  r \in Y
    <2>1. CASE r \in DOMAIN rs
      <3>1. Follow(ss)[r] = Follow(ss)[rs[r]] /\ Follow(rs)[r] = Follow(rs)[rs[r]]
        BY <2>1, FollowStep
      <3> QED BY <1>1, <2>1, <3>1
    <2>2. CASE r = R
      <3>1. Follow(rs)[r] = R /\ Follow(ss)[r] = Follow(ss)[N] /\ Follow(ss)[N] = N
        BY <2>2, FollowStep
      <3> QED BY <3>1
    <2>3. CASE r \notin DOMAIN ss
      <3>1. Follow(rs)[r] = r /\ Follow(ss)[r] = r
        BY <2>3, FollowStep
      <3> QED BY <2>3, <3>1
    <2> QED BY <2>1, <2>2, <2>3
  <1> HIDE DEF Y
  <1>2. RunStates \subseteq Y
    BY <1>1, StageInduction
  <1> QED BY <1>2 DEF Y
-----------------------------------------------------------------------------
(* What the journey and the lifecycle make of the stages.                      *)

Controls(route, stage) == KeepsStage(route, stage) \/ SetsBack(route, stage)

LEMMA RouteFacts ==
    ASSUME NEW r \in Routes
    PROVE  r.from \in States /\ r.to \in States /\ r # NoRoute
  <1>1. r \in RouteType
    BY GraphAssumption DEF ValidGraph
  <1>2. NoRoute.from = "none"
    BY DEF NoRoute, Route, None
  <1>3. r.from \in States /\ r.to \in States
    BY <1>1 DEF RouteType
  <1>4. r.from # "none"
    BY <1>3 DEF States, ActiveStates, TerminalStates, NullAuthorityStates
  <1> QED BY <1>2, <1>3, <1>4

\* The first stage of a core state is one, and none before it is.
LEMMA FirstStageFacts ==
    ASSUME NEW state, FirstStage(state) # 0
    PROVE  /\ FirstStage(state) \in DOMAIN Journey
           /\ Journey[FirstStage(state)] = state
           /\ \A i \in DOMAIN Journey : Journey[i] = state => FirstStage(state) <= i
  <1> DEFINE T == {i \in DOMAIN Journey : Journey[i] = state}
             m == CHOOSE i \in T : \A j \in T : i <= j
  <1>1. FirstStage(state) = m /\ T # {}
    BY DEF FirstStage
  <1>2. T \subseteq Nat
    BY Stages
  <1>3. \E i \in T : \A j \in T : i <= j
    BY <1>1, <1>2, LeastNatural
  <1>4. m \in T /\ \A j \in T : m <= j
    BY <1>3
  <1> HIDE DEF m
  <1> QED BY <1>1, <1>4

\* A stage that is handed over is the last of its core state, and the core state
\* it is handed over to has no earlier stage and is none of control's.
LEMMA HandOverFacts ==
    ASSUME NEW route \in Routes, NEW s \in DOMAIN Journey, HandsOver(route, s)
    PROVE  /\ s + 1 \in DOMAIN Journey
           /\ route.from \notin {"PAUSED", "BLOCKED"}
           /\ route.to \notin ControlDestinations
           /\ \A i \in 1 .. s : Journey[i] # route.to
           /\ route.event # "retry-requested"
  <1>1. s \in 1 .. Len(Journey) /\ s < Len(Journey) /\ Len(Journey) \in Nat
    BY Stages DEF HandsOver
  <1>2. s + 1 \in DOMAIN Journey /\ s + 1 - 1 = s
    BY <1>1, Stages
  <1>3. route.from = Journey[s] /\ route.to = Journey[s + 1]
        /\ Journey[s + 1] # Journey[s + 1 - 1]
    BY <1>2 DEF HandsOver
  <1>4. route.from \notin {"PAUSED", "BLOCKED"} /\ route.to \notin {"PAUSED", "BLOCKED"}
    BY <1>2, <1>3, JourneyAssumption
  <1>5. ASSUME NEW i \in 1 .. s
        PROVE  Journey[i] # route.to
               /\ Journey[s + 1] \notin {"ACTIVATION_PENDING", "CANCELLED"}
    <2>1. i \in DOMAIN Journey /\ i < s + 1
      BY <1>1, Stages
    <2> QED BY <1>2, <1>3, <2>1, JourneyAssumption
  <1>6. s \in 1 .. s
    BY <1>1
  <1>7. Journey[s + 1] \notin {"ACTIVATION_PENDING", "CANCELLED"}
    BY <1>5, <1>6
  <1>8. route.event # "retry-requested"
    BY <1>4, RetryAssumption
  <1> QED BY <1>2, <1>3, <1>4, <1>5, <1>7, <1>8 DEF ControlDestinations

\* What is handed over is not controlled, at this stage or an earlier one.
LEMMA HandOverOrControl ==
    ASSUME NEW route \in Routes, NEW s \in DOMAIN Journey, HandsOver(route, s),
           NEW q \in DOMAIN Journey, q <= s
    PROVE  ~ Controls(route, q) /\ ~ Renews(route, q)
  <1>1. s \in Nat /\ q \in 1 .. s /\ s \in 1 .. s
    BY Stages
  <1>2. Journey[q] # route.to /\ ~ KeepsStage(route, q)
    BY <1>1, HandOverFacts DEF KeepsStage, Resumes
  <1>3. ASSUME SetsBack(route, q)
        PROVE  FALSE
    <2>1. FirstStage(route.to) \in 1 .. q
      BY <1>3 DEF SetsBack
    <2>2. FirstStage(route.to) \in 1 .. s /\ FirstStage(route.to) # 0
      BY <1>1, <2>1
    <2>3. Journey[FirstStage(route.to)] = route.to
      BY <2>2, FirstStageFacts
    <2> QED BY <2>2, <2>3, HandOverFacts
  <1> QED BY <1>2, <1>3, HandOverFacts DEF Controls, Renews

\* Control does the same at any stage of one core state.
LEMMA SameControl ==
    ASSUME NEW route, NEW s \in DOMAIN Journey, NEW q \in DOMAIN Journey, s <= q,
           \A i \in s .. q : Journey[i] = Journey[s]
    PROVE  /\ KeepsStage(route, s) = KeepsStage(route, q)
           /\ SetsBack(route, s) = SetsBack(route, q)
           /\ Renews(route, s) = Renews(route, q)
  <1>1. s \in Nat /\ q \in Nat /\ s \in s .. q /\ q \in s .. q
    BY Stages
  <1>2. KeepsStage(route, s) <=> KeepsStage(route, q)
    <2>1. Journey[q] = Journey[s]
      BY <1>1
    <2> QED BY <2>1 DEF KeepsStage, Resumes
  <1>3. FirstStage(route.to) \in 1 .. s <=> FirstStage(route.to) \in 1 .. q
    <2> DEFINE m == FirstStage(route.to)
    <2>1. ASSUME m \in 1 .. q, ~ (m \in 1 .. s)
          PROVE  FALSE
      <3>1. m # 0 /\ m \in s .. q /\ s < m
        BY <1>1, <2>1
      <3>2. Journey[m] = route.to /\ Journey[m] = Journey[s]
        BY <3>1, FirstStageFacts
      <3>3. m <= s
        BY <3>1, <3>2, FirstStageFacts
      <3> QED BY <1>1, <3>1, <3>3
    <2>2. m \in 1 .. s => m \in 1 .. q
      BY <1>1
    <2> QED BY <2>1, <2>2
  <1>4. SetsBack(route, s) <=> SetsBack(route, q)
    BY <1>2, <1>3 DEF SetsBack
  <1>5. Renews(route, s) <=> Renews(route, q)
    BY <1>4 DEF Renews
  <1>6. /\ KeepsStage(route, s) \in BOOLEAN /\ KeepsStage(route, q) \in BOOLEAN
        /\ SetsBack(route, s) \in BOOLEAN /\ SetsBack(route, q) \in BOOLEAN
        /\ Renews(route, s) \in BOOLEAN /\ Renews(route, q) \in BOOLEAN
    BY DEF KeepsStage, SetsBack, Renews
  <1> QED BY <1>2, <1>4, <1>5, <1>6

\* Where a controlled run goes is a stage, of the core state control leads to
\* unless it holds the run in place.
LEMMA ControlledStage ==
    ASSUME NEW route, NEW s \in DOMAIN Journey
    PROVE  /\ StageAfter(route, s) \in DOMAIN Journey
           /\ Controls(route, s) /\ route.to \notin ControlDestinations =>
                  Journey[StageAfter(route, s)] = route.to
  <1>1. CASE SetsBack(route, s)
    <2>1. FirstStage(route.to) # 0
      BY <1>1 DEF SetsBack
    <2> QED BY <1>1, <2>1, FirstStageFacts DEF StageAfter
  <1>2. CASE ~ SetsBack(route, s)
    BY <1>2 DEF StageAfter, Controls, KeepsStage, Resumes
  <1> QED BY <1>1, <1>2

LEMMA GenerationTyped ==
    ASSUME NEW route, NEW s, NEW g \in Nat
    PROVE  GenerationAfter(route, s, g) \in Nat /\ GenerationAfter(route, s, g) \in {g, g + 1}
  BY DEF GenerationAfter
-----------------------------------------------------------------------------
(* The inductive invariant of a demo run.  Its stores:                         *)

StoresTyped ==
    /\ kernel \in Seq([route : Routes,
                       snapshot : [state : States, retained : ActiveStates \cup {None},
                                   retries : Nat]])
    /\ runs \in Seq(RunStates)
    /\ budgets \in Seq([generation : Nat, retries : Nat, receipt : Nat, run : RunStates])
    /\ receipts \in [DOMAIN receipts -> RunStates] /\ DOMAIN receipts \subseteq RunStates
    /\ DurableRuns \subseteq RunStates

\* The kernel is a path through the lifecycle.
Chained == \A v \in 1 .. Version :
    /\ kernel[v].route \in Applicable(Snapshot(v - 1))
    /\ kernel[v].snapshot = Applied(Snapshot(v - 1), kernel[v].route)

\* A durable run state stands at a stage of the core state it is bound to.
OnStage(r) ==
    /\ r.core \in 0 .. Version
    /\ Snapshot(r.core).state \notin ControlDestinations \cup {"CAPTURED"} =>
           Journey[r.stage] = Snapshot(r.core).state

\* A receipt leads to the next stage: of the same core state, or handed over to.
Within(r) == /\ r.stage < Len(Journey) /\ Journey[r.stage + 1] = Journey[r.stage]
             /\ Journey[r.stage] = Snapshot(r.core).state
Leads(r, n) ==
    /\ n.stage = r.stage + 1 /\ n.generation = r.generation
    /\ \/ n.core = r.core /\ Within(r)
       \/ /\ n.core = r.core + 1 /\ r.core < Version
          /\ HandsOver(kernel[n.core].route, r.stage)

Receipted == \A r \in DOMAIN receipts : r \in DurableRuns /\ Leads(r, receipts[r])

\* The durable run states that are bound to one snapshot are one run of receipts
\* through stages of one core state, in one generation.
Alike(r, q) ==
    r.core = q.core =>
        /\ r.generation = q.generation
        /\ r.stage < q.stage => /\ r \in DOMAIN receipts
                                /\ \A i \in r.stage .. q.stage : Journey[i] = Journey[r.stage]

\* What brought the run to a snapshot: a receipt, or control that it has left for.
Entered(c) == \E r \in DurableRuns :
    /\ r.core + 1 = c
    /\ \/ r \in DOMAIN receipts /\ HandsOver(kernel[c].route, r.stage)
       \/ StoredRun.core >= c /\ Controls(kernel[c].route, r.stage)

\* The budget is that of the current run, before or after the transition it is
\* behind by.
Counted == \A i \in DOMAIN budgets : budgets[i].generation = i

Before(r) == [generation |-> r.generation, retries |-> Snapshot(r.core).retries]
After(r) == [generation |-> GenerationAfter(kernel[r.core + 1].route, r.stage, r.generation),
             retries |-> Snapshot(r.core + 1).retries]
Reckoned == \/ Budget = Before(Current)
            \/ Current.core < Version /\ Budget = After(Current)

StoresInv ==
    /\ StoresTyped
    /\ Chained
    /\ Receipted
    /\ \A r \in DurableRuns : OnStage(r)
    /\ \A r, q \in DurableRuns : Alike(r, q)
    /\ \A r \in DurableRuns : r.core # 0 => Entered(r.core)
    /\ Current.core \in {Version, Version - 1}
    /\ Counted
    /\ \A r \in DurableRuns : r.generation <= Budget.generation
    /\ Reckoned

(* Its workers: the call was one for a run state that is durable, and its       *)
(* transition is in the kernel when a store that follows it is next.            *)

Tasks == [run : RunStates, budget : Nat, call : {"none", "complete", "reconcile"},
          route : Routes \cup {NoRoute}]

TasksTyped ==
    /\ pc \in [Workers -> {"idle", "kernel", "receipt", "budget", "run"}]
    /\ task \in [Workers -> Tasks]
    /\ \A w \in Workers : task[w].budget \in 0 .. Len(budgets)

Saw(w) == task[w].run \in DurableRuns /\ task[w].run.core <= Current.core

Completing(w) ==
    /\ pc[w] \in {"kernel", "receipt"}
    /\ \/ task[w].route = NoRoute /\ pc[w] = "receipt" /\ Within(task[w].run)
       \/ /\ task[w].route \in Applicable(Snapshot(task[w].run.core))
          /\ HandsOver(task[w].route, task[w].run.stage)
Reconciling(w) ==
    /\ pc[w] \in {"kernel", "budget", "run"}
    /\ task[w].route \in Applicable(Snapshot(task[w].run.core))
    /\ Controls(task[w].route, task[w].run.stage)

Done(w) == task[w].run.core < Version /\ kernel[task[w].run.core + 1] = Result(w)

Due(w) == [generation |-> NextRun(w).generation, retries |-> Result(w).snapshot.retries]

\* No worker records the budget of a transition the run has left behind: when it is
\* still due to it, the budget has moved on.
Late(w) ==
    /\ task[w].call = "reconcile" /\ task[w].run.core < Current.core
    /\ Done(w) /\ BudgetDue(w)
    => task[w].budget < Len(budgets)

\* A run state is swapped in when the budget is that of this run state.
Recorded(w) == pc[w] = "run" /\ task[w].run.core = Current.core => Budget = Due(w)

Working(w) ==
    /\ Saw(w)
    /\ \/ task[w].call = "complete" /\ Completing(w)
       \/ task[w].call = "reconcile" /\ Reconciling(w)
    /\ pc[w] = "kernel" \/ task[w].route = NoRoute \/ Done(w)
    /\ Late(w) /\ Recorded(w)

RunInv == /\ StoresInv /\ TasksTyped
          /\ \A w \in Workers : pc[w] # "idle" => Working(w)
-----------------------------------------------------------------------------
(* What the invariant says of the kernel, the durable run states, the current  *)
(* one and the others of its core state.                                       *)

Entries == [route : Routes,
            snapshot : [state : States, retained : ActiveStates \cup {None}, retries : Nat]]

LEMMA KernelFacts ==
    ASSUME StoresInv
    PROVE  /\ Version \in Nat /\ DOMAIN kernel = 1 .. Version
           /\ \A v \in 1 .. Version :
                 /\ kernel[v] \in Entries
                 /\ kernel[v].route \in Routes
                 /\ kernel[v].route \in Applicable(Snapshot(v - 1))
                 /\ kernel[v].snapshot = Applied(Snapshot(v - 1), kernel[v].route)
                 /\ Snapshot(v) = kernel[v].snapshot
  <1>1. kernel \in Seq(Entries)
    BY DEF StoresInv, StoresTyped, Entries
  <1>2. Version \in Nat /\ DOMAIN kernel = 1 .. Version
    BY <1>1 DEF Version
  <1>3. ASSUME NEW v \in 1 .. Version
        PROVE  kernel[v] \in Entries /\ kernel[v].route \in Routes /\ v # 0
    <2>1. v \in DOMAIN kernel /\ v # 0
      BY <1>2
    <2>2. kernel[v] \in Entries
      BY <1>1, <2>1
    <2> QED BY <2>1, <2>2 DEF Entries
  <1>4. \A v \in 1 .. Version :
            /\ kernel[v].route \in Applicable(Snapshot(v - 1))
            /\ kernel[v].snapshot = Applied(Snapshot(v - 1), kernel[v].route)
    BY DEF StoresInv, Chained
  <1> QED BY <1>2, <1>3, <1>4 DEF Snapshot

LEMMA SnapshotTyped ==
    ASSUME StoresInv, NEW v \in 0 .. Version
    PROVE  /\ Snapshot(v) \in [state : States, retained : ActiveStates \cup {None},
                               retries : Nat]
           /\ Snapshot(v).state \in States /\ Snapshot(v).retries \in Nat
  <1>1. CASE v = 0
    BY <1>1 DEF Snapshot, Genesis, States, NullAuthorityStates
  <1>2. CASE v # 0
    <2>1. v \in 1 .. Version
      BY <1>2, KernelFacts
    <2>2. Snapshot(v) = kernel[v].snapshot /\ kernel[v] \in Entries
      BY <2>1, KernelFacts
    <2> QED BY <2>2 DEF Entries
  <1> QED BY <1>1, <1>2

LEMMA DurableFacts ==
    ASSUME StoresTyped
    PROVE  /\ StoredRun \in DurableRuns /\ FirstRun \in DurableRuns
           /\ \A r \in DOMAIN receipts : receipts[r] \in DurableRuns
           /\ \A r \in DurableRuns :
                 /\ r \in RunStates
                 /\ r.core \in Nat /\ r.generation \in Nat
                 /\ r.stage \in DOMAIN Journey /\ r.stage \in Nat
  <1>1. runs # <<>> => Len(runs) \in DOMAIN runs
    BY DEF StoresTyped
  <1>2. DurableRuns \subseteq RunStates
    BY DEF StoresTyped
  <1>3. ASSUME NEW r \in DurableRuns
        PROVE  /\ r \in RunStates
               /\ r.core \in Nat /\ r.generation \in Nat
               /\ r.stage \in DOMAIN Journey /\ r.stage \in Nat
    BY <1>2, <1>3, RunStateTyped, Stages
  <1>4. StoredRun \in DurableRuns /\ FirstRun \in DurableRuns
        /\ \A r \in DOMAIN receipts : receipts[r] \in DurableRuns
    BY <1>1 DEF StoredRun, DurableRuns
  <1> QED BY <1>3, <1>4

LEMMA ReceiptsRaise ==
    ASSUME StoresTyped, Receipted
    PROVE  Raises(receipts)
  BY DEF StoresTyped, Receipted, Leads, Raises

LEMMA CurrentFacts ==
    ASSUME StoresInv
    PROVE  /\ Current \in DurableRuns /\ Current \notin DOMAIN receipts
           /\ Current \in RunStates
           /\ StoredRun.core <= Current.core
           /\ Current.core \in 0 .. Version
  <1>1. Raises(receipts)
    BY ReceiptsRaise DEF StoresInv
  <1>2. StoresTyped
    BY DEF StoresInv
  <1> DEFINE X == {r \in DurableRuns : StoredRun.core <= r.core}
  <1>3. X \subseteq RunStates /\ StoredRun \in X
    BY <1>2, DurableFacts
  <1>4. ASSUME NEW r \in X, r \in DOMAIN receipts
        PROVE  receipts[r] \in X
    <2>1. receipts[r] \in DurableRuns /\ r \in DurableRuns
      BY <1>2, <1>4, DurableFacts
    <2>2. receipts[r].core \in {r.core, r.core + 1}
      BY <1>4 DEF StoresInv, Receipted, Leads
    <2>3. r.core \in Nat /\ StoredRun.core \in Nat
      BY <1>2, <2>1, DurableFacts
    <2> QED BY <2>1, <2>2, <2>3
  <1> HIDE DEF X
  <1>5. Follow(receipts)[StoredRun] \in X \ DOMAIN receipts
    BY <1>1, <1>3, <1>4, FollowIn
  <1>6. Current \in X \ DOMAIN receipts
    BY <1>5, CurrentFollows
  <1>7. Current \in DurableRuns /\ StoredRun.core <= Current.core
    BY <1>6 DEF X
  <1>8. Current.core \in 0 .. Version
    BY <1>7 DEF StoresInv, OnStage
  <1> QED BY <1>2, <1>6, <1>7, <1>8, DurableFacts

\* No run state of a snapshot is at a later stage than one that is handed over.
LEMMA LastOfCore ==
    ASSUME StoresInv, NEW r \in DurableRuns, NEW q \in DurableRuns, r.core = q.core,
           NEW route \in Routes, HandsOver(route, r.stage)
    PROVE  q.stage <= r.stage
  <1>1. SUFFICES ASSUME r.stage < q.stage PROVE FALSE
    BY DurableFacts DEF StoresInv
  <1>2. r.stage \in Nat /\ q.stage \in Nat
    BY DurableFacts DEF StoresInv
  <1>3. Alike(r, q)
    BY DEF StoresInv
  <1>4. \A i \in r.stage .. q.stage : Journey[i] = Journey[r.stage]
    BY <1>1, <1>3 DEF Alike
  <1>5. r.stage + 1 \in r.stage .. q.stage
    BY <1>1, <1>2
  <1>6. Journey[r.stage + 1] = Journey[r.stage]
    BY <1>4, <1>5
  <1> QED BY <1>6 DEF HandsOver

\* One of them is handed over at the most, and then none is controlled.
LEMMA HandedOverOnce ==
    ASSUME StoresInv, NEW r \in DurableRuns, NEW q \in DurableRuns, r.core = q.core,
           NEW route \in Routes, HandsOver(route, r.stage)
    PROVE  /\ ~ Controls(route, q.stage) /\ ~ Renews(route, q.stage)
           /\ HandsOver(route, q.stage) => q = r
  <1>1. q.stage <= r.stage
    BY LastOfCore
  <1>2. r.stage \in DOMAIN Journey /\ q.stage \in DOMAIN Journey
        /\ r.stage \in Nat /\ q.stage \in Nat /\ r \in RunStates /\ q \in RunStates
    BY DurableFacts DEF StoresInv
  <1>3. ~ Controls(route, q.stage) /\ ~ Renews(route, q.stage)
    BY <1>1, <1>2, HandOverOrControl
  <1>4. ASSUME HandsOver(route, q.stage)
        PROVE  q = r
    <2>1. r.stage <= q.stage
      BY <1>4, LastOfCore
    <2>2. r.stage = q.stage
      BY <1>1, <1>2, <2>1
    <2>3. r.generation = q.generation
      BY DEF StoresInv, Alike
    <2>4. /\ r = [core |-> r.core, stage |-> r.stage, generation |-> r.generation]
          /\ q = [core |-> q.core, stage |-> q.stage, generation |-> q.generation]
      BY <1>2, RunStateTyped
    <2> QED BY <2>2, <2>3, <2>4
  <1> QED BY <1>3, <1>4

\* A transition renews all of them or none.
LEMMA AlikeControlled ==
    ASSUME StoresInv, NEW r \in DurableRuns, NEW q \in DurableRuns, r.core = q.core,
           NEW route
    PROVE  /\ r.generation = q.generation
           /\ Journey[r.stage] = Journey[q.stage]
           /\ GenerationAfter(route, r.stage, r.generation)
                  = GenerationAfter(route, q.stage, q.generation)
  <1>1. /\ r.stage \in DOMAIN Journey /\ q.stage \in DOMAIN Journey
        /\ r.stage \in Nat /\ q.stage \in Nat
    BY DurableFacts DEF StoresInv
  <1>2. Alike(r, q) /\ Alike(q, r)
    BY DEF StoresInv
  <1>3. CASE r.stage <= q.stage
    <2>1. \A i \in r.stage .. q.stage : Journey[i] = Journey[r.stage]
      BY <1>1, <1>2, <1>3 DEF Alike
    <2>2. Renews(route, r.stage) = Renews(route, q.stage)
      BY <1>1, <1>3, <2>1, SameControl
    <2>3. q.stage \in r.stage .. q.stage
      BY <1>1, <1>3
    <2> QED BY <1>2, <2>1, <2>2, <2>3 DEF Alike, GenerationAfter
  <1>4. CASE q.stage <= r.stage
    <2>1. \A i \in q.stage .. r.stage : Journey[i] = Journey[q.stage]
      BY <1>1, <1>2, <1>4 DEF Alike
    <2>2. Renews(route, r.stage) = Renews(route, q.stage)
      BY <1>1, <1>4, <2>1, SameControl
    <2>3. r.stage \in q.stage .. r.stage
      BY <1>1, <1>4
    <2> QED BY <1>2, <2>1, <2>2, <2>3 DEF Alike, GenerationAfter
  <1> QED BY <1>1, <1>3, <1>4

LEMMA SameAfter ==
    ASSUME StoresInv, NEW r \in DurableRuns, NEW q \in DurableRuns, r.core = q.core
    PROVE  After(r) = After(q) /\ Before(r) = Before(q)
  BY AlikeControlled DEF After, Before

\* While control is on its way from a stored run state, no receipt hands it over,
\* and none is bound to what control leads to.
LEMMA ControlledCurrent ==
    ASSUME StoresInv, StoredRun.core < Version,
           Controls(kernel[StoredRun.core + 1].route, StoredRun.stage)
    PROVE  /\ Current.core = StoredRun.core
           /\ StoredRun.stage <= Current.stage
           /\ \A r \in DurableRuns : r.core # StoredRun.core + 1
  <1> DEFINE c == StoredRun.core
             route == kernel[c + 1].route
             X == {r \in DurableRuns : r.core = c /\ StoredRun.stage <= r.stage}
  <1>1. Raises(receipts) /\ StoresTyped
    BY ReceiptsRaise DEF StoresInv
  <1>2. /\ c \in Nat /\ StoredRun \in DurableRuns /\ StoredRun.stage \in Nat
        /\ Version \in Nat /\ c + 1 \in 1 .. Version
    BY <1>1, DurableFacts, KernelFacts
  <1>3. route \in Routes
    BY <1>2, KernelFacts
  <1>4. ASSUME NEW r \in DurableRuns, r.core = c, HandsOver(route, r.stage)
        PROVE  FALSE
    <2>1. ~ Controls(route, StoredRun.stage)
      BY <1>2, <1>3, <1>4, HandedOverOnce
    <2> QED BY <2>1
  <1> HIDE DEF route
  <1>5. ASSUME NEW r \in X, r \in DOMAIN receipts
        PROVE  receipts[r] \in X
    <2>1. receipts[r] \in DurableRuns /\ r \in DurableRuns /\ r.stage \in Nat
      BY <1>1, <1>5, DurableFacts
    <2>2. Leads(r, receipts[r])
      BY <1>5 DEF StoresInv, Receipted
    <2>3. ~ HandsOver(route, r.stage) /\ r.core = c /\ StoredRun.stage <= r.stage
      BY <1>4, <1>5
    <2>4. receipts[r].core = c
      BY <2>2, <2>3 DEF Leads, route
    <2>5. receipts[r].stage = r.stage + 1
      BY <2>2 DEF Leads
    <2> QED BY <1>2, <2>1, <2>3, <2>4, <2>5
  <1>6. X \subseteq RunStates /\ StoredRun \in X
    BY <1>1, <1>2, DurableFacts
  <1>x. HIDE DEF X
  <1>7. Current \in X
    BY <1>1, <1>5, <1>6, FollowIn, CurrentFollows
  <1>8. ASSUME NEW r \in DurableRuns, r.core = c + 1
        PROVE  FALSE
    <2>1. Entered(r.core)
      BY <1>2, <1>8 DEF StoresInv
    <2>2. PICK e \in DurableRuns :
              /\ e.core + 1 = c + 1
              /\ \/ HandsOver(route, e.stage)
                 \/ StoredRun.core >= c + 1
      BY <1>8, <2>1 DEF Entered, route
    <2>3. e.core = c
      BY <1>1, <1>2, <2>2, DurableFacts
    <2> QED BY <1>2, <1>4, <2>2, <2>3
  <1> QED BY <1>7, <1>8 DEF X
-----------------------------------------------------------------------------
(* The four writes.  What is written stays, and the run moves on.              *)

Onward ==
    /\ Version <= Version' /\ \A v \in 1 .. Version : kernel'[v] = kernel[v]
    /\ Len(budgets) <= Len(budgets')
    /\ \A i \in 1 .. Len(budgets) : budgets'[i] = budgets[i]
    /\ DurableRuns \subseteq DurableRuns'
    /\ Current.core <= (Current.core)'

\* A lineage with an entry more.
Longer(old, new, e) == new = Append(old, e)

LEMMA LongerFacts ==
    ASSUME NEW S, NEW old \in Seq(S), NEW e \in S, NEW new, Longer(old, new, e)
    PROVE  /\ Len(old) \in Nat /\ DOMAIN old = 1 .. Len(old)
           /\ new \in Seq(S) /\ Len(new) = Len(old) + 1 /\ new # <<>>
           /\ DOMAIN new = 1 .. Len(old) + 1
           /\ \A i \in 1 .. Len(old) : new[i] = old[i]
           /\ new[Len(old) + 1] = e
  BY DEF Longer

\* The stores, as one step leaves them: they keep the invariant.
Kept == StoresInv' /\ Onward

LEMMA CurrentUnchanged == UNCHANGED <<receipts, runs>> => Current' = Current
  BY DEF Current, StoredRun

LEMMA StoresUnchanged ==
    ASSUME StoresInv, UNCHANGED stores
    PROVE  Kept /\ Current' = Current
  <1>1. Current' = Current
    BY CurrentUnchanged DEF stores
  <1>2. /\ kernel' = kernel /\ receipts' = receipts /\ runs' = runs /\ budgets' = budgets
    BY DEF stores
  <1>3. /\ Version' = Version /\ StoredRun' = StoredRun /\ Budget' = Budget
        /\ DurableRuns' = DurableRuns /\ \A v : Snapshot(v)' = Snapshot(v)
    BY <1>2 DEF Version, StoredRun, Budget, DurableRuns, Snapshot
  <1>4. StoresTyped' /\ Chained' /\ Receipted' /\ Counted'
    BY <1>2, <1>3 DEF StoresInv, StoresTyped, Chained, Receipted, Leads, Within, Counted
  <1>5. /\ (\A r \in DurableRuns : OnStage(r))'
        /\ (\A r, q \in DurableRuns : Alike(r, q))'
    BY <1>2, <1>3 DEF StoresInv, OnStage, Alike
  <1>6. (\A r \in DurableRuns : r.core # 0 => Entered(r.core))'
    BY <1>2, <1>3 DEF StoresInv, Entered
  <1>7. /\ (Current.core \in {Version, Version - 1})'
        /\ (\A r \in DurableRuns : r.generation <= Budget.generation)'
        /\ Reckoned'
    BY <1>1, <1>2, <1>3 DEF StoresInv, Reckoned, Before, After
  <1>8. /\ Version \in Nat /\ Current.core \in Nat /\ Len(budgets) \in Nat
    BY KernelFacts, CurrentFacts DEF StoresInv, StoresTyped
  <1> QED BY <1>1, <1>2, <1>3, <1>4, <1>5, <1>6, <1>7, <1>8 DEF Kept, Onward, StoresInv

LEMMA AppliedTyped ==
    ASSUME StoresInv, NEW v \in 0 .. Version, NEW route \in Applicable(Snapshot(v))
    PROVE  /\ route \in Routes
           /\ [route |-> route, snapshot |-> Applied(Snapshot(v), route)] \in Entries
  <1>1. /\ route \in Routes
        /\ Snapshot(v).retained \in ActiveStates \cup {None} /\ Snapshot(v).retries \in Nat
    BY SnapshotTyped DEF Applicable
  <1>2. route.to \in States /\ (route.to \in {"PAUSED", "BLOCKED"} => route.from \in ActiveStates)
    BY <1>1, RouteFacts, GraphAssumption DEF ValidGraph, ValidRoute
  <1> QED BY <1>1, <1>2 DEF Applied, Entries

LEMMA KernelWritten ==
    ASSUME StoresInv, Current.core = Version, NEW e, e.route \in Applicable(Snapshot(Version)),
           e = [route |-> e.route, snapshot |-> Applied(Snapshot(Version), e.route)],
           Longer(kernel, kernel', e), UNCHANGED <<receipts, runs, budgets>>
    PROVE  Kept /\ Current' = Current
  <1>1. /\ Version \in Nat /\ kernel \in Seq(Entries) /\ Version \in 0 .. Version
    BY KernelFacts DEF StoresInv, StoresTyped, Entries
  <1>e. e \in Entries /\ e.snapshot = Applied(Snapshot(Version), e.route)
    BY <1>1, AppliedTyped
  <1>2. /\ receipts' = receipts /\ runs' = runs /\ budgets' = budgets
    OBVIOUS
  <1>3. /\ kernel' \in Seq(Entries) /\ Version' = Version + 1
        /\ \A v \in 1 .. Version : kernel'[v] = kernel[v]
        /\ kernel'[Version + 1] = e
    BY <1>1, <1>e, LongerFacts DEF Version
  <1>4. /\ StoredRun' = StoredRun /\ Budget' = Budget /\ DurableRuns' = DurableRuns
        /\ Current' = Current
    BY <1>2, CurrentUnchanged DEF StoredRun, Budget, DurableRuns
  <1>5. /\ \A v \in 0 .. Version : Snapshot(v)' = Snapshot(v)
        /\ \A v : v = Version + 1 => Snapshot(v)' = e.snapshot
    BY <1>1, <1>3 DEF Snapshot
  <1>6. StoresTyped'
    BY <1>2, <1>3, <1>4 DEF StoresInv, StoresTyped, Entries
  <1>7. Chained'
    <2> SUFFICES ASSUME NEW v \in 1 .. Version + 1
                 PROVE  /\ kernel'[v].route \in Applicable(Snapshot(v - 1)')
                        /\ kernel'[v].snapshot = Applied(Snapshot(v - 1)', kernel'[v].route)
      BY <1>3 DEF Chained
    <2>1. Snapshot(v - 1)' = Snapshot(v - 1)
      BY <1>1, <1>5
    <2>2. CASE v = Version + 1
      <3>1. v - 1 = Version
        BY <1>1, <2>2
      <3> QED BY <1>3, <1>e, <2>1, <2>2, <3>1
    <2>3. CASE v \in 1 .. Version
      BY <1>3, <2>1, <2>3 DEF StoresInv, Chained
    <2> QED BY <1>1, <2>2, <2>3
  <1>d. \A r \in DurableRuns : r.core \in 0 .. Version
    BY DEF StoresInv, OnStage
  <1>8. Receipted'
    <2> SUFFICES ASSUME NEW r \in DOMAIN receipts PROVE Leads(r, receipts[r])'
      BY <1>2, <1>4 DEF StoresInv, Receipted
    <2>1. Leads(r, receipts[r]) /\ r \in DurableRuns
      BY DEF StoresInv, Receipted
    <2>2. r.core \in 0 .. Version
      BY <1>d, <2>1
    <2>3. r.core < Version => kernel'[r.core + 1] = kernel[r.core + 1]
      BY <1>1, <1>3, <2>2
    <2> QED BY <1>1, <1>2, <1>3, <1>5, <2>1, <2>2, <2>3 DEF Leads, Within
  <1>9. ASSUME NEW r \in DurableRuns
        PROVE  OnStage(r)' /\ (r.core # 0 => Entered(r.core)')
    <2>1. r.core \in 0 .. Version
      BY <1>d
    <2>2. r.core # 0 => kernel'[r.core] = kernel[r.core]
      BY <1>1, <1>3, <2>1
    <2>3. OnStage(r) /\ (r.core # 0 => Entered(r.core))
      BY DEF StoresInv
    <2>4. OnStage(r)'
      BY <1>1, <1>3, <1>5, <2>1, <2>3 DEF OnStage
    <2>5. r.core # 0 => Entered(r.core)'
      BY <1>2, <1>4, <2>2, <2>3 DEF Entered
    <2> QED BY <2>4, <2>5
  <1>10. (\A r, q \in DurableRuns : Alike(r, q))' /\ Counted'
         /\ (\A r \in DurableRuns : r.generation <= Budget.generation)'
    BY <1>2, <1>4 DEF StoresInv, Alike, Counted
  <1>11. (Current.core \in {Version, Version - 1})'
    BY <1>1, <1>3, <1>4
  <1>12. Budget = Before(Current)
    BY <1>1 DEF StoresInv, Reckoned
  <1>13. Reckoned'
    <2>1. Snapshot(Current.core)' = Snapshot(Current.core)
      BY <1>1, <1>4, <1>5
    <2> QED BY <1>4, <1>12, <2>1 DEF Reckoned, Before
  <1>14. Onward
    BY <1>1, <1>2, <1>3, <1>4 DEF Onward, StoresInv, StoresTyped
  <1> QED BY <1>4, <1>6, <1>7, <1>8, <1>9, <1>10, <1>11, <1>13, <1>14 DEF Kept, StoresInv
LEMMA ReceiptWritten ==
    ASSUME StoresInv, NEW R \in DurableRuns, R \notin DOMAIN receipts,
           NEW N \in RunStates, Leads(R, N),
           DOMAIN receipts' = DOMAIN receipts \cup {R},
           receipts' \in [DOMAIN receipts' -> RunStates],
           \A r \in DOMAIN receipts : receipts'[r] = receipts[r],
           receipts'[R] = N,
           UNCHANGED <<kernel, runs, budgets>>
    PROVE  Kept /\ N \notin DurableRuns /\ Current' = IF Current = R THEN N ELSE Current
  <1>1. /\ StoresTyped /\ Raises(receipts) /\ Version \in Nat
        /\ R \in RunStates /\ R.core \in 0 .. Version
        /\ R.stage \in DOMAIN Journey /\ R.stage \in Nat
        /\ Current \in DurableRuns /\ Current.core \in Nat
    BY ReceiptsRaise, DurableFacts, KernelFacts, CurrentFacts DEF StoresInv, OnStage
  <1>2. /\ kernel' = kernel /\ runs' = runs /\ budgets' = budgets
        /\ Version' = Version /\ StoredRun' = StoredRun /\ Budget' = Budget
        /\ \A v : Snapshot(v)' = Snapshot(v)
    BY DEF Version, StoredRun, Budget, Snapshot
  <1>3. DurableRuns' = DurableRuns \cup {N}
    BY <1>2 DEF DurableRuns
  <1>4. N.stage = R.stage + 1 /\ N.generation = R.generation
    BY DEF Leads
  <1>5. \/ N.core = R.core /\ Within(R)
        \/ /\ N.core = R.core + 1 /\ N.core \in 1 .. Version
           /\ kernel[N.core].route \in Routes /\ HandsOver(kernel[N.core].route, R.stage)
    BY <1>1, KernelFacts DEF Leads
  \* Handed over, it is the first run state of the next snapshot.
  <1>6. ASSUME N.core # R.core, NEW q \in DurableRuns, q.core = N.core
        PROVE  FALSE
    <2> DEFINE route == kernel[N.core].route
    <2>1. N.core = R.core + 1 /\ N.core # 0 /\ route \in Routes /\ HandsOver(route, R.stage)
      BY <1>1, <1>5, <1>6
    <2>2. Entered(q.core)
      BY <1>6, <2>1 DEF StoresInv
    <2>3. PICK e \in DurableRuns :
              /\ e.core + 1 = N.core
              /\ \/ e \in DOMAIN receipts /\ HandsOver(route, e.stage)
                 \/ Controls(route, e.stage)
      BY <1>6, <2>2 DEF Entered
    <2>4. e.core = R.core
      BY <1>1, <2>1, <2>3, DurableFacts
    <2> HIDE DEF route
    <2>5. ~ Controls(route, e.stage) /\ (HandsOver(route, e.stage) => e = R)
      BY <2>1, <2>4, HandedOverOnce
    <2> QED BY <2>3, <2>5
  <1>7. ASSUME NEW q \in DurableRuns, q.core = R.core
        PROVE  /\ q.stage \in Nat /\ q.stage <= R.stage
               /\ q.generation = R.generation
               /\ q.stage < R.stage =>
                     /\ q \in DOMAIN receipts
                     /\ \A i \in q.stage .. R.stage : Journey[i] = Journey[q.stage]
               /\ q.stage = R.stage => q = R
    <2>1. Alike(R, q) /\ Alike(q, R) /\ q.stage \in Nat /\ q \in RunStates
      BY <1>1, DurableFacts DEF StoresInv
    <2>2. ~ (R.stage < q.stage)
      BY <1>7, <2>1 DEF Alike
    <2>3. q.generation = R.generation
      BY <1>7, <2>1 DEF Alike
    <2>4. /\ q = [core |-> q.core, stage |-> q.stage, generation |-> q.generation]
          /\ R = [core |-> R.core, stage |-> R.stage, generation |-> R.generation]
      BY <1>1, <2>1, RunStateTyped
    <2>5. q.stage = R.stage => q = R
      BY <1>7, <2>3, <2>4
    <2> QED BY <1>1, <1>7, <2>1, <2>2, <2>3, <2>5 DEF Alike
  <1>8. N \notin DurableRuns
    <2>1. N.core = R.core => ~ (N \in DurableRuns)
      BY <1>1, <1>4, <1>7
    <2> QED BY <1>6, <2>1
  <1>9. Current' = IF Current = R THEN N ELSE Current
    <2>1. Raises(receipts')
      BY <1>1, <1>4 DEF Raises
    <2>2. N \notin DOMAIN receipts'
      BY <1>8 DEF StoresInv, Receipted
    <2>3. StoredRun \in RunStates
      BY <1>1, DurableFacts
    <2>4. Follow(receipts')[StoredRun] = IF Follow(receipts)[StoredRun] = R THEN N
                                         ELSE Follow(receipts)[StoredRun]
      BY <1>1, <2>1, <2>2, <2>3, FollowMore
    <2>5. Current' = Follow(receipts')[StoredRun']
      BY DEF Current, Follow
    <2> QED BY <1>2, <2>4, <2>5, CurrentFollows
  <1>10. StoresTyped'
    BY <1>1, <1>2, <1>3 DEF StoresTyped
  <1>11. Chained' /\ Counted'
    BY <1>2 DEF StoresInv, Chained, Counted
  <1>12. Receipted'
    <2> SUFFICES ASSUME NEW r \in DOMAIN receipts', NEW n, n = receipts'[r]
                 PROVE  r \in DurableRuns' /\ Leads(r, n)'
      BY DEF Receipted
    <2>1. r \in DurableRuns /\ Leads(r, n)
      BY DEF StoresInv, Receipted
    <2> QED BY <1>2, <1>3, <2>1 DEF Leads, Within
  <1>13. OnStage(N)
    <2>1. CASE N.core = R.core
      <3>1. Journey[N.stage] = Snapshot(N.core).state
        BY <1>4, <1>5, <2>1, <1>1 DEF Within
      <3> QED BY <1>1, <2>1, <3>1 DEF OnStage
    <2>2. CASE N.core # R.core
      <3>1. N.core \in 1 .. Version /\ HandsOver(kernel[N.core].route, R.stage)
        BY <1>1, <1>5, <2>2
      <3>2. Snapshot(N.core).state = kernel[N.core].route.to
        <4>1. Snapshot(N.core) = Applied(Snapshot(N.core - 1), kernel[N.core].route)
          BY <3>1, KernelFacts
        <4> QED BY <4>1 DEF Applied
      <3> QED BY <1>1, <1>4, <3>1, <3>2 DEF OnStage, HandsOver
    <2> QED BY <2>1, <2>2
  <1>14. (\A r \in DurableRuns : OnStage(r))'
    <2> SUFFICES ASSUME NEW r \in DurableRuns \cup {N} PROVE OnStage(r)'
      BY <1>3
    <2>1. OnStage(r)
      BY <1>13 DEF StoresInv
    <2> QED BY <1>2, <2>1 DEF OnStage
  <1>15. (\A r, q \in DurableRuns : Alike(r, q))'
    <2> SUFFICES ASSUME NEW r \in DurableRuns \cup {N}, NEW q \in DurableRuns \cup {N},
                        r.core = q.core
                 PROVE  /\ r.generation = q.generation
                        /\ r.stage < q.stage =>
                              /\ r \in DOMAIN receipts'
                              /\ \A i \in r.stage .. q.stage : Journey[i] = Journey[r.stage]
      BY <1>3 DEF Alike
    <2>1. CASE r # N /\ q # N
      BY <2>1 DEF StoresInv, Alike
    <2>2. CASE r = N /\ q = N
      BY <1>1, <1>4, <2>2
    <2>3. CASE r = N /\ q # N
      <3>1. q \in DurableRuns /\ N.core = R.core /\ q.core = R.core
        BY <1>6, <2>3
      <3> QED BY <1>1, <1>4, <1>7, <2>3, <3>1
    <2>4. CASE r # N /\ q = N
      <3>1. r \in DurableRuns /\ N.core = R.core /\ r.core = R.core
        BY <1>6, <2>4
      <3>2. /\ r.generation = q.generation /\ r.stage \in Nat /\ r.stage <= R.stage
            /\ r \in DOMAIN receipts'
            /\ \A i \in r.stage .. R.stage : Journey[i] = Journey[r.stage]
        <4>1. CASE r.stage < R.stage
          BY <1>1, <1>4, <1>7, <2>4, <3>1, <4>1
        <4>2. CASE r.stage = R.stage
          <5>1. r = R
            BY <1>7, <3>1, <4>2
          <5> QED BY <1>1, <1>4, <2>4, <5>1
        <4> QED BY <1>1, <1>7, <3>1, <4>1, <4>2
      <3>3. Journey[R.stage + 1] = Journey[R.stage]
        BY <1>1, <1>5, <3>1 DEF Within
      <3>4. R.stage \in r.stage .. R.stage
        BY <1>1, <3>2
      <3>5. Journey[R.stage] = Journey[r.stage]
        BY <3>2, <3>4
      <3>6. \A i \in r.stage .. R.stage + 1 : i \in r.stage .. R.stage \/ i = R.stage + 1
        BY <1>1, <3>2
      <3> QED BY <1>4, <2>4, <3>2, <3>3, <3>5, <3>6
    <2> QED BY <2>1, <2>2, <2>3, <2>4
  <1>16. (\A r \in DurableRuns : r.core # 0 => Entered(r.core))'
    <2>1. ASSUME NEW r \in DurableRuns, r.core # 0
          PROVE  Entered(r.core)'
      <3>1. PICK e \in DurableRuns :
                /\ e.core + 1 = r.core
                /\ \/ e \in DOMAIN receipts /\ HandsOver(kernel[r.core].route, e.stage)
                   \/ StoredRun.core >= r.core /\ Controls(kernel[r.core].route, e.stage)
        BY <2>1 DEF StoresInv, Entered
      <3> QED BY <1>2, <1>3, <3>1 DEF Entered
    <2>2. N.core # 0 => Entered(N.core)'
      <3>1. CASE N.core = R.core
        BY <2>1, <3>1
      <3>2. CASE N.core # R.core
        <4>1. R \in DurableRuns' /\ R.core + 1 = N.core /\ R \in DOMAIN receipts'
              /\ HandsOver(kernel'[N.core].route, R.stage)
          BY <1>2, <1>3, <1>5, <3>2
        <4> QED BY <4>1 DEF Entered
      <3> QED BY <3>1, <3>2
    <2> QED BY <1>3, <2>1, <2>2
  <1>17. (Current.core)' \in {Version', Version' - 1} /\ Current.core <= (Current.core)'
    <2>1. Current.core \in {Version, Version - 1}
      BY DEF StoresInv
    <2> QED BY <1>1, <1>2, <1>5, <1>9, <2>1
  <1>18. (\A r \in DurableRuns : r.generation <= Budget.generation)'
    BY <1>2, <1>3, <1>4 DEF StoresInv
  <1>19. Reckoned'
    <2>1. \A r : Before(r)' = Before(r) /\ After(r)' = After(r)
      BY <1>2 DEF Before, After
    <2>2. Reckoned
      BY DEF StoresInv
    <2>3. CASE Current # R
      BY <1>2, <1>9, <2>1, <2>2, <2>3 DEF Reckoned
    <2>4. CASE Current = R /\ N.core = R.core
      <3>1. Before(N) = Before(R)
        BY <1>4, <2>4 DEF Before
      <3>2. After(N) = After(R)
        <4>1. R.stage + 1 \in DOMAIN Journey
          BY <1>1, <1>5, <2>4, Stages DEF Within
        <4>2. \A i \in R.stage .. R.stage + 1 : Journey[i] = Journey[R.stage]
          <5>1. Journey[R.stage + 1] = Journey[R.stage]
            BY <1>1, <1>5, <2>4 DEF Within
          <5>2. \A i \in R.stage .. R.stage + 1 : i = R.stage \/ i = R.stage + 1
            BY <1>1
          <5> QED BY <5>1, <5>2
        <4>3. \A route : Renews(route, R.stage) = Renews(route, R.stage + 1)
          BY <1>1, <4>1, <4>2, SameControl
        <4> QED BY <1>4, <2>4, <4>3 DEF After, GenerationAfter
      <3> QED BY <1>2, <1>9, <2>1, <2>2, <2>4, <3>1, <3>2 DEF Reckoned
    <2>5. CASE Current = R /\ N.core # R.core
      <3> DEFINE route == kernel[N.core].route
      <3>1. /\ N.core = R.core + 1 /\ N.core \in 1 .. Version
            /\ route \in Routes /\ HandsOver(route, R.stage)
        BY <1>1, <1>5, <2>5
      <3>2. ~ Renews(route, R.stage) /\ route.event # "retry-requested"
        BY <1>1, <3>1, HandOverOrControl, HandOverFacts
      <3>3. N.core - 1 = R.core /\ R.core \in 0 .. Version /\ R.generation \in Nat
        BY <1>1, <3>1, DurableFacts
      <3>4. /\ Snapshot(N.core) = Applied(Snapshot(R.core), route)
            /\ Snapshot(R.core).retries \in Nat
        BY <3>1, <3>3, KernelFacts, SnapshotTyped
      <3> HIDE DEF route
      <3>5. Snapshot(N.core).retries = Snapshot(R.core).retries
        BY <3>2, <3>4 DEF Applied
      <3>6. GenerationAfter(route, R.stage, R.generation) = R.generation
        BY <3>2, <3>3 DEF GenerationAfter
      <3>7. Before(N) = Before(R) /\ Before(N) = After(R)
        BY <1>4, <3>1, <3>5, <3>6 DEF Before, After, route
      <3> QED BY <1>2, <1>9, <2>1, <2>2, <2>5, <3>7 DEF Reckoned
    <2> QED BY <2>3, <2>4, <2>5
  <1>20. Onward
    <2>1. Len(budgets) \in Nat
      BY <1>1 DEF StoresTyped
    <2> QED BY <1>1, <1>2, <1>3, <1>17, <2>1 DEF Onward
  <1>21. StoresInv'
    BY <1>10, <1>11, <1>12, <1>14, <1>15, <1>16, <1>17, <1>18, <1>19 DEF StoresInv
  <1> QED BY <1>8, <1>9, <1>20, <1>21 DEF Kept
BudgetEntries == [generation : Nat, retries : Nat, receipt : Nat, run : RunStates]

\* The budget counts: its generation is the length of its lineage.
LEMMA BudgetFacts ==
    ASSUME StoresInv
    PROVE  /\ Len(budgets) \in Nat /\ budgets \in Seq(BudgetEntries)
           /\ Budget.generation = Len(budgets)
           /\ budgets # <<>> => Budget = [generation |-> budgets[Len(budgets)].generation,
                                          retries |-> budgets[Len(budgets)].retries]
  <1>1. budgets \in Seq(BudgetEntries)
    BY DEF StoresInv, StoresTyped, BudgetEntries
  <1>2. budgets # <<>> => Len(budgets) \in DOMAIN budgets
    BY <1>1
  <1>3. budgets # <<>> => budgets[Len(budgets)].generation = Len(budgets)
    BY <1>2 DEF StoresInv, Counted
  <1>4. budgets = <<>> => Len(budgets) = 0
    OBVIOUS
  <1> QED BY <1>1, <1>3, <1>4 DEF Budget

LEMMA BudgetWritten ==
    ASSUME StoresInv, Current.core < Version, NEW e \in BudgetEntries,
           e.generation = Len(budgets) + 1,
           [generation |-> e.generation, retries |-> e.retries] = After(Current),
           Longer(budgets, budgets', e), UNCHANGED <<kernel, receipts, runs>>
    PROVE  Kept /\ Current' = Current /\ Budget' = After(Current)
  <1>1. /\ StoresTyped /\ Len(budgets) \in Nat /\ budgets \in Seq(BudgetEntries)
        /\ Budget.generation = Len(budgets) /\ Version \in Nat /\ Current.core \in Nat
    BY BudgetFacts, KernelFacts, CurrentFacts DEF StoresInv
  <1>2. /\ kernel' = kernel /\ receipts' = receipts /\ runs' = runs
        /\ Version' = Version /\ StoredRun' = StoredRun /\ DurableRuns' = DurableRuns
        /\ Current' = Current /\ \A v : Snapshot(v)' = Snapshot(v)
    BY CurrentUnchanged DEF Version, StoredRun, DurableRuns, Snapshot
  <1>3. /\ budgets' \in Seq(BudgetEntries) /\ Len(budgets') = Len(budgets) + 1
        /\ budgets' # <<>> /\ DOMAIN budgets' = 1 .. Len(budgets) + 1
        /\ DOMAIN budgets = 1 .. Len(budgets)
        /\ \A i \in 1 .. Len(budgets) : budgets'[i] = budgets[i]
        /\ budgets'[Len(budgets) + 1] = e
    BY <1>1, LongerFacts
  <1>4. Budget' = After(Current) /\ Budget'.generation = Len(budgets) + 1
    BY <1>3 DEF Budget
  <1>5. StoresTyped'
    BY <1>1, <1>2, <1>3 DEF StoresTyped, BudgetEntries
  <1>6. Chained' /\ Receipted'
    BY <1>2 DEF StoresInv, Chained, Receipted, Leads, Within
  <1>7. Counted'
    <2> SUFFICES ASSUME NEW i \in 1 .. Len(budgets) + 1 PROVE budgets'[i].generation = i
      BY <1>3 DEF Counted
    <2>1. CASE i \in 1 .. Len(budgets)
      BY <1>3, <2>1 DEF StoresInv, Counted
    <2>2. CASE i = Len(budgets) + 1
      BY <1>3, <2>2
    <2> QED BY <1>1, <2>1, <2>2
  <1>8. /\ (\A r \in DurableRuns : OnStage(r))'
        /\ (\A r, q \in DurableRuns : Alike(r, q))'
        /\ (\A r \in DurableRuns : r.core # 0 => Entered(r.core))'
    BY <1>2 DEF StoresInv, OnStage, Alike, Entered
  <1>9. (Current.core \in {Version, Version - 1})'
    BY <1>2 DEF StoresInv
  <1>10. (\A r \in DurableRuns : r.generation <= Budget.generation)'
    <2>1. ASSUME NEW r \in DurableRuns
          PROVE  r.generation <= Len(budgets) + 1
      BY <1>1, DurableFacts DEF StoresInv
    <2> QED BY <1>2, <1>4, <2>1
  <1>11. Reckoned'
    <2>1. \A r : After(r)' = After(r)
      BY <1>2 DEF After
    <2> QED BY <1>2, <1>4, <2>1 DEF Reckoned
  <1>12. Onward
    BY <1>1, <1>2, <1>3 DEF Onward
  <1> QED BY <1>2, <1>4, <1>5, <1>6, <1>7, <1>8, <1>9, <1>10, <1>11, <1>12 DEF Kept, StoresInv

LEMMA RunStored ==
    ASSUME StoresTyped, NEW N \in RunStates, Longer(runs, runs', N), UNCHANGED receipts
    PROVE  /\ runs' \in Seq(RunStates)
           /\ StoredRun' = N /\ DurableRuns' = DurableRuns \cup {N}
           /\ Current' = Follow(receipts)[N]
  <1>1. runs \in Seq(RunStates)
    BY DEF StoresTyped
  <1>2. /\ Len(runs) \in Nat /\ DOMAIN runs = 1 .. Len(runs)
        /\ runs' \in Seq(RunStates) /\ Len(runs') = Len(runs) + 1 /\ runs' # <<>>
        /\ DOMAIN runs' = 1 .. Len(runs) + 1
        /\ \A i \in 1 .. Len(runs) : runs'[i] = runs[i]
        /\ runs'[Len(runs) + 1] = N
    BY <1>1, LongerFacts
  <1>3. {runs'[i] : i \in DOMAIN runs'} = {runs[i] : i \in DOMAIN runs} \cup {N}
    <2>1. ASSUME NEW i \in DOMAIN runs'
          PROVE  runs'[i] \in {runs[j] : j \in DOMAIN runs} \cup {N}
      <3>1. i \in DOMAIN runs \/ i = Len(runs) + 1
        BY <1>2
      <3> QED BY <1>2, <3>1
    <2>2. ASSUME NEW i \in DOMAIN runs
          PROVE  runs[i] \in {runs'[j] : j \in DOMAIN runs'}
      BY <1>2
    <2>3. N \in {runs'[j] : j \in DOMAIN runs'}
      <3>1. Len(runs) + 1 \in DOMAIN runs'
        BY <1>2
      <3> QED BY <1>2, <3>1
    <2> QED BY <2>1, <2>2, <2>3
  <1>4. StoredRun' = N
    BY <1>2 DEF StoredRun
  <1>5. DurableRuns' = DurableRuns \cup {N}
    BY <1>3 DEF DurableRuns
  <1>6. Current' = Follow(receipts)[N]
    <2>1. Current' = Follow(receipts')[StoredRun']
      BY DEF Current, Follow
    <2> QED BY <1>4, <2>1
  <1> QED BY <1>2, <1>4, <1>5, <1>6

LEMMA RunMirrored ==
    ASSUME StoresInv, StoredRun \in DOMAIN receipts,
           Longer(runs, runs', receipts[StoredRun]), UNCHANGED <<kernel, receipts, budgets>>
    PROVE  Kept /\ Current' = Current
  <1> DEFINE N == receipts[StoredRun]
  <1>1. /\ StoresTyped /\ Raises(receipts) /\ Version \in Nat
        /\ N \in RunStates /\ N \in DurableRuns /\ StoredRun \in DurableRuns
        /\ StoredRun \in RunStates /\ Len(budgets) \in Nat /\ Current.core \in Nat
        /\ StoredRun.core \in Nat /\ N.core \in Nat
    BY ReceiptsRaise, DurableFacts, KernelFacts, BudgetFacts, CurrentFacts DEF StoresInv
  <1>2. /\ kernel' = kernel /\ receipts' = receipts /\ budgets' = budgets
        /\ Version' = Version /\ Budget' = Budget
        /\ \A v : Snapshot(v)' = Snapshot(v)
    BY DEF Version, Budget, Snapshot
  <1>3. N.core \in {StoredRun.core, StoredRun.core + 1}
    BY DEF StoresInv, Receipted, Leads
  <1> HIDE DEF N
  <1>4. /\ runs' \in Seq(RunStates) /\ StoredRun' = N /\ DurableRuns' = DurableRuns
        /\ Current' = Follow(receipts)[N]
    BY <1>1, RunStored DEF N
  <1>5. Current' = Current
    BY <1>1, <1>4, FollowStep, CurrentFollows DEF N
  <1>6. StoresTyped'
    BY <1>1, <1>2, <1>4 DEF StoresTyped
  <1>7. Chained' /\ Receipted' /\ Counted'
    BY <1>2, <1>4 DEF StoresInv, Chained, Receipted, Leads, Within, Counted
  <1>8. /\ (\A r \in DurableRuns : OnStage(r))'
        /\ (\A r, q \in DurableRuns : Alike(r, q))'
    BY <1>2, <1>4 DEF StoresInv, OnStage, Alike
  <1>9. ASSUME NEW r \in DurableRuns, r.core # 0
        PROVE  Entered(r.core)'
    <2>1. PICK e \in DurableRuns :
              /\ e.core + 1 = r.core
              /\ \/ e \in DOMAIN receipts /\ HandsOver(kernel[r.core].route, e.stage)
                 \/ StoredRun.core >= r.core /\ Controls(kernel[r.core].route, e.stage)
      BY <1>9 DEF StoresInv, Entered
    <2>2. r.core \in Nat
      BY <1>1, DurableFacts
    <2>3. StoredRun.core >= r.core => N.core >= r.core
      BY <1>1, <1>3, <2>2
    <2> QED BY <1>2, <1>4, <2>1, <2>3 DEF Entered
  <1>10. /\ (Current.core \in {Version, Version - 1})'
         /\ (\A r \in DurableRuns : r.generation <= Budget.generation)'
         /\ Reckoned'
    BY <1>2, <1>4, <1>5 DEF StoresInv, Reckoned, Before, After
  <1>11. Onward
    BY <1>1, <1>2, <1>4, <1>5 DEF Onward
  <1> QED BY <1>4, <1>5, <1>6, <1>7, <1>8, <1>9, <1>10, <1>11 DEF Kept, StoresInv

LEMMA RunSwapped ==
    ASSUME StoresInv, StoredRun.core < Version,
           NEW route, route = kernel[StoredRun.core + 1].route,
           Controls(route, StoredRun.stage), Budget = After(StoredRun),
           NEW N, N = [core |-> StoredRun.core + 1,
                       stage |-> StageAfter(route, StoredRun.stage),
                       generation |-> GenerationAfter(route, StoredRun.stage,
                                                      StoredRun.generation)],
           Longer(runs, runs', N), UNCHANGED <<kernel, receipts, budgets>>
    PROVE  Kept /\ Current' = N
  <1> DEFINE c == StoredRun.core
  <1>1. /\ StoresTyped /\ Raises(receipts) /\ Version \in Nat
        /\ StoredRun \in DurableRuns /\ StoredRun \in RunStates
        /\ Len(budgets) \in Nat /\ Current.core \in Nat
        /\ c \in Nat /\ StoredRun.stage \in DOMAIN Journey /\ StoredRun.generation \in Nat
        /\ Budget.generation \in Nat
    BY ReceiptsRaise, DurableFacts, KernelFacts, BudgetFacts, CurrentFacts DEF StoresInv
  <1>2. /\ Current.core = c /\ \A r \in DurableRuns : r.core # c + 1
    BY ControlledCurrent
  <1>3. c + 1 = Version
    BY <1>1, <1>2 DEF StoresInv
  <1>4. /\ N.core = c + 1 /\ N.stage = StageAfter(route, StoredRun.stage)
        /\ N.generation = GenerationAfter(route, StoredRun.stage, StoredRun.generation)
    OBVIOUS
  <1>5. N \in RunStates
    BY <1>1, ControlledStage, GenerationTyped DEF RunStates
  <1>6. N \notin DurableRuns /\ N \notin DOMAIN receipts
    BY <1>2, <1>4 DEF StoresInv, Receipted
  <1>7. /\ kernel' = kernel /\ receipts' = receipts /\ budgets' = budgets
        /\ Version' = Version /\ Budget' = Budget
        /\ \A v : Snapshot(v)' = Snapshot(v)
    BY DEF Version, Budget, Snapshot
  <1>8. /\ runs' \in Seq(RunStates) /\ StoredRun' = N /\ DurableRuns' = DurableRuns \cup {N}
        /\ Current' = N
    <2>1. Current' = Follow(receipts)[N] /\ Follow(receipts)[N] = N
      BY <1>1, <1>5, <1>6, RunStored, FollowStep
    <2> QED BY <1>1, <1>5, <2>1, RunStored
  <1>9. StoresTyped'
    BY <1>1, <1>5, <1>7, <1>8 DEF StoresTyped
  <1>10. Chained' /\ Counted'
    BY <1>7 DEF StoresInv, Chained, Counted
  <1>11. Receipted'
    BY <1>7, <1>8 DEF StoresInv, Receipted, Leads, Within
  <1>12. OnStage(N)
    <2>1. c + 1 \in 1 .. Version
      BY <1>1, <1>3
    <2>2. \E core : Snapshot(N.core) = Applied(core, route)
      <3>1. N.core \in 1 .. Version /\ kernel[N.core].route = route
        BY <1>4, <2>1
      <3> QED BY <3>1, KernelFacts
    <2>3. Snapshot(N.core).state = route.to
      BY <2>2 DEF Applied
    <2>4. route.to \notin ControlDestinations => Journey[N.stage] = route.to
      BY <1>1, <1>4, ControlledStage
    <2> QED BY <1>4, <2>1, <2>3, <2>4 DEF OnStage
  <1>13. (\A r \in DurableRuns : OnStage(r))'
    <2> SUFFICES ASSUME NEW r \in DurableRuns \cup {N} PROVE OnStage(r)'
      BY <1>8
    <2>1. OnStage(r)
      BY <1>12 DEF StoresInv
    <2> QED BY <1>7, <2>1 DEF OnStage
  <1>14. (\A r, q \in DurableRuns : Alike(r, q))'
    <2> SUFFICES ASSUME NEW r \in DurableRuns \cup {N}, NEW q \in DurableRuns \cup {N}
                 PROVE  Alike(r, q)
      BY <1>7, <1>8 DEF Alike
    <2>1. CASE r # N /\ q # N
      BY <2>1 DEF StoresInv
    <2>2. CASE r = N /\ q = N
      <3>1. N.stage \in Nat
        BY <1>5, RunStateTyped
      <3> QED BY <2>2, <3>1 DEF Alike
    <2>3. CASE r = N /\ q # N
      BY <1>2, <1>4, <2>3 DEF Alike
    <2>4. CASE r # N /\ q = N
      BY <1>2, <1>4, <2>4 DEF Alike
    <2> QED BY <2>1, <2>2, <2>3, <2>4
  <1>15. (\A r \in DurableRuns : r.core # 0 => Entered(r.core))'
    <2>1. ASSUME NEW r \in DurableRuns, r.core # 0
          PROVE  Entered(r.core)'
      <3>1. PICK e \in DurableRuns :
                /\ e.core + 1 = r.core
                /\ \/ e \in DOMAIN receipts /\ HandsOver(kernel[r.core].route, e.stage)
                   \/ StoredRun.core >= r.core /\ Controls(kernel[r.core].route, e.stage)
        BY <2>1 DEF StoresInv, Entered
      <3>2. r.core \in Nat
        BY <1>1, DurableFacts
      <3>3. StoredRun.core >= r.core => N.core >= r.core
        BY <1>1, <1>4, <3>2
      <3> QED BY <1>7, <1>8, <3>1, <3>3 DEF Entered
    <2>2. Entered(N.core)'
      BY <1>1, <1>4, <1>7, <1>8 DEF Entered
    <2> QED BY <1>8, <2>1, <2>2
  <1>16. Budget = Before(N)
    <2>1. After(StoredRun) = [generation |-> N.generation, retries |-> Snapshot(N.core).retries]
      BY <1>4 DEF After
    <2> QED BY <2>1 DEF Before
  <1>17. (\A r \in DurableRuns : r.generation <= Budget.generation)'
    <2>1. N.generation <= Budget.generation
      BY <1>1, <1>16 DEF Before
    <2> QED BY <1>7, <1>8, <2>1 DEF StoresInv
  <1>18. (Current.core \in {Version, Version - 1})' /\ Reckoned'
    BY <1>3, <1>4, <1>7, <1>8, <1>16 DEF Reckoned, Before
  <1>19. Onward
    BY <1>1, <1>2, <1>4, <1>7, <1>8 DEF Onward
  <1> QED BY <1>8, <1>9, <1>10, <1>11, <1>13, <1>14, <1>15, <1>17, <1>18, <1>19
          DEF Kept, StoresInv
-----------------------------------------------------------------------------
(* What a write of one worker leaves of the others.                            *)

CountsTyped == Current.core \in Nat /\ Version \in Nat /\ Len(budgets) \in Nat

LEMMA Counts == StoresInv => CountsTyped
  BY CurrentFacts, KernelFacts, BudgetFacts DEF CountsTyped

LEMMA CountsNext == StoresInv' => CountsTyped'
  BY Counts, PTL

LEMMA SnapshotsStay ==
    ASSUME StoresInv, Onward
    PROVE  \A v \in 0 .. Version : Snapshot(v)' = Snapshot(v)
  <1>1. Version \in Nat
    BY KernelFacts
  <1> QED BY <1>1 DEF Onward, Snapshot

LEMMA TaskFacts ==
    ASSUME RunInv, NEW w \in Workers
    PROVE  /\ task[w].run \in RunStates /\ task[w].run.core \in Nat
           /\ task[w].run.stage \in DOMAIN Journey /\ task[w].run.generation \in Nat
           /\ task[w].budget \in 0 .. Len(budgets) /\ Len(budgets) \in Nat
           /\ pc[w] # "idle" => /\ task[w].run \in DurableRuns
                                /\ task[w].run.core <= Current.core
                                /\ task[w].run.core \in 0 .. Version
           /\ Current.core \in 0 .. Version /\ Version \in Nat
  <1>1. task[w].run \in RunStates /\ task[w].budget \in 0 .. Len(budgets)
    BY DEF RunInv, TasksTyped, Tasks
  <1>2. Current.core \in 0 .. Version /\ Version \in Nat /\ Len(budgets) \in Nat
    BY CurrentFacts, KernelFacts, BudgetFacts DEF RunInv
  <1>3. pc[w] # "idle" => task[w].run \in DurableRuns /\ task[w].run.core <= Current.core
    BY DEF RunInv, Working, Saw
  <1> QED BY <1>1, <1>2, <1>3, RunStateTyped, Stages

\* What is due to a budget for a transition that is in the kernel.
LEMMA DueFacts ==
    ASSUME RunInv, NEW w \in Workers, Done(w)
    PROVE  /\ task[w].route = kernel[task[w].run.core + 1].route
           /\ Due(w) = After(task[w].run)
  <1>1. /\ task[w].run.core \in Nat /\ task[w].run.core < Version
        /\ kernel[task[w].run.core + 1] = Result(w) /\ Version \in Nat
    BY TaskFacts DEF Done
  <1>2. task[w].run.core + 1 \in 1 .. Version
    BY <1>1
  <1>3. Snapshot(task[w].run.core + 1) = Result(w).snapshot
    BY <1>1, <1>2, KernelFacts DEF RunInv
  <1>4. kernel[task[w].run.core + 1].route = task[w].route
    BY <1>1 DEF Result
  <1> QED BY <1>3, <1>4 DEF Due, After, NextRun

LEMMA BudgetDueFacts ==
    ASSUME RunInv, NEW w \in Workers
    PROVE  /\ ~ BudgetDue(w) /\ task[w].budget = Len(budgets) => Budget = Due(w)
           /\ Budget = Due(w) /\ BudgetDue(w) => task[w].budget < Len(budgets)
  <1>1. task[w].budget \in 0 .. Len(budgets) /\ Len(budgets) \in Nat
    BY TaskFacts
  <1>2. task[w].budget = Len(budgets) =>
            SeenBudget(w).generation = Budget.generation /\ SeenBudget(w).retries = Budget.retries
    <2>1. budgets = <<>> <=> Len(budgets) = 0
      BY BudgetFacts DEF RunInv
    <2> QED BY <2>1 DEF SeenBudget, Budget
  <1>3. Budget = [generation |-> Budget.generation, retries |-> Budget.retries]
    BY DEF Budget
  <1>4. /\ Due(w) = [generation |-> NextRun(w).generation, retries |-> Result(w).snapshot.retries]
        /\ Due(w).generation = NextRun(w).generation /\ Due(w).retries = Result(w).snapshot.retries
    BY DEF Due
  <1>5. BudgetDue(w) <=> SeenBudget(w).generation # Due(w).generation
                         \/ SeenBudget(w).retries # Due(w).retries
    BY <1>4 DEF BudgetDue
  <1> HIDE DEF Due
  <1>6. ~ BudgetDue(w) /\ task[w].budget = Len(budgets) => Budget = Due(w)
    BY <1>2, <1>3, <1>4, <1>5
  <1>7. Budget = Due(w) /\ BudgetDue(w) => task[w].budget # Len(budgets)
    BY <1>2, <1>5
  <1> QED BY <1>1, <1>6, <1>7

\* A worker's own view of what it does is not disturbed by writes.
LEMMA ViewStays ==
    ASSUME RunInv, Onward, NEW w \in Workers, pc[w] # "idle", task'[w] = task[w]
    PROVE  /\ Due(w)' = Due(w) /\ (BudgetDue(w)' <=> BudgetDue(w))
           /\ Snapshot(task[w].run.core)' = Snapshot(task[w].run.core)
           /\ Done(w) => Done(w)'
           /\ task[w].run.core < Version /\ Done(w)' => Done(w)
  <1> DEFINE t == task[w]
  <1>1. /\ t.run.core \in 0 .. Version /\ Version \in Nat
        /\ t.budget \in 0 .. Len(budgets) /\ Len(budgets) \in Nat
    BY TaskFacts
  <1>2. \A v \in 0 .. Version : Snapshot(v)' = Snapshot(v)
    BY SnapshotsStay DEF RunInv
  <1>3. Snapshot(t.run.core)' = Snapshot(t.run.core)
    <2>1. (t.run.core)' = t.run.core
      OBVIOUS
    <2> QED BY <1>1, <1>2, <2>1
  <1>4. Result(w)' = Result(w) /\ NextRun(w)' = NextRun(w)
    BY <1>3 DEF Result, NextRun
  <1>5. SeenBudget(w)' = SeenBudget(w)
    BY <1>1 DEF SeenBudget, Onward
  <1>6. t.run.core < Version => kernel'[t.run.core + 1] = kernel[t.run.core + 1]
    <2>1. t.run.core < Version => t.run.core + 1 \in 1 .. Version
      BY <1>1
    <2> QED BY <2>1 DEF Onward
  <1>7. Version <= Version' /\ Version' \in Int
    BY <1>1 DEF Onward, Version
  <1> QED BY <1>1, <1>3, <1>4, <1>5, <1>6, <1>7 DEF Due, BudgetDue, Done
\* Another worker goes on as it did.
LEMMA WorkingStays ==
    ASSUME RunInv, Kept, NEW w \in Workers, pc[w] # "idle", pc'[w] = pc[w], task'[w] = task[w],
           Late(w)', Recorded(w)'
    PROVE  Working(w)'
  <1>1. Onward /\ Working(w)
    BY DEF Kept, RunInv
  <1>2. /\ Due(w)' = Due(w) /\ (BudgetDue(w)' <=> BudgetDue(w))
        /\ Snapshot(task[w].run.core)' = Snapshot(task[w].run.core)
        /\ Done(w) => Done(w)'
    BY <1>1, ViewStays
  <1>3. Saw(w)'
    <2>1. /\ task[w].run \in DurableRuns /\ task[w].run.core <= Current.core
          /\ task[w].run.core \in Nat /\ Current.core \in Nat
      BY TaskFacts
    <2>2. DurableRuns \subseteq DurableRuns' /\ Current.core <= (Current.core)'
      BY <1>1 DEF Onward
    <2>3. (Current.core)' \in Nat
      BY CountsNext DEF Kept, CountsTyped
    <2> QED BY <2>1, <2>2, <2>3 DEF Saw
  <1>4. (Completing(w) => Completing(w)') /\ (Reconciling(w) => Reconciling(w)')
    BY <1>2 DEF Completing, Reconciling, Within
  <1>5. /\ \/ task[w].call = "complete" /\ Completing(w)
           \/ task[w].call = "reconcile" /\ Reconciling(w)
        /\ pc[w] = "kernel" \/ task[w].route = NoRoute \/ Done(w)
    BY <1>1 DEF Working
  <1> QED BY <1>2, <1>3, <1>4, <1>5 DEF Working

\* As long as the run does not move to another snapshot, no worker falls behind.
LEMMA LateStays ==
    ASSUME RunInv, Onward, NEW w \in Workers, pc[w] # "idle", task'[w] = task[w],
           (Current.core)' = Current.core, Late(w)
    PROVE  Late(w)'
  <1>1. /\ task[w].run.core \in Nat /\ Current.core \in 0 .. Version /\ Version \in Nat
        /\ task[w].budget \in 0 .. Len(budgets) /\ Len(budgets) \in Nat
    BY TaskFacts
  <1>2. /\ (BudgetDue(w)' <=> BudgetDue(w))
        /\ task[w].run.core < Version /\ Done(w)' => Done(w)
    BY ViewStays
  <1>3. Len(budgets) <= Len(budgets') /\ Len(budgets') \in Int
    BY <1>1 DEF Onward
  <1> QED BY <1>1, <1>2, <1>3 DEF Late

\* As long as the budget stands, it is that of whom it was.
LEMMA RecordedStays ==
    ASSUME RunInv, Kept, NEW w \in Workers, pc[w] # "idle", pc'[w] = pc[w], task'[w] = task[w],
           Budget' = Budget, Recorded(w)
    PROVE  Recorded(w)'
  <1>1. /\ task[w].run.core \in Nat /\ Current.core \in 0 .. Version /\ Version \in Nat
        /\ task[w].run.core <= Current.core
    BY TaskFacts
  <1>2. Due(w)' = Due(w) /\ Current.core <= (Current.core)'
    BY ViewStays DEF Kept, Onward
  <1>3. (Current.core)' \in Nat
    BY CountsNext DEF Kept, CountsTyped
  <1> QED BY <1>1, <1>2, <1>3 DEF Recorded

\* The step of one worker, with what it must look to of the others.
Others(w) ==
    \A v \in Workers \ {w} :
        /\ pc'[v] = pc[v] /\ task'[v] = task[v]
        /\ pc[v] # "idle" => Late(v)' /\ Recorded(v)'

LEMMA StepKeeps ==
    ASSUME RunInv, NEW w \in Workers, Kept, TasksTyped', Others(w),
           pc'[w] # "idle" => Working(w)'
    PROVE  RunInv'
  <1>1. ASSUME NEW v \in Workers, pc'[v] # "idle"
        PROVE  Working(v)'
    <2>1. CASE v = w
      BY <1>1, <2>1
    <2>2. CASE v # w
      BY <1>1, <2>2, WorkingStays DEF Others
    <2> QED BY <2>1, <2>2
  <1> QED BY <1>1 DEF Kept, RunInv

LEMMA WorkingFacts ==
    ASSUME RunInv, NEW w \in Workers, pc[w] # "idle"
    PROVE  /\ Late(w) /\ Recorded(w) /\ task[w].run \in DurableRuns
           /\ \/ task[w].call = "reconcile" /\ Reconciling(w) /\ task[w].route \in Routes
                 /\ (pc[w] = "kernel" \/ Done(w))
              \/ task[w].call = "complete" /\ Completing(w)
                 /\ (pc[w] = "kernel" \/ task[w].route = NoRoute \/ Done(w))
  <1>1. Working(w)
    BY DEF RunInv
  <1>2. Reconciling(w) => task[w].route \in Routes /\ task[w].route # NoRoute
    BY RouteFacts DEF Reconciling, Applicable
  <1> QED BY <1>1, <1>2 DEF Working, Saw

-----------------------------------------------------------------------------
(* One lemma for each action.                                                  *)

\* The step takes the worker to p, with the task t.
Goes(w, p, t) ==
    /\ p \in {"idle", "kernel", "receipt", "budget", "run"}
    /\ t \in Tasks /\ t.budget <= Len(budgets)
    /\ pc' = [pc EXCEPT ![w] = p] /\ task' = [task EXCEPT ![w] = t]

LEMMA GoesFacts ==
    ASSUME RunInv, NEW w \in Workers, NEW p, NEW t, Goes(w, p, t)
    PROVE  /\ pc'[w] = p /\ task'[w] = t
           /\ \A v \in Workers \ {w} : pc'[v] = pc[v] /\ task'[v] = task[v]
           /\ Kept => TasksTyped'
  <1>1. /\ pc \in [Workers -> {"idle", "kernel", "receipt", "budget", "run"}]
        /\ task \in [Workers -> Tasks]
        /\ \A v \in Workers : task[v].budget \in 0 .. Len(budgets)
    BY DEF RunInv, TasksTyped
  <1>2. /\ pc' \in [Workers -> {"idle", "kernel", "receipt", "budget", "run"}]
        /\ task' \in [Workers -> Tasks]
        /\ pc'[w] = p /\ task'[w] = t /\ t.budget \in Nat /\ t.budget <= Len(budgets)
        /\ \A v \in Workers \ {w} : pc'[v] = pc[v] /\ task'[v] = task[v]
    <2>1. t \in Tasks => t.budget \in Nat
      BY DEF Tasks
    <2> QED BY <1>1, <2>1 DEF Goes
  <1>3. ASSUME Kept
        PROVE  TasksTyped'
    <2>1. Len(budgets) \in Nat /\ Len(budgets') \in Nat /\ Len(budgets) <= Len(budgets')
      <3>1. Len(budgets) \in Nat /\ Len(budgets)' \in Nat
        BY <1>3, BudgetFacts, CountsNext DEF RunInv, Kept, CountsTyped
      <3> QED BY <1>3, <3>1 DEF Kept, Onward
    <2>2. \A v \in Workers : task'[v].budget \in 0 .. Len(budgets')
      BY <1>1, <1>2, <2>1
    <2> QED BY <1>2, <2>2 DEF TasksTyped
  <1> QED BY <1>2, <1>3

\* A step that leaves the current run state and the budget leaves the others.
LEMMA OthersStay ==
    ASSUME RunInv, NEW w \in Workers, Kept, NEW p, NEW t, Goes(w, p, t),
           Current' = Current, Budget' = Budget
    PROVE  Others(w)
  <1>1. \A v \in Workers \ {w} : pc'[v] = pc[v] /\ task'[v] = task[v]
    BY GoesFacts
  <1>2. ASSUME NEW v \in Workers \ {w}, pc[v] # "idle"
        PROVE  Late(v)' /\ Recorded(v)'
    <2>1. Late(v) /\ Recorded(v) /\ Onward
      BY <1>2, WorkingFacts DEF Kept
    <2> QED BY <1>1, <1>2, <2>1, LateStays, RecordedStays
  <1> QED BY <1>1, <1>2 DEF Others

LEMMA Ends ==
    ASSUME RunInv, NEW w \in Workers, pc' = [pc EXCEPT ![w] = "idle"],
           task' = [task EXCEPT ![w] = Idle]
    PROVE  Goes(w, "idle", Idle) /\ (Kept /\ Others(w) => RunInv')
  <1>1. FirstRun \in RunStates /\ FirstRun.core = 0
    BY Stages DEF FirstRun, RunStates
  <1>2. Idle \in Tasks /\ Idle.budget = 0 /\ Len(budgets) \in Nat
    BY <1>1, TaskFacts DEF Idle, Tasks
  <1>3. Goes(w, "idle", Idle)
    BY <1>2 DEF Goes
  <1> QED BY <1>3, GoesFacts, StepKeeps

\* A worker ends and has written nothing.
LEMMA EndKeeps ==
    ASSUME RunInv, NEW w \in Workers, pc' = [pc EXCEPT ![w] = "idle"],
           task' = [task EXCEPT ![w] = Idle], UNCHANGED stores
    PROVE  RunInv' /\ Current' = Current
  <1>1. Kept /\ Current' = Current /\ Budget' = Budget
    BY StoresUnchanged DEF RunInv, Budget, stores
  <1> QED BY <1>1, Ends, OthersStay

LEMMA EvaluableFacts ==
    ASSUME StoresInv, NEW r \in Evaluable(Current)
    PROVE  r \in Applicable(Snapshot(Current.core))
  <1>1. /\ Current.core \in {Version, Version - 1} /\ Current.core \in 0 .. Version
        /\ Version \in Nat
    BY CurrentFacts, KernelFacts DEF StoresInv
  <1>2. CASE Current.core = Version
    BY <1>2 DEF Evaluable
  <1>3. CASE Current.core # Version
    <2>1. PICK v \in 1 .. Version : r = kernel[v].route /\ v - 1 = Current.core
      BY <1>1, <1>3 DEF Evaluable
    <2> QED BY <2>1, KernelFacts
  <1> QED BY <1>2, <1>3

LEMMA LookKeeps ==
    ASSUME RunInv, NEW w \in Workers, Look(w)
    PROVE  RunInv'
  <1>1. PICK c \in Calls(Current) :
            /\ task' = [task EXCEPT ![w] = [run |-> Current, budget |-> Len(budgets),
                                            call |-> c.call, route |-> c.route]]
            /\ pc' = [pc EXCEPT ![w] = IF c.route = NoRoute THEN "receipt" ELSE "kernel"]
    BY DEF Look
  <1> DEFINE t == [run |-> Current, budget |-> Len(budgets), call |-> c.call,
                   route |-> c.route]
             p == IF c.route = NoRoute THEN "receipt" ELSE "kernel"
  <1>2. UNCHANGED stores
    BY DEF Look
  <1>3. /\ Current \in DurableRuns /\ Current \in RunStates /\ Current.core \in 0 .. Version
        /\ Len(budgets) \in Nat /\ Version \in Nat
    BY CurrentFacts, BudgetFacts, KernelFacts DEF RunInv
  <1>4. /\ c.call \in {"complete", "reconcile"} /\ c.route \in Routes \cup {NoRoute}
        /\ c.route # NoRoute => c.route \in Applicable(Snapshot(Current.core))
        /\ c.call = "complete" => \/ c.route = NoRoute /\ Within(Current)
                                  \/ c.route # NoRoute /\ HandsOver(c.route, Current.stage)
        /\ c.call = "reconcile" => c.route # NoRoute /\ Controls(c.route, Current.stage)
    <2>1. \A r \in Evaluable(Current) :
              r \in Applicable(Snapshot(Current.core)) /\ r \in Routes /\ r # NoRoute
      BY EvaluableFacts, RouteFacts DEF RunInv, Applicable
    <2>2. CASE c \in {[call |-> "complete", route |-> r] :
                         r \in {r \in Evaluable(Current) : HandsOver(r, Current.stage)}}
      BY <2>1, <2>2
    <2>3. CASE c \in {[call |-> "reconcile", route |-> r] :
                         r \in {r \in Evaluable(Current) : \/ KeepsStage(r, Current.stage)
                                                           \/ SetsBack(r, Current.stage)}}
      BY <2>1, <2>3 DEF Controls
    <2>4. CASE /\ Current.core = Version /\ Current.stage < Len(Journey)
               /\ Journey[Current.stage] = Snapshot(Version).state
               /\ Journey[Current.stage + 1] = Snapshot(Version).state
               /\ c = [call |-> "complete", route |-> NoRoute]
      BY <2>4 DEF Within
    <2> QED BY <2>2, <2>3, <2>4 DEF Calls
  <1>5. Kept /\ Current' = Current /\ Budget' = Budget
    BY <1>2, StoresUnchanged DEF RunInv, Budget, stores
  <1>6. t \in Tasks /\ t.budget = Len(budgets) /\ p \in {"kernel", "receipt"}
    BY <1>3, <1>4 DEF Tasks
  <1>7. Goes(w, p, t)
    <2> HIDE DEF t, p
    <2>1. task' = [task EXCEPT ![w] = t] /\ pc' = [pc EXCEPT ![w] = p]
      BY <1>1 DEF t, p
    <2> QED BY <1>3, <1>6, <2>1 DEF Goes
  <1>8. /\ task'[w] = t /\ pc'[w] = p
        /\ TasksTyped' /\ Others(w)
    <2> HIDE DEF t, p
    <2> QED BY <1>5, <1>7, GoesFacts, OthersStay
  <1>9. Working(w)'
    <2>1. /\ Snapshot(Current.core)' = Snapshot(Current.core)
          /\ DurableRuns \subseteq DurableRuns'
      BY <1>3, <1>5, SnapshotsStay DEF RunInv, Kept, Onward
    <2>2. Saw(w)'
      BY <1>3, <1>5, <1>8, <2>1 DEF Saw
    <2>3. ~ (task'[w].run.core < (Current.core)')
      BY <1>3, <1>5, <1>8
    <2>4. Late(w)' /\ Recorded(w)'
      BY <1>8, <2>3 DEF Late, Recorded
    <2>5. c.call = "complete" => Completing(w)'
      BY <1>4, <1>5, <1>8, <2>1 DEF Completing, Within
    <2>6. c.call = "reconcile" => Reconciling(w)'
      BY <1>4, <1>5, <1>8, <2>1 DEF Reconciling
    <2> QED BY <1>4, <1>8, <2>2, <2>4, <2>5, <2>6 DEF Working
  <1> QED BY <1>5, <1>8, <1>9, StepKeeps
LEMMA PositionStays ==
    ASSUME StoresInv, Onward, Current' = Current
    PROVE  Position' = Position
  <1>1. Current.core \in 0 .. Version
    BY CurrentFacts
  <1>2. Snapshot(Current.core)' = Snapshot(Current.core)
    BY <1>1, SnapshotsStay
  <1> QED BY <1>2 DEF Position

Moved(a, core, stage) == [a EXCEPT !.core = core, !.stage = stage]

LEMMA TwoFields ==
    ASSUME NEW core, NEW stage, NEW generation, NEW a, NEW b, NEW newcore, NEW newstage,
           a = [core |-> core, stage |-> stage, generation |-> generation],
           b = Moved(a, newcore, newstage)
    PROVE  b = [core |-> newcore, stage |-> newstage, generation |-> generation]
  BY DEF Moved

\* The journey has the same stages as the run.
LEMMA SameStages ==
    /\ Run!Genesis = Genesis
    /\ \A core : Run!Applicable(core) = Applicable(core)
    /\ \A core, route : Run!Applied(core, route) = Applied(core, route)
    /\ \A route, stage :
          /\ Run!HandsOver(route, stage) = HandsOver(route, stage)
          /\ Run!KeepsStage(route, stage) = KeepsStage(route, stage)
          /\ Run!SetsBack(route, stage) = SetsBack(route, stage)
          /\ Run!StageAfter(route, stage) = StageAfter(route, stage)
          /\ \A generation : Run!GenerationAfter(route, stage, generation)
                                 = GenerationAfter(route, stage, generation)
  <1>1. Run!Genesis = Genesis
    BY DEF Run!Genesis, Genesis, Run!None, None
  <1>2. \A core : Run!Applicable(core) = Applicable(core)
    BY DEF Run!Applicable, Applicable, Run!RetainedChoice, RetainedChoice
  <1>3. \A core, route : Run!Applied(core, route) = Applied(core, route)
    BY DEF Run!Applied, Applied, Run!None, None
  <1>4. \A state : Run!FirstStage(state) = FirstStage(state)
    BY DEF Run!FirstStage, FirstStage
  <1>5. \A route, stage : Run!HandsOver(route, stage) = HandsOver(route, stage)
    BY DEF Run!HandsOver, HandsOver
  <1>6. \A route, stage : Run!KeepsStage(route, stage) = KeepsStage(route, stage)
    BY DEF Run!KeepsStage, KeepsStage, Run!Resumes, Resumes, Run!ControlDestinations,
           ControlDestinations
  <1>7. \A route, stage : Run!SetsBack(route, stage) = SetsBack(route, stage)
    BY <1>4, <1>6 DEF Run!SetsBack, SetsBack
  <1>8. \A route, stage : Run!StageAfter(route, stage) = StageAfter(route, stage)
    BY <1>4, <1>7 DEF Run!StageAfter, StageAfter
  <1>9. \A route, stage : Run!Renews(route, stage) = Renews(route, stage)
    BY <1>7 DEF Run!Renews, Renews
  <1>10. \A route, stage, generation :
             Run!GenerationAfter(route, stage, generation)
                 = GenerationAfter(route, stage, generation)
    BY <1>9 DEF Run!GenerationAfter, GenerationAfter
  <1> QED BY <1>1, <1>2, <1>3, <1>5, <1>6, <1>7, <1>8, <1>10

LEMMA HandOverStep ==
    ASSUME NEW core, NEW stage, NEW generation, NEW route \in Applicable(core),
           HandsOver(route, stage),
           Position = [core |-> core, stage |-> stage, generation |-> generation],
           Position' = [core |-> Applied(core, route), stage |-> stage + 1,
                        generation |-> generation]
    PROVE  Run!HandOver
  <1>0. PICK a, newcore, newstage :
            a = Position /\ newcore = Applied(core, route) /\ newstage = stage + 1
    OBVIOUS
  <1>1. PICK b : b = Moved(a, newcore, newstage)
    OBVIOUS
  <1>2. /\ a.core = core /\ a.stage = stage
        /\ a = [core |-> core, stage |-> stage, generation |-> generation]
    BY <1>0
  <1>3. b = [core |-> newcore, stage |-> newstage, generation |-> generation]
    BY <1>1, <1>2, TwoFields
  <1>4. Position' = [Position EXCEPT !.core = Applied(Position.core, route),
                                     !.stage = Position.stage + 1]
    <2>1. Position' = b
      BY <1>0, <1>3
    <2> QED BY <1>0, <1>1, <1>2, <2>1 DEF Moved
  <1>5. /\ route \in Run!Applicable(Position.core)
        /\ Run!HandsOver(route, Position.stage)
        /\ Position' = [Position EXCEPT !.core = Run!Applied(Position.core, route),
                                        !.stage = Position.stage + 1]
    BY <1>0, <1>2, <1>4, SameStages
  <1> QED BY <1>5 DEF Run!HandOver

\* What a step of DemoRun is to its readers.
JourneyStep == Position' = Position \/ Run!Next

LEMMA GoesOn ==
    ASSUME RunInv, NEW w \in Workers, NEW p \in {"kernel", "receipt", "budget", "run"},
           pc' = [pc EXCEPT ![w] = p], UNCHANGED task
    PROVE  Goes(w, p, task[w])
  <1>1. /\ task \in [Workers -> Tasks] /\ task[w].budget \in 0 .. Len(budgets)
        /\ Len(budgets) \in Nat
    BY TaskFacts DEF RunInv, TasksTyped
  <1> DEFINE t == task[w]
  <1>2. task' = [task EXCEPT ![w] = t]
    BY <1>1
  <1>3. t \in Tasks /\ t.budget <= Len(budgets)
    BY <1>1
  <1> HIDE DEF t
  <1>4. Goes(w, p, t)
    BY <1>2, <1>3 DEF Goes
  <1> QED BY <1>4 DEF t

\* A worker goes on to its next store, its transition being in the kernel.
LEMMA GotoKeeps ==
    ASSUME RunInv, NEW w \in Workers, pc[w] # "idle",
           Kept, Current' = Current, Others(w), Done(w)', Recorded(w)',
           NEW p, pc' = [pc EXCEPT ![w] = p], UNCHANGED task,
           \/ task[w].call = "complete" /\ p = "receipt"
              /\ task[w].route # NoRoute
           \/ task[w].call = "reconcile" /\ p \in {"budget", "run"}
    PROVE  RunInv'
  <1>1. Goes(w, p, task[w])
    BY GoesOn
  <1>2. pc'[w] = p /\ task'[w] = task[w] /\ TasksTyped'
    BY <1>1, GoesFacts
  <1>3. /\ Late(w) /\ task[w].run \in DurableRuns
        /\ \/ task[w].call = "reconcile" /\ Reconciling(w)
           \/ task[w].call = "complete" /\ Completing(w)
    BY WorkingFacts
  <1>4. Late(w)'
    BY <1>2, <1>3, LateStays DEF Kept
  <1>5. /\ Snapshot(task[w].run.core)' = Snapshot(task[w].run.core)
    BY <1>2, ViewStays DEF Kept
  <1>6. Saw(w)'
    <2>1. task[w].run.core <= Current.core
      BY TaskFacts
    <2> QED BY <1>2, <1>3, <2>1 DEF Saw, Kept, Onward
  <1>7. \/ task[w].call = "complete" /\ Completing(w)'
        \/ task[w].call = "reconcile" /\ Reconciling(w)'
    BY <1>2, <1>3, <1>5 DEF Completing, Reconciling
  <1>8. Working(w)'
    BY <1>2, <1>4, <1>6, <1>7 DEF Working
  <1> QED BY <1>2, <1>8, StepKeeps

LEMMA ResultApplies ==
    ASSUME RunInv, NEW w \in Workers, pc[w] = "kernel"
    PROVE  /\ task[w].route \in Applicable(Snapshot(task[w].run.core))
           /\ task[w].route \in Routes /\ task[w].route # NoRoute
           /\ task[w].call \in {"complete", "reconcile"}
  <1>1. \/ task[w].call = "reconcile" /\ Reconciling(w)
        \/ task[w].call = "complete" /\ Completing(w)
    BY WorkingFacts
  <1>2. task[w].route \in Applicable(Snapshot(task[w].run.core))
    BY <1>1 DEF Reconciling, Completing
  <1> QED BY <1>1, <1>2, RouteFacts DEF Applicable

LEMMA PersistKernelKeeps ==
    ASSUME RunInv, NEW w \in Workers, PersistKernel(w)
    PROVE  RunInv' /\ JourneyStep
  <1> DEFINE p == IF task[w].call = "complete" THEN "receipt" ELSE "budget"
  <1>1. /\ pc[w] = "kernel" /\ pc' = [pc EXCEPT ![w] = p] /\ task' = task
        /\ receipts' = receipts /\ runs' = runs /\ budgets' = budgets
        /\ \/ MayApply(w) /\ Longer(kernel, kernel', Result(w))
           \/ AlreadyApplied(w) /\ kernel' = kernel
    BY DEF PersistKernel, Goto, Longer
  <1>2. /\ task[w].route \in Applicable(Snapshot(task[w].run.core))
        /\ task[w].route \in Routes /\ task[w].route # NoRoute
        /\ task[w].call \in {"complete", "reconcile"}
    BY <1>1, ResultApplies
  <1>3. /\ task[w].run.core \in Nat /\ task[w].run.core <= Current.core
        /\ Current.core \in 0 .. Version /\ Version \in Nat /\ StoresInv
    BY <1>1, TaskFacts DEF RunInv
  <1>4. Kept /\ Current' = Current /\ Done(w)'
    <2>1. CASE MayApply(w) /\ Longer(kernel, kernel', Result(w))
      <3>1. /\ task[w].run.core = Version /\ Current.core = Version
        BY <1>3, <2>1 DEF MayApply
      <3> DEFINE e == Result(w)
      <3>2. /\ e.route = task[w].route
            /\ e = [route |-> e.route, snapshot |-> Applied(Snapshot(Version), e.route)]
        BY <3>1 DEF Result
      <3>3. e \in Entries /\ kernel \in Seq(Entries)
        <4>1. Version \in 0 .. Version
          BY <1>3
        <4> QED BY <1>2, <1>3, <3>1, <3>2, <4>1, AppliedTyped DEF StoresInv, StoresTyped, Entries
      <3>4. Longer(kernel, kernel', e) /\ e.route \in Applicable(Snapshot(Version))
            /\ UNCHANGED <<receipts, runs, budgets>>
        BY <1>1, <1>2, <2>1, <3>1, <3>2
      <3> HIDE DEF e
      <3>5. Kept /\ Current' = Current
        BY <1>3, <3>1, <3>2, <3>4, KernelWritten
      <3>6. Version' = Version + 1 /\ kernel'[Version + 1] = e
        BY <3>3, <3>4, LongerFacts DEF Version
      <3>7. Snapshot(task[w].run.core)' = Snapshot(task[w].run.core)
        BY <1>1, <3>5, ViewStays DEF Kept
      <3>8. Result(w)' = Result(w)
        BY <1>1, <3>7 DEF Result
      <3>9. task'[w].run.core = Version /\ Result(w)' = e
        BY <1>1, <3>1, <3>8 DEF e
      <3> QED BY <1>3, <3>5, <3>6, <3>9 DEF Done
    <2>2. CASE AlreadyApplied(w) /\ kernel' = kernel
      <3>1. UNCHANGED stores
        BY <1>1, <2>2 DEF stores
      <3>2. Done(w)
        <4>1. kernel[Version] = Result(w) /\ task[w].run.core + 1 = Version
          BY <2>2 DEF AlreadyApplied
        <4> QED BY <1>3, <4>1 DEF Done
      <3>3. Kept /\ Current' = Current
        BY <1>3, <3>1, StoresUnchanged
      <3>4. Done(w) => Done(w)'
        BY <1>1, <3>3, ViewStays DEF Kept
      <3> QED BY <3>2, <3>3, <3>4
    <2> QED BY <1>1, <2>1, <2>2
  <1>5. Budget' = Budget
    BY <1>1 DEF Budget
  <1>6. Goes(w, p, task[w])
    BY <1>1, GoesOn
  <1>7. Others(w)
    BY <1>4, <1>5, <1>6, OthersStay
  <1>8. Recorded(w)'
    <2>1. pc'[w] = p
      BY <1>6, GoesFacts
    <2> QED BY <2>1 DEF Recorded
  <1>9. RunInv'
    BY <1>1, <1>2, <1>4, <1>7, <1>8, GotoKeeps
  <1> QED BY <1>3, <1>4, <1>9, PositionStays DEF JourneyStep, Kept

LEMMA AppendReceiptKeeps ==
    ASSUME RunInv, NEW w \in Workers, AppendReceipt(w)
    PROVE  RunInv' /\ JourneyStep
  <1> DEFINE R == task[w].run
             N == NextStage(w)
  <1>1. /\ pc[w] = "receipt"
        /\ pc' = [pc EXCEPT ![w] = "idle"] /\ task' = [task EXCEPT ![w] = Idle]
        /\ kernel' = kernel /\ runs' = runs /\ budgets' = budgets
        /\ receipts' = [r \in DOMAIN receipts \cup {R} |->
                           IF r \in DOMAIN receipts THEN receipts[r] ELSE N]
    BY DEF AppendReceipt, End
  <1>2. /\ StoresInv /\ R \in DurableRuns /\ R.core \in 0 .. Version
        /\ R \in RunStates /\ R.core \in Nat /\ R.stage \in DOMAIN Journey
        /\ R.generation \in Nat /\ Version \in Nat /\ R.stage \in Nat
        /\ Current.core \in 0 .. Version
    BY <1>1, TaskFacts, Stages DEF RunInv
  <1>3. CASE R \in DOMAIN receipts
    <2>1. receipts' = receipts
      BY <1>1, <1>2, <1>3 DEF StoresInv, StoresTyped
    <2>2. RunInv' /\ Current' = Current
      BY <1>1, <2>1, EndKeeps DEF stores
    <2>3. Onward
      BY <1>1, <1>2, <2>1, StoresUnchanged DEF stores, Kept
    <2> QED BY <1>2, <2>2, <2>3, PositionStays DEF JourneyStep
  <1>4. CASE R \notin DOMAIN receipts
    <2>1. /\ Completing(w) /\ task[w].call = "complete"
          /\ task[w].route # NoRoute => Done(w)
      BY <1>1, WorkingFacts DEF Reconciling
    <2>2. /\ N.stage = R.stage + 1 /\ N.generation = R.generation
          /\ N.core = IF task[w].route = NoRoute THEN R.core ELSE R.core + 1
          /\ N = [core |-> N.core, stage |-> N.stage, generation |-> N.generation]
      <3> DEFINE core == IF task[w].route = NoRoute THEN R.core ELSE R.core + 1
      <3>1. R = [core |-> R.core, stage |-> R.stage, generation |-> R.generation]
        BY <1>2, RunStateTyped
      <3>2. N = [R EXCEPT !.core = core, !.stage = R.stage + 1]
        BY DEF NextStage
      <3> HIDE DEF core, R, N
      <3>3. N = [core |-> core, stage |-> R.stage + 1, generation |-> R.generation]
        BY <3>1, <3>2
      <3> QED BY <3>3 DEF core
    <2>3. task[w].route # NoRoute => /\ HandsOver(task[w].route, R.stage)
                                     /\ task[w].route \in Applicable(Snapshot(R.core))
                                     /\ R.core + 1 \in 1 .. Version
                                     /\ kernel[R.core + 1].route = task[w].route
      <3>1. task[w].route # NoRoute => R.core < Version
        BY <2>1 DEF Done
      <3> QED BY <1>1, <1>2, <2>1, <3>1, DueFacts DEF Completing
    <2>4. task[w].route = NoRoute => Within(R)
      BY <1>1, <2>1, <1>2, RouteFacts DEF Completing, Applicable
    <2>5. R.stage < Len(Journey)
      BY <2>3, <2>4 DEF HandsOver, Within
    <2> HIDE DEF N, R
    <2>6. Leads(R, N)
      BY <1>2, <2>2, <2>3, <2>4 DEF Leads
    <2>7. N \in RunStates
      <3>1. N.core \in Nat /\ N.generation \in Nat /\ N.stage \in DOMAIN Journey
        BY <1>2, <2>2, <2>5, Stages
      <3> QED BY <2>2, <3>1 DEF RunStates
    <2>8. /\ DOMAIN receipts' = DOMAIN receipts \cup {R}
          /\ \A r \in DOMAIN receipts : receipts'[r] = receipts[r]
          /\ receipts'[R] = N
          /\ receipts' \in [DOMAIN receipts' -> RunStates]
      BY <1>1, <1>2, <1>4, <2>7 DEF StoresInv, StoresTyped
    <2>9. Kept /\ Current' = IF Current = R THEN N ELSE Current
      BY <1>1, <1>2, <1>4, <2>6, <2>7, <2>8, ReceiptWritten
    <2>10. Budget' = Budget /\ \A v : Snapshot(v)' = Snapshot(v)
      BY <1>1 DEF Budget, Snapshot
    \* No worker is late: what is handed over is not controlled.
    <2>11. ASSUME NEW v \in Workers \ {w}, pc[v] # "idle"
           PROVE  Late(v)' /\ Recorded(v)'
      <3>1. /\ pc'[v] = pc[v] /\ task'[v] = task[v]
            /\ Late(v) /\ Recorded(v) /\ task[v].run \in DurableRuns
        BY <1>1, <2>11, Ends, GoesFacts, WorkingFacts
      <3>2. Recorded(v)'
        BY <2>9, <2>10, <2>11, <3>1, RecordedStays
      <3>3. CASE (Current.core)' = Current.core
        <4>1. Onward
          BY <2>9 DEF Kept
        <4>2. Late(v)'
          BY <2>11, <3>1, <3>3, <4>1, LateStays
        <4> QED BY <3>2, <4>2
      <3>4. CASE (Current.core)' # Current.core
        <4>1. Current = R /\ Current' = N /\ N.core = R.core + 1 /\ task[w].route # NoRoute
          BY <1>2, <2>2, <2>9, <3>4
        <4>2. SUFFICES ASSUME task[v].call = "reconcile",
                              task[v].run.core < R.core + 1, Done(v)', BudgetDue(v)'
                       PROVE  task[v].budget < Len(budgets)
          BY <1>1, <3>1, <3>2, <4>1 DEF Late
        <4>3. /\ Done(v) /\ (BudgetDue(v)' <=> BudgetDue(v))
              /\ task[v].run.core \in Nat /\ task[v].run.core <= R.core
          <5>1. task[v].run.core < Version /\ task[v].run.core \in Nat
            BY <1>2, <2>3, <2>11, <4>1, <4>2, TaskFacts
          <5> QED BY <1>2, <2>9, <2>11, <3>1, <4>2, <5>1, ViewStays DEF Kept
        <4>4. CASE task[v].run.core < R.core
          BY <3>1, <4>1, <4>2, <4>3, <4>4 DEF Late
        <4>5. CASE task[v].run.core = R.core
          <5>1. Controls(task[v].route, task[v].run.stage)
            BY <2>11, <4>2, WorkingFacts DEF Reconciling
          <5>2. task[v].route = task[w].route
            BY <2>3, <4>1, <4>3, <4>5, DueFacts
          <5>3. HandsOver(task[v].route, R.stage) /\ task[v].route \in Routes
            BY <2>3, <4>1, <5>2 DEF Applicable
          <5> QED BY <1>2, <3>1, <4>5, <5>1, <5>3, HandedOverOnce
        <4> QED BY <1>2, <4>3, <4>4, <4>5
      <3> QED BY <3>2, <3>3, <3>4
    <2>12. Others(w)
      BY <1>1, <2>11, Ends, GoesFacts DEF Others
    <2>13. RunInv'
      BY <1>1, <2>9, <2>12, Ends
    <2>14. JourneyStep
      <3>1. CASE Current # R
        BY <1>2, <2>9, <3>1, PositionStays DEF JourneyStep, Kept
      <3>2. CASE Current = R /\ task[w].route = NoRoute
        <4>1. N.core = R.core /\ Within(R)
          BY <2>2, <2>4, <3>2
        <4>2. Position' = [core |-> Snapshot(R.core), stage |-> R.stage + 1,
                           generation |-> R.generation]
          BY <2>2, <2>9, <2>10, <3>2, <4>1 DEF Position
        <4>3. Position = [core |-> Snapshot(R.core), stage |-> R.stage,
                          generation |-> R.generation]
          BY <3>2 DEF Position
        <4>4. Run!Complete
          BY <4>1, <4>2, <4>3 DEF Run!Complete, Within
        <4> QED BY <4>4 DEF JourneyStep, Run!Next
      <3>3. CASE Current = R /\ task[w].route # NoRoute
        <4>1. /\ N.core = R.core + 1 /\ N.core \in 1 .. Version /\ N.core - 1 = R.core
              /\ kernel[N.core].route = task[w].route
          BY <1>2, <2>2, <2>3, <3>3
        <4>2. Snapshot(N.core) = Applied(Snapshot(R.core), task[w].route)
          BY <1>2, <4>1, KernelFacts
        <4>3. Position' = [core |-> Applied(Snapshot(R.core), task[w].route),
                           stage |-> R.stage + 1, generation |-> R.generation]
          BY <2>2, <2>9, <2>10, <3>3, <4>2 DEF Position
        <4>4. Position = [core |-> Snapshot(R.core), stage |-> R.stage,
                          generation |-> R.generation]
          BY <3>3 DEF Position
        <4>5. Run!HandOver
          BY <1>2, <2>3, <3>3, <4>3, <4>4, HandOverStep
        <4> QED BY <4>5 DEF JourneyStep, Run!Next
      <3> QED BY <3>1, <3>2, <3>3
    <2> QED BY <2>13, <2>14
  <1> QED BY <1>3, <1>4

\* What is seen to be recorded is, unless the run has moved on.
LEMMA NotDue ==
    ASSUME RunInv, NEW w \in Workers, pc[w] = "budget", ~ BudgetDue(w),
           task[w].run.core = Current.core
    PROVE  Budget = Due(w)
  <1>1. /\ Done(w) /\ task[w].run \in DurableRuns /\ StoresInv
    BY WorkingFacts DEF Completing, RunInv
  <1>2. Due(w) = After(task[w].run)
    BY <1>1, DueFacts
  <1>3. Current \in DurableRuns
    BY <1>1, CurrentFacts
  <1>4. After(Current) = After(task[w].run) /\ Before(Current) = Before(task[w].run)
    BY <1>1, <1>3, SameAfter
  <1>5. task[w].budget \in 0 .. Len(budgets) /\ Len(budgets) \in Nat
        /\ task[w].run.generation \in Nat
    BY TaskFacts
  <1>6. CASE Budget = After(Current)
    BY <1>2, <1>4, <1>6
  <1>7. CASE Budget = Before(Current)
    <2>1. Len(budgets) = task[w].run.generation
      BY <1>1, <1>4, <1>7, BudgetFacts DEF Before
    <2>2. SeenBudget(w).generation = task[w].budget
      BY <1>1, <1>5 DEF SeenBudget, StoresInv, StoresTyped, Counted
    <2>3. SeenBudget(w).generation = Due(w).generation
      BY DEF BudgetDue, Due
    <2>4. Due(w).generation \in {task[w].run.generation, task[w].run.generation + 1}
      BY <1>2, <1>5, GenerationTyped DEF After
    <2>5. task[w].budget = Len(budgets)
      BY <1>5, <2>1, <2>2, <2>3, <2>4
    <2> QED BY <2>5, BudgetDueFacts
  <1> QED BY <1>1, <1>6, <1>7 DEF StoresInv, Reckoned

LEMMA RecordBudgetKeeps ==
    ASSUME RunInv, NEW w \in Workers, RecordBudget(w)
    PROVE  RunInv' /\ JourneyStep
  <1> DEFINE t == task[w]
  <1>1. /\ pc[w] = "budget" /\ pc' = [pc EXCEPT ![w] = "run"] /\ task' = task
        /\ kernel' = kernel /\ receipts' = receipts /\ runs' = runs
    BY DEF RecordBudget, Goto
  <1>2. \/ ~ BudgetDue(w) /\ budgets' = budgets
        \/ BudgetDue(w) /\ Linear(w) /\ t.budget = Len(budgets)
           /\ Longer(budgets, budgets', Planned(w))
        \/ t.budget # Len(budgets) /\ budgets[Len(budgets)] = Planned(w) /\ budgets' = budgets
    BY DEF RecordBudget, Longer
  <1>3. /\ Done(w) /\ t.run \in DurableRuns /\ StoresInv /\ t.call = "reconcile" /\ Late(w)
    BY <1>1, WorkingFacts DEF Completing, RunInv
  <1>4. /\ t.budget \in 0 .. Len(budgets) /\ Len(budgets) \in Nat
        /\ t.run.core \in Nat /\ t.run.core <= Current.core /\ t.run.core < Version
        /\ Current.core \in 0 .. Version /\ Version \in Nat /\ Current \in DurableRuns
        /\ t.run \in RunStates /\ t.run.generation \in Nat /\ t.run.core \in 0 .. Version
    BY <1>1, <1>3, TaskFacts, CurrentFacts DEF Done
  <1>5. Goes(w, "run", t)
    BY <1>1, GoesOn
  <1>6. pc'[w] = "run" /\ task'[w] = t
        /\ \A v \in Workers \ {w} : pc'[v] = pc[v] /\ task'[v] = task[v]
    BY <1>5, GoesFacts
  <1>7. Due(w) = [generation |-> Planned(w).generation, retries |-> Planned(w).retries]
        /\ Due(w) = After(t.run)
    BY <1>3, DueFacts DEF Due, Planned
  <1>8. ASSUME Kept, Current' = Current, Others(w), t.run.core = Current.core => Budget' = Due(w)
        PROVE  RunInv' /\ JourneyStep
    <2>1. Due(w)' = Due(w) /\ (Done(w) => Done(w)')
      BY <1>1, <1>6, <1>8, ViewStays DEF Kept
    <2>2. Recorded(w)'
      BY <1>6, <1>8, <2>1 DEF Recorded
    <2>3. RunInv'
      BY <1>1, <1>3, <1>8, <2>1, <2>2, GotoKeeps
    <2> QED BY <1>3, <1>8, <2>3, PositionStays DEF JourneyStep, Kept
  <1>9. CASE budgets' = budgets /\ (t.run.core = Current.core => Budget = Due(w))
    <2>1. Kept /\ Current' = Current /\ Budget' = Budget
      BY <1>1, <1>3, <1>9, StoresUnchanged DEF stores, Budget
    <2> QED BY <1>5, <1>8, <1>9, <2>1, OthersStay
  <1>10. CASE ~ BudgetDue(w) /\ budgets' = budgets
    BY <1>1, <1>9, <1>10, NotDue
  <1>11. CASE t.budget # Len(budgets) /\ budgets[Len(budgets)] = Planned(w)
              /\ budgets' = budgets
    <2>1. budgets # <<>>
      BY <1>4, <1>11
    <2>2. Budget = Due(w)
      BY <1>3, <1>7, <1>11, <2>1, BudgetFacts
    <2> QED BY <1>9, <1>11, <2>2
  <1>12. CASE BudgetDue(w) /\ Linear(w) /\ t.budget = Len(budgets)
              /\ Longer(budgets, budgets', Planned(w))
    <2>1. t.run.core = Current.core
      BY <1>3, <1>4, <1>12 DEF Late
    <2>2. After(Current) = After(t.run)
      BY <1>3, <1>4, <2>1, SameAfter
    <2>3. SeenBudget(w).generation = Len(budgets)
      BY <1>3, <1>4, <1>12 DEF SeenBudget, StoresInv, StoresTyped, Counted
    <2>4. Planned(w).generation = Len(budgets) + 1
      BY <1>12, <2>3 DEF Linear
    <2>5. Planned(w) \in BudgetEntries
      <3>1. NextRun(w).generation \in Nat
        BY <1>4, GenerationTyped DEF NextRun
      <3>2. Result(w).snapshot.retries \in Nat
        <4>1. Result(w) = kernel[t.run.core + 1] /\ t.run.core + 1 \in 1 .. Version
          BY <1>3, <1>4 DEF Done
        <4> QED BY <1>3, <4>1, KernelFacts DEF Entries
      <3> QED BY <1>4, <3>1, <3>2 DEF Planned, BudgetEntries
    <2>6. PICK e : e = Planned(w)
      OBVIOUS
    <2>7. Kept /\ Current' = Current /\ Budget' = After(Current)
      <3>1. [generation |-> e.generation, retries |-> e.retries] = After(Current)
        BY <1>7, <2>2, <2>6
      <3> QED BY <1>1, <1>3, <1>4, <1>12, <2>1, <2>4, <2>5, <2>6, <3>1, BudgetWritten
    <2>8. ASSUME NEW v \in Workers \ {w}, pc[v] # "idle"
          PROVE  Late(v)' /\ Recorded(v)'
      <3>1. Late(v) /\ task[v].run \in DurableRuns /\ Onward /\ task[v].run.core \in Nat
        BY <2>7, <2>8, WorkingFacts, TaskFacts DEF Kept
      <3>2. Late(v)'
        BY <1>6, <2>7, <2>8, <3>1, LateStays
      <3>3. ASSUME pc[v] = "run", task[v].run.core = Current.core
            PROVE  Budget' = Due(v)'
        <4>1. Done(v)
          BY <3>3, WorkingFacts DEF Completing
        <4>2. Due(v) = After(task[v].run) /\ After(task[v].run) = After(Current)
          BY <1>3, <1>4, <3>1, <3>3, <4>1, DueFacts, SameAfter
        <4>3. Due(v)' = Due(v)
          BY <1>6, <2>8, <3>1, ViewStays
        <4> QED BY <2>7, <4>2, <4>3
      <3>4. Recorded(v)'
        BY <1>6, <2>7, <3>3 DEF Recorded
      <3> QED BY <3>2, <3>4
    <2>9. Others(w)
      BY <1>6, <2>8 DEF Others
    <2> QED BY <1>7, <1>8, <2>2, <2>7, <2>9
  <1> QED BY <1>2, <1>10, <1>11, <1>12

LEMMA ControlStep ==
    ASSUME NEW core, NEW stage, NEW generation, NEW route \in Applicable(core),
           NEW s \in 1 .. stage, Journey[s] = Journey[stage], Controls(route, s),
           Position = [core |-> core, stage |-> stage, generation |-> generation],
           Position' = [core |-> Applied(core, route), stage |-> StageAfter(route, s),
                        generation |-> GenerationAfter(route, s, generation)]
    PROVE  Run!Control
  <1>1. /\ Position.core = core /\ Position.stage = stage /\ Position.generation = generation
    OBVIOUS
  <1>2. /\ route \in Run!Applicable(Position.core)
        /\ s \in {i \in 1 .. Position.stage : Journey[i] = Journey[Position.stage]}
        /\ Run!KeepsStage(route, s) \/ Run!SetsBack(route, s)
        /\ Position' = [core |-> Run!Applied(Position.core, route),
                        stage |-> Run!StageAfter(route, s),
                        generation |-> Run!GenerationAfter(route, s, Position.generation)]
    BY <1>1, SameStages DEF Controls
  <1> QED BY <1>2 DEF Run!Control

LEMMA SwapRunKeeps ==
    ASSUME RunInv, NEW w \in Workers, SwapRun(w)
    PROVE  RunInv' /\ JourneyStep
  <1> DEFINE t == task[w]
  <1>1. /\ pc[w] = "run" /\ kernel' = kernel /\ receipts' = receipts /\ budgets' = budgets
        /\ pc' = [pc EXCEPT ![w] = "idle"] /\ task' = [task EXCEPT ![w] = Idle]
        /\ StoresInv
    BY DEF SwapRun, End, RunInv
  <1>2. CASE StoredRun # t.run
    <2>1. runs' = runs
      BY <1>2 DEF SwapRun, MaySwap
    <2>2. RunInv' /\ Current' = Current
      BY <1>1, <2>1, EndKeeps DEF stores
    <2>3. Onward
      BY <1>1, <2>1, StoresUnchanged DEF stores, Kept
    <2> QED BY <1>1, <2>2, <2>3, PositionStays DEF JourneyStep
  <1>3. CASE StoredRun = t.run
    <2> DEFINE R == StoredRun
               N == NextRun(w)
    <2>1. Longer(runs, runs', N)
      BY <1>3 DEF SwapRun, MaySwap, Longer
    <2>2. /\ Done(w) /\ Recorded(w) /\ Reconciling(w) /\ R \in DurableRuns
      BY <1>1, <1>3, WorkingFacts DEF Completing
    <2>3. /\ t.route \in Applicable(Snapshot(R.core)) /\ Controls(t.route, R.stage)
          /\ t.route = kernel[R.core + 1].route /\ R.core < Version
          /\ Due(w) = After(R)
      BY <1>3, <2>2, DueFacts DEF Reconciling, Done
    <2>4. /\ Current.core = R.core /\ R.stage <= Current.stage
      BY <1>1, <2>3, ControlledCurrent
    <2>5. Budget = After(R)
      BY <1>1, <1>3, <2>2, <2>3, <2>4 DEF Recorded
    <2>6. N = [core |-> R.core + 1, stage |-> StageAfter(t.route, R.stage),
               generation |-> GenerationAfter(t.route, R.stage, R.generation)]
      BY <1>3 DEF NextRun
    <2>7. /\ R.core \in Nat /\ R.stage \in DOMAIN Journey /\ R.stage \in Nat
          /\ Current \in DurableRuns /\ Current.stage \in Nat
          /\ Version \in Nat
      BY <1>1, <2>2, DurableFacts, CurrentFacts, KernelFacts DEF StoresInv
    <2> HIDE DEF N
    <2>8. Kept /\ Current' = N
      <3>1. PICK route : route = t.route
        OBVIOUS
      <3> QED BY <1>1, <2>1, <2>3, <2>5, <2>6, <3>1, RunSwapped
    <2>9. Budget' = Budget /\ \A v : Snapshot(v)' = Snapshot(v)
      BY <1>1 DEF Budget, Snapshot
    <2>10. N.core = R.core + 1
      BY <2>6
    \* A worker that is still at the transition has the budget to find.
    <2>11. ASSUME NEW v \in Workers \ {w}, pc[v] # "idle"
           PROVE  Late(v)' /\ Recorded(v)'
      <3>1. /\ pc'[v] = pc[v] /\ task'[v] = task[v]
            /\ Late(v) /\ Recorded(v) /\ task[v].run \in DurableRuns
            /\ task[v].run.core \in Nat /\ task[v].run.core <= R.core
        BY <1>1, <2>4, <2>11, Ends, GoesFacts, WorkingFacts, TaskFacts
      <3>2. Recorded(v)'
        BY <2>8, <2>9, <2>11, <3>1, RecordedStays
      <3>3. SUFFICES ASSUME task[v].call = "reconcile", Done(v)', BudgetDue(v)'
                     PROVE  task[v].budget < Len(budgets)
        BY <1>1, <3>1, <3>2 DEF Late
      <3>4. Done(v) /\ BudgetDue(v)
        <4>1. task[v].run.core < Version
          BY <2>3, <2>7, <3>1
        <4> QED BY <2>8, <2>11, <3>1, <3>3, <4>1, ViewStays DEF Kept
      <3>5. CASE task[v].run.core < R.core
        BY <2>4, <3>1, <3>3, <3>4, <3>5 DEF Late
      <3>6. CASE task[v].run.core = R.core
        <4>1. Due(v) = After(task[v].run) /\ After(task[v].run) = After(R)
          BY <1>1, <2>2, <3>1, <3>4, <3>6, DueFacts, SameAfter
        <4> QED BY <2>5, <3>4, <4>1, BudgetDueFacts
      <3> QED BY <2>7, <3>1, <3>5, <3>6
    <2>12. Others(w)
      BY <1>1, <2>11, Ends, GoesFacts DEF Others
    <2>13. RunInv'
      BY <1>1, <2>8, <2>12, Ends
    <2>14. JourneyStep
      <3>1. /\ R.generation = Current.generation /\ Journey[R.stage] = Journey[Current.stage]
        BY <1>1, <2>2, <2>4, <2>7, AlikeControlled
      <3>2. Snapshot(R.core + 1) = Applied(Snapshot(R.core), t.route)
        <4>1. R.core + 1 \in 1 .. Version
          BY <2>3, <2>7
        <4>2. PICK v \in 1 .. Version : v = R.core + 1 /\ v - 1 = R.core
          BY <2>7, <4>1
        <4> QED BY <1>1, <2>3, <4>2, KernelFacts
      <3>3. Position' = [core |-> Applied(Snapshot(R.core), t.route),
                         stage |-> StageAfter(t.route, R.stage),
                         generation |-> GenerationAfter(t.route, R.stage, R.generation)]
        BY <2>6, <2>8, <2>9, <2>10, <3>2 DEF Position
      <3>4. Position = [core |-> Snapshot(R.core), stage |-> Current.stage,
                        generation |-> R.generation]
        BY <2>4, <3>1 DEF Position
      <3>5. R.stage \in 1 .. Current.stage
        BY <2>4, <2>7, Stages
      <3>6. Run!Control
        BY <2>3, <3>1, <3>3, <3>4, <3>5, ControlStep
      <3> QED BY <3>6 DEF JourneyStep, Run!Next
    <2> QED BY <2>13, <2>14
  <1> QED BY <1>2, <1>3

LEMMA MirrorKeeps ==
    ASSUME RunInv, Mirror
    PROVE  RunInv' /\ JourneyStep
  <1>1. /\ StoredRun \in DOMAIN receipts /\ Longer(runs, runs', receipts[StoredRun])
        /\ UNCHANGED <<kernel, receipts, budgets>> /\ pc' = pc /\ task' = task /\ StoresInv
        /\ budgets' = budgets
    BY DEF Mirror, Longer, RunInv
  <1>2. Kept /\ Current' = Current
    BY <1>1, RunMirrored
  <1>3. Budget' = Budget /\ Onward
    BY <1>1, <1>2 DEF Budget, Kept
  <1>4. ASSUME NEW w \in Workers, pc'[w] # "idle"
        PROVE  Working(w)'
    <2>1. /\ pc[w] # "idle" /\ pc'[w] = pc[w] /\ task'[w] = task[w]
          /\ Late(w) /\ Recorded(w)
      BY <1>1, <1>4, WorkingFacts
    <2> QED BY <1>2, <1>3, <2>1, LateStays, RecordedStays, WorkingStays
  <1>5. TasksTyped'
    BY <1>1 DEF RunInv, TasksTyped
  <1> QED BY <1>1, <1>2, <1>3, <1>4, <1>5, PositionStays DEF RunInv, Kept, JourneyStep

-----------------------------------------------------------------------------
(* The theorems about a demo run.                                              *)

LEMMA RunInit == Init => RunInv /\ Run!Init
  <1> SUFFICES ASSUME Init PROVE RunInv /\ Run!Init
    OBVIOUS
  <1>1. /\ kernel = <<>> /\ runs = <<>> /\ budgets = <<>> /\ DOMAIN receipts = {}
        /\ receipts = [r \in {} |-> FirstRun]
        /\ pc = [w \in Workers |-> "idle"] /\ task = [w \in Workers |-> Idle]
    BY DEF Init
  <1>2. /\ Version = 0 /\ StoredRun = FirstRun /\ Budget = [generation |-> 0, retries |-> 0]
        /\ DurableRuns = {FirstRun} /\ FirstRun \in RunStates
        /\ FirstRun.core = 0 /\ FirstRun.stage = 1 /\ FirstRun.generation = 0
        /\ Snapshot(0) = Genesis
    BY <1>1, Stages DEF Version, StoredRun, Budget, DurableRuns, FirstRun, RunStates, Snapshot
  <1>3. Raises(receipts)
    BY <1>1 DEF Raises
  <1>4. Current = FirstRun
    BY <1>1, <1>2, <1>3, CurrentFollows, FollowStep
  <1>5. StoresTyped
    BY <1>1, <1>2 DEF StoresTyped
  <1>6. Chained /\ Receipted /\ Counted
    BY <1>1, <1>2 DEF Chained, Receipted, Counted
  <1>7. OnStage(FirstRun) /\ Alike(FirstRun, FirstRun)
    BY <1>2 DEF OnStage, Alike, Genesis
  <1>8. Reckoned
    BY <1>2, <1>4 DEF Reckoned, Before, Genesis
  <1>9. StoresInv
    BY <1>2, <1>4, <1>5, <1>6, <1>7, <1>8 DEF StoresInv
  <1>10. TasksTyped /\ \A w \in Workers : pc[w] = "idle"
    BY <1>1, <1>2 DEF TasksTyped, Tasks, Idle
  <1>11. Position = [core |-> Run!Genesis, stage |-> 1, generation |-> 0]
    BY <1>2, <1>4, SameStages DEF Position
  <1> QED BY <1>9, <1>10, <1>11 DEF RunInv, Run!Init

LEMMA RunStep == RunInv /\ [Next]_vars => RunInv' /\ JourneyStep
  <1> SUFFICES ASSUME RunInv, [Next]_vars PROVE RunInv' /\ JourneyStep
    OBVIOUS
  <1>1. CASE UNCHANGED vars
    <2>1. /\ UNCHANGED stores /\ pc' = pc /\ task' = task /\ StoresInv
      BY <1>1 DEF vars, RunInv
    <2>2. Kept /\ Current' = Current /\ budgets' = budgets
      BY <2>1, StoresUnchanged DEF stores
    <2>3. Budget' = Budget /\ Onward
      BY <2>2 DEF Budget, Kept
    <2>4. ASSUME NEW w \in Workers, pc'[w] # "idle"
          PROVE  Working(w)'
      <3>1. /\ pc[w] # "idle" /\ pc'[w] = pc[w] /\ task'[w] = task[w]
            /\ Late(w) /\ Recorded(w)
        BY <2>1, <2>4, WorkingFacts
      <3> QED BY <2>2, <2>3, <3>1, LateStays, RecordedStays, WorkingStays
    <2>5. TasksTyped'
      BY <2>1, <2>2 DEF RunInv, TasksTyped
    <2> QED BY <2>1, <2>2, <2>3, <2>4, <2>5, PositionStays DEF RunInv, Kept, JourneyStep
  <1>2. ASSUME NEW w \in Workers, LoseKernel(w) \/ LoseBudget(w) \/ Die(w)
        PROVE  RunInv' /\ JourneyStep
    <2>1. /\ pc' = [pc EXCEPT ![w] = "idle"] /\ task' = [task EXCEPT ![w] = Idle]
          /\ UNCHANGED stores
      BY <1>2 DEF LoseKernel, LoseBudget, Die, End
    <2>2. RunInv' /\ Current' = Current /\ StoresInv
      BY <2>1, EndKeeps DEF RunInv
    <2>3. Onward
      BY <2>1, <2>2, StoresUnchanged DEF Kept
    <2> QED BY <2>2, <2>3, PositionStays DEF JourneyStep
  <1>3. ASSUME NEW w \in Workers, Look(w)
        PROVE  RunInv' /\ JourneyStep
    <2>1. UNCHANGED stores /\ StoresInv
      BY <1>3 DEF Look, RunInv
    <2>2. Onward /\ Current' = Current
      BY <2>1, StoresUnchanged DEF Kept
    <2> QED BY <1>3, <2>1, <2>2, LookKeeps, PositionStays DEF JourneyStep
  <1> QED BY <1>1, <1>2, <1>3, PersistKernelKeeps, AppendReceiptKeeps, RecordBudgetKeeps,
             SwapRunKeeps, MirrorKeeps DEF Next, Step

LEMMA RunStays == Spec => []RunInv
  <1>1. RunInv /\ [Next]_vars => RunInv'
    BY RunStep
  <1> QED BY <1>1, RunInit, PTL DEF Spec

LEMMA InvStoresFollow == RunInv => StoresFollowKernel
  <1> SUFFICES ASSUME RunInv PROVE StoresFollowKernel
    OBVIOUS
  <1>1. /\ StoresInv /\ TasksTyped /\ Version \in Nat
        /\ Current \in DurableRuns /\ Current.core \in 0 .. Version
    BY CurrentFacts, KernelFacts DEF RunInv
  <1>2. TypeOK
    BY <1>1 DEF StoresInv, StoresTyped, TasksTyped, Tasks, TypeOK
  <1>3. /\ Current.core \in {Version, Version - 1}
        /\ \A i \in DOMAIN budgets : budgets[i].generation = i
    BY <1>1 DEF StoresInv, Counted
  <1>4. ASSUME NEW r \in DurableRuns
        PROVE  /\ r.core <= Version
               /\ Snapshot(r.core).state \notin ControlDestinations \cup {"CAPTURED"} =>
                      Journey[r.stage] = Snapshot(r.core).state
               /\ r.generation <= Budget.generation
    BY <1>1 DEF StoresInv, OnStage
  <1>5. Current.core = Version =>
            Budget = [generation |-> Current.generation, retries |-> Snapshot(Version).retries]
    BY <1>1 DEF StoresInv, Reckoned, Before
  <1> QED BY <1>2, <1>3, <1>4, <1>5 DEF StoresFollowKernel

\* Whatever order the writes of several workers come in, and whoever dies between
\* two of them, the receipts, the run state and the recovery budget follow the
\* kernel (StoresFollowKernel): the run is never more than one transition behind,
\* stands at a stage of its core state, and is counted once in the budget.
THEOREM RunFollowsKernel == Spec => []StoresFollowKernel
  BY RunStays, InvStoresFollow, PTL

\* To its readers the run moves stage by stage and transition by transition
\* (ImplementsJourney): the four stores implement the one position of DemoJourney.
THEOREM RunImplementsJourney == Spec => ImplementsJourney
  <1>1. RunInv /\ [Next]_vars => [Position' # Position /\ Run!Next]_Position
    BY RunStep DEF JourneyStep
  <1> QED BY <1>1, RunInit, RunStays, PTL DEF Spec, ImplementsJourney
=============================================================================
