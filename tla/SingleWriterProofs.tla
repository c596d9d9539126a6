------------------------- MODULE SingleWriterProofs -------------------------
(* Proofs about the Single Writer for every set of executions, every       *)
(* claimant and plan of theirs, and every bound of the retry policy.       *)
EXTENDS SingleWriter, TLAPS, SequenceTheorems

-----------------------------------------------------------------------------
(* The inductive invariant. *)

Places == {"idle", "fresh", "reading", "observing", "confirming", "refreshing",
           "appending", "rereading", "conflicted", "recovering", "acknowledging",
           "final", "applying", "inspecting", "verifying"}

\* The places at which the draft of the invocation still counts, and those
\* at which the claim is a record of the chain.
InDraft(e) == pc[e] \in {"appending", "rereading", "conflicted", "recovering", "acknowledging"}
InClaim(e) == pc[e] \in {"observing", "confirming", "refreshing",
                         "final", "applying", "inspecting", "verifying"}
AfterAttempt(e) == pc[e] \in {"final", "applying", "inspecting", "verifying"}

\* A record on which the next attempt may build, and one whose attempt may have been sent.
Resumable(record) == record.state = "retryable"
                        \/ (record.state = "pending" /\ record.writeAttempts = 0)
Attempted(record) == record.state = "pending" /\ record.writeAttempts > 0

\* The claim is an unfinished record of the execution's own claimant and plan.
Claimed(e) == /\ claim[e] \in DOMAIN chain
              /\ chain[claim[e]].claimant = Claimant[e]
              /\ chain[claim[e]].plan = Plan[e]
              /\ chain[claim[e]].state \notin Terminal

\* What an execution proposes on top of its claim, for each of its goals.
Drafted(e) ==
    IF goal[e] = "claim"
    THEN claim[e] = 0 /\ draft[e] = Record(e, "pending", NoEffect, 0)
    ELSE /\ Claimed(e)
         /\ LET base == chain[claim[e]] IN
            CASE goal[e] = "attempt" ->
                     /\ Resumable(base) /\ base.writeAttempts < MaxAttempts
                     /\ draft[e] = Record(e, "pending", NoEffect, base.writeAttempts + 1)
              [] goal[e] = "retryable" ->
                     /\ Attempted(base)
                     /\ draft[e] = Record(e, "retryable", NoEffect, base.writeAttempts)
              [] goal[e] = "partial" ->
                     \E seen \in Plans \cup {NoEffect, Foreign} :
                         draft[e] = Record(e, "partial", seen, base.writeAttempts)
              [] OTHER ->
                     /\ landed >= 1
                     /\ draft[e] = Record(e, "completed", Plan[e], Larger(1, base.writeAttempts))

\* Its record is in the chain, right after its claim.
Appended(e) == claim[e] + 1 \in DOMAIN chain /\ chain[claim[e] + 1] = draft[e]

LocalInv(e) ==
    /\ InDraft(e) => Drafted(e)
    /\ InClaim(e) => Claimed(e)
    /\ pc[e] = "refreshing" => Resumable(chain[claim[e]])
    /\ AfterAttempt(e) => Attempted(chain[claim[e]])
    /\ pc[e] = "rereading" => Appended(e)
    /\ pc[e] = "acknowledging" => goal[e] = "applied"
    /\ pc[e] = "recovering" => goal[e] = "claim"

\* An execution whose attempt is on record and whose write is still to come.
Armed(e) == pc[e] = "final" \/ (pc[e] = "rereading" /\ goal[e] = "attempt")

\* Nothing was written, and nothing is on its way.
Unsent == landed = 0 /\ inFlight = {} /\ \A e \in Executions : ~ Armed(e)

\* One write in all, and none as long as the next attempt may be made.
OneWrite ==
    /\ landed <= 1
    /\ landed = 1 => inFlight = {} /\ \A e \in Executions : ~ Armed(e)
    /\ \A e, f \in inFlight : e = f
    /\ \A e, f \in Executions : Armed(e) /\ Armed(f) => e = f
    /\ \A e \in Executions : Armed(e) => inFlight = {}
    /\ chain = <<>> \/ Resumable(Latest) => Unsent
    /\ \A e \in Executions :
          pc[e] = "appending" /\ goal[e] = "retryable" /\ HeadMatches(e) => Unsent

\* Every write has its attempt on record, the one to come included.
AttemptsRecorded ==
    /\ chain = <<>> => sends = 0
    /\ chain # <<>> => sends <= Latest.writeAttempts /\ Latest.writeAttempts <= MaxAttempts
    /\ \A e \in Executions : Armed(e) => chain # <<>> /\ sends < Latest.writeAttempts

Chained ==
    /\ chain # <<>> => Starts(chain[1])
    /\ \A i \in 1 .. Len(chain) - 1 : Follows(chain[i], chain[i + 1])

\* The plan stands on GitHub, or is said to, only where it was written.
EffectsLanded ==
    /\ effect \in Plans => landed >= 1
    /\ \A i \in DOMAIN chain : chain[i].state = "completed" => landed >= 1

ToldTruly(e) ==
    result[e] \in Succeeded =>
        chain # <<>> /\ Latest.state = "completed" /\ Latest.effect = Plan[e]

WriterInv ==
    /\ TypeOK
    /\ result = [e \in Executions |-> result[e]]
    /\ OneWrite /\ AttemptsRecorded /\ Chained /\ EffectsLanded
    /\ \A e \in Executions : LocalInv(e) /\ ToldTruly(e)

-----------------------------------------------------------------------------
(* What the steps look at *)

LEMMA AppendFacts ==
    ASSUME NEW S, NEW s \in Seq(S), NEW x \in S
    PROVE  /\ Append(s, x) \in Seq(S) /\ Append(s, x) # <<>>
           /\ Len(s) \in Nat /\ DOMAIN s = 1 .. Len(s)
           /\ Len(Append(s, x)) = Len(s) + 1
           /\ DOMAIN Append(s, x) = 1 .. Len(s) + 1
           /\ \A i \in 1 .. Len(s) : Append(s, x)[i] = s[i] /\ s[i] \in S
           /\ Append(s, x)[Len(s) + 1] = x
  OBVIOUS

LEMMA RecordFacts ==
    ASSUME NEW e \in Executions, NEW state \in EvidenceStates,
           NEW seen \in Plans \cup {NoEffect, Foreign}, NEW attempts \in Nat
    PROVE  /\ Record(e, state, seen, attempts) \in Evidence
           /\ Record(e, state, seen, attempts).state = state
           /\ Record(e, state, seen, attempts).claimant = Claimant[e]
           /\ Record(e, state, seen, attempts).plan = Plan[e]
           /\ Record(e, state, seen, attempts).effect = seen
           /\ Record(e, state, seen, attempts).writeAttempts = attempts
  BY DEF Record, Evidence, Claimants, Plans

LEMMA Types ==
    ASSUME TypeOK
    PROVE  /\ chain \in Seq(Evidence) /\ Len(chain) \in Nat
           /\ DOMAIN chain = 1 .. Len(chain)
           /\ chain = <<>> <=> Len(chain) = 0
           /\ chain # <<>> => Len(chain) \in DOMAIN chain
           /\ \A i \in DOMAIN chain : /\ chain[i] \in Evidence
                                      /\ chain[i].state \in EvidenceStates
                                      /\ chain[i].writeAttempts \in Nat
           /\ effect \in Plans \cup {NoEffect, Foreign}
           /\ \A e \in Executions : /\ claim[e] \in Nat /\ draft[e] \in Evidence
                                    /\ goal[e] \in Goals /\ Plan[e] \in Plans
                                    /\ Plan[e] # NoEffect /\ pc[e] \in Places
           /\ MaxAttempts \in Nat /\ MaxAttempts >= 1 /\ sends \in Nat /\ landed \in Nat
  <1>1. \A r \in Evidence : r.state \in EvidenceStates /\ r.writeAttempts \in Nat
    BY DEF Evidence
  <1>2. chain \in Seq(Evidence)
    BY DEF TypeOK
  <1>3. MaxAttempts \in Nat /\ MaxAttempts >= 1 /\ \A e \in Executions : Plan[e] # NoEffect
    BY WriterAssumption DEF Plans
  <1>4. \A e \in Executions : /\ claim[e] \in Nat /\ draft[e] \in Evidence
                              /\ goal[e] \in Goals /\ Plan[e] \in Plans
                              /\ pc[e] \in Places
    BY DEF TypeOK, Places, Plans
  <1> QED BY <1>1, <1>2, <1>3, <1>4 DEF TypeOK

-----------------------------------------------------------------------------
(* How an execution moves on *)

\* The local state of an execution.
Same(f) == /\ pc'[f] = pc[f] /\ claim'[f] = claim[f] /\ draft'[f] = draft[f]
           /\ goal'[f] = goal[f] /\ result'[f] = result[f]
OthersSame(e) == \A f \in Executions : f # e => Same(f)

LocalTypes == /\ pc \in [Executions -> Places]
              /\ claim \in [Executions -> Nat]
              /\ phase \in [Executions -> {"initial", "confirmed", "recovering"}]
              /\ draft \in [Executions -> Evidence]
              /\ goal \in [Executions -> Goals]
              /\ result = [e \in Executions |-> result[e]]

LEMMA StayFacts ==
    ASSUME LocalTypes, NEW e, NEW where \in Places, Goto(e, where), UNCHANGED <<locals, result>>
    PROVE  LocalTypes' /\ OthersSame(e)
           /\ (e \in Executions => /\ pc'[e] = where /\ claim'[e] = claim[e] /\ goal'[e] = goal[e]
                                   /\ draft'[e] = draft[e] /\ result'[e] = result[e])
  BY DEF LocalTypes, Goto, OthersSame, Same, locals

LEMMA EndFacts ==
    ASSUME LocalTypes, NEW e \in Executions, NEW how, End(e, how)
    PROVE  LocalTypes' /\ OthersSame(e) /\ pc'[e] = "idle" /\ result'[e] = how
  <1>1. Record(e, "pending", NoEffect, 0) \in Evidence
    BY RecordFacts DEF EvidenceStates
  <1> QED BY <1>1 DEF LocalTypes, End, OthersSame, Same, Places, Goals

LEMMA ProposeFacts ==
    ASSUME LocalTypes, NEW e \in Executions, NEW base \in Nat, NEW record \in Evidence,
           NEW purpose \in Goals, Propose(e, base, record, purpose)
    PROVE  /\ LocalTypes' /\ OthersSame(e) /\ pc'[e] = "appending" /\ claim'[e] = base
           /\ draft'[e] = record /\ goal'[e] = purpose /\ result'[e] = result[e]
  BY DEF LocalTypes, Propose, Goto, OthersSame, Same, Places

LEMMA ResolveFacts ==
    ASSUME LocalTypes, NEW e \in Executions, NEW i \in Nat,
           NEW which \in {"initial", "confirmed", "recovering"}, Resolve(e, i, which)
    PROVE  /\ LocalTypes' /\ OthersSame(e)
           /\ \/ /\ Standing(e, i) = "observe"
                 /\ pc'[e] = "observing" /\ claim'[e] = i /\ result'[e] = result[e]
              \/ /\ Standing(e, i) # "observe"
                 /\ pc'[e] = "idle" /\ result'[e] = Standing(e, i)
  <1>1. CASE Standing(e, i) = "observe"
    BY <1>1 DEF LocalTypes, Resolve, Goto, OthersSame, Same, Places
  <1>2. CASE Standing(e, i) # "observe"
    <2>1. End(e, Standing(e, i))
      BY <1>2 DEF Resolve
    <2> QED BY <2>1, <1>2, EndFacts
  <1> QED BY <1>1, <1>2

-----------------------------------------------------------------------------
(* The chain only grows *)

Grown == /\ chain' \in Seq(Evidence) /\ Len(chain') \in Nat /\ Len(chain) <= Len(chain')
         /\ DOMAIN chain' = 1 .. Len(chain')
         /\ \A i \in DOMAIN chain : i \in DOMAIN chain' /\ chain'[i] = chain[i]

LEMMA UnchangedGrows ==
    ASSUME TypeOK, chain' = chain
    PROVE  Grown
  BY Types DEF Grown

LEMMA LandFacts ==
    ASSUME TypeOK, NEW e \in Executions, Land(e)
    PROVE  /\ Grown /\ chain' # <<>> /\ Len(chain') = Len(chain) + 1
           /\ claim[e] = Len(chain) /\ Latest' = draft[e]
           /\ chain'[claim[e] + 1] = draft[e] /\ claim[e] + 1 \in DOMAIN chain'
           /\ UNCHANGED <<effect, inFlight, landed, drifted, sends>> /\ due' \in BOOLEAN
  <1>1. chain' = Append(chain, draft[e]) /\ claim[e] = Len(chain)
    BY DEF Land, HeadMatches
  <1>2. draft[e] \in Evidence /\ chain \in Seq(Evidence)
    BY Types
  <1>3. /\ Append(chain, draft[e]) \in Seq(Evidence) /\ Append(chain, draft[e]) # <<>>
        /\ Len(chain) \in Nat /\ DOMAIN chain = 1 .. Len(chain)
        /\ Len(Append(chain, draft[e])) = Len(chain) + 1
        /\ DOMAIN Append(chain, draft[e]) = 1 .. Len(chain) + 1
        /\ \A i \in 1 .. Len(chain) : Append(chain, draft[e])[i] = chain[i]
        /\ Append(chain, draft[e])[Len(chain) + 1] = draft[e]
    BY <1>2, AppendFacts
  <1>4. Latest' = chain'[Len(chain')]
    BY DEF Latest
  <1>5. due' \in BOOLEAN
    BY DEF Land, TypeOK
  <1> QED BY <1>1, <1>3, <1>4, <1>5 DEF Grown, Land

\* An execution that did not move keeps what it relies on while the chain grows.
LEMMA ClaimedKept ==
    ASSUME TypeOK, Grown, NEW e \in Executions, Claimed(e), claim'[e] = claim[e]
    PROVE  Claimed(e)' /\ chain'[claim'[e]] = chain[claim[e]]
  BY DEF Grown, Claimed

LEMMA DraftedKept ==
    ASSUME TypeOK, Grown, landed' \in Nat, landed' >= landed, NEW e \in Executions, Drafted(e),
           claim'[e] = claim[e], draft'[e] = draft[e], goal'[e] = goal[e]
    PROVE  Drafted(e)'
  <1>1. CASE goal[e] = "claim"
    BY <1>1 DEF Drafted, Record
  <1>2. CASE goal[e] # "claim"
    <2>1. Claimed(e)
      BY <1>2 DEF Drafted
    <2>2. Claimed(e)' /\ chain'[claim'[e]] = chain[claim[e]]
      BY <2>1, ClaimedKept
    <2>3. landed >= 1 => landed' >= 1
      BY Types
    <2> QED BY <1>2, <2>2, <2>3 DEF Drafted, Record
  <1> QED BY <1>1, <1>2

LEMMA OthersKeep ==
    ASSUME TypeOK, Grown, landed' \in Nat, landed' >= landed,
           NEW f \in Executions, Same(f), LocalInv(f)
    PROVE  LocalInv(f)'
  <1>1. pc'[f] = pc[f] /\ claim'[f] = claim[f] /\ draft'[f] = draft[f] /\ goal'[f] = goal[f]
    BY DEF Same
  <1>2. InDraft(f)' => Drafted(f)'
    BY <1>1, DraftedKept DEF InDraft, LocalInv
  <1>3. InClaim(f) => Claimed(f)' /\ chain'[claim'[f]] = chain[claim[f]]
    BY <1>1, ClaimedKept DEF LocalInv
  <1>4. Appended(f) => Appended(f)'
    BY <1>1, Types DEF Appended, Grown
  <1> QED BY <1>1, <1>2, <1>3, <1>4
          DEF LocalInv, InDraft, InClaim, AfterAttempt, Resumable, Attempted

\* An invocation that has ended, or not read anything yet, promises nothing.
LEMMA Passive ==
    ASSUME NEW e \in Executions, pc'[e] \in {"idle", "fresh", "reading"}
    PROVE  LocalInv(e)'
  BY DEF LocalInv, InDraft, InClaim, AfterAttempt

LEMMA Appending ==
    ASSUME NEW e \in Executions, pc'[e] = "appending", Drafted(e)'
    PROVE  LocalInv(e)'
  BY DEF LocalInv, InDraft, InClaim, AfterAttempt

\* What a draft adds to the chain follows what it is added to.
LEMMA DraftFollows ==
    ASSUME TypeOK, NEW e \in Executions, Drafted(e), HeadMatches(e)
    PROVE  /\ chain = <<>> => Starts(draft[e])
           /\ chain # <<>> => /\ Follows(Latest, draft[e])
                              /\ draft[e].writeAttempts >= Latest.writeAttempts
                              /\ Latest.writeAttempts <= MaxAttempts =>
                                     draft[e].writeAttempts <= MaxAttempts
           /\ draft[e].writeAttempts \in Nat
           /\ goal[e] # "claim" => chain # <<>>
           /\ goal[e] = "attempt" => /\ Resumable(Latest)
                                     /\ draft[e].writeAttempts = Latest.writeAttempts + 1
           /\ draft[e].state = "completed" => landed >= 1
           /\ Resumable(draft[e]) => goal[e] \in {"claim", "retryable"}
           /\ goal[e] = "claim" => chain = <<>> /\ draft[e].writeAttempts = 0
  <1>1. claim[e] = Len(chain)
    BY DEF HeadMatches
  <1>2. CASE goal[e] = "claim"
    <2>1. claim[e] = 0 /\ draft[e] = Record(e, "pending", NoEffect, 0)
      BY <1>2 DEF Drafted
    <2>2. chain = <<>>
      BY <1>1, <2>1, Types
    <2>3. draft[e].state = "pending" /\ draft[e].writeAttempts = 0
      BY <2>1 DEF Record
    <2> QED BY <1>2, <2>2, <2>3 DEF Starts
  <1>3. CASE goal[e] # "claim"
    <2>1. Claimed(e)
      BY <1>3 DEF Drafted
    <2>2. chain # <<>> /\ Latest = chain[claim[e]] /\ Latest \in Evidence
          /\ Latest.state \in EvidenceStates /\ Latest.writeAttempts \in Nat
      BY <1>1, <2>1, Types DEF Claimed, Latest
    <2>3. /\ Latest.claimant = Claimant[e] /\ Latest.plan = Plan[e]
          /\ Latest.state \notin Terminal
      BY <2>1, <2>2 DEF Claimed
    <2> DEFINE n == Latest.writeAttempts
    <2>4. /\ n = Latest.writeAttempts /\ n \in Nat /\ n + 1 \in Nat
          /\ MaxAttempts \in Nat /\ MaxAttempts >= 1
      BY <2>2, Types
    <2> HIDE DEF n
    <2>5. CASE goal[e] = "attempt"
      <3>1. Resumable(Latest) /\ n < MaxAttempts
            /\ draft[e] = Record(e, "pending", NoEffect, n + 1)
        BY <2>2, <2>4, <2>5 DEF Drafted
      <3>2. /\ draft[e].state = "pending" /\ draft[e].claimant = Claimant[e]
            /\ draft[e].plan = Plan[e] /\ draft[e].writeAttempts = n + 1
        BY <3>1 DEF Record
      <3>3. Follows(Latest, draft[e])
        BY <2>3, <2>4, <3>2 DEF Follows
      <3>4. ~ Resumable(draft[e])
        BY <2>4, <3>2 DEF Resumable
      <3> QED BY <2>2, <2>4, <2>5, <3>1, <3>2, <3>3, <3>4
    <2>6. CASE goal[e] = "retryable"
      <3>1. Attempted(Latest) /\ draft[e] = Record(e, "retryable", NoEffect, n)
        BY <2>2, <2>4, <2>6 DEF Drafted
      <3>2. /\ draft[e].state = "retryable" /\ draft[e].claimant = Claimant[e]
            /\ draft[e].plan = Plan[e] /\ draft[e].writeAttempts = n
        BY <3>1 DEF Record
      <3>3. Follows(Latest, draft[e])
        BY <2>3, <2>4, <3>1, <3>2 DEF Follows, Attempted
      <3> QED BY <2>2, <2>4, <2>6, <3>2, <3>3
    <2>7. CASE goal[e] = "partial"
      <3>1. PICK seen \in Plans \cup {NoEffect, Foreign} :
                draft[e] = Record(e, "partial", seen, n)
        BY <2>2, <2>4, <2>7 DEF Drafted
      <3>2. /\ draft[e].state = "partial" /\ draft[e].claimant = Claimant[e]
            /\ draft[e].plan = Plan[e] /\ draft[e].writeAttempts = n
        BY <3>1 DEF Record
      <3>3. Follows(Latest, draft[e])
        BY <2>3, <2>4, <3>2 DEF Follows
      <3>4. ~ Resumable(draft[e])
        BY <3>2 DEF Resumable
      <3> QED BY <2>2, <2>4, <2>7, <3>2, <3>3, <3>4
    <2>8. CASE goal[e] \notin {"claim", "attempt", "retryable", "partial"}
      <3>1. landed >= 1 /\ draft[e] = Record(e, "completed", Plan[e], Larger(1, n))
        BY <2>2, <2>4, <2>8 DEF Drafted
      <3>2. Larger(1, n) \in Nat /\ Larger(1, n) = IF n = 0 THEN 1 ELSE n
        BY <2>4 DEF Larger
      <3>3. /\ draft[e].state = "completed" /\ draft[e].claimant = Claimant[e]
            /\ draft[e].plan = Plan[e] /\ draft[e].writeAttempts = IF n = 0 THEN 1 ELSE n
        BY <3>1, <3>2 DEF Record
      <3>4. Follows(Latest, draft[e])
        BY <2>3, <2>4, <3>3 DEF Follows
      <3>5. ~ Resumable(draft[e])
        BY <3>3 DEF Resumable
      <3> QED BY <2>2, <2>4, <2>8, <3>1, <3>3, <3>4, <3>5
    <2> QED BY <1>3, <2>5, <2>6, <2>7, <2>8
  <1> QED BY <1>2, <1>3

-----------------------------------------------------------------------------
(* Steps that leave the chain and GitHub alone *)

QuietStep(e) ==
    /\ UNCHANGED <<chain, outside>>
    /\ LocalTypes' /\ local' \subseteq Executions /\ runs' \in 0 .. MaxRuns
    /\ OthersSame(e)
    /\ Armed(e)' => Armed(e)
    /\ ~ (pc'[e] = "appending" /\ goal'[e] = "retryable")
    /\ LocalInv(e)' /\ ToldTruly(e)'

LEMMA InvFacts ==
    ASSUME WriterInv
    PROVE  /\ TypeOK /\ LocalTypes /\ local \subseteq Executions /\ runs \in 0 .. MaxRuns
           /\ \A e \in Executions : LocalInv(e) /\ ToldTruly(e)
           /\ drifted \in BOOLEAN /\ due \in BOOLEAN /\ inFlight \subseteq Executions
  BY DEF WriterInv, TypeOK, LocalTypes, Places

LEMMA QuietKeeps ==
    ASSUME WriterInv, NEW e \in Executions, QuietStep(e)
    PROVE  WriterInv'
  <1>1. TypeOK
    BY InvFacts
  <1>2. /\ chain' = chain /\ effect' = effect /\ inFlight' = inFlight /\ landed' = landed
        /\ drifted' = drifted /\ due' = due /\ sends' = sends
    BY DEF QuietStep, outside
  <1>3. LocalTypes' /\ local' \subseteq Executions /\ runs' \in 0 .. MaxRuns
    BY DEF QuietStep
  <1>4. TypeOK'
    BY <1>1, <1>2, <1>3 DEF TypeOK, LocalTypes, Places
  <1>5. Latest' = Latest
    BY <1>2 DEF Latest
  <1>6. \A f \in Executions : f # e => Same(f)
    BY DEF QuietStep, OthersSame
  <1>7. \A f \in Executions : Armed(f)' => Armed(f)
    <2> SUFFICES ASSUME NEW f \in Executions, Armed(f)' PROVE Armed(f)
      OBVIOUS
    <2>1. CASE f = e
      BY <2>1 DEF QuietStep
    <2>2. CASE f # e
      BY <2>2, <1>6 DEF Same, Armed
    <2> QED BY <2>1, <2>2
  <1>8. Unsent => Unsent'
    BY <1>2, <1>7 DEF Unsent
  <1>9. OneWrite'
    <2>1. \A f \in Executions : (pc[f] = "appending" /\ goal[f] = "retryable" /\ HeadMatches(f))'
              => pc[f] = "appending" /\ goal[f] = "retryable" /\ HeadMatches(f)
      <3> SUFFICES ASSUME NEW f \in Executions,
                          (pc[f] = "appending" /\ goal[f] = "retryable" /\ HeadMatches(f))'
                   PROVE  pc[f] = "appending" /\ goal[f] = "retryable" /\ HeadMatches(f)
        OBVIOUS
      <3>1. f # e
        BY DEF QuietStep
      <3> QED BY <3>1, <1>2, <1>6 DEF Same, HeadMatches
    <2> QED BY <1>2, <1>5, <1>7, <1>8, <2>1 DEF WriterInv, OneWrite, Resumable
  <1>10. AttemptsRecorded' /\ Chained' /\ EffectsLanded'
    BY <1>2, <1>5, <1>7 DEF WriterInv, AttemptsRecorded, Chained, EffectsLanded, Starts, Follows
  <1>11. Grown
    BY <1>1, <1>2, UnchangedGrows
  <1>12. \A f \in Executions : LocalInv(f)' /\ ToldTruly(f)'
    <2> SUFFICES ASSUME NEW f \in Executions PROVE LocalInv(f)' /\ ToldTruly(f)'
      OBVIOUS
    <2>1. CASE f = e
      BY <2>1 DEF QuietStep
    <2>2. CASE f # e
      <3>1. Same(f) /\ LocalInv(f) /\ ToldTruly(f) /\ landed \in Nat
        BY <2>2, <1>6, <1>1, InvFacts, Types
      <3>2. LocalInv(f)'
        BY <3>1, <1>1, <1>2, <1>11, OthersKeep
      <3> QED BY <3>1, <3>2, <1>2, <1>5 DEF ToldTruly, Same
    <2> QED BY <2>1, <2>2
  <1> QED BY <1>3, <1>4, <1>9, <1>10, <1>12 DEF WriterInv, LocalTypes

LEMMA EndQuiet ==
    ASSUME WriterInv, NEW e \in Executions, NEW how, End(e, how),
           UNCHANGED <<chain, outside>>, local' \subseteq Executions, runs' \in 0 .. MaxRuns,
           how \in Succeeded =>
               chain # <<>> /\ Latest.state = "completed" /\ Latest.effect = Plan[e]
    PROVE  QuietStep(e)
  <1>1. LocalTypes' /\ OthersSame(e) /\ pc'[e] = "idle" /\ result'[e] = how
    BY InvFacts, EndFacts
  <1>2. LocalInv(e)'
    BY <1>1, Passive
  <1>3. ToldTruly(e)'
    BY <1>1 DEF ToldTruly, Latest
  <1> QED BY <1>1, <1>2, <1>3 DEF QuietStep, Armed

LEMMA ProposeQuiet ==
    ASSUME WriterInv, NEW e \in Executions, NEW base \in Nat, NEW record \in Evidence,
           NEW purpose \in Goals \ {"retryable"}, Propose(e, base, record, purpose),
           UNCHANGED <<chain, outside, local, runs>>,
           (claim'[e] = base /\ draft'[e] = record /\ goal'[e] = purpose) => Drafted(e)'
    PROVE  QuietStep(e)
  <1>1. /\ LocalTypes' /\ OthersSame(e) /\ pc'[e] = "appending" /\ claim'[e] = base
        /\ draft'[e] = record /\ goal'[e] = purpose /\ result'[e] = result[e]
    BY InvFacts, ProposeFacts
  <1>2. LocalInv(e)'
    BY <1>1, Appending
  <1>3. ToldTruly(e)'
    BY <1>1, InvFacts DEF ToldTruly, Latest
  <1> QED BY <1>1, <1>2, <1>3, InvFacts DEF QuietStep, Armed

LEMMA GotoQuiet ==
    ASSUME WriterInv, NEW e \in Executions, NEW where \in Places \ {"appending"},
           Goto(e, where), UNCHANGED <<chain, outside, locals, result>>,
           local' \subseteq Executions, runs' \in 0 .. MaxRuns,
           (pc'[e] = where /\ claim'[e] = claim[e] /\ goal'[e] = goal[e] /\ draft'[e] = draft[e])
               => LocalInv(e)' /\ (Armed(e)' => Armed(e))
    PROVE  QuietStep(e)
  <1>1. /\ LocalTypes' /\ OthersSame(e) /\ pc'[e] = where /\ claim'[e] = claim[e]
        /\ goal'[e] = goal[e] /\ draft'[e] = draft[e] /\ result'[e] = result[e]
    BY InvFacts, StayFacts
  <1>2. ToldTruly(e)'
    BY <1>1, InvFacts DEF ToldTruly, Latest
  <1> QED BY <1>1, <1>2 DEF QuietStep

\* A resolution answers, or observes from an unfinished record of its own.
LEMMA ResolveQuiet ==
    ASSUME WriterInv, NEW e \in Executions, NEW i \in DOMAIN chain, i = Len(chain),
           NEW which \in {"initial", "confirmed", "recovering"}, Resolve(e, i, which),
           ~ ReplayConflict(e), UNCHANGED <<chain, outside, local, runs>>
    PROVE  QuietStep(e)
  <1>1. i \in Nat /\ chain # <<>> /\ Latest = chain[i]
    BY InvFacts, Types DEF Latest
  <1>2. /\ LocalTypes' /\ OthersSame(e)
        /\ \/ /\ Standing(e, i) = "observe"
              /\ pc'[e] = "observing" /\ claim'[e] = i /\ result'[e] = result[e]
           \/ /\ Standing(e, i) # "observe"
              /\ pc'[e] = "idle" /\ result'[e] = Standing(e, i)
    BY <1>1, InvFacts, ResolveFacts
  <1>3. LocalInv(e)' /\ ToldTruly(e)' /\ ~ Armed(e)' /\ pc'[e] # "appending"
    <2>1. CASE Standing(e, i) = "observe"
      <3>1. pc'[e] = "observing" /\ claim'[e] = i /\ result'[e] = result[e]
        BY <1>2, <2>1
      <3>2. chain[i].state \notin Terminal /\ chain[i].claimant = Claimant[e]
        BY <2>1 DEF Standing, Terminal
      <3>3. chain[i].plan = Plan[e]
        BY DEF ReplayConflict
      <3>4. Claimed(e)'
        BY <3>1, <3>2, <3>3 DEF Claimed
      <3>5. LocalInv(e)'
        BY <3>1, <3>4 DEF LocalInv, InDraft, InClaim, AfterAttempt
      <3>6. ToldTruly(e)'
        BY <3>1, InvFacts DEF ToldTruly, Latest
      <3> QED BY <3>1, <3>5, <3>6 DEF Armed
    <2>2. CASE Standing(e, i) # "observe"
      <3>1. pc'[e] = "idle" /\ result'[e] = Standing(e, i)
        BY <1>2, <2>2
      <3>2. Standing(e, i) \in Succeeded =>
                chain[i].state = "completed" /\ chain[i].effect = Plan[e]
        BY DEF Standing, Succeeded
      <3>3. ToldTruly(e)'
        BY <3>1, <3>2, <1>1 DEF ToldTruly, Latest
      <3> QED BY <3>1, <3>3, Passive DEF Armed
    <2> QED BY <2>1, <2>2
  <1> QED BY <1>2, <1>3, InvFacts DEF QuietStep

-----------------------------------------------------------------------------
(* The invocation before its append *)

LEMMA StartQuiet ==
    ASSUME WriterInv, NEW e \in Executions, Start(e)
    PROVE  QuietStep(e)
  <1>1. runs' \in 0 .. MaxRuns /\ UNCHANGED <<chain, outside>>
    <2>1. runs \in 0 .. MaxRuns /\ runs < MaxRuns /\ runs' = runs + 1 /\ MaxRuns \in Nat
      BY InvFacts, WriterAssumption DEF Start
    <2> QED BY <2>1 DEF Start
  <1>2. CASE e \in local /\ ~ due
    <2>1. End(e, "RETRY_NOT_BEFORE") /\ local' = local
      BY <1>2 DEF Start
    <2> QED BY <2>1, <1>1, InvFacts, EndQuiet DEF Succeeded
  <1>3. CASE ~ (e \in local /\ ~ due)
    <2>1. Goto(e, "fresh") /\ UNCHANGED <<locals, result>> /\ local' \subseteq Executions
      BY <1>3, InvFacts DEF Start
    <2>2. pc'[e] = "fresh" => LocalInv(e)' /\ ~ Armed(e)'
      BY Passive DEF Armed
    <2> QED BY <1>1, <2>1, <2>2, GotoQuiet DEF Places
  <1> QED BY <1>2, <1>3

LEMMA CheckFreshQuiet ==
    ASSUME WriterInv, NEW e \in Executions, CheckFresh(e)
    PROVE  QuietStep(e)
  <1>1. UNCHANGED <<chain, outside, local, runs>>
    BY DEF CheckFresh
  <1>2. CASE drifted
    <2>1. End(e, "STALE")
      BY <1>2 DEF CheckFresh
    <2> QED BY <1>1, <2>1, InvFacts, EndQuiet DEF Succeeded
  <1>3. CASE ~ drifted
    <2>1. Goto(e, "reading") /\ UNCHANGED <<locals, result>>
      BY <1>3 DEF CheckFresh
    <2>2. pc'[e] = "reading" => LocalInv(e)' /\ ~ Armed(e)'
      BY Passive DEF Armed
    <2> QED BY <1>1, <2>1, <2>2, InvFacts, GotoQuiet DEF Places
  <1> QED BY <1>2, <1>3

LEMMA ReadEvidenceQuiet ==
    ASSUME WriterInv, NEW e \in Executions, ReadEvidence(e)
    PROVE  QuietStep(e)
  <1>1. UNCHANGED <<chain, outside, local, runs>>
    BY DEF ReadEvidence
  <1>2. CASE ReplayConflict(e)
    <2>1. End(e, "REPLAY_CONFLICT")
      BY <1>2 DEF ReadEvidence
    <2> QED BY <1>1, <2>1, InvFacts, EndQuiet DEF Succeeded
  <1>3. CASE ~ ReplayConflict(e) /\ chain = <<>>
    <2>1. Propose(e, 0, Record(e, "pending", NoEffect, 0), "claim")
      BY <1>3 DEF ReadEvidence
    <2>2. Record(e, "pending", NoEffect, 0) \in Evidence
      BY RecordFacts DEF EvidenceStates
    <2>3. (claim'[e] = 0 /\ draft'[e] = Record(e, "pending", NoEffect, 0) /\ goal'[e] = "claim")
              => Drafted(e)'
      BY DEF Drafted, Record
    <2> QED BY <1>1, <2>1, <2>2, <2>3, ProposeQuiet DEF Goals
  <1>4. CASE ~ ReplayConflict(e) /\ chain # <<>>
    <2>1. Resolve(e, Len(chain), "initial") /\ Len(chain) \in DOMAIN chain
      BY <1>4, InvFacts, Types DEF ReadEvidence
    <2> QED BY <1>1, <1>4, <2>1, ResolveQuiet
  <1> QED BY <1>2, <1>3, <1>4

\* What is seen of the plan on GitHub was written.
LEMMA SeenLanded ==
    ASSUME WriterInv, NEW e \in Executions, NEW seen \in Visible
    PROVE  /\ seen \in Plans \cup {NoEffect, Foreign}
           /\ seen = Plan[e] => landed >= 1
  BY InvFacts, Types DEF Visible, WriterInv, EffectsLanded

LEMMA LargerFacts ==
    ASSUME NEW n \in Nat
    PROVE  Larger(1, n) \in Nat /\ (n > 0 => Larger(1, n) = n)
  BY DEF Larger

\* A completion, or a partial effect, proposed on top of the claim.
LEMMA SettleQuiet ==
    ASSUME WriterInv, NEW e \in Executions, Claimed(e), NEW seen \in Visible,
           UNCHANGED <<chain, outside, local, runs>>,
           NEW purpose \in {"reconciled", "applied"},
           LET attempts == chain[claim[e]].writeAttempts IN
           IF seen = Plan[e]
           THEN Propose(e, claim[e], Record(e, "completed", seen, Larger(1, attempts)), purpose)
           ELSE Propose(e, claim[e], Record(e, "partial", seen, attempts), "partial")
    PROVE  QuietStep(e)
  <1> DEFINE attempts == chain[claim[e]].writeAttempts
  <1>1. claim[e] \in Nat /\ attempts \in Nat /\ Larger(1, attempts) \in Nat
    BY InvFacts, Types, LargerFacts DEF Claimed
  <1>2. seen \in Plans \cup {NoEffect, Foreign} /\ (seen = Plan[e] => landed >= 1)
    BY SeenLanded
  <1>3. CASE seen = Plan[e]
    <2> DEFINE done == Record(e, "completed", seen, Larger(1, attempts))
    <2>1. Propose(e, claim[e], done, purpose) /\ done \in Evidence
      BY <1>1, <1>2, <1>3, RecordFacts DEF EvidenceStates
    <2>2. ASSUME claim'[e] = claim[e], draft'[e] = done, goal'[e] = purpose
          PROVE  Drafted(e)'
      <3>1. Claimed(e)' /\ landed' >= 1
        BY <1>2, <1>3, <2>2 DEF Claimed, outside
      <3>2. chain'[claim'[e]].writeAttempts = attempts /\ chain'[claim'[e]] = chain[claim[e]]
        BY <2>2
      <3>3. draft'[e] = Record(e, "completed", Plan[e], Larger(1, attempts))
        BY <1>3, <2>2
      <3> QED BY <2>2, <3>1, <3>2, <3>3 DEF Drafted, Record
    <2> HIDE DEF done, attempts
    <2> QED BY <1>1, <2>1, <2>2, ProposeQuiet DEF Goals
  <1>4. CASE seen # Plan[e]
    <2> DEFINE partial == Record(e, "partial", seen, attempts)
    <2>1. Propose(e, claim[e], partial, "partial") /\ partial \in Evidence
      BY <1>1, <1>2, <1>4, RecordFacts DEF EvidenceStates
    <2>2. ASSUME claim'[e] = claim[e], draft'[e] = partial, goal'[e] = "partial"
          PROVE  Drafted(e)'
      <3>1. Claimed(e)'
        BY <2>2 DEF Claimed
      <3>2. chain'[claim'[e]].writeAttempts = attempts
        BY <2>2
      <3> QED BY <1>2, <2>2, <3>1, <3>2 DEF Drafted, Record
    <2> HIDE DEF partial, attempts
    <2> QED BY <1>1, <2>1, <2>2, ProposeQuiet DEF Goals
  <1> QED BY <1>3, <1>4

LEMMA ObserveQuiet ==
    ASSUME WriterInv, NEW e \in Executions, Observe(e)
    PROVE  QuietStep(e)
  <1>1. UNCHANGED <<chain, outside, local, runs>> /\ pc[e] = "observing"
    BY DEF Observe
  <1>2. Claimed(e) /\ chain[claim[e]].state \in {"pending", "retryable"}
        /\ chain[claim[e]].writeAttempts \in Nat
    BY <1>1, InvFacts, Types DEF LocalInv, InClaim, Claimed, Terminal, EvidenceStates
  <1> DEFINE attempts == chain[claim[e]].writeAttempts
  <1>3. PICK seen \in Visible :
            IF Settled(e, seen)
            THEN IF seen = Plan[e]
                 THEN Propose(e, claim[e], Record(e, "completed", seen, Larger(1, attempts)), "reconciled")
                 ELSE Propose(e, claim[e], Record(e, "partial", seen, attempts), "partial")
            ELSE IF phase[e] = "recovering" THEN End(e, "CLAIM_RECONCILIATION_REQUIRED")
            ELSE /\ Goto(e, IF phase[e] = "initial" THEN "confirming" ELSE "refreshing")
                 /\ UNCHANGED <<locals, result>>
    BY DEF Observe
  <1>4. CASE Settled(e, seen)
    BY <1>1, <1>2, <1>3, <1>4, SettleQuiet
  <1>5. CASE ~ Settled(e, seen) /\ phase[e] = "recovering"
    <2>1. End(e, "CLAIM_RECONCILIATION_REQUIRED")
      BY <1>3, <1>5
    <2> QED BY <1>1, <2>1, InvFacts, EndQuiet DEF Succeeded
  <1>6. CASE ~ Settled(e, seen) /\ phase[e] # "recovering"
    <2>1. Resumable(chain[claim[e]])
      BY <1>2, <1>6 DEF Settled, Resumable
    <2>2. PICK where \in {"confirming", "refreshing"} :
              Goto(e, where) /\ UNCHANGED <<locals, result>>
      BY <1>3, <1>6
    <2>3. ASSUME pc'[e] = where, claim'[e] = claim[e]
          PROVE  LocalInv(e)' /\ ~ Armed(e)'
      <3>1. Claimed(e)' /\ chain'[claim'[e]] = chain[claim[e]]
        BY <1>1, <1>2, <2>3 DEF Claimed
      <3>2. Resumable(chain[claim[e]])'
        BY <2>1, <3>1 DEF Resumable
      <3> QED BY <2>3, <3>1, <3>2 DEF LocalInv, InDraft, InClaim, AfterAttempt, Armed
    <2> QED BY <1>1, <2>2, <2>3, InvFacts, GotoQuiet DEF Places
  <1> QED BY <1>4, <1>5, <1>6

LEMMA ConfirmQuiet ==
    ASSUME WriterInv, NEW e \in Executions, Confirm(e)
    PROVE  QuietStep(e)
  <1>1. UNCHANGED <<chain, outside, local, runs>> /\ pc[e] = "confirming"
    BY DEF Confirm
  <1>2. Claimed(e)
    BY <1>1, InvFacts DEF LocalInv, InClaim
  <1>3. CASE ReplayConflict(e)
    <2>1. End(e, "REPLAY_CONFLICT")
      BY <1>3 DEF Confirm
    <2> QED BY <1>1, <2>1, InvFacts, EndQuiet DEF Succeeded
  <1>4. CASE ~ ReplayConflict(e) /\ claim[e] # Len(chain)
    <2>1. End(e, "CONCURRENCY_CONFLICT")
      BY <1>4 DEF Confirm
    <2> QED BY <1>1, <2>1, InvFacts, EndQuiet DEF Succeeded
  <1>5. CASE ~ ReplayConflict(e) /\ claim[e] = Len(chain)
    <2>1. Resolve(e, claim[e], "confirmed") /\ claim[e] \in DOMAIN chain
      BY <1>2, <1>5 DEF Confirm, Claimed
    <2> QED BY <1>1, <1>5, <2>1, ResolveQuiet
  <1> QED BY <1>3, <1>4, <1>5

LEMMA RecordAttemptQuiet ==
    ASSUME WriterInv, NEW e \in Executions, RecordAttempt(e)
    PROVE  QuietStep(e)
  <1> DEFINE attempts == chain[claim[e]].writeAttempts
  <1>1. UNCHANGED <<chain, outside, local, runs>> /\ pc[e] = "refreshing"
    BY DEF RecordAttempt
  <1>2. Claimed(e) /\ Resumable(chain[claim[e]]) /\ claim[e] \in Nat
        /\ attempts \in Nat /\ attempts + 1 \in Nat /\ MaxAttempts \in Nat
    BY <1>1, InvFacts, Types DEF LocalInv, InClaim, Claimed
  <1>3. CASE drifted
    <2>1. End(e, "STALE")
      BY <1>3 DEF RecordAttempt
    <2> QED BY <1>1, <2>1, InvFacts, EndQuiet DEF Succeeded
  <1>4. CASE ~ drifted /\ attempts >= MaxAttempts
    <2>1. End(e, "RETRY_EXHAUSTED")
      BY <1>4 DEF RecordAttempt
    <2> QED BY <1>1, <2>1, InvFacts, EndQuiet DEF Succeeded
  <1>5. CASE ~ drifted /\ ~ (attempts >= MaxAttempts)
    <2> DEFINE attempt == Record(e, "pending", NoEffect, attempts + 1)
    <2>1. Propose(e, claim[e], attempt, "attempt")
      BY <1>5 DEF RecordAttempt
    <2>2. attempt \in Evidence
      BY <1>2, RecordFacts DEF EvidenceStates
    <2>3. ASSUME claim'[e] = claim[e], draft'[e] = attempt, goal'[e] = "attempt"
          PROVE  Drafted(e)'
      <3>1. Claimed(e)' /\ chain'[claim'[e]] = chain[claim[e]]
        BY <1>1, <1>2, <2>3 DEF Claimed
      <3>2. Resumable(chain[claim[e]])' /\ attempts < MaxAttempts
        BY <1>2, <1>5, <3>1 DEF Resumable
      <3> QED BY <2>3, <3>1, <3>2 DEF Drafted, Record
    <2> HIDE DEF attempt, attempts
    <2> QED BY <1>1, <1>2, <2>1, <2>2, <2>3, ProposeQuiet DEF Goals
  <1> QED BY <1>3, <1>4, <1>5

-----------------------------------------------------------------------------
(* After the append *)

LEMMA AppendConflictsQuiet ==
    ASSUME WriterInv, NEW e \in Executions, AppendConflicts(e)
    PROVE  QuietStep(e)
  <1>1. UNCHANGED <<chain, outside, locals, local, result, runs>> /\ pc[e] = "appending"
        /\ Goto(e, "conflicted")
    BY DEF AppendConflicts
  <1>2. Drafted(e)
    BY <1>1, InvFacts DEF LocalInv, InDraft
  <1>3. ASSUME pc'[e] = "conflicted", claim'[e] = claim[e], goal'[e] = goal[e], draft'[e] = draft[e]
        PROVE  LocalInv(e)' /\ ~ Armed(e)'
    <2>1. Drafted(e)'
      BY <1>1, <1>2, <1>3, InvFacts, Types, DraftedKept, UnchangedGrows DEF outside
    <2> QED BY <1>3, <2>1 DEF LocalInv, InDraft, InClaim, AfterAttempt, Armed
  <1> QED BY <1>1, <1>3, InvFacts, GotoQuiet DEF Places

LEMMA ConflictedQuiet ==
    ASSUME WriterInv, NEW e \in Executions, Conflicted(e)
    PROVE  QuietStep(e)
  <1>1. UNCHANGED <<chain, outside, local, runs>> /\ pc[e] = "conflicted"
    BY DEF Conflicted
  <1>2. CASE End(e, "REPLAY_CONFLICT")
    BY <1>1, <1>2, InvFacts, EndQuiet DEF Succeeded
  <1>3. CASE goal[e] \in {"reconciled", "applied"} /\ Latest = draft[e] /\ End(e, goal[e])
    <2>1. Drafted(e)
      BY <1>1, InvFacts DEF LocalInv, InDraft
    <2>2. Claimed(e) /\ draft[e].state = "completed" /\ draft[e].effect = Plan[e]
      BY <1>3, <2>1 DEF Drafted, Record
    <2>3. chain # <<>>
      BY <2>2, InvFacts, Types DEF Claimed
    <2> QED BY <1>1, <1>3, <2>2, <2>3, InvFacts, EndQuiet
  <1>4. CASE End(e, IF goal[e] \in {"claim", "attempt"} THEN "CONCURRENCY_CONFLICT"
                    ELSE "PARTIAL_EFFECT")
    <2>1. PICK how \in {"CONCURRENCY_CONFLICT", "PARTIAL_EFFECT"} : End(e, how)
      BY <1>4
    <2> QED BY <1>1, <2>1, InvFacts, EndQuiet DEF Succeeded
  <1> QED BY <1>2, <1>3, <1>4 DEF Conflicted

LEMMA RereadQuiet ==
    ASSUME WriterInv, NEW e \in Executions, Reread(e)
    PROVE  QuietStep(e)
  <1>1. UNCHANGED <<chain, outside, runs>> /\ pc[e] = "rereading"
    BY DEF Reread
  <1>2. Drafted(e) /\ Appended(e)
    BY <1>1, InvFacts DEF LocalInv, InDraft
  <1>3. ASSUME NEW how, End(e, how), local' \subseteq Executions,
               how \in {"REPLAY_CONFLICT", "EVIDENCE_CHAIN_INVALID", "RETRYABLE_WRITE_FAILURE",
                        "PARTIAL_EFFECT"}
        PROVE  QuietStep(e)
    BY <1>1, <1>3, InvFacts, EndQuiet DEF Succeeded
  <1>4. CASE ReplayConflict(e) \/ Len(chain) # claim[e] + 1
    BY <1>3, <1>4, InvFacts DEF Reread
  <1>5. CASE ~ ReplayConflict(e) /\ Len(chain) = claim[e] + 1
    <2>1. chain # <<>> /\ Latest = draft[e] /\ Len(chain) \in DOMAIN chain
          /\ Latest = chain[Len(chain)]
      BY <1>2, <1>5 DEF Appended, Latest
    <2>2. CASE goal[e] \in {"claim", "attempt"}
      <3> DEFINE where == IF goal[e] = "claim" THEN "confirming" ELSE "final"
      <3>1. claim' = [claim EXCEPT ![e] = Len(chain)] /\ Goto(e, where)
            /\ UNCHANGED <<phase, draft, goal, local, result>>
        BY <1>5, <2>2 DEF Reread
      <3>2. Len(chain) \in Nat /\ local \subseteq Executions /\ runs \in 0 .. MaxRuns
            /\ LocalTypes
        BY InvFacts, Types
      <3>3. /\ LocalTypes' /\ OthersSame(e) /\ pc'[e] = where /\ claim'[e] = Len(chain)
            /\ goal'[e] = goal[e] /\ result'[e] = result[e]
        BY <3>1, <3>2 DEF LocalTypes, Goto, OthersSame, Same, Places
      <3>4. /\ Latest.claimant = Claimant[e] /\ Latest.plan = Plan[e] /\ Latest.state = "pending"
            /\ goal[e] = "attempt" => Latest.writeAttempts > 0
        <4>1. CASE goal[e] = "claim"
          BY <1>2, <2>1, <4>1 DEF Drafted, Record
        <4>2. CASE goal[e] = "attempt"
          <5>1. chain[claim[e]].writeAttempts \in Nat
            BY <1>2, <4>2, InvFacts, Types DEF Drafted, Claimed
          <5> QED BY <1>2, <2>1, <4>2, <5>1 DEF Drafted, Record
        <4> QED BY <2>2, <4>1, <4>2
      <3>5. Claimed(e)' /\ (goal[e] = "attempt" => Attempted(chain[claim[e]])')
        BY <1>1, <2>1, <3>3, <3>4 DEF Claimed, Terminal, Attempted
      <3>6. LocalInv(e)'
        BY <2>2, <3>3, <3>5 DEF LocalInv, InDraft, InClaim, AfterAttempt
      <3>7. Armed(e)' => Armed(e)
        BY <1>1, <2>2, <3>3 DEF Armed
      <3>8. ToldTruly(e)'
        BY <1>1, <3>3, InvFacts DEF ToldTruly, Latest
      <3> QED BY <1>1, <3>1, <3>2, <3>3, <3>6, <3>7, <3>8 DEF QuietStep
    <2>3. CASE goal[e] \in {"retryable", "partial"}
      BY <1>3, <1>5, <2>3, InvFacts DEF Reread
    <2>4. CASE goal[e] \in {"reconciled", "applied"}
      <3>1. End(e, goal[e]) /\ local' = local
        BY <1>5, <2>4 DEF Reread
      <3>2. draft[e].state = "completed" /\ draft[e].effect = Plan[e]
        BY <1>2, <2>4 DEF Drafted, Record
      <3> QED BY <1>1, <2>1, <3>1, <3>2, InvFacts, EndQuiet
    <2>5. goal[e] \in Goals
      BY InvFacts, Types
    <2> QED BY <2>2, <2>3, <2>4, <2>5 DEF Goals
  <1> QED BY <1>4, <1>5

LEMMA RecoverQuiet ==
    ASSUME WriterInv, NEW e \in Executions, Recover(e)
    PROVE  QuietStep(e)
  <1>1. UNCHANGED <<chain, outside, local, runs>>
    BY DEF Recover
  <1>2. CASE \E how \in {"REPLAY_CONFLICT", "CONCURRENCY_CONFLICT"} : End(e, how)
    BY <1>1, <1>2, InvFacts, EndQuiet DEF Succeeded
  <1>3. CASE ~ ReplayConflict(e) /\ chain # <<>> /\ Resolve(e, Len(chain), "recovering")
    <2>1. Len(chain) \in DOMAIN chain
      BY <1>3, InvFacts, Types
    <2> QED BY <1>1, <1>3, <2>1, ResolveQuiet
  <1> QED BY <1>2, <1>3 DEF Recover

LEMMA AcknowledgeQuiet ==
    ASSUME WriterInv, NEW e \in Executions, Acknowledge(e)
    PROVE  QuietStep(e)
  <1>1. UNCHANGED <<chain, outside, local, runs>> /\ pc[e] = "acknowledging"
    BY DEF Acknowledge
  <1>2. Claimed(e)
    BY <1>1, InvFacts DEF LocalInv, InDraft, Drafted
  <1>3. chain # <<>>
    BY <1>2, InvFacts, Types DEF Claimed
  <1>4. PICK how \in {"REPLAY_CONFLICT", "applied", "PARTIAL_EFFECT"} :
            /\ End(e, how)
            /\ how = "applied" => Latest.state = "completed" /\ Latest.effect = Plan[e]
    BY DEF Acknowledge
  <1> QED BY <1>1, <1>3, <1>4, InvFacts, EndQuiet DEF Succeeded

-----------------------------------------------------------------------------
(* The write *)

\* GitHub's answer moves the execution on, with its claim as it stands.
LEMMA AnsweredQuiet ==
    ASSUME WriterInv, NEW e \in Executions, pc[e] = "applying",
           NEW where \in {"verifying", "inspecting"}, Goto(e, where),
           UNCHANGED <<chain, outside, locals, local, result, runs>>
    PROVE  QuietStep(e)
  <1>1. Claimed(e) /\ Attempted(chain[claim[e]])
    BY InvFacts DEF LocalInv, InClaim, AfterAttempt
  <1>2. ASSUME pc'[e] = where, claim'[e] = claim[e]
        PROVE  LocalInv(e)' /\ ~ Armed(e)'
    <2>1. Claimed(e)' /\ Attempted(chain[claim[e]])'
      BY <1>1, <1>2 DEF Claimed, Attempted
    <2> QED BY <1>2, <2>1 DEF LocalInv, InDraft, InClaim, AfterAttempt, Armed
  <1> QED BY <1>2, InvFacts, GotoQuiet DEF Places

LEMMA InspectVerifyQuiet ==
    ASSUME WriterInv, NEW e \in Executions, Inspect(e) \/ Verify(e)
    PROVE  QuietStep(e)
  <1> DEFINE attempts == chain[claim[e]].writeAttempts
  <1>1. UNCHANGED <<chain, outside, local, runs>> /\ pc[e] \in {"inspecting", "verifying"}
    BY DEF Inspect, Verify
  <1>2. Claimed(e) /\ Attempted(chain[claim[e]])
    BY <1>1, InvFacts DEF LocalInv, InClaim, AfterAttempt
  <1>3. Larger(1, attempts) = attempts
    BY <1>2, InvFacts, Types, LargerFacts DEF Claimed, Attempted
  <1>4. PICK seen \in Visible, purpose \in {"reconciled", "applied"} :
            IF seen = Plan[e]
            THEN Propose(e, claim[e], Record(e, "completed", seen, attempts), purpose)
            ELSE Propose(e, claim[e], Record(e, "partial", seen, attempts), "partial")
    BY DEF Inspect, Verify
  <1> QED BY <1>1, <1>2, <1>3, <1>4, SettleQuiet

LEMMA AbortDieQuiet ==
    ASSUME WriterInv, NEW e \in Executions, Abort(e) \/ Die(e)
    PROVE  QuietStep(e)
  <1>1. PICK how \in {"API_ERROR", "none"} : End(e, how)
    BY DEF Abort, Die
  <1>2. UNCHANGED <<chain, outside>> /\ local' \subseteq Executions /\ runs' \in 0 .. MaxRuns
    BY InvFacts DEF Abort, Die
  <1> QED BY <1>1, <1>2, EndQuiet DEF Succeeded

-----------------------------------------------------------------------------
(* Steps that change the chain *)

\* The draft lands; the execution that appended it goes on or ends.
LEMMA LandKeeps ==
    ASSUME WriterInv, NEW e \in Executions, pc[e] = "appending", Land(e),
           LocalTypes', OthersSame(e), UNCHANGED <<local, runs>>,
           LocalInv(e)', ToldTruly(e)', pc'[e] # "appending",
           Armed(e)' => goal[e] = "attempt"
    PROVE  WriterInv'
  <1>1. TypeOK /\ LocalTypes /\ Drafted(e) /\ HeadMatches(e)
    BY InvFacts DEF LocalInv, InDraft, Land
  <1>2. /\ Grown /\ chain' # <<>> /\ Len(chain') = Len(chain) + 1
        /\ claim[e] = Len(chain) /\ Latest' = draft[e]
        /\ UNCHANGED <<effect, inFlight, landed, drifted, sends>> /\ due' \in BOOLEAN
    BY <1>1, LandFacts
  <1>3. TypeOK'
    BY <1>1, <1>2, InvFacts DEF Grown, TypeOK, LocalTypes, Places
  <1>4. \A f \in Executions : f # e => Same(f)
    BY DEF OthersSame
  <1>5. \A f \in Executions : f # e => (Armed(f)' <=> Armed(f))
    BY <1>4 DEF Armed, Same
  <1>6. ~ Armed(e)
    BY DEF Armed
  <1>7. OneWrite /\ AttemptsRecorded /\ Chained /\ EffectsLanded
    BY DEF WriterInv
  <1>8. chain = <<>> => Unsent
    BY <1>7 DEF OneWrite
  <1>9. goal[e] \in {"claim", "attempt", "retryable"} => Unsent
    <2>1. goal[e] = "claim" => chain = <<>>
      BY <1>1, DraftFollows
    <2>2. goal[e] = "attempt" => Resumable(Latest)
      BY <1>1, DraftFollows
    <2> QED BY <1>1, <1>7, <1>8, <2>1, <2>2 DEF OneWrite
  <1>10. OneWrite'
    <2>1. (chain = <<>> \/ Resumable(Latest))' => Unsent'
      <3> SUFFICES ASSUME Resumable(draft[e]) PROVE Unsent'
        BY <1>2 DEF Resumable
      <3>1. goal[e] \in {"claim", "retryable"}
        BY <1>1, DraftFollows
      <3> QED BY <1>2, <1>5, <1>9, <3>1 DEF Unsent
    <2>2. \A f \in Executions :
              ~ (pc[f] = "appending" /\ goal[f] = "retryable" /\ HeadMatches(f))'
      <3> SUFFICES ASSUME NEW f \in Executions, f # e, pc[f] = "appending",
                          goal[f] = "retryable", claim[f] = Len(chain) + 1
                   PROVE  FALSE
        BY <1>2, <1>4 DEF Same, HeadMatches
      <3>1. claim[f] \in DOMAIN chain
        BY <1>1, InvFacts DEF LocalInv, InDraft, Drafted, Claimed
      <3> QED BY <1>1, <3>1, Types
    <2>3. Armed(e)' => Unsent
      BY <1>9
    <2>4. Unsent => landed = 0 /\ inFlight = {} /\ \A f \in Executions : f # e => ~ Armed(f)'
      BY <1>5 DEF Unsent
    <2>5. landed' <= 1 /\ \A f, g \in inFlight' : f = g
      BY <1>2, <1>7 DEF OneWrite
    <2>6. landed' = 1 => inFlight' = {} /\ \A f \in Executions : ~ Armed(f)'
      BY <1>2, <1>5, <1>7, <2>3, <2>4 DEF OneWrite
    <2>7. \A f, g \in Executions : Armed(f)' /\ Armed(g)' => f = g
      BY <1>5, <1>7, <2>3, <2>4 DEF OneWrite
    <2>8. \A f \in Executions : Armed(f)' => inFlight' = {}
      BY <1>2, <1>5, <1>7, <2>3, <2>4 DEF OneWrite
    <2> QED BY <2>1, <2>2, <2>5, <2>6, <2>7, <2>8 DEF OneWrite
  <1>11. AttemptsRecorded'
    <2>1. draft[e].writeAttempts \in Nat /\ sends \in Nat /\ MaxAttempts \in Nat
      BY <1>1, DraftFollows, Types
    <2>2. chain # <<>> => Latest.writeAttempts \in Nat
      BY <1>1, Types DEF Latest
    <2>3. sends <= draft[e].writeAttempts /\ draft[e].writeAttempts <= MaxAttempts
      <3>1. CASE chain = <<>>
        <4>1. goal[e] = "claim" /\ sends = 0
          BY <1>1, <1>7, <3>1, DraftFollows DEF AttemptsRecorded
        <4> QED BY <1>1, <2>1, <4>1, DraftFollows
      <3>2. CASE chain # <<>>
        <4>1. sends <= Latest.writeAttempts /\ Latest.writeAttempts <= MaxAttempts
          BY <1>7, <3>2 DEF AttemptsRecorded
        <4>2. /\ draft[e].writeAttempts >= Latest.writeAttempts
              /\ draft[e].writeAttempts <= MaxAttempts
          BY <1>1, <3>2, <4>1, DraftFollows
        <4> QED BY <2>1, <2>2, <3>2, <4>1, <4>2
      <3> QED BY <3>1, <3>2
    <2>4. \A f \in Executions : Armed(f)' => sends < draft[e].writeAttempts
      <3> SUFFICES ASSUME NEW f \in Executions, Armed(f)'
                   PROVE  sends < draft[e].writeAttempts
        OBVIOUS
      <3>1. CASE f = e
        <4>1. goal[e] = "attempt"
          BY <3>1
        <4>2. chain # <<>> /\ draft[e].writeAttempts = Latest.writeAttempts + 1
          BY <1>1, <4>1, DraftFollows
        <4>3. sends <= Latest.writeAttempts
          BY <1>7, <4>2 DEF AttemptsRecorded
        <4> QED BY <2>1, <2>2, <4>2, <4>3
      <3>2. CASE f # e
        <4>1. chain # <<>> /\ sends < Latest.writeAttempts
          BY <1>5, <1>7, <3>2 DEF AttemptsRecorded
        <4>2. draft[e].writeAttempts >= Latest.writeAttempts
          BY <1>1, <4>1, DraftFollows
        <4> QED BY <2>1, <2>2, <4>1, <4>2
      <3> QED BY <3>1, <3>2
    <2> QED BY <1>2, <2>3, <2>4 DEF AttemptsRecorded
  <1>12. Chained'
    <2>1. chain' = Append(chain, draft[e]) /\ chain'[Len(chain) + 1] = draft[e]
      BY <1>2, LandFacts DEF Land
    <2>2. Len(chain) \in Nat /\ (chain = <<>> <=> Len(chain) = 0) /\ DOMAIN chain = 1 .. Len(chain)
      BY <1>1, Types
    <2>3. Starts(chain'[1])
      <3>1. CASE chain = <<>>
        BY <1>1, <2>1, <2>2, <3>1, DraftFollows
      <3>2. CASE chain # <<>>
        BY <1>2, <1>7, <2>2, <3>2 DEF Grown, Chained
      <3> QED BY <3>1, <3>2
    <2>4. ASSUME NEW i \in 1 .. Len(chain') - 1 PROVE Follows(chain'[i], chain'[i + 1])
      <3>1. i \in DOMAIN chain /\ chain # <<>> /\ chain'[i] = chain[i]
        BY <1>2, <2>2 DEF Grown
      <3>2. CASE i = Len(chain)
        BY <1>1, <2>1, <3>1, <3>2, DraftFollows DEF Latest
      <3>3. CASE i # Len(chain)
        <4>1. i \in 1 .. Len(chain) - 1 /\ i + 1 \in DOMAIN chain
          BY <2>2, <3>1, <3>3
        <4> QED BY <1>2, <1>7, <3>1, <4>1 DEF Grown, Chained
      <3> QED BY <3>2, <3>3
    <2> QED BY <2>3, <2>4 DEF Chained, Starts, Follows
  <1>13. EffectsLanded'
    <2>1. \A i \in DOMAIN chain' : i \in DOMAIN chain \/ chain'[i] = draft[e]
      <3>1. Len(chain) \in Nat /\ DOMAIN chain = 1 .. Len(chain)
            /\ DOMAIN chain' = 1 .. Len(chain) + 1 /\ chain'[Len(chain) + 1] = draft[e]
        BY <1>1, <1>2, Types, LandFacts DEF Grown
      <3> QED BY <3>1
    <2>2. draft[e].state = "completed" => landed >= 1
      BY <1>1, DraftFollows
    <2>3. \A i \in DOMAIN chain' : chain'[i].state = "completed" => landed >= 1
      BY <1>2, <1>7, <2>1, <2>2 DEF Grown, EffectsLanded
    <2> QED BY <1>2, <1>7, <2>3 DEF EffectsLanded
  <1>14. \A f \in Executions : LocalInv(f)' /\ ToldTruly(f)'
    <2> SUFFICES ASSUME NEW f \in Executions, f # e PROVE LocalInv(f)' /\ ToldTruly(f)'
      OBVIOUS
    <2>1. Same(f) /\ LocalInv(f) /\ ToldTruly(f) /\ landed \in Nat
      BY <1>1, <1>4, InvFacts, Types
    <2>2. LocalInv(f)'
      BY <1>1, <1>2, <2>1, OthersKeep
    <2>3. result[f] \notin Succeeded
      <3> SUFFICES ASSUME result[f] \in Succeeded PROVE FALSE
        OBVIOUS
      <3>1. chain # <<>> /\ Latest.state = "completed"
        BY <2>1 DEF ToldTruly
      <3>2. Follows(Latest, draft[e])
        BY <1>1, <3>1, DraftFollows
      <3> QED BY <3>1, <3>2 DEF Follows, Terminal
    <2> QED BY <2>1, <2>2, <2>3 DEF ToldTruly, Same
  <1> QED BY <1>3, <1>10, <1>11, <1>12, <1>13, <1>14 DEF WriterInv, LocalTypes

LEMMA AppendLandsKeeps ==
    ASSUME WriterInv, NEW e \in Executions, AppendLands(e)
    PROVE  WriterInv'
  <1>1. /\ pc[e] = "appending" /\ Land(e) /\ Goto(e, "rereading")
        /\ UNCHANGED <<locals, local, result, runs>>
    BY DEF AppendLands
  <1>2. TypeOK /\ Drafted(e)
    BY <1>1, InvFacts DEF LocalInv, InDraft
  <1>3. /\ LocalTypes' /\ OthersSame(e) /\ pc'[e] = "rereading" /\ claim'[e] = claim[e]
        /\ goal'[e] = goal[e] /\ draft'[e] = draft[e] /\ result'[e] = result[e]
    BY <1>1, InvFacts, StayFacts DEF Places
  <1>4. /\ Grown /\ chain'[claim[e] + 1] = draft[e] /\ claim[e] + 1 \in DOMAIN chain'
        /\ landed' = landed /\ landed \in Nat /\ claim[e] = Len(chain)
    BY <1>1, <1>2, LandFacts, Types
  <1>5. Drafted(e)' /\ Appended(e)'
    BY <1>2, <1>3, <1>4, DraftedKept DEF Appended
  <1>6. LocalInv(e)'
    BY <1>3, <1>5 DEF LocalInv, InDraft, InClaim, AfterAttempt
  <1>7. result[e] \notin Succeeded
    <2> SUFFICES ASSUME result[e] \in Succeeded PROVE FALSE
      OBVIOUS
    <2>1. chain # <<>> /\ Latest.state = "completed"
      BY InvFacts DEF ToldTruly
    <2>2. Follows(Latest, draft[e])
      BY <1>1, <1>2, <2>1, DraftFollows DEF Land
    <2> QED BY <2>1, <2>2 DEF Follows, Terminal
  <1>8. ToldTruly(e)'
    BY <1>3, <1>7 DEF ToldTruly
  <1> QED BY <1>1, <1>3, <1>6, <1>8, LandKeeps DEF Armed

LEMMA AppendFailsKeeps ==
    ASSUME WriterInv, NEW e \in Executions, AppendFails(e)
    PROVE  WriterInv'
  <1>1. PICK ambiguous \in BOOLEAN :
          /\ \/ ambiguous /\ Land(e)
             \/ UNCHANGED <<chain, outside>>
          /\ CASE ambiguous /\ goal[e] = "claim" ->
                      Goto(e, "recovering") /\ UNCHANGED <<locals, result>>
               [] ambiguous /\ goal[e] = "applied" ->
                      Goto(e, "acknowledging") /\ UNCHANGED <<locals, result>>
               [] OTHER -> End(e, "API_ERROR")
    BY DEF AppendFails
  <1>2. UNCHANGED <<local, runs>> /\ pc[e] = "appending"
    BY DEF AppendFails
  <1>3. TypeOK /\ Drafted(e) /\ landed \in Nat
    BY <1>2, InvFacts, Types DEF LocalInv, InDraft
  <1> DEFINE Doubts(where) == Goto(e, where) /\ UNCHANGED <<locals, result>>
  <1>6. \/ End(e, "API_ERROR")
        \/ goal[e] = "claim" /\ Doubts("recovering")
        \/ goal[e] = "applied" /\ Doubts("acknowledging")
    <2>1. CASE ambiguous /\ goal[e] = "claim"
      BY <1>1, <2>1
    <2>2. CASE ambiguous /\ goal[e] = "applied"
      BY <1>1, <2>2
    <2>3. CASE ~ (ambiguous /\ goal[e] \in {"claim", "applied"})
      BY <1>1, <2>3
    <2> QED BY <2>1, <2>2, <2>3
  <1>4. CASE UNCHANGED <<chain, outside>>
    <2>1. CASE End(e, "API_ERROR")
      BY <1>2, <1>4, <2>1, InvFacts, EndQuiet, QuietKeeps DEF Succeeded
    <2>2. ASSUME NEW where \in {"recovering", "acknowledging"}, Doubts(where),
                 goal[e] = IF where = "recovering" THEN "claim" ELSE "applied"
          PROVE  WriterInv'
      <3>1. ASSUME pc'[e] = where, claim'[e] = claim[e], goal'[e] = goal[e], draft'[e] = draft[e]
            PROVE  LocalInv(e)' /\ ~ Armed(e)'
        <4>1. Drafted(e)'
          BY <1>3, <1>4, <3>1, DraftedKept, UnchangedGrows DEF outside
        <4> QED BY <2>2, <3>1, <4>1 DEF LocalInv, InDraft, InClaim, AfterAttempt, Armed
      <3>2. QuietStep(e)
        BY <1>2, <1>4, <2>2, <3>1, InvFacts, GotoQuiet DEF Places
      <3> QED BY <3>2, QuietKeeps
    <2> HIDE DEF Doubts
    <2> QED BY <1>6, <2>1, <2>2
  <1>5. CASE Land(e)
    <2>1. Grown /\ landed' = landed
      BY <1>3, <1>5, LandFacts
    <2>2. result[e] \notin Succeeded
      <3> SUFFICES ASSUME result[e] \in Succeeded PROVE FALSE
        OBVIOUS
      <3>1. chain # <<>> /\ Latest.state = "completed"
        BY InvFacts DEF ToldTruly
      <3>2. Follows(Latest, draft[e])
        BY <1>3, <1>5, <3>1, DraftFollows DEF Land
      <3> QED BY <3>1, <3>2 DEF Follows, Terminal
    <2>3. CASE End(e, "API_ERROR")
      <3>1. LocalTypes' /\ OthersSame(e) /\ pc'[e] = "idle" /\ result'[e] = "API_ERROR"
        BY <2>3, InvFacts, EndFacts
      <3>2. LocalInv(e)' /\ ToldTruly(e)' /\ ~ Armed(e)'
        BY <3>1, Passive DEF ToldTruly, Succeeded, Armed
      <3> QED BY <1>2, <1>5, <3>1, <3>2, LandKeeps
    <2>4. ASSUME NEW where \in {"recovering", "acknowledging"}, Doubts(where),
                 goal[e] = IF where = "recovering" THEN "claim" ELSE "applied"
          PROVE  WriterInv'
      <3>1. /\ LocalTypes' /\ OthersSame(e) /\ pc'[e] = where /\ claim'[e] = claim[e]
            /\ goal'[e] = goal[e] /\ draft'[e] = draft[e] /\ result'[e] = result[e]
        BY <2>4, InvFacts, StayFacts DEF Places
      <3>2. Drafted(e)'
        BY <1>3, <2>1, <3>1, DraftedKept
      <3>3. LocalInv(e)' /\ ~ Armed(e)'
        BY <2>4, <3>1, <3>2 DEF LocalInv, InDraft, InClaim, AfterAttempt, Armed
      <3>4. ToldTruly(e)'
        BY <2>2, <3>1 DEF ToldTruly
      <3> QED BY <1>2, <1>5, <2>4, <3>1, <3>3, <3>4, LandKeeps
    <2> HIDE DEF Doubts
    <2> QED BY <1>6, <2>3, <2>4
  <1> QED BY <1>1, <1>4, <1>5

-----------------------------------------------------------------------------
(* Steps that change what is on its way to GitHub *)

\* What is left to show when the chain stays as it is.
LEMMA OutsideKeeps ==
    ASSUME WriterInv, chain' = chain, LocalTypes', UNCHANGED <<local, runs>>,
           effect' \in Plans \cup {NoEffect, Foreign}, inFlight' \subseteq Executions,
           landed' \in Nat, landed' >= landed, sends' \in Nat,
           drifted' \in BOOLEAN, due' \in BOOLEAN,
           effect' \in Plans => landed' >= 1,
           OneWrite', AttemptsRecorded',
           \A f \in Executions : Same(f) \/ (LocalInv(f)' /\ result'[f] = result[f])
    PROVE  WriterInv'
  <1>1. TypeOK /\ Grown /\ Latest' = Latest
    BY InvFacts, UnchangedGrows DEF Latest
  <1>2. TypeOK'
    BY <1>1, InvFacts DEF TypeOK, LocalTypes, Places
  <1>3. Chained'
    BY DEF WriterInv, Chained, Starts, Follows
  <1>4. EffectsLanded'
    BY <1>1, Types DEF WriterInv, EffectsLanded
  <1>5. \A f \in Executions : LocalInv(f)' /\ ToldTruly(f)'
    <2> SUFFICES ASSUME NEW f \in Executions PROVE LocalInv(f)' /\ ToldTruly(f)'
      OBVIOUS
    <2>1. LocalInv(f) /\ ToldTruly(f)
      BY InvFacts
    <2>2. LocalInv(f)'
      BY <1>1, <2>1, OthersKeep
    <2>3. result'[f] = result[f]
      BY DEF Same
    <2> QED BY <1>1, <2>1, <2>2, <2>3 DEF ToldTruly
  <1> QED BY <1>2, <1>3, <1>4, <1>5 DEF WriterInv, LocalTypes

LEMMA SendKeeps ==
    ASSUME WriterInv, NEW e \in Executions, Send(e)
    PROVE  WriterInv'
  <1>1. pc[e] = "final" /\ UNCHANGED <<chain, effect, landed, drifted, due, local, runs>>
    BY DEF Send
  <1>2. TypeOK /\ Claimed(e) /\ Attempted(chain[claim[e]]) /\ Armed(e)
    BY <1>1, InvFacts DEF LocalInv, InClaim, AfterAttempt, Armed
  <1>3. CASE drifted /\ ~ ReviewComment
    <2>1. End(e, "STALE") /\ UNCHANGED <<inFlight, sends>>
      BY <1>3 DEF Send
    <2>2. QuietStep(e)
      BY <1>1, <2>1, InvFacts, EndQuiet DEF outside, Succeeded
    <2> QED BY <2>2, QuietKeeps
  <1>4. CASE ~ (drifted /\ ~ ReviewComment)
    <2>1. /\ inFlight' = inFlight \cup {e} /\ sends' = sends + 1
          /\ Goto(e, "applying") /\ UNCHANGED <<locals, result>>
      BY <1>4 DEF Send
    <2>2. /\ LocalTypes' /\ OthersSame(e) /\ pc'[e] = "applying" /\ claim'[e] = claim[e]
          /\ goal'[e] = goal[e] /\ draft'[e] = draft[e] /\ result'[e] = result[e]
      BY <2>1, InvFacts, StayFacts DEF Places
    <2>3. OneWrite /\ AttemptsRecorded
      BY DEF WriterInv
    <2>4. inFlight = {} /\ landed # 1 /\ landed <= 1 /\ chain # <<>> /\ ~ Resumable(Latest)
          /\ sends < Latest.writeAttempts /\ ~ Unsent
      BY <1>2, <2>3 DEF OneWrite, AttemptsRecorded, Unsent
    <2>5. \A f \in Executions : ~ Armed(f)'
      <3>1. \A f \in Executions : f # e => ~ Armed(f)
        BY <1>2, <2>3 DEF OneWrite
      <3> QED BY <2>2, <3>1 DEF Armed, OthersSame, Same
    <2>6. Latest' = Latest
      BY <1>1 DEF Latest
    <2>7. OneWrite'
      <3>1. \A f \in Executions :
                ~ (pc[f] = "appending" /\ goal[f] = "retryable" /\ HeadMatches(f))'
        <4>1. \A f \in Executions :
                  ~ (pc[f] = "appending" /\ goal[f] = "retryable" /\ HeadMatches(f))
          BY <2>3, <2>4 DEF OneWrite
        <4> QED BY <1>1, <2>2, <4>1 DEF OthersSame, Same, HeadMatches
      <3> QED BY <1>1, <2>1, <2>4, <2>5, <2>6, <3>1 DEF OneWrite, Resumable
    <2>8. Latest.writeAttempts \in Nat /\ sends \in Nat
      BY <1>2, <2>4, Types DEF Latest
    <2>9. AttemptsRecorded'
      BY <1>1, <2>1, <2>3, <2>4, <2>5, <2>6, <2>8 DEF AttemptsRecorded
    <2>10. LocalInv(e)'
      <3>1. Claimed(e)' /\ Attempted(chain[claim[e]])'
        BY <1>1, <1>2, <2>2 DEF Claimed, Attempted
      <3> QED BY <2>2, <3>1 DEF LocalInv, InDraft, InClaim, AfterAttempt
    <2>11. sends' \in Nat /\ landed \in Nat /\ inFlight' \subseteq Executions
      BY <1>2, <2>1, <2>8, InvFacts, Types
    <2>12. effect' \in Plans => landed' >= 1
      BY <1>1 DEF WriterInv, EffectsLanded
    <2>13. \A f \in Executions : Same(f) \/ (LocalInv(f)' /\ result'[f] = result[f])
      BY <2>2, <2>10 DEF OthersSame
    <2> QED BY <1>1, <1>2, <2>2, <2>7, <2>9, <2>11, <2>12, <2>13, InvFacts, OutsideKeeps DEF TypeOK
  <1> QED BY <1>3, <1>4

LEMMA RefusedForNowKeeps ==
    ASSUME WriterInv, NEW e \in Executions, RefusedForNow(e)
    PROVE  WriterInv'
  <1> DEFINE attempts == chain[claim[e]].writeAttempts
             refusal == Record(e, "retryable", NoEffect, attempts)
  <1>1. /\ pc[e] = "applying" /\ e \in inFlight /\ inFlight' = inFlight \ {e}
        /\ Propose(e, claim[e], refusal, "retryable")
        /\ UNCHANGED <<chain, effect, landed, drifted, due, sends, local, runs>>
    BY DEF RefusedForNow
  <1>2. TypeOK /\ Claimed(e) /\ Attempted(chain[claim[e]])
    BY <1>1, InvFacts DEF LocalInv, InClaim, AfterAttempt
  <1>3. claim[e] \in Nat /\ attempts \in Nat /\ refusal \in Evidence
    BY <1>2, Types, RecordFacts DEF Claimed, EvidenceStates
  <1>4. /\ LocalTypes' /\ OthersSame(e) /\ pc'[e] = "appending" /\ claim'[e] = claim[e]
        /\ draft'[e] = refusal /\ goal'[e] = "retryable" /\ result'[e] = result[e]
    <2> HIDE DEF refusal, attempts
    <2> QED BY <1>1, <1>3, InvFacts, ProposeFacts DEF Goals
  <1>5. Drafted(e)'
    <2>1. Claimed(e)' /\ chain'[claim'[e]] = chain[claim[e]]
      BY <1>1, <1>2, <1>4 DEF Claimed
    <2>2. Attempted(chain[claim[e]])'
      BY <1>2, <2>1 DEF Attempted
    <2> QED BY <1>4, <2>1, <2>2 DEF Drafted, Record
  <1>6. LocalInv(e)'
    BY <1>4, <1>5, Appending
  <1>7. OneWrite /\ AttemptsRecorded
    BY DEF WriterInv
  <1>8. inFlight' = {} /\ landed # 1 /\ \A f \in Executions : ~ Armed(f)
    BY <1>1, <1>7 DEF OneWrite
  <1>9. Unsent'
    <2>1. \A f \in Executions : ~ Armed(f)'
      BY <1>4, <1>8 DEF Armed, OthersSame, Same
    <2>2. landed = 0
      BY <1>2, <1>7, <1>8, Types DEF OneWrite
    <2> QED BY <1>1, <1>8, <2>1, <2>2 DEF Unsent
  <1>10. OneWrite'
    BY <1>9, 0 <= 1, 0 # 1 DEF OneWrite, Unsent
  <1>11. AttemptsRecorded'
    BY <1>1, <1>7, <1>9 DEF AttemptsRecorded, Unsent, Latest
  <1>12. landed \in Nat /\ sends \in Nat /\ inFlight' \subseteq Executions
    BY <1>1, <1>2, InvFacts, Types
  <1>13. effect' \in Plans => landed' >= 1
    BY <1>1 DEF WriterInv, EffectsLanded
  <1>14. \A f \in Executions : Same(f) \/ (LocalInv(f)' /\ result'[f] = result[f])
    BY <1>4, <1>6 DEF OthersSame
  <1> HIDE DEF refusal, attempts
  <1> QED BY <1>1, <1>2, <1>4, <1>10, <1>11, <1>12, <1>13, <1>14, InvFacts, OutsideKeeps
          DEF TypeOK

\* GitHub, its users and the clock leave every execution where it is.
LEMMA WorldKeeps ==
    ASSUME WriterInv,
           \/ \E e \in Executions : GitHubApplies(e) \/ GitHubDrops(e)
           \/ SomeoneEdits \/ Drift \/ DeadlinePasses
    PROVE  WriterInv'
  <1>1. UNCHANGED <<chain, sends, pc, locals, local, result, runs>>
    BY DEF GitHubApplies, GitHubDrops, SomeoneEdits, Drift, DeadlinePasses
  <1>2. /\ UNCHANGED <<chain, sends, pc, claim, draft, goal, result>> /\ LocalTypes'
        /\ UNCHANGED <<local, runs>>
    BY <1>1, InvFacts DEF locals, LocalTypes
  <1>3. TypeOK /\ landed \in Nat /\ sends \in Nat
    BY InvFacts, Types
  <1>4. \/ inFlight' \subseteq inFlight /\ landed' = landed
        \/ \E e \in inFlight : inFlight' = inFlight \ {e} /\ landed' = landed + 1
    BY DEF GitHubApplies, GitHubDrops, SomeoneEdits, Drift, DeadlinePasses
  <1>5. /\ effect' \in Plans \cup {NoEffect, Foreign} /\ drifted' \in BOOLEAN /\ due' \in BOOLEAN
        /\ effect' \in Plans => landed' >= 1
    <2>1. ASSUME NEW e \in Executions, GitHubApplies(e)
          PROVE  effect' \in Plans /\ landed' = landed + 1 /\ drifted' = drifted /\ due' = due
      BY <2>1, <1>3, Types DEF GitHubApplies
    <2>2. ASSUME ~ \E e \in Executions : GitHubApplies(e)
          PROVE  /\ effect' \in {effect, Foreign} /\ landed' = landed
                 /\ drifted' \in BOOLEAN /\ due' \in BOOLEAN
      BY <2>2, InvFacts DEF GitHubDrops, SomeoneEdits, Drift, DeadlinePasses
    <2>3. Foreign \notin Plans /\ EffectsLanded
      BY WriterAssumption DEF WriterInv
    <2> QED BY <1>3, <2>1, <2>2, <2>3, InvFacts, Types DEF EffectsLanded
  <1>6. OneWrite /\ AttemptsRecorded
    BY DEF WriterInv
  <1>7. Latest' = Latest /\ \A f \in Executions : Armed(f)' <=> Armed(f)
    BY <1>2 DEF Latest, Armed
  <1>8. Unsent => Unsent'
    BY <1>2, <1>4, <1>7 DEF Unsent
  <1>9. OneWrite'
    <2>1. /\ landed' <= 1 /\ (landed' = 1 => inFlight' = {} /\ \A f \in Executions : ~ Armed(f)')
          /\ \A e, f \in inFlight' : e = f
          /\ \A f \in Executions : Armed(f)' => inFlight' = {}
      <3>1. CASE inFlight' \subseteq inFlight /\ landed' = landed
        BY <1>6, <1>7, <3>1 DEF OneWrite
      <3>2. CASE \E e \in inFlight : inFlight' = inFlight \ {e} /\ landed' = landed + 1
        <4>1. inFlight' = {} /\ landed # 1 /\ landed' = landed + 1 /\ landed <= 1
              /\ \A f \in Executions : ~ Armed(f)
          BY <1>6, <3>2 DEF OneWrite
        <4> QED BY <1>3, <1>7, <4>1
      <3> QED BY <1>4, <3>1, <3>2
    <2>2. \A f, g \in Executions : Armed(f)' /\ Armed(g)' => f = g
      BY <1>6, <1>7 DEF OneWrite
    <2>3. (chain = <<>> \/ Resumable(Latest))' => Unsent'
      BY <1>2, <1>6, <1>7, <1>8 DEF OneWrite, Resumable
    <2>4. \A f \in Executions :
              (pc[f] = "appending" /\ goal[f] = "retryable" /\ HeadMatches(f))' => Unsent'
      BY <1>2, <1>6, <1>8 DEF OneWrite, HeadMatches
    <2> QED BY <2>1, <2>2, <2>3, <2>4 DEF OneWrite
  <1>10. AttemptsRecorded'
    BY <1>2, <1>6, <1>7 DEF AttemptsRecorded
  <1>11. inFlight' \subseteq Executions /\ landed' \in Nat /\ landed' >= landed /\ sends' \in Nat
    BY <1>2, <1>3, <1>4, InvFacts
  <1>12. \A f \in Executions : Same(f)
    BY <1>2 DEF Same
  <1> QED BY <1>2, <1>5, <1>9, <1>10, <1>11, <1>12, OutsideKeeps

-----------------------------------------------------------------------------
(* The theorems *)

LEMMA InitHolds ==
    ASSUME Init
    PROVE  WriterInv
  <1>1. \A e \in Executions : Record(e, "pending", NoEffect, 0) \in Evidence
    BY RecordFacts DEF EvidenceStates
  <1>2. TypeOK
    <2>1. chain \in Seq(Evidence) /\ draft \in [Executions -> Evidence]
      BY <1>1 DEF Init
    <2>2. runs \in 0 .. MaxRuns /\ landed \in Nat /\ sends \in Nat
      BY WriterAssumption DEF Init
    <2> QED BY <2>1, <2>2 DEF Init, TypeOK, Goals
  <1>3. \A e \in Executions : LocalInv(e) /\ ToldTruly(e) /\ ~ Armed(e) /\ pc[e] = "idle"
    BY DEF Init, LocalInv, ToldTruly, InDraft, InClaim, AfterAttempt, Armed, Succeeded
  <1>4. OneWrite
    BY <1>3 DEF Init, OneWrite, Unsent
  <1>5. AttemptsRecorded /\ Chained
    BY <1>3 DEF Init, AttemptsRecorded, Chained
  <1>6. EffectsLanded
    BY WriterAssumption DEF Init, EffectsLanded
  <1> QED BY <1>2, <1>3, <1>4, <1>5, <1>6 DEF WriterInv, Init

LEMMA StepHolds ==
    ASSUME WriterInv, [Next]_vars
    PROVE  WriterInv'
  <1>1. ASSUME NEW e \in Executions, Start(e) PROVE WriterInv'
    BY <1>1, StartQuiet, QuietKeeps
  <1>2. ASSUME NEW e \in Executions, CheckFresh(e) \/ ReadEvidence(e) PROVE WriterInv'
    BY <1>2, CheckFreshQuiet, ReadEvidenceQuiet, QuietKeeps
  <1>3. ASSUME NEW e \in Executions, Observe(e) \/ Confirm(e) \/ RecordAttempt(e)
        PROVE  WriterInv'
    BY <1>3, ObserveQuiet, ConfirmQuiet, RecordAttemptQuiet, QuietKeeps
  <1>4. ASSUME NEW e \in Executions, AppendLands(e) \/ AppendFails(e) PROVE WriterInv'
    BY <1>4, AppendLandsKeeps, AppendFailsKeeps
  <1>5. ASSUME NEW e \in Executions, AppendConflicts(e) \/ Conflicted(e) \/ Reread(e)
        PROVE  WriterInv'
    BY <1>5, AppendConflictsQuiet, ConflictedQuiet, RereadQuiet, QuietKeeps
  <1>6. ASSUME NEW e \in Executions, Recover(e) \/ Acknowledge(e) PROVE WriterInv'
    BY <1>6, RecoverQuiet, AcknowledgeQuiet, QuietKeeps
  <1>7. ASSUME NEW e \in Executions, Send(e) \/ RefusedForNow(e) PROVE WriterInv'
    BY <1>7, SendKeeps, RefusedForNowKeeps
  <1>8. ASSUME NEW e \in Executions, Applied(e) \/ Failed(e) PROVE WriterInv'
    <2>1. /\ pc[e] = "applying" /\ UNCHANGED <<chain, outside, locals, local, result, runs>>
          /\ \E where \in {"verifying", "inspecting"} : Goto(e, where)
      BY <1>8 DEF Applied, Failed
    <2> QED BY <2>1, AnsweredQuiet, QuietKeeps
  <1>9. ASSUME NEW e \in Executions, Inspect(e) \/ Verify(e) PROVE WriterInv'
    BY <1>9, InspectVerifyQuiet, QuietKeeps
  <1>10. ASSUME NEW e \in Executions, Abort(e) \/ Die(e) PROVE WriterInv'
    BY <1>10, AbortDieQuiet, QuietKeeps
  <1>11. CASE \/ \E e \in Executions : GitHubApplies(e) \/ GitHubDrops(e)
              \/ SomeoneEdits \/ Drift \/ DeadlinePasses
    BY <1>11, WorldKeeps
  <1>12. CASE UNCHANGED vars
    <2>1. /\ UNCHANGED <<chain, effect, inFlight, landed, drifted, due, sends, local, runs>>
          /\ UNCHANGED <<pc, claim, phase, draft, goal, result>>
      BY <1>12 DEF vars, outside, locals
    <2>2. \A f \in Executions : Same(f)
      BY <2>1 DEF Same
    <2>3. LocalTypes' /\ TypeOK
      BY <2>1, InvFacts DEF LocalTypes
    <2>4. OneWrite' /\ AttemptsRecorded'
      BY <2>1 DEF WriterInv, OneWrite, Unsent, Armed, HeadMatches, Resumable, Latest,
                  AttemptsRecorded
    <2>5. effect' \in Plans => landed' >= 1
      BY <2>1 DEF WriterInv, EffectsLanded
    <2> QED BY <2>1, <2>2, <2>3, <2>4, <2>5, InvFacts, Types, OutsideKeeps
  <1> QED BY <1>1, <1>2, <1>3, <1>4, <1>5, <1>6, <1>7, <1>8, <1>9, <1>10, <1>11, <1>12
          DEF Next, Proceed

LEMMA WriterInvariant == Spec => []WriterInv
  BY InitHolds, StepHolds, PTL DEF Spec

\* Of every set of executions, whoever they claim for and whatever they plan:
\* GitHub applies at most one write under an idempotency key, through retries,
\* lost answers, deaths between the recorded attempt and its answer, and
\* writes that land late.
THEOREM WriterWrittenOnce == Spec => []WrittenOnce
  <1>1. ASSUME WriterInv PROVE WrittenOnce
    <2>1. TypeOK /\ landed \in Nat /\ OneWrite
      BY <1>1, Types DEF WriterInv
    <2> QED BY <2>1 DEF WrittenOnce, OneWrite
  <1> QED BY <1>1, WriterInvariant, PTL

\* The evidence chain is always one that the writer itself would accept, runs
\* ahead of every write within the retry policy, and is right about what
\* GitHub has applied and about what the callers were told.
THEOREM WriterChainTruthful == Spec => []ChainTruthful
  <1>1. ASSUME WriterInv PROVE ChainTruthful
    <2>1. TypeOK /\ landed \in Nat
      BY <1>1, Types DEF WriterInv
    <2>2. OneWrite /\ AttemptsRecorded /\ Chained /\ EffectsLanded
          /\ \A e \in Executions : ToldTruly(e)
      BY <1>1 DEF WriterInv
    <2>3. sends > 0 => chain # <<>> /\ sends <= Latest.writeAttempts
      BY <2>2, 0 \in Int DEF AttemptsRecorded
    <2>4. chain # <<>> => Latest.writeAttempts <= MaxAttempts
      BY <2>2 DEF AttemptsRecorded
    <2>5. \A i \in DOMAIN chain : chain[i].state = "completed" => landed = 1
      BY <2>1, <2>2 DEF EffectsLanded, OneWrite
    <2>6. \A e \in Executions : result[e] \in Succeeded =>
              chain # <<>> /\ Latest.state = "completed" /\ Latest.effect = Plan[e]
      BY <2>2 DEF ToldTruly
    <2>7. /\ chain # <<>> => Starts(chain[1])
          /\ \A i \in 1 .. Len(chain) - 1 : Follows(chain[i], chain[i + 1])
      BY <2>2 DEF Chained
    <2> QED BY <2>3, <2>4, <2>5, <2>6, <2>7 DEF ChainTruthful
  <1> QED BY <1>1, WriterInvariant, PTL

\* A chain that says completed or partial has said its last word: nobody ever
\* appends to it, so every later invocation is answered from the same record.
VerdictStands == [][chain # <<>> /\ Latest.state \in Terminal => chain' = chain]_vars

THEOREM WriterVerdictStands == Spec => VerdictStands
  <1>1. ASSUME WriterInv, Next, chain # <<>>, Latest.state \in Terminal
        PROVE  chain' = chain
    <2>1. \A e \in Executions : pc[e] = "appending" => ~ Land(e)
      <3> SUFFICES ASSUME NEW e \in Executions, pc[e] = "appending", Land(e) PROVE FALSE
        OBVIOUS
      <3>1. TypeOK /\ Drafted(e) /\ HeadMatches(e)
        BY <1>1, InvFacts DEF LocalInv, InDraft, Land
      <3>2. Follows(Latest, draft[e])
        BY <1>1, <3>1, DraftFollows
      <3> QED BY <1>1, <3>2 DEF Follows
    <2>2. ASSUME NEW e \in Executions, AppendLands(e) \/ AppendFails(e)
          PROVE  chain' = chain
      BY <2>1, <2>2 DEF AppendLands, AppendFails
    <2> QED BY <1>1, <2>2 DEF Next, Proceed, Start, CheckFresh, ReadEvidence, Observe, Confirm,
              RecordAttempt, AppendConflicts, Conflicted, Reread, Recover, Acknowledge, Send,
              Applied, RefusedForNow, Failed, Inspect, Verify, Abort, Die, GitHubApplies,
              GitHubDrops, SomeoneEdits, Drift, DeadlinePasses
  <1>2. ASSUME WriterInv, [Next]_vars
        PROVE  [chain # <<>> /\ Latest.state \in Terminal => chain' = chain]_vars
    BY <1>1, <1>2
  <1> QED BY <1>2, WriterInvariant, PTL DEF Spec, VerdictStands
=============================================================================
