----------------------- MODULE EngineeringSliceProofs -----------------------
(* Proofs about the engineering slice for every number of workers, bundles   *)
(* and faults, and for every program of the slice and of its closure in the  *)
(* order ProgramAssumption asks for: the evidence of an effect is true of    *)
(* GitHub, and the slice is a delivery as EngineeringDelivery promises it.   *)
EXTENDS EngineeringSlice, TLAPS, SequenceTheorems, FiniteSetTheorems

-----------------------------------------------------------------------------
(* The inductive invariant, in terms of the records the workers hold. *)

Said == {"pending", "rejected", "partial", "completed"}
Steps == {"start", "put", "held", "called", "abandon",
          "claim", "reconcile", "write", "written", "doubt", "refuse"}
Tasks == [job : {"none", "run", "resume"}, at : Nat, step : Steps,
          bundle : Bundles \cup {None}, awaits : Nat, seen : Nat, doc : Nat]

\* The instruction a task is at.
Of(t) == Program(t.job)[t.at]

\* The slice has called the model for what it will park.
HasMade(t) == \E i \in 1 .. t.at : /\ Makes(Slice[i])
                                   /\ i < t.at \/ t.step = "called"

\* A task stands in its program, with the bundle it has made or read.
Placed(t) ==
    /\ t \in Tasks
    /\ IF t.job = "none" THEN t = Idle ELSE t.at \in DOMAIN Program(t.job)
    /\ t.job = "run" /\ HasMade(t) => t.bundle \in Bundles
    /\ t.job = "resume" => t.bundle \in Bundles /\ t.awaits \in DOMAIN awaiting
    /\ t.doc \in 0 .. Len(releases)

SliceTyped ==
    /\ evidence \in [Effects -> [plan : Bundles \cup {None}, states : Seq(Said)]]
    /\ awaiting \in Seq(Bundles)
    /\ releases \in Seq([awaits : DOMAIN awaiting, freed : BOOLEAN])
    /\ flight \subseteq [ordinal : Effects, plan : Bundles \cup {None}]
    /\ github \in Seq([ordinal : Effects, plan : Bundles \cup {None}])
    /\ merged \in BOOLEAN /\ (merged => awaiting # <<>>)
    /\ task \in [Workers -> Tasks]
    /\ \A w \in Workers : Placed(task[w])

\* A task is at a step of an effect, its plan, and whether the evidence chain is
\* still the one it has read or written.
Effecting(t, step) == t.job # "none" /\ t.step = step /\ Of(t).do = "effect"
PlanOf(t) == IF Of(t).ordinal = 1 THEN None ELSE t.bundle
ChainOf(t) == evidence[Of(t).ordinal].states
Abreast(t) == t.seen = Len(ChainOf(t))

Untouched(k) == ~ Written(k) /\ ~ Flying(k)

\* From its claim on until the outcome is told, a task may write or has written.
Ready(t) == Effecting(t, "write") \/ Effecting(t, "refuse")
Engaged(t) == Ready(t) \/ Effecting(t, "written") \/ Effecting(t, "doubt")

\* What a task may rely on at each of its steps.
Entitled(t) ==
    /\ Effecting(t, "claim") =>
          /\ t.seen <= Len(ChainOf(t))
          /\ Abreast(t) => Newest(ChainOf(t)) \in {"none", "rejected"}
    /\ Effecting(t, "reconcile") => Stands(Of(t).ordinal, PlanOf(t))
    /\ Engaged(t) => t.seen <= Len(ChainOf(t))
    /\ Ready(t) => /\ Abreast(t) /\ Newest(ChainOf(t)) = "pending"
                   /\ Untouched(Of(t).ordinal)

\* One claimant at a time: whoever else is at the same effect was overtaken.
Apart(t, u) ==
    ~ (Engaged(t) /\ Engaged(u) /\ Of(t).ordinal = Of(u).ordinal /\ Abreast(t) /\ Abreast(u))

Believable(k) ==
    /\ Newest(evidence[k].states) \in {"none", "rejected"} => Untouched(k)
    /\ Newest(evidence[k].states) = "completed" => Stands(k, evidence[k].plan)

Trusted ==
    /\ \A k \in Effects : Believable(k)
    /\ \A w \in Workers : Entitled(task[w])
    /\ \A v, w \in Workers : v # w => Apart(task[v], task[w])

SliceInv == SliceTyped /\ Trusted

-----------------------------------------------------------------------------
(* The programs and the sequences *)

LEMMA AppendFacts ==
    ASSUME NEW S, NEW s \in Seq(S), NEW x \in S
    PROVE  /\ Append(s, x) \in Seq(S) /\ Append(s, x) # <<>>
           /\ Len(s) \in Nat /\ DOMAIN s = 1 .. Len(s)
           /\ Len(Append(s, x)) = Len(s) + 1
           /\ DOMAIN Append(s, x) = 1 .. Len(s) + 1
           /\ \A i \in 1 .. Len(s) : Append(s, x)[i] = s[i]
           /\ Append(s, x)[Len(s) + 1] = x
  OBVIOUS

\* The programs this repository runs are among those of the assumption.
LEMMA ReviewedPrograms ==
    ASSUME Phases >= 3
    PROVE  Programs(ReviewedSlice, ReviewedClosure)
  <1> DEFINE calls == {Call(1, FALSE), Call(2, TRUE), Call(3, FALSE)}
             transitions == {Transition("activation-approved"), Transition("frame-accepted"),
                             Transition("execution-authorized"), Transition("work-submitted"),
                             Transition("verification-passed"), Transition("outcome-accepted")}
             effects == {Effect(ordinal) : ordinal \in 1 .. 9}
             all == calls \cup transitions \cup effects \cup {Do("park")}
  <1>1. all \subseteq Instruction
    <2>1. calls \subseteq Instruction
      BY CostAssumption DEF Instruction, Call, Phase
    <2>2. transitions \subseteq Instruction
      BY DEF Instruction, Transition, Requests
    <2>3. effects \subseteq Instruction
      BY DEF Instruction, Effect
    <2>4. Do("park") \in Instruction
      BY DEF Instruction, Do
    <2> QED BY <2>1, <2>2, <2>3, <2>4
  <1>2. ReviewedSlice \in Seq(Instruction) /\ Len(ReviewedSlice) = 14
    <2>1. ReviewedSlice \in Seq(all)
      BY DEF ReviewedSlice
    <2>2. Len(ReviewedSlice) = 14
      BY DEF ReviewedSlice
    <2> QED BY <1>1, <2>1, <2>2, SeqMonotonic
  <1>3. ReviewedClosure \in Seq(Instruction) /\ Len(ReviewedClosure) = 5
    <2>1. ReviewedClosure \in Seq(all) /\ Len(ReviewedClosure) = 5
      BY DEF ReviewedClosure
    <2> QED BY <1>1, <2>1, SeqMonotonic
  <1>4. \A i \in 1 .. 14 :
          /\ ReviewedSlice[i].do = "effect" => i \in {7, 8, 9, 10, 12}
          /\ ReviewedSlice[i].do = "park" => i = 14
          /\ Makes(ReviewedSlice[i]) => i = 5
          /\ Submits(ReviewedSlice[i]) => i = 6
          /\ ~ Requesting(ReviewedSlice[i], "outcome-accepted")
    BY DEF ReviewedSlice, Call, Transition, Effect, Do, Makes, Submits, Requesting
  <1>5. /\ Makes(ReviewedSlice[5]) /\ Submits(ReviewedSlice[6])
        /\ ReviewedSlice[7] = Effect(1) /\ ReviewedSlice[8] = Effect(2)
        /\ ReviewedSlice[9] = Effect(3) /\ ReviewedSlice[10] = Effect(4)
        /\ ReviewedSlice[12] = Effect(5)
    BY DEF ReviewedSlice, Call, Transition, Makes, Submits, Requesting
  <1>6. /\ ReviewedClosure[1] = Effect(6) /\ ReviewedClosure[2] = Effect(7)
        /\ ReviewedClosure[3] = Effect(8) /\ ReviewedClosure[4] = Effect(9)
        /\ ReviewedClosure[5] = Transition("outcome-accepted")
    BY DEF ReviewedClosure
  <1>7. \A k \in Nat : Effect(k).do = "effect" /\ Effect(k).ordinal = k
    BY DEF Effect
  <1>8. ReviewedSlice # <<>> /\ ReviewedClosure # <<>>
    BY Zenon DEF ReviewedSlice, ReviewedClosure
  <1>9. DOMAIN ReviewedSlice = 1 .. 14 /\ DOMAIN ReviewedClosure = 1 .. 5
    BY <1>2, <1>3
  <1> HIDE DEF all
  <1>10. \A i \in 1 .. 5 : /\ ReviewedClosure[i].do \in {"transition", "effect"}
                           /\ ReviewedClosure[i].do = "effect" => i <= 4
                           /\ Requesting(ReviewedClosure[i], "outcome-accepted") => i = 5
    BY <1>6, <1>7 DEF Transition, Requesting
  <1>11. \A i \in 1 .. 14 : ReviewedSlice[i].do = "effect" =>
           /\ i \in {7, 8, 9, 10, 12}
           /\ ReviewedSlice[i].ordinal = IF i = 12 THEN 5 ELSE i - 6
    BY <1>4, <1>5, <1>7
  <1>12. \A i \in 1 .. 5 : ReviewedClosure[i].do = "effect" =>
           i \in 1 .. 4 /\ ReviewedClosure[i].ordinal = i + 5
    BY <1>6, <1>7, <1>10
  <1>13. Ascending(ReviewedSlice) /\ Ascending(ReviewedClosure)
    BY <1>9, <1>11, <1>12 DEF Ascending
  <1>14. EffectsOf(ReviewedSlice) = 1 .. 5
    <2>1. \A k \in 1 .. 5 : \E i \in 1 .. 14 :
             ReviewedSlice[i].do = "effect" /\ ReviewedSlice[i].ordinal = k
      BY <1>5, <1>7
    <2>2. \A i \in 1 .. 14 : ReviewedSlice[i].do = "effect" => ReviewedSlice[i].ordinal \in 1 .. 5
      BY <1>11
    <2> QED BY <1>9, <2>1, <2>2 DEF EffectsOf
  <1>15. EffectsOf(ReviewedClosure) = 6 .. 9
    <2>1. \A k \in 6 .. 9 : \E i \in 1 .. 5 :
             ReviewedClosure[i].do = "effect" /\ ReviewedClosure[i].ordinal = k
      BY <1>6, <1>7
    <2>2. \A i \in 1 .. 5 : ReviewedClosure[i].do = "effect" => ReviewedClosure[i].ordinal \in 6 .. 9
      BY <1>12
    <2> QED BY <1>9, <2>1, <2>2 DEF EffectsOf
  <1>16. /\ EffectsOf(ReviewedSlice) = 1 .. Cardinality(EffectsOf(ReviewedSlice))
         /\ EffectsOf(ReviewedClosure) = Cardinality(EffectsOf(ReviewedSlice)) + 1 ..
               Cardinality(EffectsOf(ReviewedSlice) \cup EffectsOf(ReviewedClosure))
    <2>1. \A n \in Nat : Cardinality(1 .. n) = n
      <3>1. ASSUME NEW n \in Nat PROVE Cardinality(1 .. n) = n
        BY FS_Interval
      <3> QED BY <3>1
    <2>2. EffectsOf(ReviewedSlice) \cup EffectsOf(ReviewedClosure) = 1 .. 9
      BY <1>14, <1>15
    <2>3. Cardinality(EffectsOf(ReviewedSlice)) = 5
      BY <1>14, <2>1
    <2>4. Cardinality(EffectsOf(ReviewedSlice) \cup EffectsOf(ReviewedClosure)) = 9
      BY <2>1, <2>2
    <2>5. 5 + 1 = 6
      OBVIOUS
    <2> QED BY <1>14, <1>15, <2>3, <2>4, <2>5
  <1>17. /\ \A i \in 1 .. 14 : ReviewedSlice[i].do \in {"effect", "park"} => 6 \in 1 .. i - 1
         /\ \A i \in 1 .. 14 : Submits(ReviewedSlice[i]) =>
               5 \in 1 .. i - 1 /\ \A j \in i .. 14 : ~ Makes(ReviewedSlice[j])
    BY <1>4
  <1>18. \A i \in DOMAIN ReviewedSlice :
           /\ ReviewedSlice[i].do \in {"effect", "park"} =>
                 \E j \in 1 .. i - 1 : Submits(ReviewedSlice[j])
           /\ Submits(ReviewedSlice[i]) =>
                 /\ \E j \in 1 .. i - 1 : Makes(ReviewedSlice[j])
                 /\ \A j \in i .. Len(ReviewedSlice) : ~ Makes(ReviewedSlice[j])
           /\ ReviewedSlice[i].do = "park" => i = Len(ReviewedSlice)
           /\ ~ Requesting(ReviewedSlice[i], "outcome-accepted")
    BY <1>2, <1>4, <1>5, <1>9, <1>17
  <1>19. \A i \in DOMAIN ReviewedClosure :
           /\ ReviewedClosure[i].do \in {"transition", "effect"}
           /\ Requesting(ReviewedClosure[i], "outcome-accepted") => i = Len(ReviewedClosure)
    BY <1>3, <1>9, <1>10
  <1> QED
    BY <1>2, <1>3, <1>8, <1>13, <1>16, <1>18, <1>19, Zenon DEF Programs

LEMMA SliceFacts ==
    /\ Len(Slice) \in Nat \ {0} /\ DOMAIN Slice = 1 .. Len(Slice)
    /\ \A i \in DOMAIN Slice :
          /\ Slice[i].do \in {"transition", "call", "effect", "park"}
          /\ Slice[i].do = "effect" => Slice[i].ordinal \in Effects
          /\ Slice[i].do = "park" => \E j \in 1 .. i - 1 : Makes(Slice[j])
  <1>0. /\ Slice \in Seq(Instruction) /\ Slice # <<>>
        /\ \A i \in DOMAIN Slice :
             /\ Slice[i].do = "park" => \E j \in 1 .. i - 1 : Submits(Slice[j])
             /\ Submits(Slice[i]) => \E j \in 1 .. i - 1 : Makes(Slice[j])
    BY ProgramAssumption DEF Programs
  <1>1. /\ Slice \in Seq(Instruction) /\ Slice # <<>>
        /\ \A i \in DOMAIN Slice :
             Slice[i].do = "park" => \E j \in 1 .. i - 1 : Makes(Slice[j])
    <2> SUFFICES ASSUME NEW i \in DOMAIN Slice, Slice[i].do = "park"
                 PROVE  \E j \in 1 .. i - 1 : Makes(Slice[j])
      BY <1>0
    <2>1. PICK s \in 1 .. i - 1 : Submits(Slice[s])
      BY <1>0
    <2>2. i \in Nat /\ s \in DOMAIN Slice /\ s \in Nat
      BY <1>0, <2>1
    <2>3. PICK j \in 1 .. s - 1 : Makes(Slice[j])
      BY <1>0, <2>1, <2>2
    <2>4. j \in 1 .. i - 1
      BY <2>1, <2>2, <2>3
    <2> QED BY <2>3, <2>4
  <1>2. \A i \in DOMAIN Slice : Slice[i].do \in {"transition", "call", "effect", "park"}
    <2>1. \A x \in Instruction : x.do \in {"transition", "call", "effect", "park"}
      BY DEF Instruction
    <2> QED BY <1>1, <2>1
  <1>3. \A i \in DOMAIN Slice : Slice[i].do = "effect" => Slice[i].ordinal \in Effects
    BY DEF Effects, EffectsOf
  <1> QED BY <1>1, <1>2, <1>3

LEMMA ResumptionFacts ==
    /\ Len(Resumption) \in Nat /\ Len(Resumption) >= 4
    /\ DOMAIN Resumption = 1 .. Len(Resumption)
    /\ Resumption[1].do = "pend" /\ Resumption[2].do = "release" /\ Resumption[3].do = "note"
    /\ \A i \in DOMAIN Resumption :
          /\ i > 3 => Resumption[i].do \in {"transition", "effect"}
          /\ Resumption[i].do = "effect" => Resumption[i].ordinal \in Effects
          /\ i > 3 => i - 3 \in DOMAIN Closure /\ Resumption[i] = Closure[i - 3]
    /\ Len(Resumption) = 3 + Len(Closure) /\ DOMAIN Closure = 1 .. Len(Closure)
    /\ Len(Closure) \in Nat
  <1> DEFINE opening == <<Do("pend"), Do("release"), Do("note")>>
             S == {Do("pend"), Do("release"), Do("note")} \cup Instruction
  <1>1. /\ Closure \in Seq(Instruction) /\ Closure # <<>>
        /\ \A i \in DOMAIN Closure : Closure[i].do \in {"transition", "effect"}
    BY ProgramAssumption DEF Programs
  <1>2. Closure \in Seq(S)
    BY <1>1, SeqMonotonic
  <1>3. /\ opening \in Seq(S) /\ Len(opening) = 3
        /\ opening[1] = Do("pend") /\ opening[2] = Do("release") /\ opening[3] = Do("note")
    OBVIOUS
  <1>4. \A i \in DOMAIN Closure : Closure[i].do = "effect" => Closure[i].ordinal \in Effects
    BY DEF Effects, EffectsOf
  <1> HIDE DEF opening, S
  <1>5. /\ Len(opening \o Closure) = Len(opening) + Len(Closure)
        /\ \A i \in 1 .. Len(opening) + Len(Closure) : (opening \o Closure)[i] =
              IF i <= Len(opening) THEN opening[i] ELSE Closure[i - Len(opening)]
        /\ opening \o Closure \in Seq(S)
    BY <1>2, <1>3, ConcatProperties, Zenon
  <1>6. Resumption = opening \o Closure
    BY DEF Resumption, opening
  <1>7. /\ Len(Closure) \in Nat /\ Len(Closure) >= 1 /\ DOMAIN Closure = 1 .. Len(Closure)
    BY <1>1
  <1>8. /\ DOMAIN Resumption = 1 .. 3 + Len(Closure) /\ Len(Resumption) = 3 + Len(Closure)
        /\ Resumption[1] = Do("pend") /\ Resumption[2] = Do("release")
        /\ Resumption[3] = Do("note")
        /\ \A i \in 4 .. 3 + Len(Closure) : Resumption[i] = Closure[i - 3]
    BY <1>3, <1>5, <1>6, <1>7
  <1>9. /\ Resumption[1].do = "pend" /\ Resumption[2].do = "release"
        /\ Resumption[3].do = "note"
    BY <1>8 DEF Do
  <1>10. \A i \in 4 .. 3 + Len(Closure) :
            /\ Resumption[i].do \in {"transition", "effect"}
            /\ Resumption[i].do = "effect" => Resumption[i].ordinal \in Effects
            /\ i - 3 \in DOMAIN Closure /\ Resumption[i] = Closure[i - 3]
    BY <1>1, <1>4, <1>7, <1>8
  <1>11. \A i \in 1 .. 3 + Len(Closure) : i = 1 \/ i = 2 \/ i = 3 \/ i \in 4 .. 3 + Len(Closure)
    BY <1>7
  <1>12. \A i \in DOMAIN Resumption :
            /\ i > 3 => /\ Resumption[i].do \in {"transition", "effect"}
                        /\ i - 3 \in DOMAIN Closure /\ Resumption[i] = Closure[i - 3]
            /\ Resumption[i].do = "effect" => Resumption[i].ordinal \in Effects
    BY <1>7, <1>8, <1>9, <1>10, <1>11
  <1> QED BY <1>7, <1>8, <1>9, <1>12

-----------------------------------------------------------------------------
(* What a task can become *)

Plain == {"start", "put", "held", "called", "abandon"}
Becomes(w, t) == task' = [task EXCEPT ![w] = t]
Stepped(t, step) == [t EXCEPT !.step = step]
Advanced(t) == IF t.at = Len(Program(t.job)) THEN Idle
               ELSE [t EXCEPT !.at = t.at + 1, !.step = "start", !.seen = 0]

LEMMA Fields ==
    ASSUME NEW t \in Tasks
    PROVE  /\ t.job \in {"none", "run", "resume"} /\ t.at \in Nat /\ t.step \in Steps
           /\ t.bundle \in Bundles \cup {None} /\ t.awaits \in Nat /\ t.seen \in Nat
           /\ t.doc \in Nat
           /\ \A step \in Steps :
                 /\ Stepped(t, step) \in Tasks /\ Stepped(t, step).step = step
                 /\ Stepped(t, step).job = t.job /\ Stepped(t, step).at = t.at
                 /\ Stepped(t, step).bundle = t.bundle /\ Stepped(t, step).awaits = t.awaits
                 /\ Stepped(t, step).seen = t.seen /\ Stepped(t, step).doc = t.doc
  BY DEF Tasks, Stepped

LEMMA TaskFacts ==
    ASSUME NEW t, Placed(t), t.job # "none"
    PROVE  /\ t.at \in 1 .. Len(Program(t.job)) /\ Len(Program(t.job)) \in Nat
           /\ Of(t).do = "effect" => /\ Of(t).ordinal \in Effects
                                     /\ PlanOf(t) \in Bundles \cup {None}
           /\ Of(t).do \in {"pend", "release", "note"} =>
                 t.job = "resume" /\ t.at <= 3 /\ Len(Program(t.job)) >= 4
           /\ Of(t).do \in {"park", "call"} => t.job = "run"
           /\ Of(t).do = "park" => HasMade(t)
  <1>1. t \in Tasks /\ t.at \in DOMAIN Program(t.job) /\ t.job \in {"run", "resume"}
    BY Fields DEF Placed
  <1>2. CASE t.job = "run"
    <2>1. Program(t.job) = Slice /\ Of(t) = Slice[t.at]
      BY <1>2 DEF Program, Of
    <2>2. t.at \in DOMAIN Slice /\ t.at \in Nat /\ t.bundle \in Bundles \cup {None}
      BY <1>1, <2>1, Fields
    <2>3. Of(t).do = "park" => HasMade(t)
      BY <2>1, <2>2, SliceFacts DEF HasMade
    <2> QED BY <1>2, <2>1, <2>2, <2>3, SliceFacts DEF PlanOf
  <1>3. CASE t.job = "resume"
    <2>1. Program(t.job) = Resumption /\ Of(t) = Resumption[t.at]
      BY <1>3 DEF Program, Of
    <2>2. t.at \in DOMAIN Resumption /\ t.at \in Nat /\ t.bundle \in Bundles \cup {None}
      BY <1>1, <2>1, Fields
    <2>3. t.at \in 1 .. Len(Resumption) /\ (t.at > 3 => Of(t).do \in {"transition", "effect"})
      BY <2>1, <2>2, ResumptionFacts
    <2>4. Of(t).do \notin {"park", "call"}
      BY <2>1, <2>2, <2>3, ResumptionFacts
    <2> QED BY <1>3, <2>1, <2>2, <2>3, <2>4, ResumptionFacts DEF PlanOf
  <1> QED BY <1>1, <1>2, <1>3

LEMMA SteppedIsPlaced ==
    ASSUME NEW t, Placed(t), t.job # "none", NEW step \in Steps,
           step = "called" => t.step = "called" \/ t.bundle \in Bundles
    PROVE  Placed(Stepped(t, step))
  <1>1. t \in Tasks
    BY DEF Placed
  <1>2. HasMade(Stepped(t, step)) /\ t.bundle \notin Bundles => HasMade(t)
    BY <1>1, Fields DEF HasMade
  <1> QED BY <1>1, <1>2, Fields DEF Placed

LEMMA IdleIsPlaced ==
    ASSUME SliceTyped
    PROVE  Placed(Idle) /\ Idle.step = "start" /\ Idle.job = "none"
  BY DEF SliceTyped, Placed, Idle, Tasks, Steps

LEMMA AdvancedIsPlaced ==
    ASSUME SliceTyped, NEW t, Placed(t), t.job # "none",
           t.job = "run" /\ Makes(Of(t)) => t.step = "called"
    PROVE  Placed(Advanced(t)) /\ Advanced(t).step = "start"
  <1>1. t \in Tasks /\ t.at \in 1 .. Len(Program(t.job)) /\ Len(Program(t.job)) \in Nat
    BY TaskFacts DEF Placed
  <1>2. CASE t.at = Len(Program(t.job))
    BY <1>2, IdleIsPlaced DEF Advanced
  <1>3. CASE t.at # Len(Program(t.job))
    <2> DEFINE u == [t EXCEPT !.at = @ + 1, !.step = "start", !.seen = 0]
    <2>1. /\ u \in Tasks /\ u.at = t.at + 1 /\ u.step = "start" /\ u.job = t.job
          /\ u.bundle = t.bundle /\ u.awaits = t.awaits /\ u.doc = t.doc
      <3>1. t.at + 1 \in Nat /\ t \in Tasks
        BY <1>1, Fields
      <3>2. u = [t EXCEPT !.at = t.at + 1, !.step = "start", !.seen = 0]
        OBVIOUS
      <3> HIDE DEF u
      <3>3. \A n \in Nat : LET v == [t EXCEPT !.at = n, !.step = "start", !.seen = 0] IN
               /\ v \in Tasks /\ v.at = n /\ v.step = "start" /\ v.job = t.job
               /\ v.bundle = t.bundle /\ v.awaits = t.awaits /\ v.doc = t.doc
        BY <3>1 DEF Tasks, Steps
      <3> QED BY <3>1, <3>2, <3>3
    <2>2. Advanced(t) = u
      BY <1>3 DEF Advanced
    <2> HIDE DEF u
    <2>3. t.job \in {"run", "resume"}
      BY <1>1, Fields
    <2>4. u.at \in DOMAIN Program(u.job)
      <3>1. t.at + 1 \in 1 .. Len(Program(t.job))
        BY <1>1, <1>3
      <3>2. DOMAIN Program(t.job) = 1 .. Len(Program(t.job))
        BY <2>3, SliceFacts, ResumptionFacts DEF Program
      <3> QED BY <2>1, <3>1, <3>2
    <2>5. t.job = "run" => Of(t) = Slice[t.at]
      BY DEF Of, Program
    <2>6. t.job = "run" /\ HasMade(u) => HasMade(t)
      <3> SUFFICES ASSUME t.job = "run", NEW i \in 1 .. u.at, Makes(Slice[i]), i < u.at
                   PROVE  HasMade(t)
        BY <2>1 DEF HasMade
      <3>1. i \in 1 .. t.at
        BY <1>1, <2>1
      <3>2. i < t.at \/ i = t.at
        BY <1>1, <3>1
      <3>3. i = t.at => t.step = "called"
        BY <2>5
      <3> QED BY <3>1, <3>2, <3>3 DEF HasMade
    <2> QED BY <2>1, <2>2, <2>4, <2>6 DEF Placed
  <1> QED BY <1>2, <1>3

-----------------------------------------------------------------------------
(* How the invariant is kept: a task moves alone, or with a chain. *)

LEMMA PlainFacts ==
    ASSUME NEW t, t.step \in Plain
    PROVE  Entitled(t) /\ ~ Engaged(t)
  BY DEF Entitled, Engaged, Ready, Effecting, Plain

LEMMA Others ==
    ASSUME SliceTyped, NEW w \in Workers, NEW t \in Tasks, Becomes(w, t)
    PROVE  /\ task' \in [Workers -> Tasks] /\ task'[w] = t
           /\ \A v \in Workers : v # w => task'[v] = task[v]
  BY DEF SliceTyped, Becomes

\* Typing is kept by a task that is placed, whatever typed evidence is with it.
LEMMA TypedMove ==
    ASSUME SliceTyped, NEW w \in Workers, NEW t, Becomes(w, t), Placed(t),
           evidence' \in [Effects -> [plan : Bundles \cup {None}, states : Seq(Said)]],
           flight' \subseteq [ordinal : Effects, plan : Bundles \cup {None}],
           UNCHANGED <<awaiting, releases, github, merged>>
    PROVE  SliceTyped'
  <1>1. \A u : Placed(u) => Placed(u)'
    BY DEF Placed
  <1>2. t \in Tasks
    BY DEF Placed
  <1>3. \A v \in Workers : Placed(task[v])'
    <2> TAKE v \in Workers
    <2>1. CASE v = w
      BY <1>1, <1>2, <2>1, Others
    <2>2. CASE v # w
      BY <1>1, <1>2, <2>2, Others DEF SliceTyped
    <2> QED BY <2>1, <2>2
  <1> QED BY <1>2, <1>3, Others DEF SliceTyped

LEMMA Engagements ==
    \A t : (Engaged(t) <=> Engaged(t)') /\ (Ready(t) <=> Ready(t)')
           /\ \A step : Effecting(t, step) <=> Effecting(t, step)'
  BY DEF Engaged, Ready, Effecting

\* A task that moves at the same effect, or away from one, disturbs nobody.
LEMMA LoneMove ==
    ASSUME SliceInv, NEW w \in Workers, NEW t \in Tasks, Becomes(w, t), Entitled(t),
           Engaged(t) => /\ Engaged(task[w]) /\ Of(t) = Of(task[w])
                         /\ t.seen = task[w].seen,
           UNCHANGED <<evidence, github, flight>>
    PROVE  Trusted'
  <1>1. /\ \A k : Believable(k) => Believable(k)'
        /\ \A u : Entitled(u) => Entitled(u)'
        /\ \A u, v : Apart(u, v) => Apart(u, v)'
    BY DEF Believable, Entitled, Apart, Engaged, Ready, Effecting, Abreast, ChainOf, Untouched,
           Written, Flying, Stands
  <1>2. /\ task'[w] = t
        /\ \A v \in Workers : v # w => task'[v] = task[v]
    BY Others DEF SliceInv
  <1>3. \A v \in Workers : v # w => Apart(t, task[v]) /\ Apart(task[v], t)
    <2>1. Abreast(t) /\ Engaged(t) => Abreast(task[w])
      BY DEF Abreast, ChainOf
    <2> QED BY <2>1 DEF SliceInv, Trusted, Apart
  <1>4. \A k \in Effects : Believable(k)'
    BY <1>1 DEF SliceInv, Trusted
  <1>5. \A v \in Workers : Entitled(task[v])'
    BY <1>1, <1>2 DEF SliceInv, Trusted
  <1>6. \A u, v \in Workers : u # v => Apart(task[u], task[v])'
    <2> SUFFICES ASSUME NEW u \in Workers, NEW v \in Workers, u # v
                 PROVE  Apart(task[u], task[v])'
      OBVIOUS
    <2>1. CASE u = w
      BY <1>1, <1>2, <1>3, <2>1
    <2>2. CASE v = w
      BY <1>1, <1>2, <1>3, <2>2
    <2>3. CASE u # w /\ v # w
      BY <1>1, <1>2, <2>3 DEF SliceInv, Trusted
    <2> QED BY <2>1, <2>2, <2>3
  <1> QED BY <1>4, <1>5, <1>6 DEF Trusted

LEMMA QuietStep ==
    ASSUME SliceInv, NEW w \in Workers, NEW t, Becomes(w, t), Placed(t), t.step \in Plain,
           UNCHANGED <<evidence, awaiting, releases, github, flight, merged>>
    PROVE  SliceInv'
  <1>1. SliceTyped'
    BY TypedMove DEF SliceInv, SliceTyped
  <1>2. t \in Tasks
    BY DEF Placed
  <1> QED BY <1>1, <1>2, PlainFacts, LoneMove DEF SliceInv

\* One more state in the evidence chain of effect k.
Grows(k, plan, state) ==
    evidence' = [evidence EXCEPT ![k] = [plan |-> plan, states |-> Append(@.states, state)]]

LEMMA Grown ==
    ASSUME SliceTyped, NEW k \in Effects, NEW plan \in Bundles \cup {None}, NEW state \in Said,
           Grows(k, plan, state)
    PROVE  /\ evidence' \in [Effects -> [plan : Bundles \cup {None}, states : Seq(Said)]]
           /\ evidence'[k].plan = plan /\ Newest(evidence'[k].states) = state
           /\ Len(evidence[k].states) \in Nat
           /\ Len(evidence'[k].states) = Len(evidence[k].states) + 1
           /\ \A j \in Effects : j # k => evidence'[j] = evidence[j]
  <1>1. /\ evidence \in [Effects -> [plan : Bundles \cup {None}, states : Seq(Said)]]
        /\ evidence[k].states \in Seq(Said)
    BY DEF SliceTyped
  <1> DEFINE chain == Append(evidence[k].states, state)
  <1>2. /\ chain \in Seq(Said) /\ Len(evidence[k].states) \in Nat
        /\ Len(chain) = Len(evidence[k].states) + 1 /\ chain # <<>>
        /\ chain[Len(evidence[k].states) + 1] = state
    BY <1>1, AppendFacts
  <1>3. Newest(chain) = state
    BY <1>2 DEF Newest
  <1> HIDE DEF chain
  <1>4. evidence' = [evidence EXCEPT ![k] = [plan |-> plan, states |-> chain]]
    BY DEF Grows, chain
  <1> QED BY <1>1, <1>2, <1>3, <1>4

\* Whoever was at the effect and is not the one that wrote is overtaken.
LEMMA ChainMove ==
    ASSUME SliceInv, NEW w \in Workers, NEW t \in Tasks, Becomes(w, t),
           NEW k \in Effects, NEW plan \in Bundles \cup {None}, NEW state \in Said,
           Grows(k, plan, state), UNCHANGED <<github, flight>>,
           \A v \in Workers : v # w /\ Ready(task[v]) => Of(task[v]).ordinal # k,
           Entitled(t)', Engaged(t) => Of(t).ordinal = k, Believable(k)'
    PROVE  Trusted'
  <1>1. /\ task'[w] = t
        /\ \A v \in Workers : v # w => task'[v] = task[v]
    BY Others DEF SliceInv
  <1>2. /\ Len(evidence[k].states) \in Nat
        /\ Len(evidence'[k].states) = Len(evidence[k].states) + 1
        /\ \A j \in Effects : j # k => evidence'[j] = evidence[j]
    BY Grown DEF SliceInv
  <1>3. \A j \in Effects : j # k => (Believable(j) => Believable(j)')
    BY <1>2 DEF Believable, Untouched, Written, Flying, Stands
  <1>4. ASSUME NEW u \in Tasks, Placed(u), u.job # "none"
        PROVE  /\ u.seen \in Nat
               /\ Of(u).do = "effect" /\ Of(u).ordinal # k =>
                     evidence'[Of(u).ordinal] = evidence[Of(u).ordinal]
    BY <1>2, <1>4, Fields, TaskFacts
  <1>5. ASSUME NEW u \in Tasks, Placed(u), Entitled(u), Ready(u) => Of(u).ordinal # k
        PROVE  Entitled(u)'
    <2>1. CASE \A step : ~ Effecting(u, step)
      BY <2>1 DEF Entitled, Engaged, Ready, Effecting
    <2>2. ASSUME u.job # "none", Of(u).do = "effect", Of(u).ordinal # k
          PROVE  Entitled(u)'
      <3>1. ChainOf(u)' = ChainOf(u)
        BY <1>4, <1>5, <2>2 DEF ChainOf
      <3> QED BY <1>5, <3>1 DEF Entitled, Engaged, Ready, Effecting, Abreast, ChainOf, Untouched,
                                Written, Flying, Stands
    <2>3. ASSUME u.job # "none", Of(u).do = "effect", Of(u).ordinal = k
          PROVE  Entitled(u)'
      <3>1. /\ Len(ChainOf(u))' = Len(ChainOf(u)) + 1
            /\ Len(ChainOf(u)) \in Nat /\ u.seen \in Nat
        BY <1>2, <1>4, <1>5, <2>3 DEF ChainOf
      <3>2. ~ Ready(u)
        BY <1>5, <2>3
      <3>3. u.seen <= Len(ChainOf(u)) => u.seen <= Len(ChainOf(u))' /\ ~ Abreast(u)'
        BY <3>1 DEF Abreast
      <3> QED BY <1>5, <3>2, <3>3 DEF Entitled, Engaged, Ready, Effecting, Stands
    <2> QED BY <2>1, <2>2, <2>3 DEF Effecting
  <1>6. ASSUME NEW u \in Tasks, Placed(u), Entitled(u), Engaged(u), Of(u).ordinal = k
        PROVE  ~ Abreast(u)'
    <2>1. u.job # "none" /\ u.seen <= Len(ChainOf(u))
      BY <1>6 DEF Entitled, Engaged, Ready, Effecting
    <2> QED BY <1>2, <1>4, <1>6, <2>1 DEF ChainOf, Abreast
  <1>7. ASSUME NEW u \in Tasks, Placed(u), Engaged(u), Of(u).ordinal # k
        PROVE  Abreast(u)' => Abreast(u)
    <2>1. u.job # "none" /\ Of(u).do = "effect"
      BY <1>7 DEF Engaged, Ready, Effecting
    <2> QED BY <1>4, <1>7, <2>1 DEF ChainOf, Abreast
  <1>8. \A v \in Workers : /\ task[v] \in Tasks /\ Placed(task[v]) /\ Entitled(task[v])
    BY DEF SliceInv, SliceTyped, Trusted
  <1>9. \A j \in Effects : Believable(j)'
    BY <1>3 DEF SliceInv, Trusted
  <1>10. \A v \in Workers : Entitled(task[v])'
    BY <1>1, <1>5, <1>8
  <1>11. \A u \in Workers : u # w => ~ (Engaged(t) /\ Engaged(task[u]) /\ Abreast(task[u])'
                                        /\ Of(t).ordinal = Of(task[u]).ordinal)
    BY <1>1, <1>6, <1>8
  <1>12. \A u, v \in Workers : u # v => Apart(task[u], task[v])'
    <2> SUFFICES ASSUME NEW u \in Workers, NEW v \in Workers, u # v
                 PROVE  Apart(task[u], task[v])'
      OBVIOUS
    <2>1. CASE u = w
      BY <1>1, <1>11, <2>1 DEF Apart, Engaged, Ready, Effecting, Abreast, ChainOf
    <2>2. CASE v = w
      BY <1>1, <1>11, <2>2 DEF Apart, Engaged, Ready, Effecting, Abreast, ChainOf
    <2>3. CASE u # w /\ v # w
      BY <1>1, <1>6, <1>7, <1>8, <2>3 DEF SliceInv, Trusted, Apart
    <2> QED BY <2>1, <2>2, <2>3
  <1> QED BY <1>9, <1>10, <1>12 DEF Trusted

-----------------------------------------------------------------------------
(* The steps in these terms *)

LEMMA Reads ==
    ASSUME NEW w \in Workers
    PROVE  /\ \A step : At(w, "effect", step) <=> Effecting(task[w], step)
           /\ \A do, step : At(w, do, step) =>
                 task[w].job # "none" /\ task[w].step = step /\ Of(task[w]).do = do
           /\ This(w) = Of(task[w]) /\ K(w) = Of(task[w]).ordinal
           /\ Plan(w) = PlanOf(task[w]) /\ States(w) = ChainOf(task[w])
           /\ Expected(w) <=> Abreast(task[w])
           /\ \A state : Chained(w, state) <=>
                 Grows(Of(task[w]).ordinal, PlanOf(task[w]), state)
  <1>1. This(w) = Of(task[w]) /\ K(w) = Of(task[w]).ordinal
    BY DEF This, K, Of
  <1>2. /\ \A step : At(w, "effect", step) <=> Effecting(task[w], step)
        /\ \A do, step : At(w, do, step) =>
              task[w].job # "none" /\ task[w].step = step /\ Of(task[w]).do = do
    BY DEF At, Effecting, Of
  <1>3. Plan(w) = PlanOf(task[w]) /\ States(w) = ChainOf(task[w])
    BY <1>1 DEF Plan, PlanOf, States, ChainOf
  <1>4. Expected(w) <=> Abreast(task[w])
    BY <1>3 DEF Expected, Abreast
  <1>5. \A state : Chained(w, state) <=>
           Grows(Of(task[w]).ordinal, PlanOf(task[w]), state)
    BY <1>1, <1>3, Zenon DEF Chained, Grows
  <1> QED BY <1>1, <1>2, <1>3, <1>4, <1>5

LEMMA Moves ==
    ASSUME SliceTyped, NEW w \in Workers
    PROVE  /\ task[w] \in Tasks /\ Placed(task[w])
           /\ \A step : Goto(w, step) => Becomes(w, Stepped(task[w], step))
           /\ End(w) => Becomes(w, Idle)
           /\ Advance(w) => Becomes(w, Advanced(task[w]))
           /\ Throw(w) => \/ Becomes(w, Stepped(task[w], "abandon"))
                          \/ Becomes(w, Idle)
  <1>1. task[w] \in Tasks /\ Placed(task[w]) /\ task \in [Workers -> Tasks]
    BY DEF SliceTyped
  <1>2. \A step : Goto(w, step) => Becomes(w, Stepped(task[w], step))
    BY <1>1 DEF Goto, Becomes, Stepped
  <1>3. End(w) => Becomes(w, Idle)
    BY DEF End, Becomes
  <1>4. Advance(w) => Becomes(w, Advanced(task[w]))
    BY Zenon DEF Advance, Becomes, Advanced
  <1> QED BY <1>1, <1>2, <1>3, <1>4 DEF Throw

\* A step after which its worker is at none of the steps of an effect.
LEMMA Leaves ==
    ASSUME SliceTyped, NEW w \in Workers, task[w].job # "none",
           \/ Throw(w) \/ End(w)
           \/ \E step \in Plain \ {"called"} : Goto(w, step)
           \/ Advance(w) /\ (Of(task[w]).do # "call" \/ task[w].step = "called")
    PROVE  \E t : Becomes(w, t) /\ Placed(t) /\ t.step \in Plain
  <1>1. task[w] \in Tasks /\ Placed(task[w])
    BY Moves
  <1>2. ASSUME NEW step \in Plain \ {"called"}, Becomes(w, Stepped(task[w], step))
        PROVE  \E t : Becomes(w, t) /\ Placed(t) /\ t.step \in Plain
    <2>1. step \in Steps /\ step # "called"
      BY DEF Plain, Steps
    <2>2. Placed(Stepped(task[w], step)) /\ Stepped(task[w], step).step = step
      BY <1>1, <2>1, SteppedIsPlaced, Fields
    <2> QED BY <1>2, <2>2
  <1>3. ASSUME Becomes(w, Idle)
        PROVE  \E t : Becomes(w, t) /\ Placed(t) /\ t.step \in Plain
    BY <1>3, IdleIsPlaced DEF Plain
  <1>4. ASSUME Becomes(w, Advanced(task[w])),
               Of(task[w]).do # "call" \/ task[w].step = "called"
        PROVE  \E t : Becomes(w, t) /\ Placed(t) /\ t.step \in Plain
    <2>1. Makes(Of(task[w])) => task[w].step = "called"
      BY <1>4 DEF Makes
    <2>2. Placed(Advanced(task[w])) /\ Advanced(task[w]).step = "start"
      BY <1>1, <1>4, <2>1, AdvancedIsPlaced
    <2> QED BY <1>4, <2>2 DEF Plain
  <1>5. "abandon" \in Plain \ {"called"}
    BY DEF Plain
  <1>6. CASE Throw(w)
    BY <1>2, <1>3, <1>5, <1>6, Moves
  <1>7. CASE End(w)
    BY <1>3, <1>7, Moves
  <1>8. CASE \E step \in Plain \ {"called"} : Goto(w, step)
    BY <1>2, <1>8, Moves
  <1>9. CASE Advance(w) /\ (Of(task[w]).do # "call" \/ task[w].step = "called")
    BY <1>4, <1>9, Moves
  <1> QED BY <1>6, <1>7, <1>8, <1>9

Resting == UNCHANGED <<evidence, awaiting, releases, github, flight, merged>>

LEMMA QuietLeave ==
    ASSUME SliceInv, NEW w \in Workers, Resting, task[w].job # "none",
           \/ Throw(w) \/ End(w)
           \/ \E step \in Plain \ {"called"} : Goto(w, step)
           \/ Advance(w) /\ (Of(task[w]).do # "call" \/ task[w].step = "called")
    PROVE  SliceInv'
  <1>1. \E t : Becomes(w, t) /\ Placed(t) /\ t.step \in Plain
    BY Leaves DEF SliceInv
  <1> QED BY <1>1, QuietStep DEF Resting

-----------------------------------------------------------------------------
(* The calls, the transitions and the checkpoints that are read *)

LEMMA StartsKeep ==
    ASSUME SliceInv, NEW w \in Workers, StartRun(w) \/ StartResume(w)
    PROVE  SliceInv'
  <1>1. task[w] \in Tasks /\ Placed(task[w])
    BY Moves DEF SliceInv
  <1>2. CASE StartRun(w)
    <2> DEFINE t == [task[w] EXCEPT !.job = "run"]
    <2>1. Becomes(w, t) /\ Resting /\ task[w].job = "none"
      BY <1>2 DEF StartRun, Becomes, Resting, world, SliceInv, SliceTyped
    <2>2. task[w] = Idle
      BY <1>1, <2>1 DEF Placed
    <2>3. t = [job |-> "run", at |-> 1, step |-> "start", bundle |-> None,
               awaits |-> 0, seen |-> 0, doc |-> 0]
      BY <2>2 DEF Idle
    <2>4. 1 \in DOMAIN Program("run")
      BY SliceFacts DEF Program
    <2>5. Len(releases) \in Nat
      BY DEF SliceInv, SliceTyped
    <2> HIDE DEF t
    <2>6. ~ HasMade(t)
      BY <2>3 DEF HasMade
    <2>7. Placed(t) /\ t.step \in Plain
      BY <2>3, <2>4, <2>5, <2>6 DEF Placed, Tasks, Steps, Plain
    <2> QED BY <2>1, <2>7, QuietStep DEF Resting
  <1>3. CASE StartResume(w)
    <2> DEFINE Resumed(a, b) == [Idle EXCEPT !.job = "resume", !.awaits = a, !.bundle = b]
               t == Resumed(Len(awaiting), awaiting[Len(awaiting)])
    <2>1. Becomes(w, t) /\ Resting /\ merged
      BY <1>3 DEF StartResume, Becomes, Resting, world, stores
    <2>2. Len(awaiting) \in DOMAIN awaiting /\ awaiting[Len(awaiting)] \in Bundles
          /\ Len(awaiting) \in Nat /\ Len(releases) \in Nat
      <3>1. awaiting \in Seq(Bundles) /\ awaiting # <<>> /\ Len(releases) \in Nat
        BY <2>1 DEF SliceInv, SliceTyped
      <3> QED BY <3>1
    <2>3. /\ t \in Tasks /\ t.job = "resume" /\ t.at = 1 /\ t.step = "start" /\ t.doc = 0
          /\ t.bundle = awaiting[Len(awaiting)] /\ t.awaits = Len(awaiting)
      <3>1. \A a \in Nat, b \in Bundles :
               /\ Resumed(a, b) \in Tasks /\ Resumed(a, b).job = "resume"
               /\ Resumed(a, b).at = 1 /\ Resumed(a, b).step = "start"
               /\ Resumed(a, b).doc = 0 /\ Resumed(a, b).bundle = b /\ Resumed(a, b).awaits = a
        BY DEF Idle, Tasks, Steps
      <3> HIDE DEF Resumed
      <3> QED BY <2>2, <3>1
    <2>4. 1 \in DOMAIN Program("resume")
      BY ResumptionFacts DEF Program
    <2> HIDE DEF t
    <2>5. Placed(t) /\ t.step \in Plain
      BY <2>2, <2>3, <2>4 DEF Placed, Plain
    <2> QED BY <2>1, <2>5, QuietStep DEF Resting
  <1> QED BY <1>2, <1>3

\* Nothing of the effects or of the checkpoints is written by these steps.
QuietSteps(w) ==
    \/ Transit(w) \/ RefuseTransition(w)
    \/ TakeHold(w) \/ RefuseHold(w) \/ SettleCall(w) \/ RefuseSettlement(w)
    \/ Abandon(w) \/ LoseEvidence(w) \/ ReleaseCosts(w) \/ Die(w)

LEMMA QuietStepsKeep ==
    ASSUME SliceInv, NEW w \in Workers, QuietSteps(w)
    PROVE  SliceInv'
  <1>1. Resting
    BY DEF QuietSteps, Transit, RefuseTransition, TakeHold, RefuseHold, SettleCall,
           RefuseSettlement, Abandon, LoseEvidence, ReleaseCosts, Die, Resting, world, stores
  <1>2. "held" \in Plain \ {"called"}
    BY DEF Plain
  <1>3. CASE Transit(w) \/ RefuseTransition(w)
    <2>1. /\ task[w].job # "none" /\ Of(task[w]).do # "call"
          /\ Throw(w) \/ Advance(w)
      BY <1>3, Reads DEF Transit, RefuseTransition
    <2> QED BY <1>1, <2>1, QuietLeave
  <1>4. CASE TakeHold(w) \/ RefuseHold(w)
    <2>1. /\ task[w].job # "none"
          /\ Throw(w) \/ Goto(w, "held")
      BY <1>4, Reads DEF TakeHold, RefuseHold
    <2> QED BY <1>1, <1>2, <2>1, QuietLeave
  <1>5. CASE SettleCall(w) \/ RefuseSettlement(w)
    <2>1. /\ task[w].job # "none" /\ task[w].step = "called"
          /\ Throw(w) \/ Advance(w)
      BY <1>5, Reads DEF SettleCall, RefuseSettlement
    <2> QED BY <1>1, <2>1, QuietLeave
  <1>6. CASE Abandon(w) \/ Die(w)
    <2>1. task[w].job # "none" /\ End(w)
      BY <1>6 DEF Abandon, Die
    <2> QED BY <1>1, <2>1, QuietLeave
  <1>7. CASE LoseEvidence(w)
    <2>1. task[w].job # "none" /\ Throw(w)
      BY <1>7, Reads DEF LoseEvidence
    <2> QED BY <1>1, <2>1, QuietLeave
  <1>8. CASE ReleaseCosts(w)
    <2>1. /\ task[w].job # "none" /\ Of(task[w]).do # "call"
          /\ Throw(w) \/ Advance(w)
      BY <1>8, Reads DEF ReleaseCosts
    <2> QED BY <1>1, <2>1, QuietLeave
  <1> QED BY <1>3, <1>4, <1>5, <1>6, <1>7, <1>8 DEF QuietSteps

LEMMA InvokeKeeps ==
    ASSUME SliceInv, NEW w \in Workers, Invoke(w)
    PROVE  SliceInv'
  <1> DEFINE Called(b) == [task[w] EXCEPT !.step = "called", !.bundle = b]
  <1>1. /\ task[w] \in Tasks /\ Placed(task[w]) /\ task[w].job # "none"
        /\ Of(task[w]).do = "call" /\ This(w) = Of(task[w]) /\ task[w].step = "held"
    BY Reads, Moves DEF SliceInv, Invoke
  <1>2. PICK b \in IF Of(task[w]).makes THEN Bundles ELSE {task[w].bundle} :
            task' = [task EXCEPT ![w].step = "called", ![w].bundle = b]
    BY <1>1 DEF Invoke
  <1>3. Becomes(w, Called(b)) /\ Resting
    BY <1>2 DEF Becomes, Invoke, Resting, world, stores, SliceInv, SliceTyped
  <1>4. b \in Bundles \cup {None} /\ task[w].bundle \in Bundles \cup {None}
    BY <1>1, <1>2, Fields
  <1>5. /\ Called(b) \in Tasks /\ Called(b).job = task[w].job /\ Called(b).at = task[w].at
        /\ Called(b).step = "called" /\ Called(b).bundle = b
        /\ Called(b).awaits = task[w].awaits /\ Called(b).doc = task[w].doc
    BY <1>1, <1>4 DEF Tasks, Steps
  <1> HIDE DEF Called
  <1>6. task[w].job = "run" /\ Of(task[w]) = Slice[task[w].at]
    <2>1. task[w].job = "run"
      BY <1>1, TaskFacts
    <2> QED BY <2>1 DEF Of, Program
  <1>7. HasMade(Called(b)) => b \in Bundles
    <2>1. CASE Of(task[w]).makes
      BY <1>2, <2>1
    <2>2. CASE ~ Of(task[w]).makes
      <3>1. b = task[w].bundle /\ ~ Makes(Slice[task[w].at])
        BY <1>2, <1>6, <2>2 DEF Makes
      <3>2. task[w].at \in Nat
        BY <1>1, Fields
      <3>3. HasMade(Called(b)) => HasMade(task[w])
        BY <1>5, <3>1, <3>2 DEF HasMade
      <3> QED BY <1>1, <1>6, <3>1, <3>3 DEF Placed
    <2> QED BY <2>1, <2>2
  <1>8. Placed(Called(b))
    BY <1>1, <1>5, <1>6, <1>7 DEF Placed
  <1> QED BY <1>3, <1>5, <1>8, QuietStep DEF Plain, Resting

\* The checkpoint that is read is of now, and so is its number.
LEMMA ReadReleaseKeeps ==
    ASSUME SliceInv, NEW w \in Workers, ReadRelease(w)
    PROVE  SliceInv'
  <1>1. /\ task[w] \in Tasks /\ Placed(task[w]) /\ task[w].job = "resume"
        /\ Len(Program(task[w].job)) >= 4
    BY Reads, Moves, TaskFacts DEF SliceInv, ReadRelease
  <1>2. Resting
    BY DEF ReadRelease, Resting, world, stores
  <1>3. "put" \in Plain \ {"called"}
    BY DEF Plain
  <1>4. CASE Throw(w) \/ Goto(w, "put")
    BY <1>1, <1>2, <1>3, <1>4, QuietLeave
  <1>5. ASSUME NEW to \in {2, 4}, NEW doc \in 0 .. Len(releases), Jump(w, to, doc)
        PROVE  SliceInv'
    <2> DEFINE Jumped(u) == [u EXCEPT !.at = to, !.doc = doc, !.step = "start"]
               t == Jumped(task[w])
    <2>1. Becomes(w, t)
      BY <1>5 DEF Jump, Becomes, SliceInv, SliceTyped
    <2>2. to \in Nat /\ doc \in Nat
      BY <1>5 DEF SliceInv, SliceTyped
    <2>3. /\ t \in Tasks /\ t.at = to /\ t.doc = doc /\ t.step = "start" /\ t.job = "resume"
          /\ t.bundle = task[w].bundle /\ t.awaits = task[w].awaits
      <3>1. \A u \in Tasks :
               /\ Jumped(u) \in Tasks /\ Jumped(u).at = to /\ Jumped(u).doc = doc
               /\ Jumped(u).step = "start" /\ Jumped(u).job = u.job
               /\ Jumped(u).bundle = u.bundle /\ Jumped(u).awaits = u.awaits
        BY <2>2 DEF Tasks, Steps
      <3> HIDE DEF Jumped
      <3> QED BY <1>1, <3>1
    <2>4. to \in DOMAIN Program("resume")
      BY <1>5, ResumptionFacts DEF Program
    <2> HIDE DEF t
    <2>5. Placed(t) /\ t.step \in Plain
      BY <1>1, <2>3, <2>4 DEF Placed, Plain
    <2> QED BY <1>2, <2>1, <2>5, QuietStep DEF Resting
  <1>6. \/ Throw(w) \/ Goto(w, "put")
        \/ \E to \in {2, 4}, doc \in 0 .. Len(releases) : Jump(w, to, doc)
    <2>1. Len(releases) \in Nat
      BY DEF SliceInv, SliceTyped
    <2>2. 0 \in 0 .. Len(releases) /\ Len(releases) \in 0 .. Len(releases)
      BY <2>1
    <2> QED BY <2>2 DEF ReadRelease
  <1> QED BY <1>4, <1>5, <1>6

-----------------------------------------------------------------------------
(* The effects *)

\* A task at a step of its effect, with what it has seen of the chain.
Seeing(t, step, seen) == [t EXCEPT !.step = step, !.seen = seen]

LEMMA SeeingFacts ==
    ASSUME SliceTyped, NEW t, Placed(t), t.job # "none", NEW seen \in Nat,
           NEW step \in {"claim", "reconcile", "write"}
    PROVE  LET u == Seeing(t, step, seen) IN
           /\ u \in Tasks /\ Placed(u) /\ u.job = t.job /\ u.step = step /\ u.seen = seen
           /\ Of(u) = Of(t) /\ PlanOf(u) = PlanOf(t)
  <1> DEFINE u == Seeing(t, step, seen)
  <1>1. t \in Tasks /\ t.at \in Nat
    BY Fields DEF Placed
  <1>2. /\ u \in Tasks /\ u.job = t.job /\ u.at = t.at /\ u.step = step
        /\ u.bundle = t.bundle /\ u.awaits = t.awaits /\ u.doc = t.doc /\ u.seen = seen
    BY <1>1 DEF Tasks, Steps, Seeing
  <1> HIDE DEF u
  <1>3. Of(u) = Of(t) /\ PlanOf(u) = PlanOf(t)
    BY <1>2 DEF Of, PlanOf
  <1>4. HasMade(u) => HasMade(t)
    BY <1>1, <1>2 DEF HasMade
  <1>5. Placed(u)
    BY <1>2, <1>4 DEF Placed
  <1> QED BY <1>2, <1>3, <1>5 DEF u

\* What its steps let a task at an effect rely on, and be disturbed by.
LEMMA AtEffect ==
    ASSUME SliceInv, NEW w \in Workers, task[w].job # "none", Of(task[w]).do = "effect"
    PROVE  /\ task[w] \in Tasks /\ Placed(task[w]) /\ Entitled(task[w])
           /\ Of(task[w]).ordinal \in Effects
           /\ PlanOf(task[w]) \in Bundles \cup {None}
           /\ task[w].seen \in Nat /\ Len(ChainOf(task[w])) \in Nat
           /\ Believable(Of(task[w]).ordinal)
           /\ \A v \in Workers : v # w /\ Ready(task[v])
                                 /\ Of(task[v]).ordinal = Of(task[w]).ordinal =>
                 /\ Newest(ChainOf(task[w])) = "pending"
                 /\ Untouched(Of(task[w]).ordinal)
                 /\ ~ (Engaged(task[w]) /\ Abreast(task[w]))
  <1>1. task[w] \in Tasks /\ Placed(task[w]) /\ Entitled(task[w])
    BY Moves DEF SliceInv, Trusted
  <1>2. /\ Of(task[w]).ordinal \in Effects /\ PlanOf(task[w]) \in Bundles \cup {None}
        /\ task[w].seen \in Nat
    BY <1>1, TaskFacts, Fields
  <1>3. Len(ChainOf(task[w])) \in Nat
    BY <1>2 DEF ChainOf, SliceInv, SliceTyped
  <1>4. Believable(Of(task[w]).ordinal)
    BY <1>2 DEF SliceInv, Trusted
  <1>5. ASSUME NEW v \in Workers, v # w, Ready(task[v]),
               Of(task[v]).ordinal = Of(task[w]).ordinal
        PROVE  /\ Newest(ChainOf(task[w])) = "pending"
               /\ Untouched(Of(task[w]).ordinal)
               /\ ~ (Engaged(task[w]) /\ Abreast(task[w]))
    <2>1. Entitled(task[v]) /\ Apart(task[v], task[w])
      BY <1>5 DEF SliceInv, Trusted
    <2>2. ChainOf(task[v]) = ChainOf(task[w])
      BY <1>5 DEF ChainOf
    <2>3. /\ Abreast(task[v]) /\ Newest(ChainOf(task[v])) = "pending"
          /\ Untouched(Of(task[v]).ordinal)
      BY <1>5, <2>1 DEF Entitled
    <2> QED BY <1>5, <2>1, <2>2, <2>3 DEF Apart, Engaged
  <1> QED BY <1>1, <1>2, <1>3, <1>4, <1>5

LEMMA ReadEvidenceKeeps ==
    ASSUME SliceInv, NEW w \in Workers, ReadEvidence(w)
    PROVE  SliceInv'
  <1>1. /\ task[w].job # "none" /\ Of(task[w]).do = "effect" /\ Resting
    BY Reads DEF ReadEvidence, Resting, world, stores
  <1>2. /\ task[w] \in Tasks /\ Placed(task[w]) /\ Len(ChainOf(task[w])) \in Nat
    BY <1>1, AtEffect
  <1>3. CASE Throw(w) \/ Advance(w)
    BY <1>1, <1>3, QuietLeave
  <1>4. ASSUME NEW step \in {"claim", "reconcile"}, See(w, step),
               step = "claim" => MayClaim(w), step = "reconcile" => Reconciles(w)
        PROVE  SliceInv'
    <2>1. PICK n \in Nat : n = Len(ChainOf(task[w]))
      BY <1>2
    <2>2. PICK t : t = Seeing(task[w], step, n)
      OBVIOUS
    <2>3. /\ t \in Tasks /\ Placed(t) /\ t.job = task[w].job /\ t.step = step /\ t.seen = n
          /\ Of(t) = Of(task[w]) /\ PlanOf(t) = PlanOf(task[w])
      BY <1>1, <1>2, <2>2, SeeingFacts DEF SliceInv
    <2>4. Becomes(w, t)
      BY <1>4, <2>1, <2>2, Reads DEF See, Becomes, Seeing, SliceInv, SliceTyped
    <2>5. ~ Engaged(t)
      BY <1>4, <2>3 DEF Engaged, Ready, Effecting
    <2>6. /\ step = "claim" => Newest(ChainOf(task[w])) \in {"none", "rejected"}
          /\ step = "reconcile" => Stands(Of(task[w]).ordinal, PlanOf(task[w]))
      BY <1>4, Reads DEF MayClaim, Reconciles
    <2>7. Entitled(t)
      BY <1>4, <2>1, <2>3, <2>5, <2>6 DEF Entitled, Engaged, Effecting, ChainOf
    <2>8. SliceTyped'
      BY <1>1, <2>3, <2>4, TypedMove DEF Resting, SliceInv, SliceTyped
    <2>9. Trusted'
      BY <1>1, <2>3, <2>4, <2>5, <2>7, LoneMove DEF Resting
    <2> QED BY <2>8, <2>9 DEF SliceInv
  <1> QED BY <1>3, <1>4 DEF ReadEvidence

\* The other steps that write evidence: where they leave their worker, and that
\* nobody else was about to write the effect.
LEMMA ChainLeave ==
    ASSUME SliceInv, NEW w \in Workers, task[w].job # "none", Of(task[w]).do = "effect",
           NEW state \in Said, Chained(w, state), UNCHANGED <<awaiting, releases, world>>,
           Throw(w) \/ Advance(w),
           \A v \in Workers : v # w /\ Ready(task[v]) =>
              Of(task[v]).ordinal # Of(task[w]).ordinal,
           state = "rejected" => Untouched(Of(task[w]).ordinal),
           state = "completed" => Stands(Of(task[w]).ordinal, PlanOf(task[w]))
    PROVE  SliceInv'
  <1>1. PICK k \in Effects, plan \in Bundles \cup {None} :
            k = Of(task[w]).ordinal /\ plan = PlanOf(task[w])
    BY AtEffect
  <1>2. Grows(k, plan, state)
    BY <1>1, Reads
  <1>3. PICK t : Becomes(w, t) /\ Placed(t) /\ t.step \in Plain
    BY Leaves DEF SliceInv
  <1>4. /\ evidence' \in [Effects -> [plan : Bundles \cup {None}, states : Seq(Said)]]
        /\ evidence'[k].plan = plan /\ Newest(evidence'[k].states) = state
    BY <1>2, Grown DEF SliceInv
  <1>5. SliceTyped'
    BY <1>3, <1>4, TypedMove DEF world, SliceInv, SliceTyped
  <1>6. Believable(k)'
    <2>1. /\ Untouched(k) <=> Untouched(k)'
          /\ Stands(k, plan) <=> Stands(k, plan)'
      BY DEF Untouched, Written, Flying, Stands, world
    <2>2. state # "none"
      BY DEF Said
    <2> QED BY <1>1, <1>4, <2>1, <2>2 DEF Believable
  <1>7. t \in Tasks /\ Entitled(t)' /\ ~ Engaged(t)
    BY <1>3, PlainFacts DEF Placed, Entitled, Engaged, Ready, Effecting, Plain
  <1>8. Trusted'
    BY <1>1, <1>2, <1>3, <1>6, <1>7, ChainMove DEF world
  <1> QED BY <1>5, <1>8 DEF SliceInv

LEMMA ClaimKeeps ==
    ASSUME SliceInv, NEW w \in Workers, Claim(w)
    PROVE  SliceInv'
  <1>1. /\ task[w].job # "none" /\ Of(task[w]).do = "effect" /\ Effecting(task[w], "claim")
        /\ Abreast(task[w]) /\ Chained(w, "pending")
        /\ UNCHANGED <<awaiting, releases, world>>
    BY Reads DEF Claim
  <1>2. /\ task[w] \in Tasks /\ Placed(task[w]) /\ Entitled(task[w])
        /\ Of(task[w]).ordinal \in Effects /\ PlanOf(task[w]) \in Bundles \cup {None}
        /\ task[w].seen \in Nat /\ Len(ChainOf(task[w])) \in Nat
        /\ Believable(Of(task[w]).ordinal)
    BY <1>1, AtEffect
  <1>3. Newest(ChainOf(task[w])) \in {"none", "rejected"}
    BY <1>1, <1>2 DEF Entitled
  <1>4. Untouched(Of(task[w]).ordinal)
    BY <1>2, <1>3 DEF Believable, ChainOf
  <1>5. \A v \in Workers : v # w /\ Ready(task[v]) =>
           Of(task[v]).ordinal # Of(task[w]).ordinal
    BY <1>1, <1>3, AtEffect
  <1>6. CASE Throw(w)
    BY <1>1, <1>5, <1>6, ChainLeave DEF Said
  <1>7. CASE task' = [task EXCEPT ![w].step = "write", ![w].seen = @ + 1]
    <2>1. PICK n \in Nat : n = task[w].seen + 1
      BY <1>2
    <2>2. PICK t : t = Seeing(task[w], "write", n)
      OBVIOUS
    <2>3. /\ t \in Tasks /\ Placed(t) /\ t.job = task[w].job /\ t.step = "write" /\ t.seen = n
          /\ Of(t) = Of(task[w]) /\ PlanOf(t) = PlanOf(task[w])
      BY <1>1, <1>2, <2>2, SeeingFacts DEF SliceInv
    <2>4. Becomes(w, t)
      BY <1>7, <2>1, <2>2 DEF Becomes, Seeing, SliceInv, SliceTyped
    <2>5. PICK k \in Effects, plan \in Bundles \cup {None} :
              k = Of(task[w]).ordinal /\ plan = PlanOf(task[w])
      BY <1>2
    <2>6. Grows(k, plan, "pending") /\ "pending" \in Said
      BY <1>1, <2>5, Reads DEF Said
    <2>7. /\ evidence' \in [Effects -> [plan : Bundles \cup {None}, states : Seq(Said)]]
          /\ Newest(evidence'[k].states) = "pending"
          /\ Len(evidence'[k].states) = Len(evidence[k].states) + 1
      BY <2>6, Grown DEF SliceInv
    <2>8. SliceTyped'
      BY <1>1, <2>3, <2>4, <2>7, TypedMove DEF world, SliceInv, SliceTyped
    <2>9. Believable(k)'
      BY <2>7 DEF Believable
    <2>10. /\ Abreast(t)' /\ Newest(ChainOf(t))' = "pending" /\ Untouched(Of(t).ordinal)'
           /\ (t.seen <= Len(ChainOf(t)))'
      <3>1. Len(evidence'[k].states) = n
        BY <1>1, <2>1, <2>5, <2>7 DEF Abreast, ChainOf
      <3>2. Untouched(k)'
        BY <1>1, <1>4, <2>5 DEF Untouched, Written, Flying, world
      <3> QED BY <2>3, <2>5, <2>7, <3>1, <3>2 DEF Abreast, ChainOf
    <2>11. Entitled(t)'
      BY <2>3, <2>10 DEF Entitled, Effecting
    <2>12. Trusted'
      BY <1>1, <1>5, <2>3, <2>4, <2>5, <2>6, <2>9, <2>11, ChainMove DEF world
    <2> QED BY <2>8, <2>12 DEF SliceInv
  <1> QED BY <1>6, <1>7 DEF Claim

LEMMA ReconcileKeeps ==
    ASSUME SliceInv, NEW w \in Workers, Reconcile(w)
    PROVE  SliceInv'
  <1>1. /\ task[w].job # "none" /\ Of(task[w]).do = "effect"
        /\ Effecting(task[w], "reconcile") /\ Chained(w, "completed")
        /\ UNCHANGED <<awaiting, releases, world>> /\ (Throw(w) \/ Advance(w))
    BY Reads DEF Reconcile
  <1>2. Stands(Of(task[w]).ordinal, PlanOf(task[w]))
    BY <1>1, AtEffect DEF Entitled
  <1>3. ~ Untouched(Of(task[w]).ordinal)
    BY <1>2 DEF Stands, Untouched, Written
  <1>4. \A v \in Workers : v # w /\ Ready(task[v]) =>
           Of(task[v]).ordinal # Of(task[w]).ordinal
    BY <1>1, <1>3, AtEffect
  <1> QED BY <1>1, <1>2, <1>4, ChainLeave DEF Said

\* From an engaged step to another that says no more than that it was engaged.
LEMMA DoubtKeeps ==
    ASSUME SliceInv, NEW w \in Workers, UNCHANGED <<awaiting, releases, world>>,
           NEW step \in {"refuse", "doubt"}, Goto(w, step), UNCHANGED evidence,
           Engaged(task[w]), step = "refuse" => Ready(task[w])
    PROVE  SliceInv'
  <1>1. task[w].job # "none" /\ Of(task[w]).do = "effect"
    BY DEF Engaged, Ready, Effecting
  <1>2. PICK t : t = Stepped(task[w], step)
    OBVIOUS
  <1>3. /\ task[w] \in Tasks /\ Placed(task[w]) /\ Entitled(task[w]) /\ Becomes(w, t)
        /\ step \in Steps
    BY <1>1, <1>2, AtEffect, Moves DEF Steps, SliceInv
  <1>4. /\ t \in Tasks /\ t.step = step /\ t.job = task[w].job /\ t.at = task[w].at
        /\ t.bundle = task[w].bundle /\ t.seen = task[w].seen
    BY <1>2, <1>3, Fields
  <1>5. Placed(t)
    BY <1>1, <1>2, <1>3, SteppedIsPlaced
  <1>6. Of(t) = Of(task[w]) /\ ChainOf(t) = ChainOf(task[w])
    BY <1>4 DEF Of, ChainOf
  <1>7. Entitled(t)
    BY <1>1, <1>3, <1>4, <1>6 DEF Entitled, Engaged, Ready, Effecting, Abreast
  <1>8. SliceTyped'
    BY <1>3, <1>5, TypedMove DEF world, SliceInv, SliceTyped
  <1>9. Trusted'
    BY <1>3, <1>4, <1>6, <1>7, LoneMove DEF world
  <1> QED BY <1>8, <1>9 DEF SliceInv

LEMMA CompleteKeeps ==
    ASSUME SliceInv, NEW w \in Workers, Complete(w)
    PROVE  SliceInv'
  <1>1. /\ task[w].job # "none" /\ Of(task[w]).do = "effect"
        /\ Effecting(task[w], "written") /\ Engaged(task[w])
        /\ UNCHANGED <<awaiting, releases, world>>
    BY Reads DEF Complete, Engaged
  <1>2. CASE Stands(K(w), Plan(w)) /\ Expected(w)
    <2>1. /\ Stands(Of(task[w]).ordinal, PlanOf(task[w]))
          /\ Chained(w, "completed") /\ (Advance(w) \/ Goto(w, "doubt"))
      BY <1>2, Reads DEF Complete
    <2>2. \A v \in Workers : v # w /\ Ready(task[v]) =>
             Of(task[v]).ordinal # Of(task[w]).ordinal
      <3>1. ~ Untouched(Of(task[w]).ordinal)
        BY <2>1 DEF Stands, Untouched, Written
      <3> QED BY <1>1, <3>1, AtEffect
    <2>3. CASE Advance(w)
      BY <1>1, <2>1, <2>2, <2>3, ChainLeave DEF Said
    <2>4. CASE Goto(w, "doubt")
      <3>1. PICK t : t = Stepped(task[w], "doubt")
        OBVIOUS
      <3>2. /\ task[w] \in Tasks /\ Placed(task[w]) /\ Entitled(task[w]) /\ Becomes(w, t)
            /\ "doubt" \in Steps
        BY <1>1, <2>4, <3>1, AtEffect, Moves DEF Steps, SliceInv
      <3>3. /\ t \in Tasks /\ t.step = "doubt" /\ t.job = task[w].job /\ t.at = task[w].at
            /\ t.bundle = task[w].bundle /\ t.seen = task[w].seen
        BY <3>1, <3>2, Fields
      <3>4. Placed(t)
        BY <1>1, <3>1, <3>2, SteppedIsPlaced
      <3>5. PICK k \in Effects, plan \in Bundles \cup {None} :
                k = Of(task[w]).ordinal /\ plan = PlanOf(task[w])
        BY <1>1, AtEffect
      <3>6. Grows(k, plan, "completed") /\ "completed" \in Said
        BY <2>1, <3>5, Reads DEF Said
      <3>7. /\ evidence' \in [Effects -> [plan : Bundles \cup {None}, states : Seq(Said)]]
            /\ evidence'[k].plan = plan /\ Newest(evidence'[k].states) = "completed"
            /\ Len(evidence[k].states) \in Nat
            /\ Len(evidence'[k].states) = Len(evidence[k].states) + 1
        BY <3>6, Grown DEF SliceInv
      <3>8. SliceTyped'
        BY <1>1, <3>2, <3>4, <3>7, TypedMove DEF world, SliceInv, SliceTyped
      <3>9. Believable(k)'
        BY <1>1, <2>1, <3>5, <3>7 DEF Believable, Stands, world
      <3>10. Of(t).ordinal = k /\ (t.seen <= Len(ChainOf(t)))'
        <4>1. Of(t).ordinal = k
          BY <3>3, <3>5 DEF Of
        <4>2. task[w].seen <= Len(evidence[k].states) /\ task[w].seen \in Nat
          BY <1>1, <3>2, <3>5, AtEffect DEF Entitled, ChainOf
        <4> QED BY <3>3, <3>7, <4>1, <4>2 DEF ChainOf
      <3>11. Entitled(t)'
        BY <3>3, <3>10 DEF Entitled, Ready, Effecting
      <3>12. Trusted'
        <4>1. UNCHANGED <<github, flight>>
          BY <1>1 DEF world
        <4>2. \A v \in Workers : v # w /\ Ready(task[v]) => Of(task[v]).ordinal # k
          BY <2>2, <3>5
        <4>3. t \in Tasks /\ Becomes(w, t) /\ (Engaged(t) => Of(t).ordinal = k)
          BY <3>2, <3>3, <3>10
        <4> QED BY <3>6, <3>9, <3>11, <4>1, <4>2, <4>3, ChainMove
      <3> QED BY <3>8, <3>12 DEF SliceInv
    <2> QED BY <2>1, <2>3, <2>4
  <1>3. CASE ~ (Stands(K(w), Plan(w)) /\ Expected(w))
    <2>1. Goto(w, "doubt") /\ UNCHANGED evidence
      BY <1>3 DEF Complete
    <2> QED BY <1>1, <2>1, DoubtKeeps
  <1> QED BY <1>2, <1>3

LEMMA ExcuseKeeps ==
    ASSUME SliceInv, NEW w \in Workers, Excuse(w)
    PROVE  SliceInv'
  <1>1. /\ task[w].job # "none" /\ Of(task[w]).do = "effect" /\ Engaged(task[w])
        /\ task[w].step = "refuse" => Ready(task[w])
        /\ UNCHANGED <<awaiting, releases, world>> /\ Throw(w)
    BY Reads DEF Excuse, Engaged, Ready, Effecting
  <1>2. CASE Expected(w)
    <2> DEFINE state == IF task[w].step = "refuse" THEN "rejected" ELSE "partial"
    <2>1. Chained(w, state) /\ state \in Said
      BY <1>2 DEF Excuse, Said
    <2>2. state = "rejected" => Untouched(Of(task[w]).ordinal)
      BY <1>1, AtEffect DEF Entitled
    <2>3. \A v \in Workers : v # w /\ Ready(task[v]) =>
             Of(task[v]).ordinal # Of(task[w]).ordinal
      BY <1>1, <1>2, AtEffect, Reads
    <2>4. state # "completed"
      OBVIOUS
    <2> HIDE DEF state
    <2> QED BY <1>1, <2>1, <2>2, <2>3, <2>4, ChainLeave
  <1>3. CASE ~ Expected(w)
    <2>1. Resting
      BY <1>1, <1>3 DEF Excuse, Resting, world
    <2> QED BY <1>1, <2>1, QuietLeave
  <1> QED BY <1>2, <1>3

\* Only the one that is ready writes, and no evidence then says it is not there.
LEMMA WriteKeeps ==
    ASSUME SliceInv, NEW w \in Workers, Write(w)
    PROVE  SliceInv'
  <1>1. /\ task[w].job # "none" /\ Of(task[w]).do = "effect"
        /\ Effecting(task[w], "write") /\ Ready(task[w]) /\ Engaged(task[w])
        /\ UNCHANGED <<evidence, awaiting, releases, github, merged>>
    BY Reads DEF Write, Ready, Engaged, stores
  <1>2. PICK t : t = Stepped(task[w], "written")
    OBVIOUS
  <1>3. /\ task[w] \in Tasks /\ Placed(task[w]) /\ Entitled(task[w]) /\ Becomes(w, t)
        /\ "written" \in Steps
    BY <1>1, <1>2, AtEffect, Moves DEF Write, Steps, SliceInv
  <1>4. /\ t \in Tasks /\ t.step = "written" /\ t.job = task[w].job /\ t.at = task[w].at
        /\ t.bundle = task[w].bundle /\ t.seen = task[w].seen
    BY <1>2, <1>3, Fields
  <1>5. Placed(t)
    BY <1>1, <1>2, <1>3, SteppedIsPlaced
  <1>6. PICK k \in Effects, plan \in Bundles \cup {None} :
            k = Of(task[w]).ordinal /\ plan = PlanOf(task[w])
    BY <1>1, AtEffect
  <1>7. flight' = flight \cup {[ordinal |-> k, plan |-> plan]}
    BY <1>6, Reads DEF Write
  <1>8. /\ Abreast(task[w]) /\ Newest(evidence[k].states) = "pending"
        /\ task[w].seen <= Len(ChainOf(task[w]))
    BY <1>1, <1>3, <1>6 DEF Entitled, ChainOf
  <1>9. \A v \in Workers : v # w /\ Ready(task[v]) => Of(task[v]).ordinal # k
    BY <1>1, <1>6, <1>8, AtEffect
  <1>10. SliceTyped'
    <2>1. flight' \subseteq [ordinal : Effects, plan : Bundles \cup {None}]
      BY <1>7 DEF SliceInv, SliceTyped
    <2> QED BY <1>1, <1>3, <1>5, <2>1, TypedMove DEF SliceInv, SliceTyped
  <1>11. \A j : j # k => (Untouched(j) <=> Untouched(j)')
    BY <1>1, <1>7 DEF Untouched, Written, Flying
  <1>12. \A j, p : Stands(j, p) <=> Stands(j, p)'
    BY <1>1 DEF Stands
  <1>13. \A j \in Effects : Believable(j)'
    <2>1. Believable(k)'
      BY <1>1, <1>8 DEF Believable
    <2>2. \A j \in Effects : j # k => Believable(j)'
      BY <1>1, <1>11, <1>12 DEF Believable, SliceInv, Trusted
    <2> QED BY <2>1, <2>2
  <1>14. /\ task'[w] = t
         /\ \A v \in Workers : v # w => task'[v] = task[v]
    BY <1>3, <1>4, Others DEF SliceInv
  <1>15. ASSUME NEW u, Entitled(u), Ready(u) => Of(u).ordinal # k
         PROVE  Entitled(u)'
    BY <1>1, <1>11, <1>12, <1>15 DEF Entitled, Engaged, Ready, Effecting, Abreast, ChainOf
  <1>16. Of(t) = Of(task[w]) /\ ChainOf(t) = ChainOf(task[w])
    BY <1>4 DEF Of, ChainOf
  <1>17. Entitled(t)
    BY <1>4, <1>8, <1>16 DEF Entitled, Ready, Effecting
  <1>18. ~ Ready(t)
    BY <1>4 DEF Ready, Effecting
  <1>19. \A v \in Workers : Entitled(task[v])'
    BY <1>9, <1>14, <1>15, <1>17, <1>18 DEF SliceInv, Trusted
  <1>20. \A u, v : Apart(u, v) => Apart(u, v)'
    BY <1>1 DEF Apart, Engaged, Ready, Effecting, Abreast, ChainOf
  <1>21. \A v \in Workers : v # w => Apart(t, task[v]) /\ Apart(task[v], t)
    BY <1>1, <1>8, <1>16 DEF SliceInv, Trusted, Apart
  <1>22. \A u, v \in Workers : u # v => Apart(task[u], task[v])'
    <2> SUFFICES ASSUME NEW u \in Workers, NEW v \in Workers, u # v
                 PROVE  Apart(task[u], task[v])'
      OBVIOUS
    <2>1. CASE u = w
      BY <1>14, <1>20, <1>21, <2>1
    <2>2. CASE v = w
      BY <1>14, <1>20, <1>21, <2>2
    <2>3. CASE u # w /\ v # w
      BY <1>14, <1>20, <2>3 DEF SliceInv, Trusted
    <2> QED BY <2>1, <2>2, <2>3
  <1> QED BY <1>10, <1>13, <1>19, <1>22 DEF SliceInv, Trusted

LEMMA FailKeeps ==
    ASSUME SliceInv, NEW w \in Workers, Fail(w)
    PROVE  SliceInv'
  <1>1. task[w].job # "none" /\ UNCHANGED <<stores, world>>
    BY DEF Fail
  <1>2. Resting
    BY <1>1 DEF Resting, stores, world
  <1>3. CASE At(w, "effect", "write")
    <2>1. Goto(w, "refuse") /\ Ready(task[w]) /\ Engaged(task[w])
      BY <1>3, Reads DEF Fail, Ready, Engaged
    <2> QED BY <1>1, <2>1, DoubtKeeps DEF stores
  <1>4. CASE ~ At(w, "effect", "write") /\ At(w, "effect", "written")
    <2>1. Goto(w, "doubt") /\ Engaged(task[w])
      BY <1>4, Reads DEF Fail, Engaged
    <2> QED BY <1>1, <2>1, DoubtKeeps DEF stores
  <1>5. CASE ~ At(w, "effect", "write") /\ ~ At(w, "effect", "written")
    <2>1. Throw(w)
      BY <1>5 DEF Fail
    <2> QED BY <1>1, <1>2, <2>1, QuietLeave
  <1> QED BY <1>3, <1>4, <1>5

-----------------------------------------------------------------------------
(* The checkpoints, GitHub and the merge *)

\* A checkpoint more: what tasks and checkpoints refer to is still there.
LEMMA CheckpointMove ==
    ASSUME SliceInv, NEW w \in Workers, NEW t, Becomes(w, t), t.step \in Plain, Placed(t)',
           UNCHANGED <<evidence, world>>,
           awaiting' \in Seq(Bundles), DOMAIN awaiting \subseteq DOMAIN awaiting',
           merged => awaiting' # <<>>,
           releases' \in Seq([awaits : DOMAIN awaiting', freed : BOOLEAN]),
           Len(releases) <= Len(releases')
    PROVE  SliceInv'
  <1>1. Len(releases) \in Nat /\ Len(releases') \in Nat
    BY DEF SliceInv, SliceTyped
  <1>2. \A u : Placed(u) => Placed(u)'
    BY <1>1 DEF Placed
  <1>3. t \in Tasks
    BY DEF Placed
  <1>4. /\ task' \in [Workers -> Tasks] /\ task'[w] = t
        /\ \A v \in Workers : v # w => task'[v] = task[v]
    BY <1>3, Others DEF SliceInv
  <1>5. \A v \in Workers : Placed(task[v])'
    BY <1>2, <1>4 DEF SliceInv, SliceTyped
  <1>6. SliceTyped'
    BY <1>4, <1>5 DEF SliceInv, SliceTyped, world
  <1>7. Trusted'
    BY <1>3, PlainFacts, LoneMove DEF world
  <1> QED BY <1>6, <1>7 DEF SliceInv

LEMMA ParkKeeps ==
    ASSUME SliceInv, NEW w \in Workers, Park(w)
    PROVE  SliceInv'
  <1>1. /\ task[w].job # "none" /\ Of(task[w]).do = "park" /\ (Throw(w) \/ Advance(w))
        /\ awaiting' = Append(awaiting, task[w].bundle)
        /\ UNCHANGED <<evidence, releases, world>>
    BY Reads DEF Park
  <1>2. PICK t : Becomes(w, t) /\ Placed(t) /\ t.step \in Plain
    BY <1>1, Leaves DEF SliceInv
  <1>3. task[w].bundle \in Bundles
    <2>1. Placed(task[w])
      BY Moves DEF SliceInv
    <2> QED BY <1>1, <2>1, TaskFacts DEF Placed
  <1>4. /\ awaiting' \in Seq(Bundles) /\ awaiting' # <<>>
        /\ DOMAIN awaiting \subseteq DOMAIN awaiting'
    <2>1. awaiting \in Seq(Bundles)
      BY DEF SliceInv, SliceTyped
    <2>2. /\ Append(awaiting, task[w].bundle) \in Seq(Bundles)
          /\ Append(awaiting, task[w].bundle) # <<>>
          /\ Len(awaiting) \in Nat /\ DOMAIN awaiting = 1 .. Len(awaiting)
          /\ DOMAIN Append(awaiting, task[w].bundle) = 1 .. Len(awaiting) + 1
      BY <1>3, <2>1, AppendFacts
    <2> QED BY <1>1, <2>2
  <1>5. /\ releases' \in Seq([awaits : DOMAIN awaiting', freed : BOOLEAN])
        /\ Len(releases) <= Len(releases')
    <2> DEFINE S == [awaits : DOMAIN awaiting, freed : BOOLEAN]
               T == [awaits : DOMAIN awaiting', freed : BOOLEAN]
    <2>1. releases \in Seq(S) /\ S \subseteq T
      BY <1>4 DEF SliceInv, SliceTyped
    <2> HIDE DEF S, T
    <2>2. releases \in Seq(T) /\ Len(releases) \in Nat
      BY <2>1, SeqMonotonic
    <2> QED BY <1>1, <2>2 DEF T
  <1>6. Placed(t)'
    BY <1>1, <1>2, <1>4 DEF Placed
  <1> QED BY <1>1, <1>2, <1>4, <1>5, <1>6, CheckpointMove

LEMMA PutsKeep ==
    ASSUME SliceInv, NEW w \in Workers, PutPending(w) \/ PutReleased(w)
    PROVE  SliceInv'
  <1>1. /\ task[w].job # "none" /\ Of(task[w]).do \in {"pend", "note"}
        /\ UNCHANGED <<evidence, awaiting, world>>
    BY Reads DEF PutPending, PutReleased
  <1>2. /\ task[w] \in Tasks /\ Placed(task[w]) /\ task[w].job = "resume"
        /\ task[w].at <= 3 /\ Len(Program(task[w].job)) >= 4
        /\ Len(Program(task[w].job)) \in Nat /\ task[w].at \in 1 .. Len(Program(task[w].job))
    BY <1>1, Moves, TaskFacts DEF SliceInv
  <1>3. PICK release \in [awaits : DOMAIN awaiting, freed : BOOLEAN] :
            releases' = Append(releases, release)
    <2>1. task[w].awaits \in DOMAIN awaiting
      BY <1>2 DEF Placed
    <2> QED BY <2>1 DEF PutPending, PutReleased
  <1>4. /\ releases' \in Seq([awaits : DOMAIN awaiting', freed : BOOLEAN])
        /\ Len(releases') = Len(releases) + 1 /\ Len(releases) \in Nat
    BY <1>1, <1>3, AppendFacts DEF SliceInv, SliceTyped
  <1>5. awaiting' \in Seq(Bundles) /\ (merged => awaiting' # <<>>)
    BY <1>1 DEF SliceInv, SliceTyped
  <1>6. ASSUME NEW t, Becomes(w, t), t.step \in Plain, Placed(t)'
        PROVE  SliceInv'
    <2>1. /\ DOMAIN awaiting \subseteq DOMAIN awaiting' /\ Len(releases) <= Len(releases')
          /\ UNCHANGED <<evidence, world>>
      BY <1>1, <1>4
    <2> QED BY <1>4, <1>5, <1>6, <2>1, CheckpointMove
  <1>7. CASE Throw(w) \/ (Advance(w) /\ Of(task[w]).do # "call")
    <2>1. PICK t : Becomes(w, t) /\ Placed(t) /\ t.step \in Plain
      BY <1>1, <1>7, Leaves DEF SliceInv
    <2>2. Placed(t)'
      BY <1>1, <1>4, <2>1 DEF Placed
    <2> QED BY <1>6, <2>1, <2>2
  <1>8. CASE Jump(w, task[w].at + 1, Len(releases) + 1)
    <2>1. PICK to \in Nat, doc \in Nat : to = task[w].at + 1 /\ doc = Len(releases) + 1
      BY <1>2, <1>4
    <2> DEFINE Jumped(u) == [u EXCEPT !.at = to, !.doc = doc, !.step = "start"]
    <2>2. PICK t : t = Jumped(task[w])
      OBVIOUS
    <2>3. Becomes(w, t)
      BY <1>8, <2>1, <2>2 DEF Jump, Becomes, SliceInv, SliceTyped
    <2>4. \A u \in Tasks :
             /\ Jumped(u) \in Tasks /\ Jumped(u).at = to /\ Jumped(u).doc = doc
             /\ Jumped(u).step = "start" /\ Jumped(u).job = u.job
             /\ Jumped(u).bundle = u.bundle /\ Jumped(u).awaits = u.awaits
      BY <2>1 DEF Tasks, Steps
    <2> HIDE DEF Jumped
    <2>5. /\ t \in Tasks /\ t.at = to /\ t.doc = doc /\ t.step = "start" /\ t.job = "resume"
          /\ t.bundle = task[w].bundle /\ t.awaits = task[w].awaits
      BY <1>2, <2>2, <2>4
    <2>6. to \in DOMAIN Program("resume")
      BY <1>2, <2>1, ResumptionFacts DEF Program
    <2>7. t.bundle \in Bundles /\ t.awaits \in DOMAIN awaiting'
      BY <1>1, <1>2, <2>5 DEF Placed
    <2>8. Placed(t)'
      BY <1>4, <2>1, <2>5, <2>6, <2>7 DEF Placed
    <2> QED BY <1>6, <2>3, <2>5, <2>8 DEF Plain
  <1> QED BY <1>1, <1>7, <1>8 DEF PutPending, PutReleased

\* What lands was in flight, and what stands goes on standing.
LEMMA DecideKeeps ==
    ASSUME SliceInv, Decide
    PROVE  SliceInv'
  <1>1. PICK write \in flight : /\ flight' = flight \ {write}
                                /\ github' = Append(github, write) \/ github' = github
    BY DEF Decide
  <1>2. UNCHANGED <<evidence, awaiting, releases, merged, task>>
    BY DEF Decide, stores
  <1>3. /\ flight \subseteq [ordinal : Effects, plan : Bundles \cup {None}]
        /\ github \in Seq([ordinal : Effects, plan : Bundles \cup {None}])
    BY DEF SliceInv, SliceTyped
  <1>4. /\ github' \in Seq([ordinal : Effects, plan : Bundles \cup {None}])
        /\ \A i \in DOMAIN github : i \in DOMAIN github' /\ github'[i] = github[i]
        /\ \A i \in DOMAIN github' :
              github'[i] = write \/ (i \in DOMAIN github /\ github'[i] = github[i])
    <2>1. write \in [ordinal : Effects, plan : Bundles \cup {None}]
      BY <1>3
    <2>2. CASE github' = github
      BY <1>3, <2>2
    <2>3. CASE github' = Append(github, write)
      <3>1. /\ Append(github, write) \in Seq([ordinal : Effects, plan : Bundles \cup {None}])
            /\ Len(github) \in Nat /\ DOMAIN github = 1 .. Len(github)
            /\ DOMAIN Append(github, write) = 1 .. Len(github) + 1
            /\ \A i \in 1 .. Len(github) : Append(github, write)[i] = github[i]
            /\ Append(github, write)[Len(github) + 1] = write
        BY <1>3, <2>1, AppendFacts
      <3> QED BY <2>3, <3>1
    <2> QED BY <1>1, <2>2, <2>3
  <1>5. \A k : Untouched(k) => Untouched(k)'
    BY <1>1, <1>4 DEF Untouched, Written, Flying
  <1>6. \A k, plan : Stands(k, plan) => Stands(k, plan)'
    BY <1>4 DEF Stands
  <1>7. \A k : Believable(k) => Believable(k)'
    BY <1>2, <1>5, <1>6 DEF Believable
  <1>8. \A t : Entitled(t) => Entitled(t)'
    BY <1>2, <1>5, <1>6 DEF Entitled, Engaged, Ready, Effecting, Abreast, ChainOf
  <1>9. \A t, u : Apart(t, u) => Apart(t, u)'
    BY <1>2 DEF Apart, Engaged, Ready, Effecting, Abreast, ChainOf
  <1>10. Trusted'
    BY <1>2, <1>7, <1>8, <1>9 DEF SliceInv, Trusted
  <1>11. \A t : Placed(t) => Placed(t)'
    BY <1>2 DEF Placed
  <1>12. flight' \subseteq [ordinal : Effects, plan : Bundles \cup {None}]
    BY <1>1, <1>3
  <1>13. SliceTyped'
    BY <1>2, <1>4, <1>11, <1>12 DEF SliceInv, SliceTyped
  <1> QED BY <1>10, <1>13 DEF SliceInv

LEMMA RestKeeps ==
    ASSUME SliceInv, UNCHANGED <<evidence, awaiting, releases, github, flight, task>>,
           merged' = merged \/ (merged' = TRUE /\ awaiting # <<>>)
    PROVE  SliceInv'
  <1>1. \A w \in Workers : Placed(task[w])'
    <2>1. \A t : Placed(t) => Placed(t)'
      BY DEF Placed
    <2> QED BY <2>1 DEF SliceInv, SliceTyped
  <1>2. SliceTyped'
    <2>1. /\ evidence' \in [Effects -> [plan : Bundles \cup {None}, states : Seq(Said)]]
          /\ flight' \subseteq [ordinal : Effects, plan : Bundles \cup {None}]
          /\ github' \in Seq([ordinal : Effects, plan : Bundles \cup {None}])
          /\ task' \in [Workers -> Tasks]
      BY DEF SliceInv, SliceTyped
    <2>2. /\ awaiting' \in Seq(Bundles)
          /\ releases' \in Seq([awaits : DOMAIN awaiting', freed : BOOLEAN])
      <3>1. awaiting' = awaiting /\ releases' = releases
        OBVIOUS
      <3>2. /\ awaiting \in Seq(Bundles)
            /\ releases \in Seq([awaits : DOMAIN awaiting, freed : BOOLEAN])
        BY DEF SliceInv, SliceTyped
      <3> QED BY <3>1, <3>2, Zenon
    <2>3. merged' \in BOOLEAN /\ (merged' => awaiting' # <<>>)
      <3>1. merged \in BOOLEAN /\ (merged => awaiting # <<>>)
        BY DEF SliceInv, SliceTyped
      <3>2. CASE merged' = merged
        BY <3>1, <3>2
      <3>3. CASE merged' = TRUE /\ awaiting # <<>>
        BY <3>3
      <3> QED BY <3>2, <3>3
    <2> QED BY <1>1, <2>1, <2>2, <2>3 DEF SliceTyped
  <1>3. /\ \A k : Believable(k) => Believable(k)'
        /\ \A u : Entitled(u) => Entitled(u)'
        /\ \A u, v : Apart(u, v) => Apart(u, v)'
    BY DEF Believable, Entitled, Apart, Engaged, Ready, Effecting, Abreast, ChainOf, Untouched,
           Written, Flying, Stands
  <1>4. Trusted'
    BY <1>3 DEF SliceInv, Trusted
  <1> QED BY <1>2, <1>4 DEF SliceInv

-----------------------------------------------------------------------------
(* The theorem *)

LEMMA InitHolds == ASSUME Init PROVE SliceInv
  <1>1. /\ evidence = [k \in Effects |-> [plan |-> None, states |-> <<>>]]
        /\ awaiting = <<>> /\ releases = <<>> /\ github = <<>> /\ flight = {}
        /\ merged = FALSE /\ task = [w \in Workers |-> Idle]
    BY DEF Init
  <1>2. Idle \in Tasks /\ Idle.step = "start" /\ Idle.job = "none" /\ Idle.doc = 0
    BY DEF Idle, Tasks, Steps
  <1>3. Placed(Idle)
    BY <1>1, <1>2 DEF Placed
  <1>4. SliceTyped
    <2>1. evidence \in [Effects -> [plan : Bundles \cup {None}, states : Seq(Said)]]
      BY <1>1
    <2>2. /\ awaiting \in Seq(Bundles) /\ flight = {} /\ merged = FALSE
          /\ releases \in Seq([awaits : DOMAIN awaiting, freed : BOOLEAN])
          /\ github \in Seq([ordinal : Effects, plan : Bundles \cup {None}])
      BY <1>1, EmptySeq
    <2>3. task \in [Workers -> Tasks] /\ \A w \in Workers : Placed(task[w])
      BY <1>1, <1>2, <1>3
    <2> QED BY <2>1, <2>2, <2>3 DEF SliceTyped
  <1>5. \A k \in Effects : Believable(k)
    BY <1>1 DEF Believable, Newest, Untouched, Written, Flying
  <1>6. Entitled(Idle) /\ ~ Engaged(Idle)
    BY <1>2, PlainFacts DEF Plain
  <1>7. Trusted
    BY <1>1, <1>5, <1>6 DEF Trusted, Apart
  <1> QED BY <1>4, <1>7 DEF SliceInv

LEMMA StepKeeps == ASSUME SliceInv, [Next]_vars PROVE SliceInv'
  <1>1. CASE UNCHANGED vars
    BY <1>1, RestKeeps DEF vars, stores, world
  <1>2. ASSUME NEW w \in Workers, StartRun(w) \/ StartResume(w)
        PROVE  SliceInv'
    BY <1>2, StartsKeep
  <1>3. ASSUME NEW w \in Workers, Step(w)
        PROVE  SliceInv'
    BY <1>3, QuietStepsKeep, InvokeKeeps, ReadEvidenceKeeps, ClaimKeeps, ReconcileKeeps,
       WriteKeeps, CompleteKeeps, ExcuseKeeps, ParkKeeps, ReadReleaseKeeps, PutsKeep
       DEF Step, QuietSteps
  <1>4. ASSUME NEW w \in Workers, Fail(w)
        PROVE  SliceInv'
    BY <1>4, FailKeeps
  <1>5. ASSUME NEW w \in Workers, Die(w)
        PROVE  SliceInv'
    BY <1>5, QuietStepsKeep DEF QuietSteps
  <1>6. CASE Decide
    BY <1>6, DecideKeeps
  <1>7. CASE Merge
    BY <1>7, RestKeeps DEF Merge, stores
  <1> QED BY <1>1, <1>2, <1>3, <1>4, <1>5, <1>6, <1>7 DEF Next

LEMMA InvGivesTruth == ASSUME SliceInv PROVE EvidenceTrue
  <1>1. TypeOK
    <2>1. \A k \in Effects : /\ evidence[k].plan \in Bundles \cup {None}
                             /\ evidence[k].states \in Seq(Said)
      BY DEF SliceInv, SliceTyped
    <2>2. \A w \in Workers : /\ task[w].job \in {"none", "run", "resume"}
                             /\ task[w].seen \in Nat /\ task[w].doc \in 0 .. Len(releases)
      BY Moves, Fields DEF SliceInv, Placed
    <2> QED BY <2>1, <2>2 DEF TypeOK, Said, SliceInv, SliceTyped
  <1> QED BY <1>1 DEF EvidenceTrue, SliceInv, Trusted, Believable, Untouched

\* Whatever workers race, die, fail and resume, and whenever GitHub decides a write, the
\* evidence of an effect may be believed: what it says is not there, or was rejected,
\* is not there and cannot land any more, and what it says is complete stands as planned.
THEOREM SliceEvidenceTrue == Spec => []EvidenceTrue
  <1>1. Init => SliceInv
    BY InitHolds
  <1>2. SliceInv /\ [Next]_vars => SliceInv'
    BY StepKeeps
  <1>3. SliceInv => EvidenceTrue
    BY InvGivesTruth
  <1> QED BY <1>1, <1>2, <1>3, PTL DEF Spec

-----------------------------------------------------------------------------
(* The delivery of the work item: its inductive invariant, on that of the      *)
(* evidence.                                                                   *)

Freed == account[Work].stage = "released"
Told(bundle) == \E i \in DOMAIN kernel :
    kernel[i] = [event |-> "work-submitted", evidence |-> PatchOf[bundle]]

Transitions == [event : Requests, evidence : Patches \cup Bundles \cup Nat \cup {None}]

\* The kernel takes each transition in its place, so each of them once; and what was
\* submitted is the patch of a bundle.
InPlace(i, transition) ==
    /\ i = Place(transition.event)
    /\ transition.event = "work-submitted" =>
           \E bundle \in Bundles : transition.evidence = PatchOf[bundle]
KernelOrdered ==
    /\ kernel \in Seq(Transitions)
    /\ \A i \in DOMAIN kernel : InPlace(i, kernel[i])

Accounts == [stage : {"none", "open", "released"}, held : SUBSET Phase, spent : Seq(Nat)]
Booked == account \in [Reservations -> Accounts]

\* A write is of the patch that was submitted, and one that closes the work item
\* comes after the merge and the release.
Warranted(write) ==
    /\ \E bundle \in Bundles : Told(bundle) /\ (write.ordinal # 1 => write.plan = bundle)
    /\ write.ordinal > SliceEffectCount => merged /\ Freed

\* The effects stand in their order, and only the next one is in flight.
GitHubOrdered ==
    /\ \A i \in DOMAIN github : github[i].ordinal = i /\ Warranted(github[i])
    /\ \A write \in flight : write.ordinal = Len(github) + 1 /\ Warranted(write)
    /\ \A f, g \in flight : f = g

\* What is parked was submitted and written, and what is noted as released is.
Checkpointed ==
    /\ \A i \in DOMAIN awaiting : Told(awaiting[i])
    /\ awaiting # <<>> => SliceEffectCount <= Len(github)
    /\ \A i \in DOMAIN releases : releases[i].freed => Freed

Ordered == KernelOrdered /\ Booked /\ GitHubOrdered /\ Checkpointed

\* What a task has behind it is done, whoever did it.
Behind(t, i) ==
    /\ Program(t.job)[i].do = "effect" => Program(t.job)[i].ordinal <= Len(github)
    /\ Submits(Program(t.job)[i]) => Told(t.bundle)
Passed(t) ==
    t.job # "none" =>
        /\ \A i \in 1 .. t.at - 1 : Behind(t, i)
        /\ t.job = "resume" => merged /\ Told(t.bundle) /\ (t.at >= 3 => Freed)

DeliveryInv == SliceInv /\ Ordered /\ \A w \in Workers : Passed(task[w])

-----------------------------------------------------------------------------
(* The order of the programs *)

LEMMA OrdinalsFinite ==
    ASSUME NEW S, NEW program \in Seq(S)
    PROVE  IsFiniteSet(EffectsOf(program))
  <1> DEFINE J == {j \in DOMAIN program : program[j].do = "effect"}
             f == [j \in J |-> program[j].ordinal]
  <1>1. Len(program) \in Nat /\ DOMAIN program = 1 .. Len(program)
    OBVIOUS
  <1>2. IsFiniteSet(J)
    <2>1. IsFiniteSet(1 .. Len(program))
      BY <1>1, FS_Interval
    <2> QED BY <1>1, <2>1, FS_Subset
  <1>3. f \in Surjection(J, EffectsOf(program))
    BY DEF Surjection, EffectsOf
  <1> QED BY <1>2, <1>3, FS_Surjection

LEMMA EffectOrder ==
    /\ SliceEffectCount \in Nat /\ Cardinality(Effects) \in Nat
    /\ SliceEffectCount <= Cardinality(Effects)
    /\ EffectsOf(Slice) = 1 .. SliceEffectCount
    /\ EffectsOf(Closure) = SliceEffectCount + 1 .. Cardinality(Effects)
    /\ Effects = 1 .. Cardinality(Effects)
  <1>1. /\ Slice \in Seq(Instruction) /\ Closure \in Seq(Instruction)
        /\ EffectsOf(Slice) = 1 .. SliceEffectCount
        /\ EffectsOf(Closure) = SliceEffectCount + 1 .. Cardinality(Effects)
    BY ProgramAssumption DEF Programs, SliceEffectCount, Effects
  <1>2. IsFiniteSet(EffectsOf(Slice)) /\ IsFiniteSet(EffectsOf(Closure))
    BY <1>1, OrdinalsFinite
  <1>3. IsFiniteSet(Effects)
    BY <1>2, FS_Union DEF Effects
  <1>4. /\ SliceEffectCount \in Nat /\ Cardinality(Effects) \in Nat
        /\ SliceEffectCount <= Cardinality(Effects)
    <2>1. EffectsOf(Slice) \in SUBSET Effects
      BY DEF Effects
    <2> QED BY <1>2, <1>3, <2>1, FS_CardinalityType, FS_Subset DEF SliceEffectCount
  <1>5. Effects = 1 .. Cardinality(Effects)
    BY <1>1, <1>4 DEF Effects
  <1> QED BY <1>1, <1>4, <1>5

\* Before an effect stand the submission and the effect before it; the closure
\* begins where the slice ends.
LEMMA BeforeEffect ==
    ASSUME NEW t, Placed(t), t.job # "none", Of(t).do = "effect"
    PROVE  /\ Of(t).ordinal \in 1 .. Cardinality(Effects)
           /\ t.job = "run" => /\ Of(t).ordinal <= SliceEffectCount
                               /\ \E i \in 1 .. t.at - 1 : Submits(Program(t.job)[i])
           /\ t.job = "resume" => Of(t).ordinal > SliceEffectCount /\ t.at > 3
           /\ Of(t).ordinal # 1 /\ Of(t).ordinal # SliceEffectCount + 1 =>
                 \E i \in 1 .. t.at - 1 : /\ Program(t.job)[i].do = "effect"
                                          /\ Program(t.job)[i].ordinal = Of(t).ordinal - 1
  <1>1. t \in Tasks /\ t.at \in DOMAIN Program(t.job) /\ t.job \in {"run", "resume"} /\ t.at \in Nat
    BY Fields DEF Placed
  <1>2. PICK k : k = Of(t).ordinal
    OBVIOUS
  <1>3. CASE t.job = "run"
    <2>1. Program(t.job) = Slice /\ Of(t) = Slice[t.at] /\ t.at \in DOMAIN Slice
      BY <1>1, <1>3 DEF Program, Of
    <2>2. k \in 1 .. SliceEffectCount
      BY <1>2, <2>1, EffectOrder DEF EffectsOf
    <2>3. \E i \in 1 .. t.at - 1 : Submits(Slice[i])
      BY <2>1, ProgramAssumption DEF Programs
    <2>4. ASSUME k # 1
          PROVE  \E i \in 1 .. t.at - 1 : Slice[i].do = "effect" /\ Slice[i].ordinal = k - 1
      <3>1. k - 1 \in EffectsOf(Slice)
        BY <2>2, <2>4, EffectOrder
      <3>2. PICK i \in DOMAIN Slice : Slice[i].do = "effect" /\ Slice[i].ordinal = k - 1
        BY <3>1 DEF EffectsOf
      <3>3. i \in Nat /\ i >= 1 /\ t.at >= 1
        BY <2>1, SliceFacts
      <3>4. i # t.at
        BY <1>2, <2>1, <2>2, <3>2
      <3>5. ~ t.at < i
        <4>1. SUFFICES ASSUME t.at < i PROVE FALSE
          OBVIOUS
        <4>2. Slice[t.at].ordinal < Slice[i].ordinal
          BY <2>1, <3>2, <4>1, ProgramAssumption DEF Programs, Ascending
        <4> QED BY <1>2, <2>1, <2>2, <3>2, <4>2
      <3>6. i \in 1 .. t.at - 1
        BY <1>1, <3>3, <3>4, <3>5
      <3> QED BY <3>2, <3>6
    <2> QED BY <1>2, <1>3, <2>1, <2>2, <2>3, <2>4, EffectOrder
  <1>4. CASE t.job = "resume"
    <2>1. Program(t.job) = Resumption /\ Of(t) = Resumption[t.at] /\ t.at \in DOMAIN Resumption
      BY <1>1, <1>4 DEF Program, Of
    <2>2. t.at > 3
      BY <1>1, <2>1, ResumptionFacts
    <2>3. PICK n \in DOMAIN Closure : n = t.at - 3 /\ Of(t) = Closure[n]
      BY <2>1, <2>2, ResumptionFacts
    <2>4. k \in SliceEffectCount + 1 .. Cardinality(Effects)
      BY <1>2, <2>3, EffectOrder DEF EffectsOf
    <2>5. ASSUME k # SliceEffectCount + 1
          PROVE  \E i \in 1 .. t.at - 1 :
                    Resumption[i].do = "effect" /\ Resumption[i].ordinal = k - 1
      <3>1. k - 1 \in EffectsOf(Closure)
        BY <2>4, <2>5, EffectOrder
      <3>2. PICK j \in DOMAIN Closure : Closure[j].do = "effect" /\ Closure[j].ordinal = k - 1
        BY <3>1 DEF EffectsOf
      <3>3. j \in 1 .. Len(Closure) /\ Len(Closure) \in Nat
        BY ResumptionFacts
      <3>4. j # n
        BY <1>2, <2>3, <2>4, <3>2, EffectOrder
      <3>5. ~ n < j
        <4>1. SUFFICES ASSUME n < j PROVE FALSE
          OBVIOUS
        <4>2. Closure[n].ordinal < Closure[j].ordinal
          BY <2>3, <3>2, <4>1, ProgramAssumption DEF Programs, Ascending
        <4> QED BY <1>2, <2>3, <2>4, <3>2, <4>2, EffectOrder
      <3>6. j + 3 \in 1 .. t.at - 1 /\ j + 3 \in DOMAIN Resumption /\ j + 3 > 3
        BY <1>1, <2>3, <3>3, <3>4, <3>5, ResumptionFacts
      <3>7. Resumption[j + 3] = Closure[(j + 3) - 3] /\ (j + 3) - 3 = j
        BY <3>3, <3>6, ResumptionFacts
      <3> QED BY <3>2, <3>6, <3>7
    <2> QED BY <1>2, <1>4, <2>1, <2>2, <2>4, <2>5, EffectOrder
  <1> QED BY <1>1, <1>3, <1>4

\* Before the slice parks, and before the work item is accepted, stand all their effects.
LEMMA BeforePark ==
    ASSUME NEW t, Placed(t), t.job # "none", Of(t).do = "park"
    PROVE  /\ t.job = "run"
           /\ \E i \in 1 .. t.at - 1 : Submits(Program(t.job)[i])
           /\ \A k \in 1 .. SliceEffectCount : \E i \in 1 .. t.at - 1 :
                 Program(t.job)[i].do = "effect" /\ Program(t.job)[i].ordinal = k
  <1>1. t.job = "run" /\ t.at \in DOMAIN Slice /\ Of(t) = Slice[t.at] /\ Program(t.job) = Slice
    BY TaskFacts DEF Placed, Of, Program
  <1>2. t.at = Len(Slice) /\ \E i \in 1 .. t.at - 1 : Submits(Slice[i])
    BY <1>1, ProgramAssumption DEF Programs
  <1>3. ASSUME NEW k \in 1 .. SliceEffectCount
        PROVE  \E i \in 1 .. t.at - 1 : Slice[i].do = "effect" /\ Slice[i].ordinal = k
    <2>1. PICK i \in DOMAIN Slice : Slice[i].do = "effect" /\ Slice[i].ordinal = k
      BY EffectOrder DEF EffectsOf
    <2>2. i # t.at
      BY <1>1, <2>1
    <2> QED BY <1>2, <2>1, <2>2, SliceFacts
  <1> QED BY <1>1, <1>2, <1>3

LEMMA BeforeAcceptance ==
    ASSUME NEW t, Placed(t), t.job # "none", Requesting(Of(t), "outcome-accepted")
    PROVE  /\ t.job = "resume" /\ t.at > 3
           /\ \A k \in SliceEffectCount + 1 .. Cardinality(Effects) :
                 \E i \in 1 .. t.at - 1 :
                    Program(t.job)[i].do = "effect" /\ Program(t.job)[i].ordinal = k
  <1>1. t \in Tasks /\ t.at \in DOMAIN Program(t.job) /\ t.job \in {"run", "resume"} /\ t.at \in Nat
    BY Fields DEF Placed
  <1>2. t.job = "resume"
    <2>1. SUFFICES ASSUME t.job = "run" PROVE FALSE
      BY <1>1
    <2> QED BY <1>1, <2>1, ProgramAssumption DEF Programs, Of, Program
  <1>3. Program(t.job) = Resumption /\ Of(t) = Resumption[t.at] /\ t.at \in DOMAIN Resumption
    BY <1>1, <1>2 DEF Program, Of
  <1>4. t.at > 3
    BY <1>1, <1>3, ResumptionFacts DEF Requesting
  <1>5. PICK n \in DOMAIN Closure : n = t.at - 3 /\ Of(t) = Closure[n]
    BY <1>3, <1>4, ResumptionFacts
  <1>6. n = Len(Closure)
    BY <1>5, ProgramAssumption DEF Programs
  <1>7. ASSUME NEW k \in SliceEffectCount + 1 .. Cardinality(Effects)
        PROVE  \E i \in 1 .. t.at - 1 : Resumption[i].do = "effect" /\ Resumption[i].ordinal = k
    <2>1. PICK j \in DOMAIN Closure : Closure[j].do = "effect" /\ Closure[j].ordinal = k
      BY EffectOrder DEF EffectsOf
    <2>2. j # n
      BY <1>5, <2>1 DEF Requesting
    <2>3. j \in 1 .. Len(Closure) /\ Len(Closure) \in Nat
      BY ResumptionFacts
    <2>4. j + 3 \in 1 .. t.at - 1 /\ j + 3 \in DOMAIN Resumption /\ j + 3 > 3
      BY <1>1, <1>5, <1>6, <2>2, <2>3, ResumptionFacts
    <2>5. Resumption[j + 3] = Closure[(j + 3) - 3] /\ (j + 3) - 3 = j
      BY <2>3, <2>4, ResumptionFacts
    <2> QED BY <2>1, <2>4, <2>5
  <1> QED BY <1>2, <1>3, <1>4, <1>7

\* What a run submits it has made, and it makes nothing after.
LEMMA AroundSubmission ==
    ASSUME NEW t, Placed(t), t.job # "none"
    PROVE  /\ Submits(Of(t)) => t.bundle \in Bundles
           /\ Makes(Of(t)) => t.job = "run" /\ \A i \in 1 .. t.at - 1 : ~ Submits(Program(t.job)[i])
  <1>1. t \in Tasks /\ t.at \in DOMAIN Program(t.job) /\ t.job \in {"run", "resume"} /\ t.at \in Nat
    BY Fields DEF Placed
  <1>2. CASE t.job = "resume"
    <2>1. t.bundle \in Bundles
      BY <1>2 DEF Placed
    <2>2. ~ Makes(Of(t))
      BY <1>2, TaskFacts DEF Makes
    <2> QED BY <2>1, <2>2
  <1>3. CASE t.job = "run"
    <2>1. Program(t.job) = Slice /\ Of(t) = Slice[t.at] /\ t.at \in DOMAIN Slice
      BY <1>1, <1>3 DEF Program, Of
    <2>2. ASSUME Submits(Of(t)) PROVE t.bundle \in Bundles
      <3>1. PICK j \in 1 .. t.at - 1 : Makes(Slice[j])
        BY <2>1, <2>2, ProgramAssumption DEF Programs
      <3>2. j \in 1 .. t.at /\ j < t.at
        BY <1>1, <3>1
      <3> QED BY <1>3, <3>1, <3>2 DEF Placed, HasMade
    <2>3. ASSUME Makes(Of(t)), NEW i \in 1 .. t.at - 1, Submits(Slice[i]) PROVE FALSE
      <3>1. i \in DOMAIN Slice /\ t.at \in i .. Len(Slice)
        BY <1>1, <2>1, SliceFacts
      <3> QED BY <2>1, <2>3, <3>1, ProgramAssumption DEF Programs
    <2> QED BY <1>3, <2>1, <2>2, <2>3
  <1> QED BY <1>1, <1>2, <1>3

-----------------------------------------------------------------------------
(* What is done stays done, and a task goes on behind it.                      *)

Onward ==
    /\ \A bundle : Told(bundle) => Told(bundle)'
    /\ Len(github) \in Nat /\ Len(github') \in Nat /\ Len(github) <= Len(github')
    /\ merged => merged'
    /\ Freed => Freed'

LEMMA PassedOnward ==
    ASSUME Onward, NEW t, Placed(t), Passed(t)
    PROVE  Passed(t)'
  <1>1. ASSUME NEW i \in 1 .. t.at - 1, t.job # "none"
        PROVE  Behind(t, i)'
    <2>1. Program(t.job)[i].do = "effect" => Program(t.job)[i].ordinal \in Nat
      <3>1. t.at \in DOMAIN Program(t.job) /\ t.at \in Nat /\ t.job \in {"run", "resume"}
        BY <1>1, Fields DEF Placed
      <3>2. i \in DOMAIN Program(t.job)
        BY <3>1, SliceFacts, ResumptionFacts DEF Program
      <3>3. \A k \in Effects : k \in Nat
        BY EffectOrder
      <3>4. Program(t.job)[i].do = "effect" => Program(t.job)[i].ordinal \in Effects
        <4>1. CASE t.job = "run"
          BY <3>2, <4>1, SliceFacts DEF Program
        <4>2. CASE t.job = "resume"
          BY <3>2, <4>2, ResumptionFacts DEF Program
        <4> QED BY <3>1, <4>1, <4>2
      <3> QED BY <3>3, <3>4
    <2> QED BY <1>1, <2>1 DEF Passed, Behind, Onward
  <1> QED BY <1>1 DEF Passed, Onward

LEMMA WarrantedOnward ==
    ASSUME Onward, NEW write, Warranted(write)
    PROVE  Warranted(write)'
  BY DEF Onward, Warranted

\* The other tasks are where they were.
LEMMA OnesOwnTurn ==
    ASSUME DeliveryInv, Onward, NEW w \in Workers, NEW t, t \in Tasks, Becomes(w, t), Passed(t)'
    PROVE  \A v \in Workers : Passed(task[v])'
  <1>1. task'[w] = t /\ \A v \in Workers : v # w => task'[v] = task[v]
    BY Others DEF DeliveryInv, SliceInv
  <1>2. ASSUME NEW v \in Workers
        PROVE  Passed(task[v])'
    <2>1. CASE v = w
      <3>1. Passed(task[w])' = Passed(t)'
        BY <1>1 DEF Passed, Behind
      <3> QED BY <2>1, <3>1
    <2>2. CASE v # w
      <3>1. Placed(task[v]) /\ Passed(task[v])
        BY DEF DeliveryInv, SliceInv, SliceTyped
      <3>2. \A u : u = task[v] => Passed(u)'
        BY <3>1, PassedOnward
      <3>3. \A u : task'[v] = u => (Passed(task[v])' <=> Passed(u)')
        BY DEF Passed, Behind
      <3> QED BY <1>1, <2>2, <3>2, <3>3
    <2> QED BY <2>1, <2>2
  <1> QED BY <1>2

\* A task that ends, or is at the same instruction with the same bundle.
Stays(w) == \E t \in Tasks :
    /\ Becomes(w, t)
    /\ t.job # "none" => /\ t.job = task[w].job /\ t.at = task[w].at
                         /\ t.bundle = task[w].bundle

LEMMA StayPasses ==
    ASSUME DeliveryInv, Onward, NEW w \in Workers, Stays(w)
    PROVE  \A v \in Workers : Passed(task[v])'
  <1>1. PICK t \in Tasks :
            /\ Becomes(w, t)
            /\ t.job # "none" => /\ t.job = task[w].job /\ t.at = task[w].at
                                 /\ t.bundle = task[w].bundle
    BY DEF Stays
  <1>2. PICK u : u = task[w]
    OBVIOUS
  <1>3. Placed(u) /\ Passed(u)
    BY <1>2 DEF DeliveryInv, SliceInv, SliceTyped
  <1>4. Passed(u)'
    BY <1>3, PassedOnward
  <1>5. Passed(t)'
    BY <1>1, <1>2, <1>4 DEF Passed, Behind
  <1> QED BY <1>1, <1>5, OnesOwnTurn

LEMMA StayingSteps ==
    ASSUME SliceInv, NEW w \in Workers,
           Throw(w) \/ End(w) \/ (\E step \in Steps : Goto(w, step))
    PROVE  Stays(w)
  <1>1. task[w] \in Tasks /\ "abandon" \in Steps
    BY Moves DEF SliceInv, Steps
  <1>2. Idle \in Tasks /\ Idle.job = "none"
    BY DEF Idle, Tasks, Steps
  <1>3. \A step \in Steps : Becomes(w, Stepped(task[w], step)) => Stays(w)
    BY <1>1, Fields DEF Stays
  <1>4. Becomes(w, Idle) => Stays(w)
    BY <1>2 DEF Stays
  <1> QED BY <1>1, <1>3, <1>4, Moves DEF SliceInv

\* A task that goes on to the next instruction has done this one.
Does(t) ==
    /\ Of(t).do = "effect" => Of(t).ordinal <= Len(github)
    /\ Submits(Of(t)) => Told(t.bundle)
    /\ t.job = "resume" /\ t.at = 2 => Freed

LEMMA AdvancedFacts ==
    ASSUME NEW t, Placed(t), t.job # "none"
    PROVE  /\ Advanced(t) \in Tasks
           /\ \/ Advanced(t).job = "none"
              \/ /\ Advanced(t).job = t.job /\ Advanced(t).at = t.at + 1
                 /\ Advanced(t).bundle = t.bundle
  <1>1. t \in Tasks /\ t.at \in Nat
    BY Fields DEF Placed
  <1>2. CASE t.at = Len(Program(t.job))
    <2>1. Advanced(t) = Idle
      BY <1>2 DEF Advanced
    <2> QED BY <2>1 DEF Idle, Tasks, Steps
  <1>3. CASE t.at # Len(Program(t.job))
    <2>1. PICK n \in Nat : n = t.at + 1
      BY <1>1
    <2>2. Advanced(t) = [t EXCEPT !.at = n, !.step = "start", !.seen = 0]
      BY <1>3, <2>1 DEF Advanced
    <2>3. \A u \in Tasks : LET v == [u EXCEPT !.at = n, !.step = "start", !.seen = 0] IN
             v \in Tasks /\ v.job = u.job /\ v.at = n /\ v.bundle = u.bundle
      BY DEF Tasks, Steps
    <2> QED BY <1>1, <2>1, <2>2, <2>3
  <1> QED BY <1>2, <1>3

LEMMA AdvancePasses ==
    ASSUME DeliveryInv, Onward, NEW w \in Workers, task[w].job # "none", Advance(w),
           NEW u, u = task[w], Does(u)'
    PROVE  \A v \in Workers : Passed(task[v])'
  <1>1. Placed(u) /\ Passed(u) /\ Becomes(w, Advanced(u))
    BY Moves DEF DeliveryInv, SliceInv, SliceTyped
  <1>2. PICK t : t = Advanced(u)
    OBVIOUS
  <1>3. t \in Tasks /\ Becomes(w, t)
        /\ \/ t.job = "none"
           \/ t.job = u.job /\ t.at = u.at + 1 /\ t.bundle = u.bundle
    BY <1>1, <1>2, AdvancedFacts
  <1>4. Passed(u)'
    BY <1>1, PassedOnward
  <1>5. Passed(t)'
    <2>1. SUFFICES ASSUME t.job = u.job, t.at = u.at + 1, t.bundle = u.bundle
                   PROVE  Passed(t)'
      BY <1>3 DEF Passed
    <2>2. u.at \in Nat /\ u.at >= 1
      BY <1>1, TaskFacts
    <2>3. ASSUME NEW i \in 1 .. t.at - 1
          PROVE  Behind(t, i)'
      <3>1. CASE i = u.at
        BY <2>1, <3>1 DEF Behind, Does, Of
      <3>2. CASE i # u.at
        <4>1. i \in 1 .. u.at - 1
          BY <2>1, <2>2, <2>3, <3>2
        <4> QED BY <1>4, <2>1, <4>1 DEF Passed, Behind
      <3> QED BY <3>1, <3>2
    <2>4. t.job = "resume" => (merged /\ Told(t.bundle) /\ (t.at >= 3 => Freed))'
      BY <1>4, <2>1, <2>2 DEF Passed, Does
    <2> QED BY <2>3, <2>4 DEF Passed
  <1> QED BY <1>3, <1>5, OnesOwnTurn

-----------------------------------------------------------------------------
(* What is shown of the delivery, and its steps                                *)

Accepted == \E i \in DOMAIN kernel : kernel[i].event = "outcome-accepted"

Row(p, n) == [i \in 1 .. n |-> p]
View(p, n, m, f, a) == [patch |-> p, written |-> Row(p, n),
                        merged |-> m, freed |-> f, accepted |-> a]

LEMMA Elements ==
    ASSUME NEW S, NEW s \in Seq(S), NEW i \in 1 .. Len(s)
    PROVE  s[i] \in S
  OBVIOUS

SubmittedKnown ==
    /\ \A bundle \in Bundles : Told(bundle) => SubmittedPatch = PatchOf[bundle]
    /\ (\A bundle \in Bundles : ~ Told(bundle)) => SubmittedPatch = None

LEMMA SubmittedIs == KernelOrdered => SubmittedKnown
  <1> SUFFICES ASSUME KernelOrdered PROVE SubmittedKnown
    OBVIOUS
  <1> DEFINE done == {i \in DOMAIN kernel : kernel[i].event = "work-submitted"}
  <1>1. SubmittedPatch = IF done = {} THEN None ELSE kernel[CHOOSE i \in done : TRUE].evidence
    BY DEF SubmittedPatch
  <1>2. \A i, j \in done : i = j
    BY DEF KernelOrdered, InPlace
  <1>3. ASSUME NEW i \in done
        PROVE  /\ SubmittedPatch = kernel[i].evidence
               /\ \E bundle \in Bundles : Told(bundle)
    <2>1. (CHOOSE j \in done : TRUE) = i
      BY <1>2
    <2>2. kernel[i] \in Transitions
      BY DEF KernelOrdered
    <2>3. PICK bundle \in Bundles : kernel[i].evidence = PatchOf[bundle]
      BY DEF KernelOrdered, InPlace
    <2>4. kernel[i] = [event |-> "work-submitted", evidence |-> PatchOf[bundle]]
      BY <2>2, <2>3 DEF Transitions
    <2> QED BY <1>1, <2>1, <2>4 DEF Told
  <1>4. ASSUME NEW bundle \in Bundles, Told(bundle)
        PROVE  SubmittedPatch = PatchOf[bundle]
    <2>1. PICK i \in DOMAIN kernel :
              kernel[i] = [event |-> "work-submitted", evidence |-> PatchOf[bundle]]
      BY <1>4 DEF Told
    <2>2. i \in done /\ kernel[i].evidence = PatchOf[bundle]
      BY <2>1
    <2> QED BY <1>3, <2>2
  <1>5. ASSUME \A bundle \in Bundles : ~ Told(bundle)
        PROVE  SubmittedPatch = None
    BY <1>1, <1>3, <1>5
  <1> QED BY <1>4, <1>5 DEF SubmittedKnown

LEMMA SubmittedNext == KernelOrdered' => SubmittedKnown'
  BY SubmittedIs, PTL

\* What stands at GitHub is of the patch that was submitted.
ShownKnown ==
    /\ Shown = View(SubmittedPatch, Len(github), merged, Freed, Accepted)
    /\ Len(github) \in 0 .. Cardinality(Effects)

LEMMA ShownIs == DeliveryInv => ShownKnown
  <1> SUFFICES ASSUME DeliveryInv PROVE ShownKnown
    OBVIOUS
  <1>1. /\ github \in Seq([ordinal : Effects, plan : Bundles \cup {None}])
        /\ Len(github) \in Nat /\ DOMAIN github = 1 .. Len(github)
    BY DEF DeliveryInv, SliceInv, SliceTyped
  <1>2. ASSUME NEW i \in 1 .. Len(github)
        PROVE  /\ github[i].ordinal = i /\ i \in Effects
               /\ i # 1 => PatchOf[github[i].plan] = SubmittedPatch
    <2>1. github[i].ordinal = i /\ Warranted(github[i]) /\ KernelOrdered
      BY <1>1 DEF DeliveryInv, Ordered, GitHubOrdered
    <2>2. github[i] \in [ordinal : Effects, plan : Bundles \cup {None}]
      BY <1>1, Elements
    <2>3. i \in Effects
      BY <2>1, <2>2
    <2>4. PICK bundle \in Bundles : Told(bundle) /\ (i # 1 => github[i].plan = bundle)
      BY <2>1 DEF Warranted
    <2>5. SubmittedPatch = PatchOf[bundle]
      BY <2>1, <2>4, SubmittedIs DEF SubmittedKnown
    <2> QED BY <2>1, <2>3, <2>4, <2>5
  <1>3. [i \in DOMAIN github |-> IF github[i].ordinal # i THEN None
            ELSE IF i = 1 THEN SubmittedPatch ELSE PatchOf[github[i].plan]]
         = [i \in 1 .. Len(github) |-> SubmittedPatch]
    BY <1>1, <1>2
  <1>4. Len(github) \in 0 .. Cardinality(Effects)
    <2>1. CASE Len(github) = 0
      BY <2>1, EffectOrder
    <2>2. CASE Len(github) # 0
      <3>1. Len(github) \in 1 .. Len(github)
        BY <1>1, <2>2
      <3>2. Len(github) \in Effects
        BY <1>2, <3>1
      <3> QED BY <3>2, EffectOrder
    <2> QED BY <2>1, <2>2
  <1>5. Shown = View(SubmittedPatch, Len(github), merged, Freed, Accepted)
    BY <1>3, Zenon DEF Shown, View, Row, Freed, Accepted
  <1> QED BY <1>4, <1>5 DEF ShownKnown

LEMMA ShownNext == DeliveryInv' => ShownKnown'
  BY ShownIs, PTL

LEMMA ViewChanges ==
    \A p, n, m, f, a, x :
        /\ [View(p, 0, m, f, a) EXCEPT !.patch = x] = View(x, 0, m, f, a)
        /\ [View(p, n, m, f, a) EXCEPT !.merged = x] = View(p, n, x, f, a)
        /\ [View(p, n, m, f, a) EXCEPT !.freed = x] = View(p, n, m, x, a)
        /\ [View(p, n, m, f, a) EXCEPT !.accepted = x] = View(p, n, m, f, x)
  <1> TAKE p, n, m, f, a, x
  <1>1. Row(p, 0) = Row(x, 0)
    BY DEF Row
  <1> QED BY <1>1 DEF View

LEMMA ViewGrows ==
    \A p, m, f, a, row : \A n \in Nat :
        row = Append(Row(p, n), p) =>
            [View(p, n, m, f, a) EXCEPT !.written = row] = View(p, n + 1, m, f, a)
  <1> TAKE p, m, f, a, row
  <1> TAKE n \in Nat
  <1>1. Append(Row(p, n), p) = Row(p, n + 1)
    BY DEF Row
  <1>2. row = Row(p, n + 1) =>
            [View(p, n, m, f, a) EXCEPT !.written = row] = View(p, n + 1, m, f, a)
    BY DEF View
  <1> QED BY <1>1, <1>2, Zenon

LEMMA ViewParts ==
    \A p, m, f, a : \A n \in Nat :
        /\ View(p, n, m, f, a).patch = p /\ View(p, n, m, f, a).written = Row(p, n)
        /\ View(p, n, m, f, a).merged = m /\ View(p, n, m, f, a).freed = f
        /\ Len(Row(p, n)) = n
  <1> TAKE p, m, f, a
  <1> TAKE n \in Nat
  <1>1. Len(Row(p, n)) = n
    BY DEF Row
  <1> QED BY <1>1 DEF View

\* The steps of the delivery, in terms of what is shown.
LEMMA ViewSteps ==
    ASSUME NEW p, NEW n \in Nat, NEW m, NEW f, NEW a, Shown = View(p, n, m, f, a)
    PROVE  /\ \A q \in Patches : p = None /\ n = 0 /\ Shown' = View(q, 0, m, f, a)
                 => Delivery!Submit(q)
           /\ /\ p # None /\ n < Cardinality(Effects) /\ (n >= SliceEffectCount => m /\ f)
              /\ Shown' = View(p, n + 1, m, f, a)
              => Delivery!Write
           /\ n = SliceEffectCount /\ Shown' = View(p, n, TRUE, f, a) => Delivery!Merge
           /\ ~ f /\ Shown' = View(p, n, m, TRUE, a) => Delivery!Free
           /\ n = Cardinality(Effects) /\ Shown' = View(p, n, m, f, TRUE) => Delivery!Accept
  <1>1. /\ Shown.patch = p /\ Shown.written = Row(p, n) /\ Len(Shown.written) = n
        /\ Shown.merged = m /\ Shown.freed = f
    BY ViewParts
  <1>2. ASSUME NEW q \in Patches, p = None, n = 0, Shown' = View(q, 0, m, f, a)
        PROVE  Delivery!Submit(q)
    <2>1. Shown' = [Shown EXCEPT !.patch = q]
      <3>1. [View(p, 0, m, f, a) EXCEPT !.patch = q] = View(q, 0, m, f, a)
        BY ViewChanges
      <3> QED BY <1>2, <3>1, Zenon
    <2> QED BY <1>1, <1>2, <2>1, Zenon DEF Delivery!Submit
  <1>3. ASSUME p # None, n < Cardinality(Effects), n >= SliceEffectCount => m /\ f,
               Shown' = View(p, n + 1, m, f, a)
        PROVE  Delivery!Write
    <2>1. Shown' = [Shown EXCEPT !.written = Append(Row(p, n), p)]
      <3>1. PICK row : row = Append(Row(p, n), p)
        OBVIOUS
      <3>2. [View(p, n, m, f, a) EXCEPT !.written = row] = View(p, n + 1, m, f, a)
        BY <3>1, ViewGrows
      <3> QED BY <1>3, <3>1, <3>2, Zenon
    <2>2. Shown' = [Shown EXCEPT !.written = Append(@, Shown.patch)]
      BY <1>1, <2>1, Zenon
    <2> QED BY <1>1, <1>3, <2>2, Zenon DEF Delivery!Write
  <1>4. ASSUME n = SliceEffectCount, Shown' = View(p, n, TRUE, f, a)
        PROVE  Delivery!Merge
    <2>1. Shown' = [Shown EXCEPT !.merged = TRUE]
      <3>1. \A x : [View(p, n, m, f, a) EXCEPT !.merged = x] = View(p, n, x, f, a)
        BY ViewChanges
      <3> QED BY <1>4, <3>1, Zenon
    <2> QED BY <1>1, <1>4, <2>1, Zenon DEF Delivery!Merge
  <1>5. ASSUME ~ f, Shown' = View(p, n, m, TRUE, a)
        PROVE  Delivery!Free
    <2>1. Shown' = [Shown EXCEPT !.freed = TRUE]
      <3>1. \A x : [View(p, n, m, f, a) EXCEPT !.freed = x] = View(p, n, m, x, a)
        BY ViewChanges
      <3> QED BY <1>5, <3>1, Zenon
    <2> QED BY <1>1, <1>5, <2>1, Zenon DEF Delivery!Free
  <1>6. ASSUME n = Cardinality(Effects), Shown' = View(p, n, m, f, TRUE)
        PROVE  Delivery!Accept
    <2>1. Shown' = [Shown EXCEPT !.accepted = TRUE]
      <3>1. \A x : [View(p, n, m, f, a) EXCEPT !.accepted = x] = View(p, n, m, f, x)
        BY ViewChanges
      <3> QED BY <1>6, <3>1, Zenon
    <2> QED BY <1>1, <1>6, <2>1, Zenon DEF Delivery!Accept
  <1> QED BY <1>2, <1>3, <1>4, <1>5, <1>6

\* What a step is to the delivery: nothing, or a step of its own.
Delivers == Shown' = Shown \/ Delivery!Next

LEMMA SomeBundle ==
    ASSUME KernelOrdered, NEW bundle \in Bundles, Told(bundle)
    PROVE  SubmittedPatch \in Patches /\ SubmittedPatch # None
  BY SubmittedIs, BundleAssumption DEF SubmittedKnown

-----------------------------------------------------------------------------
(* Steps that leave alone what is shown                                        *)

StoresKept == UNCHANGED <<kernel, account, awaiting, releases, github, flight, merged>>

LEMMA StoresStay ==
    ASSUME DeliveryInv, StoresKept
    PROVE  Onward /\ Ordered' /\ Delivers
  <1>1. /\ kernel' = kernel /\ account' = account /\ awaiting' = awaiting
        /\ releases' = releases /\ github' = github /\ flight' = flight /\ merged' = merged
    BY DEF StoresKept
  <1>2. Len(github) \in Nat
    BY DEF DeliveryInv, SliceInv, SliceTyped
  <1>3. Onward
    BY <1>1, <1>2 DEF Onward, Told, Freed
  <1>4. Ordered'
    <2>1. Ordered
      BY DEF DeliveryInv
    <2> QED BY <1>1, <2>1 DEF Ordered, KernelOrdered, Booked, GitHubOrdered, Checkpointed,
               Warranted, Told, Freed
  <1>5. SubmittedPatch' = SubmittedPatch
    BY <1>1 DEF SubmittedPatch
  <1>6. Shown' = Shown
    BY <1>1, <1>5, Zenon DEF Shown
  <1> QED BY <1>3, <1>4, <1>6 DEF Delivers

\* The whole of what has to be shown of a step.
Kept == Ordered' /\ (\A v \in Workers : Passed(task[v])') /\ Delivers

LEMMA StayKeeps ==
    ASSUME DeliveryInv, StoresKept, NEW w \in Workers, Stays(w)
    PROVE  Kept
  BY StoresStay, StayPasses DEF Kept

LEMMA AdvanceKeeps ==
    ASSUME DeliveryInv, StoresKept, NEW w \in Workers, task[w].job # "none", Advance(w),
           Does(task[w])
    PROVE  Kept
  <1>1. PICK u : u = task[w]
    OBVIOUS
  <1>2. Does(u)'
    BY <1>1 DEF Does, StoresKept, Told, Freed
  <1> QED BY <1>1, <1>2, StoresStay, AdvancePasses DEF Kept

\* A task that begins, calls the model or goes on from a checkpoint of the release.
LEMMA BeginKeeps ==
    ASSUME DeliveryInv, StoresKept, NEW w \in Workers, NEW t \in Tasks, Becomes(w, t), Passed(t)
    PROVE  Kept
  <1>1. Passed(t)'
    BY DEF Passed, Behind, StoresKept, Told, Freed
  <1> QED BY <1>1, StoresStay, OnesOwnTurn DEF Kept

LEMMA StartRunTask ==
    ASSUME DeliveryInv, NEW w \in Workers, task[w].job = "none",
           task' = [task EXCEPT ![w].job = "run"]
    PROVE  \E t \in Tasks : Becomes(w, t) /\ t.job = "run" /\ t.at = 1
  <1> DEFINE t == [task[w] EXCEPT !.job = "run"]
  <1>1. task[w] = Idle /\ Becomes(w, t)
    BY Moves DEF DeliveryInv, SliceInv, SliceTyped, Placed, Becomes
  <1>2. t = [job |-> "run", at |-> 1, step |-> "start", bundle |-> None,
             awaits |-> 0, seen |-> 0, doc |-> 0]
    BY <1>1 DEF Idle
  <1> HIDE DEF t
  <1>3. t \in Tasks /\ t.job = "run" /\ t.at = 1
    BY <1>2 DEF Tasks, Steps
  <1> QED BY <1>1, <1>3

\* Throwing, ending and moving on within an instruction.
LEMMA QuietKeeps ==
    ASSUME DeliveryInv, NEW w \in Workers,
           \/ RefuseTransition(w) \/ RefuseHold(w) \/ RefuseSettlement(w) \/ LoseEvidence(w)
           \/ Excuse(w) \/ Fail(w) \/ Die(w)
    PROVE  Kept
  <1>1. StoresKept
    BY DEF RefuseTransition, RefuseHold, RefuseSettlement, LoseEvidence, Excuse, Fail, Die,
           StoresKept, stores, costs, world
  <1>2. Throw(w) \/ End(w) \/ (\E step \in Steps : Goto(w, step))
    BY DEF RefuseTransition, RefuseHold, RefuseSettlement, LoseEvidence, Excuse, Fail, Die, Steps
  <1>3. Stays(w)
    BY <1>2, StayingSteps DEF DeliveryInv
  <1> QED BY <1>1, <1>3, StayKeeps

\* An effect that stands has its place at GitHub.
LEMMA StandingIsDone ==
    ASSUME DeliveryInv, NEW w \in Workers, task[w].job # "none", Of(task[w]).do = "effect",
           Stands(Of(task[w]).ordinal, PlanOf(task[w]))
    PROVE  Does(task[w])
  <1>1. PICK t, k : t = task[w] /\ k = Of(task[w]).ordinal
    OBVIOUS
  <1>2. Placed(t) /\ t.job # "none" /\ Of(t).do = "effect"
    BY <1>1 DEF DeliveryInv, SliceInv, SliceTyped
  <1>3. PICK i \in DOMAIN github : github[i] = [ordinal |-> k, plan |-> PlanOf(task[w])]
    BY <1>1 DEF Stands
  <1>4. github[i].ordinal = i /\ DOMAIN github = 1 .. Len(github)
    BY DEF DeliveryInv, Ordered, GitHubOrdered, SliceInv, SliceTyped
  <1>5. k <= Len(github)
    BY <1>3, <1>4
  <1>6. ~ Submits(Of(t))
    BY <1>2 DEF Submits, Requesting
  <1>7. ~ (t.job = "resume" /\ t.at = 2)
    BY <1>2, BeforeEffect
  <1> QED BY <1>1, <1>5, <1>6, <1>7 DEF Does

LEMMA SeeingStays ==
    ASSUME SliceInv, NEW w \in Workers, NEW step \in Steps, NEW seen \in Nat,
           task' = [task EXCEPT ![w].step = step, ![w].seen = seen]
    PROVE  Stays(w)
  <1>1. task[w] \in Tasks
    BY Moves DEF SliceInv
  <1>2. PICK t : t = Seeing(task[w], step, seen)
    OBVIOUS
  <1>3. Becomes(w, t)
    BY <1>2 DEF Becomes, Seeing, SliceInv, SliceTyped
  <1>4. t \in Tasks /\ t.job = task[w].job /\ t.at = task[w].at /\ t.bundle = task[w].bundle
    BY <1>1, <1>2 DEF Seeing, Tasks
  <1> QED BY <1>3, <1>4 DEF Stays

LEMMA EffectStepsKeep ==
    ASSUME DeliveryInv, NEW w \in Workers,
           ReadEvidence(w) \/ Claim(w) \/ Reconcile(w) \/ Complete(w)
    PROVE  Kept
  <1>1. StoresKept
    BY DEF ReadEvidence, Claim, Reconcile, Complete, StoresKept, stores, costs, world
  <1>2. task[w].job # "none" /\ Of(task[w]).do = "effect"
    BY Reads DEF ReadEvidence, Claim, Reconcile, Complete
  <1>3. SliceInv
    BY DEF DeliveryInv
  <1>4. task[w].seen \in Nat /\ Len(States(w)) \in Nat
    BY <1>2, <1>3, AtEffect, Reads
  <1>5. CASE Throw(w) \/ \E step \in Steps : Goto(w, step)
    BY <1>1, <1>3, <1>5, StayingSteps, StayKeeps
  <1>6. CASE Advance(w) /\ Stands(K(w), Plan(w))
    BY <1>1, <1>2, <1>6, Reads, StandingIsDone, AdvanceKeeps
  <1>7. CASE \E step \in Steps : See(w, step)
    BY <1>1, <1>3, <1>4, <1>7, SeeingStays, StayKeeps DEF See
  <1>8. CASE Claim(w)
    <2>1. CASE task' = [task EXCEPT ![w].step = "write", ![w].seen = @ + 1]
      <3>1. PICK seen \in Nat : seen = task[w].seen + 1
        BY <1>4
      <3>2. task' = [task EXCEPT ![w].step = "write", ![w].seen = seen]
        BY <2>1, <3>1, <1>3 DEF SliceInv, SliceTyped
      <3> QED BY <1>1, <1>3, <3>2, SeeingStays, StayKeeps DEF Steps
    <2> QED BY <1>5, <1>8, <2>1 DEF Claim
  <1>9. CASE ReadEvidence(w)
    BY <1>5, <1>6, <1>7, <1>9 DEF ReadEvidence, Replays, Steps
  <1>10. CASE Reconcile(w)
    <2>1. Stands(K(w), Plan(w))
      BY <1>2, <1>3, <1>10, Reads, AtEffect DEF Reconcile, Entitled
    <2> QED BY <1>5, <1>6, <1>10, <2>1 DEF Reconcile
  <1>11. CASE Complete(w)
    BY <1>5, <1>6, <1>11 DEF Complete, Steps
  <1> QED BY <1>8, <1>9, <1>10, <1>11

\* A call that makes something is before the submission, so nothing told of is replaced.
LEMMA InvokeStays ==
    ASSUME DeliveryInv, NEW w \in Workers, Invoke(w)
    PROVE  Kept
  <1> DEFINE Called(u, b) == [u EXCEPT !.step = "called", !.bundle = b]
  <1>1. PICK u : u = task[w]
    OBVIOUS
  <1>2. /\ u \in Tasks /\ Placed(u) /\ Passed(u) /\ u.job # "none" /\ Of(u).do = "call"
        /\ This(w) = Of(u)
    BY <1>1, Reads, Moves DEF DeliveryInv, SliceInv, Invoke
  <1>3. PICK b \in IF Of(u).makes THEN Bundles ELSE {u.bundle} :
            task' = [task EXCEPT ![w].step = "called", ![w].bundle = b]
    BY <1>1, <1>2 DEF Invoke
  <1>4. PICK t : t = Called(u, b)
    OBVIOUS
  <1>5. Becomes(w, t) /\ StoresKept
    BY <1>1, <1>3, <1>4 DEF Becomes, Invoke, StoresKept, world, stores, costs,
       DeliveryInv, SliceInv, SliceTyped
  <1>6. b \in Bundles \cup {None}
    BY <1>2, <1>3, Fields
  <1>7. \A v \in Tasks : /\ Called(v, b) \in Tasks /\ Called(v, b).job = v.job
                         /\ Called(v, b).at = v.at /\ Called(v, b).bundle = b
    BY <1>6 DEF Tasks, Steps
  <1> HIDE DEF Called
  <1>8. t \in Tasks /\ t.job = u.job /\ t.at = u.at /\ t.bundle = b
    BY <1>2, <1>4, <1>7
  <1>9. u.job = "run"
    BY <1>2, TaskFacts
  <1>10. ASSUME NEW i \in 1 .. u.at - 1
         PROVE  Behind(t, i)
    <2>1. Behind(u, i)
      BY <1>2 DEF Passed
    <2>2. CASE Makes(Of(u))
      <3>1. ~ Submits(Program(u.job)[i])
        BY <1>2, <2>2, AroundSubmission
      <3> QED BY <1>8, <2>1, <3>1 DEF Behind
    <2>3. CASE ~ Makes(Of(u))
      <3>1. b = u.bundle
        BY <1>2, <1>3, <2>3 DEF Makes
      <3> QED BY <1>8, <2>1, <3>1 DEF Behind
    <2> QED BY <2>2, <2>3
  <1>11. Passed(t)
    BY <1>8, <1>9, <1>10 DEF Passed
  <1> QED BY <1>5, <1>8, <1>11, BeginKeeps

\* What is resumed has been parked, and what has been parked was told.
LEMMA StartResumeKeeps ==
    ASSUME DeliveryInv, NEW w \in Workers, StartResume(w)
    PROVE  Kept
  <1> DEFINE Resumed(a, b) == [Idle EXCEPT !.job = "resume", !.awaits = a, !.bundle = b]
             t == Resumed(Len(awaiting), awaiting[Len(awaiting)])
  <1>1. Becomes(w, t) /\ StoresKept /\ merged
    BY DEF StartResume, Becomes, StoresKept, world, stores, costs
  <1>2. Len(awaiting) \in DOMAIN awaiting /\ awaiting[Len(awaiting)] \in Bundles
        /\ Len(awaiting) \in Nat
    <2>1. awaiting \in Seq(Bundles) /\ awaiting # <<>>
      BY <1>1 DEF DeliveryInv, SliceInv, SliceTyped
    <2> QED BY <2>1
  <1>3. \A a \in Nat, b \in Bundles :
           /\ Resumed(a, b) \in Tasks /\ Resumed(a, b).job = "resume"
           /\ Resumed(a, b).at = 1 /\ Resumed(a, b).bundle = b
    BY DEF Idle, Tasks, Steps
  <1> HIDE DEF Resumed
  <1>4. /\ t \in Tasks /\ t.job = "resume" /\ t.at = 1
        /\ t.bundle = awaiting[Len(awaiting)]
    BY <1>2, <1>3
  <1> HIDE DEF t
  <1>5. Told(t.bundle)
    BY <1>2, <1>4 DEF DeliveryInv, Ordered, Checkpointed
  <1>6. Passed(t)
    BY <1>1, <1>4, <1>5 DEF Passed
  <1> QED BY <1>1, <1>4, <1>6, BeginKeeps

\* A checkpoint that says the release is done is believed, and it is true.
LEMMA ReadReleaseStays ==
    ASSUME DeliveryInv, NEW w \in Workers, ReadRelease(w)
    PROVE  Kept
  <1>1. PICK u : u = task[w]
    OBVIOUS
  <1>2. /\ u \in Tasks /\ Placed(u) /\ Passed(u) /\ u.job = "resume"
        /\ Program(u.job) = Resumption
    BY <1>1, Reads, Moves, TaskFacts DEF DeliveryInv, SliceInv, ReadRelease, Program
  <1>3. StoresKept
    BY DEF ReadRelease, StoresKept, world, stores, costs
  <1>4. CASE Throw(w) \/ Goto(w, "put")
    <2>1. Stays(w)
      BY <1>4, StayingSteps DEF DeliveryInv, Steps
    <2> QED BY <1>3, <2>1, StayKeeps
  <1>5. ASSUME NEW to \in {2, 4}, NEW doc \in Nat, Jump(w, to, doc), to = 4 => Freed
        PROVE  Kept
    <2> DEFINE Jumped(v) == [v EXCEPT !.at = to, !.doc = doc, !.step = "start"]
    <2>1. PICK t : t = Jumped(u)
      OBVIOUS
    <2>2. Becomes(w, t)
      BY <1>1, <1>5, <2>1 DEF Jump, Becomes, DeliveryInv, SliceInv, SliceTyped
    <2>3. \A v \in Tasks : /\ Jumped(v) \in Tasks /\ Jumped(v).at = to /\ Jumped(v).job = v.job
                           /\ Jumped(v).bundle = v.bundle
      <3>1. to \in Nat
        BY <1>5
      <3> QED BY <1>5, <3>1 DEF Tasks, Steps
    <2> HIDE DEF Jumped
    <2>4. t \in Tasks /\ t.at = to /\ t.job = "resume" /\ t.bundle = u.bundle
      BY <1>2, <2>1, <2>3
    <2>5. ASSUME NEW i \in 1 .. to - 1 PROVE Behind(t, i)
      <3>1. i \in {1, 2, 3}
        BY <1>5
      <3>2. Resumption[i].do \in {"pend", "release", "note"}
        BY <3>1, ResumptionFacts
      <3> QED BY <1>2, <2>4, <3>2 DEF Behind, Submits, Requesting
    <2>6. Passed(t)
      BY <1>2, <1>5, <2>4, <2>5 DEF Passed
    <2> QED BY <1>3, <2>2, <2>4, <2>6, BeginKeeps
  <1>6. \/ Throw(w) \/ Goto(w, "put")
        \/ \E to \in {2, 4}, doc \in Nat : Jump(w, to, doc) /\ (to = 4 => Freed)
    <2>1. Len(releases) \in Nat /\ DOMAIN releases = 1 .. Len(releases)
      BY DEF DeliveryInv, SliceInv, SliceTyped
    <2>2. LastRelease.freed /\ releases # <<>> => Freed
      <3>1. releases # <<>> => Len(releases) \in DOMAIN releases
        BY DEF DeliveryInv, SliceInv, SliceTyped
      <3> QED BY <3>1 DEF LastRelease, DeliveryInv, Ordered, Checkpointed
    <2> QED BY <2>1, <2>2 DEF ReadRelease
  <1> QED BY <1>4, <1>5, <1>6

-----------------------------------------------------------------------------
(* The accounts                                                                *)

\* However the account of the work item moves, what was given back stays so.
LEMMA AccountsMove ==
    ASSUME Booked,
           \/ Reserve(Work) \/ Release(Work)
           \/ (\E phase \in Phase : Hold(Work, phase)) \/ (\E cost : Settle(Work, cost))
    PROVE  Booked' /\ (Freed => Freed')
  <1>1. Work \in Reservations /\ account[Work] \in Accounts
    BY BundleAssumption DEF Booked
  <1>2. ASSUME NEW a \in Accounts, account' = [account EXCEPT ![Work] = a]
        PROVE  Booked' /\ (Freed' <=> a.stage = "released")
    BY <1>1, <1>2 DEF Booked, Freed
  <1>3. \A a \in Accounts :
           /\ [a EXCEPT !.stage = "open"] \in Accounts
           /\ [a EXCEPT !.stage = "released"] \in Accounts
           /\ [a EXCEPT !.stage = "released"].stage = "released"
           /\ \A phase \in Phase : [a EXCEPT !.held = {phase}] \in Accounts
    BY DEF Accounts
  <1>4. CASE Reserve(Work)
    <2>1. account' = [account EXCEPT ![Work] = [account[Work] EXCEPT !.stage = "open"]]
      BY <1>4 DEF Reserve, Booked
    <2>2. account[Work].stage = "none"
      BY <1>1, <1>4 DEF Reserve
    <2> QED BY <1>1, <1>2, <1>3, <2>1, <2>2 DEF Freed
  <1>5. CASE Release(Work)
    <2>1. account' = [account EXCEPT ![Work] = [account[Work] EXCEPT !.stage = "released"]]
      BY <1>5 DEF Release, Booked
    <2> QED BY <1>1, <1>2, <1>3, <2>1
  <1>6. ASSUME NEW phase \in Phase, Hold(Work, phase)
        PROVE  Booked' /\ (Freed => Freed')
    <2>1. account' = [account EXCEPT ![Work] = [account[Work] EXCEPT !.held = {phase}]]
      BY <1>6 DEF Hold, Booked
    <2>2. account[Work].stage = "open"
      BY <1>6 DEF Hold
    <2> QED BY <1>1, <1>2, <1>3, <2>1, <2>2 DEF Freed
  <1>7. ASSUME NEW cost, Settle(Work, cost)
        PROVE  Booked' /\ (Freed => Freed')
    <2>1. /\ account[Work].stage = "open" /\ cost \in Nat
          /\ account' = [account EXCEPT ![Work] = [stage |-> "open", held |-> {},
                             spent |-> Append(account[Work].spent, cost)]]
      BY <1>7 DEF Settle
    <2>2. account[Work].spent \in Seq(Nat)
      BY <1>1 DEF Accounts
    <2>3. Append(account[Work].spent, cost) \in Seq(Nat)
      BY <2>1, <2>2
    <2>4. [stage |-> "open", held |-> {}, spent |-> Append(account[Work].spent, cost)] \in Accounts
      BY <2>3 DEF Accounts
    <2> QED BY <1>2, <2>1, <2>4 DEF Freed
  <1> QED BY <1>4, <1>5, <1>6, <1>7

LEMMA ViewedNext ==
    ASSUME DeliveryInv'
    PROVE  /\ Shown' = View(SubmittedPatch', Len(github'), merged', Freed', Accepted')
           /\ Len(github') \in 0 .. Cardinality(Effects)
  <1>1. ShownKnown'
    BY ShownNext
  <1> QED BY <1>1, Zenon DEF ShownKnown

\* What becomes of the costs shows only when they come back.
CostsMove == /\ UNCHANGED <<kernel, awaiting, releases, github, flight, merged>>
             /\ Booked' /\ (Freed => Freed')

LEMMA CostsOnward ==
    ASSUME DeliveryInv, CostsMove
    PROVE  Onward /\ Ordered'
  <1>1. /\ kernel' = kernel /\ awaiting' = awaiting /\ releases' = releases
        /\ github' = github /\ flight' = flight /\ merged' = merged
    BY DEF CostsMove
  <1>2. Len(github) \in Nat
    BY DEF DeliveryInv, SliceInv, SliceTyped
  <1>3. Onward
    BY <1>1, <1>2 DEF Onward, Told, CostsMove
  <1>4. KernelOrdered' /\ Booked'
    BY <1>1 DEF DeliveryInv, Ordered, KernelOrdered, CostsMove
  <1>5. GitHubOrdered'
    BY <1>1, <1>3, WarrantedOnward DEF DeliveryInv, Ordered, GitHubOrdered
  <1>6. Checkpointed'
    BY <1>1, <1>3 DEF DeliveryInv, Ordered, Checkpointed, Onward
  <1> QED BY <1>3, <1>4, <1>5, <1>6 DEF Ordered

LEMMA CostsDeliver ==
    ASSUME DeliveryInv, CostsMove
    PROVE  Delivers
  <1>1. /\ kernel' = kernel /\ github' = github /\ merged' = merged
    BY DEF CostsMove
  <1>2. SubmittedPatch' = SubmittedPatch
    BY <1>1 DEF SubmittedPatch
  <1>3. CASE Freed' <=> Freed
    <2>1. (account[Work].stage = "released")' = (account[Work].stage = "released")
      BY <1>3, Zenon DEF Freed
    <2>2. Shown' = Shown
      BY <1>1, <1>2, <2>1, Zenon DEF Shown
    <2> QED BY <2>2 DEF Delivers
  <1>4. CASE ~ Freed /\ Freed'
    <2>1. (account[Work].stage = "released")' = TRUE /\ ~ Shown.freed
      <3>1. (account[Work].stage = "released")' = TRUE
        BY <1>4, Zenon DEF Freed
      <3>2. ~ Shown.freed
        BY <1>4, Zenon DEF Freed, Shown
      <3> QED BY <3>1, <3>2
    <2>2. Shown' = [Shown EXCEPT !.freed = TRUE]
      <3>1. PICK p, r, m, f, a : /\ p = Shown.patch /\ r = Shown.written /\ m = Shown.merged
                                 /\ f = Shown.freed /\ a = Shown.accepted
        OBVIOUS
      <3>2. Shown = [patch |-> p, written |-> r, merged |-> m, freed |-> f, accepted |-> a]
        BY <3>1, Zenon DEF Shown
      <3>3. \A x : [[patch |-> p, written |-> r, merged |-> m, freed |-> f, accepted |-> a]
                     EXCEPT !.freed = x]
               = [patch |-> p, written |-> r, merged |-> m, freed |-> x, accepted |-> a]
        OBVIOUS
      <3>4. Shown' = [patch |-> p, written |-> r, merged |-> m, freed |-> TRUE, accepted |-> a]
        BY <1>1, <1>2, <2>1, <3>1, Zenon DEF Shown
      <3> QED BY <3>2, <3>3, <3>4, Zenon
    <2> QED BY <2>1, <2>2, Zenon DEF Delivers, Delivery!Next, Delivery!Free
  <1> QED BY <1>3, <1>4 DEF CostsMove

LEMMA CostsCome ==
    ASSUME DeliveryInv, UNCHANGED <<kernel, awaiting, releases, github, flight, merged>>,
           \/ UNCHANGED costs \/ Reserve(Work) \/ Release(Work)
           \/ (\E phase \in Phase : Hold(Work, phase)) \/ (\E cost : Settle(Work, cost))
    PROVE  CostsMove /\ Onward /\ Ordered' /\ Delivers
  <1>1. Booked' /\ (Freed => Freed')
    <2>1. CASE UNCHANGED costs
      BY <2>1 DEF costs, Booked, Freed, DeliveryInv, Ordered
    <2> QED BY <2>1, AccountsMove DEF DeliveryInv, Ordered
  <1>2. CostsMove
    BY <1>1 DEF CostsMove
  <1> QED BY <1>2, CostsOnward, CostsDeliver

LEMMA CallPhase ==
    ASSUME NEW t, Placed(t), t.job # "none", Of(t).do = "call"
    PROVE  Of(t).phase \in Phase
  <1>1. Of(t) = Slice[t.at] /\ t.at \in DOMAIN Slice /\ Slice \in Seq(Instruction)
    BY TaskFacts, SliceFacts, ProgramAssumption DEF Of, Program, Programs
  <1>2. Of(t) \in Instruction
    BY <1>1
  <1> QED BY <1>2 DEF Instruction

LEMMA CostStepsKeep ==
    ASSUME DeliveryInv, NEW w \in Workers,
           \/ StartRun(w) \/ TakeHold(w) \/ SettleCall(w) \/ Abandon(w) \/ ReleaseCosts(w)
    PROVE  Kept
  <1>1. UNCHANGED <<kernel, awaiting, releases, github, flight, merged>>
    BY DEF StartRun, TakeHold, SettleCall, Abandon, ReleaseCosts, world
  <1>2. SliceInv /\ Placed(task[w]) /\ This(w) = Of(task[w])
    BY Moves, Reads DEF DeliveryInv, SliceInv
  <1>3. ASSUME Onward, Ordered', Delivers,
               Throw(w) \/ End(w) \/ (\E step \in Steps : Goto(w, step))
        PROVE  Kept
    <2>1. Stays(w)
      BY <1>2, <1>3, StayingSteps
    <2> QED BY <1>3, <2>1, StayPasses DEF Kept
  <1>4. ASSUME Onward, Ordered', Delivers, task[w].job # "none", Advance(w),
               Of(task[w]).do \in {"call", "release"}, Of(task[w]).do = "release" => Freed'
        PROVE  Kept
    <2>1. PICK u : u = task[w]
      OBVIOUS
    <2>2. ~ Submits(Of(u)) /\ Of(u).do # "effect"
      BY <1>4, <2>1 DEF Submits, Requesting
    <2>3. u.job = "resume" => Freed'
      BY <1>2, <1>4, <2>1, TaskFacts
    <2>4. Does(u)'
      BY <2>2, <2>3 DEF Does, Of
    <2> QED BY <1>4, <2>1, <2>4, AdvancePasses DEF Kept
  <1>5. CASE StartRun(w)
    <2>1. Onward /\ Ordered' /\ Delivers
      BY <1>1, <1>5, CostsCome DEF StartRun
    <2>2. PICK t \in Tasks : Becomes(w, t) /\ t.job = "run" /\ t.at = 1
      BY <1>5, StartRunTask DEF StartRun
    <2>3. Passed(t)'
      BY <2>2 DEF Passed
    <2> QED BY <2>1, <2>2, <2>3, OnesOwnTurn DEF Kept
  <1>6. CASE TakeHold(w)
    <2>1. Of(task[w]).phase \in Phase
      BY <1>2, <1>6, Reads, CallPhase DEF TakeHold
    <2>2. Onward /\ Ordered' /\ Delivers
      BY <1>1, <1>2, <1>6, <2>1, CostsCome DEF TakeHold
    <2> QED BY <1>3, <1>6, <2>2 DEF TakeHold, Steps
  <1>7. CASE SettleCall(w)
    <2>1. Onward /\ Ordered' /\ Delivers
      BY <1>1, <1>7, CostsCome DEF SettleCall
    <2>2. task[w].job # "none" /\ Of(task[w]).do = "call"
      BY <1>7, Reads DEF SettleCall
    <2> QED BY <1>3, <1>4, <1>7, <2>1, <2>2 DEF SettleCall
  <1>8. CASE Abandon(w)
    <2>1. Onward /\ Ordered' /\ Delivers
      BY <1>1, <1>8, CostsCome DEF Abandon
    <2> QED BY <1>3, <1>8, <2>1 DEF Abandon
  <1>9. CASE ReleaseCosts(w)
    <2>1. Onward /\ Ordered' /\ Delivers /\ CostsMove
      BY <1>1, <1>9, CostsCome DEF ReleaseCosts
    <2>2. task[w].job # "none" /\ Of(task[w]).do = "release"
      BY <1>9, Reads DEF ReleaseCosts
    <2>3. Release(Work) \/ Freed => Freed'
      <3>1. CASE Release(Work)
        <4>1. Work \in Reservations /\ account[Work] \in Accounts
          BY BundleAssumption DEF DeliveryInv, Ordered, Booked
        <4>2. account' = [account EXCEPT ![Work].stage = "released"]
          BY <3>1 DEF Release
        <4>3. account \in [Reservations -> Accounts]
          BY DEF DeliveryInv, Ordered, Booked
        <4>4. account'[Work].stage = "released"
          BY <4>1, <4>2, <4>3 DEF Accounts
        <4> QED BY <4>4 DEF Freed
      <3>2. CASE Freed
        BY <2>1, <3>2 DEF CostsMove
      <3> QED BY <3>1, <3>2
    <2>4. Throw(w) \/ (Advance(w) /\ Freed')
      BY <1>9, <2>3 DEF ReleaseCosts, Freed
    <2> QED BY <1>3, <1>4, <2>1, <2>2, <2>4
  <1> QED BY <1>5, <1>6, <1>7, <1>8, <1>9

-----------------------------------------------------------------------------
(* The checkpoints and the merge                                               *)

LEMMA CheckpointsCome ==
    ASSUME DeliveryInv, UNCHANGED <<kernel, account, github, flight, merged>>,
           \A i \in DOMAIN awaiting' : Told(awaiting'[i]),
           awaiting' # <<>> => SliceEffectCount <= Len(github),
           \A i \in DOMAIN releases' : releases'[i].freed => Freed
    PROVE  Onward /\ Ordered' /\ Delivers
  <1>1. /\ kernel' = kernel /\ account' = account
        /\ github' = github /\ flight' = flight /\ merged' = merged
    OBVIOUS
  <1>2. Len(github) \in Nat
    BY DEF DeliveryInv, SliceInv, SliceTyped
  <1>3. Onward
    BY <1>1, <1>2 DEF Onward, Told, Freed
  <1>4. KernelOrdered' /\ Booked'
    BY <1>1 DEF DeliveryInv, Ordered, KernelOrdered, Booked
  <1>5. GitHubOrdered'
    BY <1>1, <1>3, WarrantedOnward DEF DeliveryInv, Ordered, GitHubOrdered
  <1>6. Checkpointed'
    BY <1>1 DEF Checkpointed, Told, Freed
  <1>7. SubmittedPatch' = SubmittedPatch
    BY <1>1 DEF SubmittedPatch
  <1>8. Shown' = Shown
    BY <1>1, <1>7, Zenon DEF Shown
  <1> QED BY <1>3, <1>4, <1>5, <1>6, <1>8 DEF Ordered, Delivers

\* What the instructions before its own let a task count on.
LEMMA CountsOn ==
    ASSUME DeliveryInv, NEW w \in Workers, NEW t, t = task[w], t.job # "none"
    PROVE  /\ SliceInv /\ Placed(t) /\ Passed(t) /\ t \in Tasks /\ t.at \in Nat
           /\ (\E i \in 1 .. t.at - 1 : Submits(Program(t.job)[i])) => Told(t.bundle)
           /\ \A k : (\E i \in 1 .. t.at - 1 : /\ Program(t.job)[i].do = "effect"
                                              /\ Program(t.job)[i].ordinal = k)
                     => k <= Len(github)
           /\ t.job = "resume" => /\ merged /\ Told(t.bundle) /\ SliceEffectCount <= Len(github)
                                  /\ t.at > 3 => Freed
           /\ Len(github) \in Nat
  <1>1. /\ SliceInv /\ Placed(t) /\ Passed(t) /\ t \in Tasks /\ t.at \in Nat
        /\ Len(github) \in Nat
    BY Moves, Fields DEF DeliveryInv, SliceInv, SliceTyped
  <1>2. merged => SliceEffectCount <= Len(github)
    BY DEF DeliveryInv, SliceInv, SliceTyped, Ordered, Checkpointed
  <1> QED BY <1>1, <1>2 DEF Passed, Behind

LEMMA ParkStays ==
    ASSUME DeliveryInv, NEW w \in Workers, Park(w)
    PROVE  Kept
  <1>1. PICK u : u = task[w]
    OBVIOUS
  <1>2. u.job # "none" /\ Of(u).do = "park"
    BY <1>1, Reads DEF Park
  <1>3. SliceInv /\ Placed(u)
    BY <1>1, <1>2, CountsOn
  <1>4. Told(u.bundle)
    <2>1. \E i \in 1 .. u.at - 1 : Submits(Program(u.job)[i])
      BY <1>2, <1>3, BeforePark
    <2> QED BY <1>1, <1>2, <2>1, CountsOn
  <1>5. SliceEffectCount <= Len(github)
    <2>1. CASE SliceEffectCount = 0
      BY <1>1, <1>2, <2>1, CountsOn
    <2>2. CASE SliceEffectCount # 0
      <3>1. SliceEffectCount \in 1 .. SliceEffectCount
        BY <2>2, EffectOrder
      <3>2. \E i \in 1 .. u.at - 1 : /\ Program(u.job)[i].do = "effect"
                                     /\ Program(u.job)[i].ordinal = SliceEffectCount
        BY <1>2, <1>3, <3>1, BeforePark
      <3> QED BY <1>1, <1>2, <3>2, CountsOn
    <2> QED BY <2>1, <2>2
  <1>6. \A i \in DOMAIN awaiting' : Told(awaiting'[i])
    <2>1. awaiting \in Seq(Bundles \cup {u.bundle})
      BY <1>3, SeqMonotonic DEF SliceInv, SliceTyped
    <2>2. /\ awaiting' = Append(awaiting, u.bundle) /\ Len(awaiting) \in Nat
          /\ DOMAIN awaiting = 1 .. Len(awaiting)
          /\ DOMAIN awaiting' = 1 .. Len(awaiting) + 1
          /\ \A i \in 1 .. Len(awaiting) : awaiting'[i] = awaiting[i]
          /\ awaiting'[Len(awaiting) + 1] = u.bundle
      BY <1>1, <2>1, AppendFacts DEF Park
    <2> QED BY <1>4, <2>2 DEF DeliveryInv, Ordered, Checkpointed
  <1>7. Onward /\ Ordered' /\ Delivers
    <2>1. /\ UNCHANGED <<kernel, account, github, flight, merged>> /\ releases' = releases
      BY DEF Park, costs, world
    <2>2. \A i \in DOMAIN releases' : releases'[i].freed => Freed
      BY <2>1 DEF DeliveryInv, Ordered, Checkpointed
    <2> QED BY <1>5, <1>6, <2>1, <2>2, CheckpointsCome
  <1>8. CASE Throw(w)
    BY <1>3, <1>7, <1>8, StayingSteps, StayPasses DEF Kept
  <1>9. CASE Advance(w)
    <2>1. Does(u)'
      <3>1. u.job = "run"
        BY <1>2, <1>3, BeforePark
      <3> QED BY <1>2, <3>1 DEF Does, Of, Submits, Requesting
    <2> QED BY <1>1, <1>2, <1>7, <1>9, <2>1, AdvancePasses DEF Kept
  <1> QED BY <1>8, <1>9 DEF Park

\* A release that is noted as done is done.
LEMMA PutsStay ==
    ASSUME DeliveryInv, NEW w \in Workers, PutPending(w) \/ PutReleased(w)
    PROVE  Kept
  <1>1. PICK u : u = task[w]
    OBVIOUS
  <1>2. u.job # "none" /\ Of(u).do \in {"pend", "note"}
    BY <1>1, Reads DEF PutPending, PutReleased
  <1>3. /\ SliceInv /\ Placed(u) /\ Passed(u) /\ u \in Tasks /\ u.job = "resume" /\ u.at \in {1, 2, 3}
        /\ Program(u.job) = Resumption
    BY <1>1, <1>2, CountsOn, TaskFacts DEF Program
  <1>4. (Of(u).do = "pend" => u.at = 1) /\ (Of(u).do = "note" => u.at = 3)
    BY <1>3, ResumptionFacts DEF Of
  <1>5. PICK release \in [awaits : DOMAIN awaiting, freed : BOOLEAN] :
            releases' = Append(releases, release) /\ (release.freed => Freed)
    <2>1. u.awaits \in DOMAIN awaiting
      BY <1>3 DEF Placed
    <2>2. CASE PutPending(w)
      <3>1. PICK r : r = [awaits |-> u.awaits, freed |-> FALSE]
        OBVIOUS
      <3>2. r \in [awaits : DOMAIN awaiting, freed : BOOLEAN] /\ ~ r.freed
        BY <2>1, <3>1
      <3>3. releases' = Append(releases, r)
        BY <1>1, <2>2, <3>1, Zenon DEF PutPending
      <3> QED BY <3>2, <3>3
    <2>3. CASE PutReleased(w)
      <3>1. Of(u).do = "note"
        BY <1>1, <2>3, Reads DEF PutReleased
      <3>2. Freed
        BY <1>3, <1>4, <3>1 DEF Passed
      <3>3. PICK r : r = [awaits |-> u.awaits, freed |-> TRUE]
        OBVIOUS
      <3>4. r \in [awaits : DOMAIN awaiting, freed : BOOLEAN]
        BY <2>1, <3>3
      <3>5. releases' = Append(releases, r)
        BY <1>1, <2>3, <3>3, Zenon DEF PutReleased
      <3> QED BY <3>2, <3>4, <3>5
    <2> QED BY <2>2, <2>3
  <1>6. \A i \in DOMAIN releases' : releases'[i].freed => Freed
    <2>1. /\ DOMAIN releases = 1 .. Len(releases) /\ Len(releases) \in Nat
          /\ DOMAIN releases' = 1 .. Len(releases) + 1
          /\ \A i \in 1 .. Len(releases) : releases'[i] = releases[i]
          /\ releases'[Len(releases) + 1] = release
      BY <1>3, <1>5, AppendFacts DEF SliceInv, SliceTyped
    <2> QED BY <1>5, <2>1 DEF DeliveryInv, Ordered, Checkpointed
  <1>7. Onward /\ Ordered' /\ Delivers
    <2>1. /\ UNCHANGED <<kernel, account, github, flight, merged>> /\ awaiting' = awaiting
      BY DEF PutPending, PutReleased, costs, world
    <2> QED BY <1>6, <2>1, CheckpointsCome DEF DeliveryInv, Ordered, Checkpointed
  <1>8. CASE Throw(w)
    BY <1>3, <1>7, <1>8, StayingSteps, StayPasses DEF Kept
  <1>9. CASE PutPending(w) /\ Advance(w)
    <2>1. u.at = 1
      BY <1>1, <1>4, <1>9, Reads DEF PutPending
    <2>2. Does(u)'
      BY <1>2, <2>1 DEF Does, Of, Submits, Requesting
    <2> QED BY <1>1, <1>2, <1>7, <1>9, <2>2, AdvancePasses DEF Kept
  <1>10. CASE PutReleased(w) /\ Jump(w, task[w].at + 1, Len(releases) + 1)
    <2>1. Of(u).do = "note" /\ u.at = 3
      BY <1>1, <1>4, <1>10, Reads DEF PutReleased
    <2>2. PICK to \in Nat, doc \in Nat : to = 4 /\ doc = Len(releases) + 1
      <3>1. Len(releases) \in Nat
        BY <1>3 DEF SliceInv, SliceTyped
      <3> QED BY <3>1
    <2> DEFINE Jumped(v) == [v EXCEPT !.at = to, !.doc = doc, !.step = "start"]
    <2>3. PICK t : t = Jumped(u)
      OBVIOUS
    <2>4. Becomes(w, t)
      <3>1. Jump(w, to, doc)
        BY <1>1, <1>10, <2>1, <2>2
      <3> QED BY <1>1, <2>3, <3>1 DEF Jump, Becomes, DeliveryInv, SliceInv, SliceTyped
    <2>5. \A v \in Tasks : /\ Jumped(v) \in Tasks /\ Jumped(v).at = to /\ Jumped(v).job = v.job
                           /\ Jumped(v).bundle = v.bundle
      BY <2>2 DEF Tasks, Steps
    <2> HIDE DEF Jumped
    <2>6. t \in Tasks /\ t.at = 4 /\ t.job = "resume" /\ t.bundle = u.bundle
      BY <1>3, <2>2, <2>3, <2>5
    <2>7. ASSUME NEW i \in 1 .. t.at - 1 PROVE Behind(t, i)'
      <3>1. i \in {1, 2, 3}
        BY <2>6
      <3>2. Resumption[i].do \in {"pend", "release", "note"}
        BY <3>1, ResumptionFacts
      <3> QED BY <1>3, <2>6, <3>2 DEF Behind, Submits, Requesting
    <2>8. (merged /\ Told(t.bundle) /\ Freed)'
      <3>1. merged /\ Told(u.bundle) /\ Freed
        BY <1>3, <2>1 DEF Passed
      <3> QED BY <1>7, <2>6, <3>1 DEF Onward
    <2>9. Passed(t)'
      BY <2>7, <2>8 DEF Passed
    <2> QED BY <1>7, <2>4, <2>6, <2>9, OnesOwnTurn DEF Kept
  <1> QED BY <1>8, <1>9, <1>10 DEF PutPending, PutReleased

LEMMA OthersPass ==
    ASSUME DeliveryInv, Onward, UNCHANGED task
    PROVE  \A v \in Workers : Passed(task[v])'
  <1> TAKE v \in Workers
  <1>1. PICK u : u = task[v]
    OBVIOUS
  <1>2. Placed(u) /\ Passed(u)
    BY <1>1 DEF DeliveryInv, SliceInv, SliceTyped
  <1>3. Passed(u)'
    BY <1>2, PassedOnward
  <1> QED BY <1>1, <1>3 DEF Passed, Behind

\* What stands at GitHub before the merge is what the slice writes.
LEMMA MergeStays ==
    ASSUME DeliveryInv, SliceInv', Merge
    PROVE  Kept
  <1>1. /\ UNCHANGED <<kernel, account, awaiting, releases, github, flight, task>>
        /\ ~ merged /\ merged' = TRUE /\ awaiting # <<>>
    BY DEF Merge, stores, costs
  <1>2. Len(github) \in Nat /\ DOMAIN github = 1 .. Len(github)
    BY DEF DeliveryInv, SliceInv, SliceTyped
  <1>3. Onward
    BY <1>1, <1>2 DEF Onward, Told, Freed
  <1>4. Len(github) = SliceEffectCount
    <2>1. SliceEffectCount <= Len(github)
      BY <1>1 DEF DeliveryInv, Ordered, Checkpointed
    <2>2. ~ SliceEffectCount < Len(github)
      <3>1. SUFFICES ASSUME SliceEffectCount < Len(github) PROVE FALSE
        OBVIOUS
      <3>2. Len(github) \in DOMAIN github
        BY <1>2, <3>1, EffectOrder
      <3>3. github[Len(github)].ordinal = Len(github) /\ Warranted(github[Len(github)])
        BY <3>2 DEF DeliveryInv, Ordered, GitHubOrdered
      <3>4. github[Len(github)].ordinal > SliceEffectCount
        BY <1>2, <3>1, <3>3, EffectOrder
      <3> QED BY <1>1, <3>3, <3>4 DEF Warranted
    <2>3. SliceEffectCount \in Nat
      BY EffectOrder
    <2>4. \A m, n \in Nat : m <= n /\ ~ m < n => n = m
      OBVIOUS
    <2> QED BY <1>2, <2>1, <2>2, <2>3, <2>4
  <1>5. KernelOrdered' /\ Booked' /\ Checkpointed'
    BY <1>1 DEF DeliveryInv, Ordered, KernelOrdered, Booked, Checkpointed, Told, Freed
  <1>6. GitHubOrdered'
    BY <1>1, <1>3, WarrantedOnward DEF DeliveryInv, Ordered, GitHubOrdered
  <1>7. \A v \in Workers : Passed(task[v])'
    BY <1>1, <1>3, OthersPass
  <1>8. DeliveryInv'
    BY <1>5, <1>6, <1>7 DEF DeliveryInv, Ordered
  <1>9. /\ Shown = View(SubmittedPatch, Len(github), merged, Freed, Accepted)
        /\ Shown' = View(SubmittedPatch', Len(github'), merged', Freed', Accepted')
    BY <1>8, ViewedNext, ShownIs DEF ShownKnown
  <1>10. SubmittedPatch' = SubmittedPatch /\ github' = github
    BY <1>1 DEF SubmittedPatch
  <1>11. Freed' = Freed /\ Accepted' = Accepted
    BY <1>1, Zenon DEF Freed, Accepted
  <1>12. Shown' = View(SubmittedPatch, Len(github), TRUE, Freed, Accepted)
    BY <1>1, <1>9, <1>10, <1>11, Zenon
  <1>13. Delivery!Merge
    BY <1>2, <1>4, <1>9, <1>12, ViewSteps
  <1> QED BY <1>5, <1>6, <1>7, <1>13 DEF Kept, Ordered, Delivers, Delivery!Next

\* The next write is of the effect that is next, and it is the only one there is.
LEMMA WriteStays ==
    ASSUME DeliveryInv, NEW w \in Workers, Write(w)
    PROVE  Kept
  <1>1. PICK u, k : u = task[w] /\ k = Of(u).ordinal
    OBVIOUS
  <1>2. /\ u.job # "none" /\ Of(u).do = "effect" /\ Effecting(u, "write")
        /\ UNCHANGED <<kernel, account, awaiting, releases, github, merged>>
        /\ Goto(w, "written")
    BY <1>1, Reads DEF Write, stores, costs
  <1>3. /\ SliceInv /\ Placed(u) /\ Passed(u) /\ u \in Tasks /\ u.at \in Nat
        /\ Len(github) \in Nat /\ DOMAIN github = 1 .. Len(github)
    <2>1. DOMAIN github = 1 .. Len(github)
      BY DEF DeliveryInv, SliceInv, SliceTyped
    <2> QED BY <1>1, <1>2, <2>1, CountsOn
  <1>4. /\ k \in 1 .. Cardinality(Effects) /\ u.job \in {"run", "resume"}
        /\ u.job = "run" => /\ k <= SliceEffectCount
                            /\ \E i \in 1 .. u.at - 1 : Submits(Program(u.job)[i])
        /\ u.job = "resume" => k > SliceEffectCount /\ u.at > 3
        /\ k # 1 /\ k # SliceEffectCount + 1 =>
              \E i \in 1 .. u.at - 1 : /\ Program(u.job)[i].do = "effect"
                                       /\ Program(u.job)[i].ordinal = k - 1
    <2>1. u.job \in {"run", "resume"}
      BY <1>2, <1>3, Fields
    <2>2. /\ Placed(u) /\ u.job # "none" /\ Of(u).do = "effect"
      BY <1>2, <1>3
    <2>3. /\ Of(u).ordinal \in 1 .. Cardinality(Effects)
          /\ u.job = "run" => /\ Of(u).ordinal <= SliceEffectCount
                              /\ \E i \in 1 .. u.at - 1 : Submits(Program(u.job)[i])
          /\ u.job = "resume" => Of(u).ordinal > SliceEffectCount /\ u.at > 3
          /\ Of(u).ordinal # 1 /\ Of(u).ordinal # SliceEffectCount + 1 =>
                \E i \in 1 .. u.at - 1 : /\ Program(u.job)[i].do = "effect"
                                         /\ Program(u.job)[i].ordinal = Of(u).ordinal - 1
      BY ONLY <2>2, BeforeEffect
    <2> QED BY ONLY <1>1, <2>1, <2>3
  <1>5. Untouched(k)
    BY <1>1, <1>2 DEF DeliveryInv, SliceInv, Trusted, Entitled, Ready
  <1>6. k = Len(github) + 1
    <2>1. ~ k <= Len(github)
      BY <1>3, <1>4, <1>5 DEF Untouched, Written, DeliveryInv, Ordered, GitHubOrdered
    <2>2. k <= Len(github) + 1
      <3>1. CASE k = 1
        BY <1>3, <3>1
      <3>2. CASE k = SliceEffectCount + 1
        <4>1. u.job = "resume"
          BY <1>4, <3>2, EffectOrder
        <4>2. SliceEffectCount <= Len(github)
          BY <1>1, <1>2, <4>1, CountsOn
        <4> QED BY <1>3, <3>2, <4>2, EffectOrder
      <3>3. CASE k # 1 /\ k # SliceEffectCount + 1
        <4>1. k - 1 <= Len(github)
          BY <1>1, <1>2, <1>4, <3>3, CountsOn
        <4> QED BY <1>3, <1>4, <4>1
      <3> QED BY <3>1, <3>2, <3>3
    <2> QED BY <1>3, <1>4, <2>1, <2>2
  <1>7. PICK write : write = [ordinal |-> k, plan |-> PlanOf(u)]
    OBVIOUS
  <1>8. write.ordinal = k /\ write.plan = PlanOf(u) /\ flight' = flight \cup {write}
    BY <1>1, <1>7, Reads DEF Write
  <1>9. flight = {}
    BY <1>5, <1>6 DEF Untouched, Flying, DeliveryInv, Ordered, GitHubOrdered
  <1>10. Told(u.bundle) /\ u.bundle \in Bundles
    <2>1. CASE u.job = "run"
      <3>1. PICK i \in 1 .. u.at - 1 : Submits(Slice[i])
        BY <1>4, <2>1 DEF Program
      <3>2. u.at \in DOMAIN Slice /\ i \in DOMAIN Slice /\ i \in Nat
        BY <1>3, <2>1, <3>1, SliceFacts DEF Placed, Program
      <3>3. PICK j \in 1 .. i - 1 : Makes(Slice[j])
        BY <3>1, <3>2, ProgramAssumption DEF Programs
      <3>4. j \in 1 .. u.at /\ j < u.at
        BY <1>3, <3>1, <3>2, <3>3
      <3>5. HasMade(u)
        BY <3>3, <3>4 DEF HasMade
      <3> QED BY <1>1, <1>2, <1>3, <1>4, <2>1, <3>5, CountsOn DEF Placed
    <2>2. CASE u.job = "resume"
      BY <1>1, <1>2, <1>3, <2>2, CountsOn DEF Placed
    <2> QED BY <1>4, <2>1, <2>2
  <1>11. Warranted(write)
    <2>1. k > SliceEffectCount => merged /\ Freed
      <3>1. k > SliceEffectCount => u.job = "resume" /\ u.at > 3
        BY <1>4, EffectOrder
      <3> QED BY <1>1, <1>2, <3>1, CountsOn
    <2>2. write.ordinal # 1 => write.plan = u.bundle
      BY <1>1, <1>8 DEF PlanOf
    <2> QED BY <1>8, <1>10, <2>1, <2>2 DEF Warranted
  <1>12. Onward
    BY <1>2, <1>3 DEF Onward, Told, Freed
  <1>13. GitHubOrdered'
    <2>1. Warranted(write)'
      BY <1>11, <1>12, WarrantedOnward
    <2>2. (\A i \in DOMAIN github : github[i].ordinal = i /\ Warranted(github[i]))'
      BY <1>2, <1>12, WarrantedOnward DEF DeliveryInv, Ordered, GitHubOrdered
    <2>3. flight' = {write} /\ write.ordinal = Len(github') + 1
      BY <1>2, <1>6, <1>8, <1>9
    <2> QED BY <2>1, <2>2, <2>3 DEF GitHubOrdered
  <1>14. KernelOrdered' /\ Booked' /\ Checkpointed'
    BY <1>2 DEF DeliveryInv, Ordered, KernelOrdered, Booked, Checkpointed, Told, Freed
  <1>15. SubmittedPatch' = SubmittedPatch
    BY <1>2 DEF SubmittedPatch
  <1>16. Shown' = Shown
    BY <1>2, <1>15, Zenon DEF Shown
  <1>17. Stays(w)
    BY <1>2, <1>3, StayingSteps DEF Steps
  <1> QED BY <1>12, <1>13, <1>14, <1>16, <1>17, StayPasses DEF Kept, Ordered, Delivers

\* What lands is the next effect, of what was submitted.
LEMMA DecideStays ==
    ASSUME DeliveryInv, SliceInv', Decide
    PROVE  Kept
  <1>1. PICK write \in flight : /\ flight' = flight \ {write}
                                /\ github' = Append(github, write) \/ github' = github
    BY DEF Decide
  <1>2. UNCHANGED <<kernel, account, awaiting, releases, merged, task>>
    BY DEF Decide, stores, costs
  <1>3. /\ write.ordinal = Len(github) + 1 /\ Warranted(write) /\ flight' = {}
    BY <1>1 DEF DeliveryInv, Ordered, GitHubOrdered
  <1>4. /\ Len(github) \in Nat /\ DOMAIN github = 1 .. Len(github)
        /\ Len(github') \in Nat /\ Len(github) <= Len(github')
        /\ \A i \in DOMAIN github' : \/ i \in DOMAIN github /\ github'[i] = github[i]
                                     \/ i = Len(github) + 1 /\ github'[i] = write
        /\ github' # github => Len(github') = Len(github) + 1
    <2>1. /\ github \in Seq([ordinal : Effects, plan : Bundles \cup {None}])
          /\ write \in [ordinal : Effects, plan : Bundles \cup {None}]
      BY DEF DeliveryInv, SliceInv, SliceTyped
    <2>2. CASE github' = github
      BY <2>1, <2>2
    <2>3. CASE github' = Append(github, write)
      <3>1. /\ Append(github, write) \in Seq([ordinal : Effects, plan : Bundles \cup {None}])
            /\ Len(github) \in Nat /\ DOMAIN github = 1 .. Len(github)
            /\ Len(Append(github, write)) = Len(github) + 1
            /\ DOMAIN Append(github, write) = 1 .. Len(github) + 1
            /\ \A i \in 1 .. Len(github) : Append(github, write)[i] = github[i]
            /\ Append(github, write)[Len(github) + 1] = write
        BY <2>1, AppendFacts
      <3> QED BY <2>3, <3>1
    <2> QED BY <1>1, <2>2, <2>3
  <1>5. Onward
    BY <1>2, <1>4 DEF Onward, Told, Freed
  <1>6. KernelOrdered' /\ Booked'
    BY <1>2 DEF DeliveryInv, Ordered, KernelOrdered, Booked
  <1>7. Checkpointed'
    <2>1. awaiting' # <<>> => SliceEffectCount <= Len(github')
      BY <1>2, <1>4, EffectOrder DEF DeliveryInv, Ordered, Checkpointed
    <2> QED BY <1>2, <2>1 DEF DeliveryInv, Ordered, Checkpointed, Told, Freed
  <1>8. GitHubOrdered'
    <2>1. ASSUME NEW i \in DOMAIN github'
          PROVE  (github[i].ordinal = i /\ Warranted(github[i]))'
      BY <1>3, <1>4, <1>5, WarrantedOnward DEF DeliveryInv, Ordered, GitHubOrdered
    <2> QED BY <1>3, <2>1 DEF GitHubOrdered
  <1>9. \A v \in Workers : Passed(task[v])'
    BY <1>2, <1>5, OthersPass
  <1>10. DeliveryInv'
    BY <1>6, <1>7, <1>8, <1>9 DEF DeliveryInv, Ordered
  <1>11. SubmittedPatch' = SubmittedPatch
    BY <1>2 DEF SubmittedPatch
  <1>12. Delivers
    <2>1. CASE github' = github
      <3>1. Shown' = Shown
        BY <1>2, <1>11, <2>1, Zenon DEF Shown
      <3> QED BY <3>1 DEF Delivers
    <2>2. CASE github' # github
      <3>1. /\ Shown = View(SubmittedPatch, Len(github), merged, Freed, Accepted)
            /\ Shown' = View(SubmittedPatch', Len(github'), merged', Freed', Accepted')
            /\ Len(github') \in 0 .. Cardinality(Effects)
        BY <1>10, ViewedNext, ShownIs DEF ShownKnown
      <3>2. Freed' = Freed /\ Accepted' = Accepted
        BY <1>2, Zenon DEF Freed, Accepted
      <3>3. Len(github') = Len(github) + 1 /\ Len(github) < Cardinality(Effects)
        BY <1>4, <2>2, <3>1, EffectOrder
      <3>4. Shown' = View(SubmittedPatch, Len(github) + 1, merged, Freed, Accepted)
        BY <1>2, <1>11, <3>1, <3>2, <3>3, Zenon
      <3>5. SubmittedPatch # None
        BY <1>3, SomeBundle DEF Warranted, DeliveryInv, Ordered
      <3>6. Len(github) >= SliceEffectCount => merged /\ Freed
        BY <1>3, <1>4, EffectOrder DEF Warranted
      <3>7. Delivery!Write
        BY <1>4, <3>1, <3>3, <3>4, <3>5, <3>6, ViewSteps
      <3> QED BY <3>7 DEF Delivers, Delivery!Next
    <2> QED BY <2>1, <2>2
  <1> QED BY <1>6, <1>7, <1>8, <1>9, <1>12 DEF Kept, Ordered

-----------------------------------------------------------------------------
(* The transitions                                                             *)

LEMMA KeyFacts ==
    ASSUME DeliveryInv, NEW w \in Workers, NEW u, u = task[w], u.job # "none",
           Of(u).do = "transition"
    PROVE  /\ Key(w) \in Transitions /\ Key(w).event = Of(u).event
           /\ Submits(Of(u)) =>
                 /\ u.bundle \in Bundles
                 /\ Key(w) = [event |-> "work-submitted", evidence |-> PatchOf[u.bundle]]
  <1>1. /\ Placed(u) /\ u \in Tasks /\ This(w) = Of(u) /\ u.job \in {"run", "resume"}
        /\ u.bundle \in Bundles \cup {None} /\ u.doc \in Nat
    BY CountsOn, Reads, Fields
  <1>2. Of(u) \in Instruction
    <2>1. CASE u.job = "run"
      <3>1. Of(u) = Slice[u.at] /\ u.at \in DOMAIN Slice /\ Slice \in Seq(Instruction)
        BY <1>1, <2>1, ProgramAssumption DEF Placed, Of, Program, Programs
      <3> QED BY <3>1
    <2>2. CASE u.job = "resume"
      <3>1. Of(u) = Resumption[u.at] /\ u.at \in DOMAIN Resumption /\ u.at \in Nat
        BY <1>1, <2>2, Fields DEF Placed, Of, Program
      <3>2. u.at > 3
        BY <3>1, ResumptionFacts
      <3>3. PICK n \in DOMAIN Closure : Of(u) = Closure[n]
        BY <3>1, <3>2, ResumptionFacts
      <3>4. Closure \in Seq(Instruction)
        BY ProgramAssumption DEF Programs
      <3> QED BY <3>3, <3>4
    <2> QED BY <1>1, <2>1, <2>2
  <1>3. PICK event \in Requests : event = Of(u).event
    BY <1>2 DEF Instruction
  <1>4. event = "work-submitted" => u.bundle \in Bundles
    <2>1. event = "work-submitted" => Submits(Of(u))
      BY <1>3 DEF Submits, Requesting
    <2> QED BY <1>1, <2>1, AroundSubmission
  <1>5. PICK about \in Patches \cup Bundles \cup Nat \cup {None} :
            /\ Key(w) = [event |-> event, evidence |-> about]
            /\ event = "work-submitted" => about = PatchOf[u.bundle]
    <2> DEFINE e == CASE event = "work-submitted" -> PatchOf[u.bundle]
                      [] event = "verification-passed" -> u.bundle
                      [] event = "outcome-accepted" -> u.doc
                      [] OTHER -> None
    <2>1. Key(w) = [event |-> event, evidence |-> e]
      BY <1>1, <1>3 DEF Key
    <2>2. event = "work-submitted" => e = PatchOf[u.bundle] /\ e \in Patches
      BY <1>4, BundleAssumption
    <2>3. event = "verification-passed" => e = u.bundle
      OBVIOUS
    <2>4. event = "outcome-accepted" => e = u.doc
      OBVIOUS
    <2>5. event \notin {"work-submitted", "verification-passed", "outcome-accepted"} => e = None
      OBVIOUS
    <2> HIDE DEF e
    <2>6. e \in Patches \cup Bundles \cup Nat \cup {None}
      BY <1>1, <2>2, <2>3, <2>4, <2>5
    <2> QED BY <2>1, <2>2, <2>6
  <1>6. Key(w) \in Transitions /\ Key(w).event = event
    BY <1>5 DEF Transitions
  <1>7. Submits(Of(u)) => event = "work-submitted"
    BY <1>3 DEF Submits, Requesting
  <1> QED BY <1>3, <1>4, <1>5, <1>6, <1>7

\* A transition taken in its place.
LEMMA KernelTakes ==
    ASSUME DeliveryInv, NEW key \in Transitions, InPlace(Len(kernel) + 1, key),
           kernel' = Append(kernel, key)
    PROVE  /\ KernelOrdered'
           /\ \A bundle : Told(bundle) => Told(bundle)'
           /\ \A bundle : Told(bundle)' =>
                 Told(bundle) \/ key = [event |-> "work-submitted", evidence |-> PatchOf[bundle]]
           /\ Accepted' <=> Accepted \/ key.event = "outcome-accepted"
           /\ key.event = "work-submitted" => \A bundle : ~ Told(bundle)
           /\ \A bundle : key = [event |-> "work-submitted", evidence |-> PatchOf[bundle]]
                 => Told(bundle)'
  <1>1. /\ kernel \in Seq(Transitions) /\ Len(kernel) \in Nat /\ DOMAIN kernel = 1 .. Len(kernel)
        /\ kernel' \in Seq(Transitions)
        /\ DOMAIN kernel' = 1 .. Len(kernel) + 1
        /\ \A i \in 1 .. Len(kernel) : kernel'[i] = kernel[i]
        /\ kernel'[Len(kernel) + 1] = key
    BY AppendFacts DEF DeliveryInv, Ordered, KernelOrdered
  <1>2. \A i \in DOMAIN kernel' : \/ i \in DOMAIN kernel /\ kernel'[i] = kernel[i]
                                  \/ i = Len(kernel) + 1 /\ kernel'[i] = key
    BY <1>1
  <1>3. \A i \in DOMAIN kernel : InPlace(i, kernel[i])
    BY DEF DeliveryInv, Ordered, KernelOrdered
  <1>4. KernelOrdered'
    <2>1. \A i, k : InPlace(i, k)' <=> InPlace(i, k)
      BY DEF InPlace
    <2>2. \A i \in DOMAIN kernel' : InPlace(i, kernel'[i])
      BY <1>2, <1>3
    <2>3. (\A i \in DOMAIN kernel : InPlace(i, kernel[i]))'
      BY <2>2 DEF InPlace
    <2> QED BY <1>1, <2>3 DEF KernelOrdered
  <1>5. \A bundle : Told(bundle) => Told(bundle)'
    BY <1>1 DEF Told
  <1>6. \A bundle : Told(bundle)' =>
           Told(bundle) \/ key = [event |-> "work-submitted", evidence |-> PatchOf[bundle]]
    BY <1>2 DEF Told
  <1>7. Accepted' <=> Accepted \/ key.event = "outcome-accepted"
    BY <1>1, <1>2 DEF Accepted
  <1>8. \A bundle : key = [event |-> "work-submitted", evidence |-> PatchOf[bundle]]
           => Told(bundle)'
    BY <1>1 DEF Told
  <1>9. ASSUME key.event = "work-submitted", NEW bundle, Told(bundle)
        PROVE  FALSE
    <2>1. PICK i \in DOMAIN kernel :
              kernel[i] = [event |-> "work-submitted", evidence |-> PatchOf[bundle]]
      BY <1>9 DEF Told
    <2>2. kernel[i].event = "work-submitted" /\ key.event = "work-submitted"
      BY <1>9, <2>1
    <2>3. i = Place("work-submitted") /\ Len(kernel) + 1 = Place("work-submitted")
      BY <1>3, <2>2 DEF InPlace
    <2> QED BY <1>1, <2>3
  <1> QED BY <1>4, <1>5, <1>6, <1>7, <1>8, <1>9

\* Before the kernel is told of a patch nothing stands at GitHub; when it is told of the
\* outcome, everything does.
LEMMA NothingBefore ==
    ASSUME DeliveryInv, \A bundle : ~ Told(bundle)
    PROVE  SubmittedPatch = None /\ Len(github) = 0
  <1>1. SubmittedPatch = None
    BY SubmittedIs DEF SubmittedKnown, DeliveryInv, Ordered
  <1>2. Len(github) \in Nat /\ DOMAIN github = 1 .. Len(github)
    BY DEF DeliveryInv, SliceInv, SliceTyped
  <1>3. Len(github) = 0
    <2>1. SUFFICES ASSUME Len(github) # 0 PROVE FALSE
      OBVIOUS
    <2>2. 1 \in DOMAIN github
      BY <1>2, <2>1
    <2>3. Warranted(github[1])
      BY <2>2 DEF DeliveryInv, Ordered, GitHubOrdered
    <2> QED BY <2>3 DEF Warranted
  <1> QED BY <1>1, <1>3

LEMMA AllBeforeAcceptance ==
    ASSUME DeliveryInv, NEW w \in Workers, NEW u, u = task[w], u.job # "none",
           Requesting(Of(u), "outcome-accepted")
    PROVE  Len(github) = Cardinality(Effects)
  <1>1. /\ Placed(u) /\ u.job = "resume" /\ Len(github) \in Nat
        /\ SliceEffectCount <= Len(github)
    BY CountsOn, BeforeAcceptance
  <1>2. Cardinality(Effects) <= Len(github)
    <2>1. CASE SliceEffectCount = Cardinality(Effects)
      BY <1>1, <2>1
    <2>2. CASE SliceEffectCount # Cardinality(Effects)
      <3>1. Cardinality(Effects) \in SliceEffectCount + 1 .. Cardinality(Effects)
        BY <2>2, EffectOrder
      <3>2. \E i \in 1 .. u.at - 1 : /\ Program(u.job)[i].do = "effect"
                                     /\ Program(u.job)[i].ordinal = Cardinality(Effects)
        BY <1>1, <3>1, BeforeAcceptance
      <3> QED BY <3>2, CountsOn
    <2> QED BY <2>1, <2>2
  <1>3. Len(github) \in 0 .. Cardinality(Effects)
    BY ShownIs DEF ShownKnown
  <1>4. \A m, n \in Nat : m <= n /\ n \in 0 .. m => n = m
    OBVIOUS
  <1> QED BY <1>1, <1>2, <1>3, <1>4, EffectOrder

LEMMA TransitStays ==
    ASSUME DeliveryInv, SliceInv', NEW w \in Workers, Transit(w)
    PROVE  Kept
  <1>1. PICK u, key : u = task[w] /\ key = Key(w)
    OBVIOUS
  <1>2. /\ u.job # "none" /\ Of(u).do = "transition" /\ This(w) = Of(u)
        /\ UNCHANGED <<account, awaiting, releases, github, flight, merged>>
        /\ Throw(w) \/ Advance(w)
    BY <1>1, Reads DEF Transit, costs, world
  <1>3. SliceInv /\ Placed(u) /\ Len(github) \in Nat
    BY <1>1, <1>2, CountsOn
  <1>4. /\ key \in Transitions /\ key.event = Of(u).event
        /\ Submits(Of(u)) =>
              /\ u.bundle \in Bundles
              /\ key = [event |-> "work-submitted", evidence |-> PatchOf[u.bundle]]
    BY <1>1, <1>2, KeyFacts
  <1>5. Of(u).do # "effect" /\ ~ (u.job = "resume" /\ u.at = 2)
    BY <1>2, <1>3, ResumptionFacts DEF Of, Program
  <1>6. CASE UNCHANGED kernel
    <2>1. StoresKept
      BY <1>2, <1>6 DEF StoresKept
    <2>2. CASE Throw(w)
      BY <1>3, <2>1, <2>2, StayingSteps, StayKeeps
    <2>3. CASE Advance(w) /\ (Submits(Of(u)) => Told(u.bundle))
      <3>1. Does(task[w])
        BY <1>1, <1>5, <2>3 DEF Does
      <3> QED BY <1>1, <1>2, <2>1, <2>3, <3>1, AdvanceKeeps
    <2>4. CASE \E i \in DOMAIN kernel : kernel[i] = key
      BY <1>2, <1>4, <2>2, <2>3, <2>4 DEF Told
    <2>5. CASE kernel' = Append(kernel, key)
      <3>1. Len(kernel') = Len(kernel) + 1 /\ Len(kernel) \in Nat
        BY <1>4, <2>5, AppendFacts DEF DeliveryInv, Ordered, KernelOrdered
      <3> QED BY <1>6, <3>1
    <2> QED BY <1>1, <2>4, <2>5 DEF Transit
  <1>7. CASE kernel' = Append(kernel, key) /\ Follows(w)
    <2>1. InPlace(Len(kernel) + 1, key)
      <3>1. Len(kernel) + 1 = Place(key.event)
        BY <1>2, <1>4, <1>7 DEF Follows
      <3>2. key.event = "work-submitted" =>
               \E bundle \in Bundles : key.evidence = PatchOf[bundle]
        BY <1>2, <1>4 DEF Submits, Requesting
      <3> QED BY <3>1, <3>2 DEF InPlace
    <2>2. /\ KernelOrdered'
          /\ \A bundle : Told(bundle) => Told(bundle)'
          /\ \A bundle : Told(bundle)' =>
                Told(bundle) \/ key = [event |-> "work-submitted", evidence |-> PatchOf[bundle]]
          /\ Accepted' <=> Accepted \/ key.event = "outcome-accepted"
          /\ key.event = "work-submitted" => \A bundle : ~ Told(bundle)
          /\ \A bundle : key = [event |-> "work-submitted", evidence |-> PatchOf[bundle]]
                => Told(bundle)'
      BY <1>4, <1>7, <2>1, KernelTakes
    <2>3. Onward
      BY <1>2, <1>3, <2>2 DEF Onward, Freed
    <2>4. Ordered'
      <3>1. Booked'
        BY <1>2 DEF DeliveryInv, Ordered, Booked
      <3>2. GitHubOrdered'
        BY <1>2, <2>3, WarrantedOnward DEF DeliveryInv, Ordered, GitHubOrdered
      <3>3. Checkpointed'
        BY <1>2, <2>3 DEF DeliveryInv, Ordered, Checkpointed, Onward
      <3> QED BY <2>2, <3>1, <3>2, <3>3 DEF Ordered
    <2>5. \A v \in Workers : Passed(task[v])'
      <3>1. CASE Throw(w)
        BY <1>3, <2>3, <3>1, StayingSteps, StayPasses
      <3>2. CASE Advance(w)
        <4>1. Submits(Of(u)) => Told(u.bundle)'
          BY <1>4, <2>2
        <4>2. Does(u)'
          BY <1>5, <4>1 DEF Does, Of
        <4> QED BY <1>1, <1>2, <2>3, <3>2, <4>2, AdvancePasses
      <3> QED BY <1>2, <3>1, <3>2
    <2>6. DeliveryInv'
      BY <2>4, <2>5 DEF DeliveryInv
    <2>7. /\ Shown = View(SubmittedPatch, Len(github), merged, Freed, Accepted)
          /\ Shown' = View(SubmittedPatch', Len(github'), merged', Freed', Accepted')
          /\ SubmittedKnown /\ SubmittedKnown'
      BY <2>6, ViewedNext, ShownIs, SubmittedIs, SubmittedNext
         DEF ShownKnown, DeliveryInv, Ordered
    <2>8. Len(github') = Len(github) /\ merged' = merged /\ Freed' = Freed
      BY <1>2, Zenon DEF Freed
    <2>9. key.event # "outcome-accepted" => Accepted' = Accepted
      BY <2>2, Zenon DEF Accepted
    <2>10. key.event = "outcome-accepted" => Accepted' = TRUE
      BY <2>2, Zenon DEF Accepted
    <2>11. key.event # "work-submitted" => SubmittedPatch' = SubmittedPatch
      <3>1. SUFFICES ASSUME key.event # "work-submitted"
                     PROVE  SubmittedPatch' = SubmittedPatch
        OBVIOUS
      <3>2. \A bundle : Told(bundle) <=> Told(bundle)'
        BY <2>2, <3>1
      <3> QED BY <2>7, <3>2 DEF SubmittedKnown
    <2>12. Delivers
      <3>1. CASE key.event = "work-submitted"
        <4>1. Submits(Of(u))
          BY <1>2, <1>4, <3>1 DEF Submits, Requesting
        <4>2. SubmittedPatch = None /\ Len(github) = 0
          BY <2>2, <3>1, NothingBefore
        <4>3. PICK q \in Patches : q = PatchOf[u.bundle]
          BY <1>4, <4>1, BundleAssumption
        <4>4. SubmittedPatch' = q
          BY <1>4, <2>2, <2>7, <4>1, <4>3 DEF SubmittedKnown
        <4>5. Shown' = View(q, 0, merged, Freed, Accepted)
          BY <2>7, <2>8, <2>9, <3>1, <4>2, <4>4, Zenon
        <4>6. Delivery!Submit(q)
          BY <1>3, <2>7, <4>2, <4>5, ViewSteps
        <4> QED BY <4>6 DEF Delivers, Delivery!Next
      <3>2. CASE key.event = "outcome-accepted"
        <4>1. Requesting(Of(u), "outcome-accepted")
          BY <1>2, <1>4, <3>2 DEF Requesting
        <4>2. Len(github) = Cardinality(Effects)
          BY <1>1, <1>2, <4>1, AllBeforeAcceptance
        <4>3. Shown' = View(SubmittedPatch, Len(github), merged, Freed, TRUE)
          BY <2>7, <2>8, <2>10, <2>11, <3>2, Zenon
        <4>4. Delivery!Accept
          BY <1>3, <2>7, <4>2, <4>3, ViewSteps
        <4> QED BY <4>4 DEF Delivers, Delivery!Next
      <3>3. CASE key.event \notin {"work-submitted", "outcome-accepted"}
        <4>1. Shown' = Shown
          BY <2>7, <2>8, <2>9, <2>11, <3>3, Zenon
        <4> QED BY <4>1 DEF Delivers
      <3> QED BY <3>1, <3>2, <3>3
    <2> QED BY <2>4, <2>5, <2>12 DEF Kept
  <1> QED BY <1>1, <1>6, <1>7 DEF Transit

-----------------------------------------------------------------------------
(* The theorem                                                                 *)

LEMMA DeliveryBegins ==
    ASSUME Init
    PROVE  DeliveryInv /\ Delivery!Init
  <1>1. /\ kernel = <<>> /\ awaiting = <<>> /\ releases = <<>> /\ github = <<>>
        /\ flight = {} /\ merged = FALSE /\ task = [w \in Workers |-> Idle]
        /\ account = [r \in Reservations |-> Fresh]
    BY DEF Init, PoolInit
  <1>2. Fresh \in Accounts /\ Fresh.stage = "none"
    BY DEF Fresh, Accounts
  <1>3. Ordered
    <2>1. KernelOrdered
      BY <1>1, EmptySeq DEF KernelOrdered
    <2>2. Booked
      BY <1>1, <1>2 DEF Booked
    <2>3. GitHubOrdered /\ Checkpointed
      BY <1>1 DEF GitHubOrdered, Checkpointed
    <2> QED BY <2>1, <2>2, <2>3 DEF Ordered
  <1>4. \A w \in Workers : Passed(task[w])
    BY <1>1 DEF Passed, Idle
  <1>5. DeliveryInv
    BY <1>3, <1>4, InitHolds DEF DeliveryInv
  <1>6. SubmittedPatch = None /\ Len(github) = 0
    BY <1>1, <1>5, NothingBefore DEF Told
  <1>7. Freed = FALSE /\ Accepted = FALSE
    <2>1. account[Work].stage # "released"
      BY <1>1, <1>2, BundleAssumption
    <2>2. ~ Accepted
      BY <1>1 DEF Accepted
    <2> QED BY <2>1, <2>2, Zenon DEF Freed, Accepted
  <1>8. Shown = View(None, 0, FALSE, FALSE, FALSE)
    <2>1. Shown = View(SubmittedPatch, Len(github), merged, Freed, Accepted)
      BY <1>5, ShownIs DEF ShownKnown
    <2> QED BY <1>1, <1>6, <1>7, <2>1, Zenon
  <1>9. Row(None, 0) = <<>>
    BY DEF Row
  <1>10. Delivery!Init
    BY <1>8, <1>9, Zenon DEF View, Delivery!Init
  <1> QED BY <1>5, <1>10

LEMMA DeliveryKeeps ==
    ASSUME DeliveryInv, [Next]_vars
    PROVE  DeliveryInv' /\ (Shown' = Shown \/ (Shown' # Shown /\ Delivery!Next))
  <1>1. SliceInv'
    BY StepKeeps DEF DeliveryInv
  <1>2. CASE UNCHANGED vars
    <2>1. StoresKept /\ UNCHANGED task
      BY <1>2 DEF vars, stores, costs, world, StoresKept
    <2> QED BY <1>1, <2>1, StoresStay, OthersPass DEF DeliveryInv, Delivers
  <1>3. ASSUME NEW w \in Workers, StartRun(w) \/ StartResume(w) \/ Fail(w) \/ Die(w)
        PROVE  Kept
    BY <1>3, CostStepsKeep, StartResumeKeeps, QuietKeeps
  <1>4. ASSUME NEW w \in Workers, Step(w)
        PROVE  Kept
    BY <1>1, <1>4, TransitStays, QuietKeeps, CostStepsKeep, InvokeStays, EffectStepsKeep,
       WriteStays, ParkStays, ReadReleaseStays, PutsStay DEF Step
  <1>5. CASE Decide
    BY <1>1, <1>5, DecideStays DEF Kept, DeliveryInv, Delivers
  <1>6. CASE Merge
    BY <1>1, <1>6, MergeStays DEF Kept, DeliveryInv, Delivers
  <1>7. CASE \E w \in Workers : StartRun(w) \/ StartResume(w) \/ Step(w) \/ Fail(w) \/ Die(w)
    BY <1>1, <1>3, <1>4, <1>7 DEF Kept, DeliveryInv, Delivers
  <1> QED BY <1>2, <1>5, <1>6, <1>7 DEF Next

\* However workers race, die, fail and resume, and whenever GitHub decides a write, what
\* is shown of the work item is a delivery of it: one patch is submitted, its effects
\* stand once each and in their order, those that close it only after an independent
\* merge and the return of the budget, and it is accepted when all of them stand.
THEOREM SliceDelivers == Spec => ImplementsDelivery
  <1>1. Init => DeliveryInv /\ Delivery!Init
    BY DeliveryBegins
  <1>2. DeliveryInv /\ [Next]_vars => DeliveryInv' /\ [Shown' # Shown /\ Delivery!Next]_Shown
    BY DeliveryKeeps
  <1> QED BY <1>1, <1>2, PTL DEF Spec, ImplementsDelivery

=============================================================================
