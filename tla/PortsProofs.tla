----------------------------- MODULE PortsProofs -----------------------------
(* Proofs about the ports of the durable stores: the provider usage ledger,  *)
(* the single-record ports of the demos, backup and restore, and a domain    *)
(* run with its grant store, for any number of processes and any bounds.     *)
EXTENDS MCPorts, TLAPS, SequenceTheorems

-----------------------------------------------------------------------------
(* The provider usage ledger *)

\* One document for a kind and a key.
OneDocument ==
    \A d, e \in records : d.kind = e.kind /\ Key(d) = Key(e) => d = e

Underway == {"looking", "observing", "appending", "rereading", "rereading again", "proving"}
Drafting == {"appending", "rereading", "rereading again", "proving"}

\* A process drafts what it was asked for, proves what is stored, and tells that.
Processed(p) ==
    /\ pc[p] \in Underway => call[p] \in Asks
    /\ pc[p] \in Drafting => draft[p] \in Document /\ draft[p].attempt = call[p].attempt
    /\ pc[p] = "proving" => draft[p] \in records
    /\ answer[p].as = "done" => /\ answer[p].document \in records
                                /\ answer[p].document.attempt = call[p].attempt
    /\ pc[p] = "idle" => answer[p].as = "none"
    /\ pc[p] \in Underway => answer[p].as = "none"

UsageInv ==
    /\ pc \in [Processes -> Underway \cup {"idle", "ended"}]
    /\ call \in [Processes -> Asks \cup {Nothing}]
    /\ draft \in [Processes -> Document \cup {Nothing}]
    /\ first \in [Processes -> SUBSET Document]
    /\ answer \in [Processes -> [as : {"none", "done", "conflict", "refused", "ambiguous",
                                       "failed"},
                                 document : Document \cup {Nothing}]]
    /\ records \subseteq Document
    /\ OneDocument
    /\ \A p \in Processes : Processed(p)

\* What documents are made of, whatever their kind.
LEMMA DocumentForms ==
    /\ \A a \in Attempt, stamp \in Stamps :
          [kind |-> "attempt", attempt |-> a, stamp |-> stamp] \in Document
    /\ \A a \in Attempt, stamp \in Stamps : \A cost \in Recordable(a) :
          [kind |-> "usage", attempt |-> a, cost |-> cost, stamp |-> stamp] \in Document
    /\ \A d \in Document : \/ /\ d.kind = "attempt" /\ d.attempt \in Attempt
                            \/ /\ d.kind = "usage" /\ d.attempt \in Attempt
                               /\ d.cost \in Recordable(d.attempt)
  BY DEF Document, Recordable

\* The slot of a document has at most that document's key, and one document at most.
LEMMA SlotOfOne ==
    ASSUME OneDocument, NEW d, NEW e \in Slot(d)
    PROVE  e \in records /\ e.kind = d.kind /\ Key(e) = Key(d) /\ Slot(d) = {e}
  BY DEF OneDocument, Slot

\* A new document in a free slot leaves every slot with one.
LEMMA AppendKeepsOne ==
    ASSUME OneDocument, NEW d, Slot(d) = {}, records' = records \cup {d}
    PROVE  OneDocument'
  BY DEF OneDocument, Slot, Key

LEMMA UsageInitially ==
    ASSUME Init
    PROVE  UsageInv
  BY DEF Init, UsageInv, OneDocument, Processed, Underway, Drafting

LEMMA UsageStep ==
    ASSUME UsageInv, NEW p \in Processes,
           Start(p) \/ Step(p) \/ Fail(p) \/ Return(p) \/ Die(p)
    PROVE  UsageInv'
  <1> USE DEF Underway, Drafting
  <1>1. CASE Start(p)
    <2>1. PICK c \in Asks : call' = [call EXCEPT ![p] = c]
      BY <1>1 DEF Start
    <2> QED BY <1>1, <2>1 DEF Start, UsageInv, Processed, OneDocument
  <1>2. ASSUME NEW as \in {"conflict", "refused", "ambiguous", "failed"}, End(p, as, Nothing)
        PROVE  UsageInv'
    BY <1>2 DEF End, UsageInv, Processed, OneDocument
  <1>3. ASSUME NEW d \in records, End(p, "done", d), d.attempt = call[p].attempt
        PROVE  UsageInv'
    BY <1>3 DEF End, UsageInv, Processed, OneDocument
  <1>4. CASE Find(p)
    <2>1. PICK d \in Slot(Asked(call[p])) :
              IF SameHistory(call[p], d) THEN End(p, "done", d) ELSE End(p, "conflict", Nothing)
      BY <1>4 DEF Find
    <2> QED BY <2>1, <1>2, <1>3 DEF Slot, SameHistory
  <1>5. ASSUME NEW d \in Document, Prepare(p, d), d.attempt = call[p].attempt,
               pc[p] \in {"looking", "observing"}
        PROVE  UsageInv'
    BY <1>5 DEF Prepare, UsageInv, Processed, OneDocument
  <1>6. CASE PrepareAttempt(p)
    <2>1. call[p].attempt \in Attempt
      BY <1>6, UsageAssumption DEF PrepareAttempt, UsageInv, Processed, Call
    <2> QED BY <1>5, <1>6, <2>1, DocumentForms DEF PrepareAttempt
  <1>7. CASE AskProvider(p)
    BY <1>7 DEF AskProvider, UsageInv, Processed, OneDocument
  <1>8. CASE Observe(p)
    <2>1. call[p].attempt \in Attempt
      BY <1>8, UsageAssumption DEF Observe, UsageInv, Processed, Call
    <2> QED BY <1>2, <1>5, <1>8, <2>1, DocumentForms DEF Observe
  <1>9. ASSUME pc[p] \in Drafting, NEW step \in Drafting, GoTo(p, step), OneDocument',
               records \subseteq records', records' \subseteq records \cup {draft[p]},
               step = "proving" => draft[p] \in records'
        PROVE  UsageInv'
    BY <1>9 DEF GoTo, UsageInv, Processed
  <1>10. CASE AppendOnce(p)
    <2>1. CASE Slot(draft[p]) = {}
      BY <1>9, <1>10, <2>1, AppendKeepsOne DEF AppendOnce, UsageInv
    <2>2. CASE Slot(draft[p]) # {} /\ draft[p] \in records
      BY <1>9, <1>10, <2>2 DEF AppendOnce, UsageInv, OneDocument
    <2>3. CASE Slot(draft[p]) # {} /\ draft[p] \notin records
      BY <1>2, <1>10, <2>3 DEF AppendOnce
    <2> QED BY <2>1, <2>2, <2>3
  <1>11. CASE AppendAmbiguous(p)
    <2>1. records' = records \/ (Slot(draft[p]) = {} /\ records' = records \cup {draft[p]})
      BY <1>11 DEF AppendAmbiguous
    <2>2. OneDocument'
      BY <2>1, AppendKeepsOne DEF UsageInv, OneDocument
    <2>3. records \subseteq records' /\ records' \subseteq records \cup {draft[p]}
      BY <2>1
    <2> QED BY <1>9, <1>11, <2>2, <2>3 DEF AppendAmbiguous
  <1>12. CASE Reread(p)
    <2>1. Slot(draft[p]) \subseteq Document
      BY DEF Slot, UsageInv
    <2> QED BY <1>12, <2>1 DEF Reread, UsageInv, Processed, OneDocument
  <1>13. CASE RereadAgain(p)
    <2>1. first[p] = {draft[p]} /\ Slot(draft[p]) = first[p] => draft[p] \in records
      BY DEF Slot
    <2>2. records' = records => OneDocument'
      BY DEF UsageInv, OneDocument
    <2> QED BY <1>2, <1>9, <1>13, <2>1, <2>2 DEF RereadAgain
  <1>14. CASE Prove(p)
    BY <1>3, <1>14 DEF Prove, UsageInv, Processed
  <1>15. CASE Fail(p)
    BY <1>2, <1>15 DEF Fail
  <1>16. CASE Return(p) \/ Die(p)
    <2>1. Reset(p)
      BY <1>16 DEF Return, Die
    <2>2. \A q \in Processes : Processed(q)'
      BY <2>1 DEF Reset, UsageInv, Processed
    <2> QED BY <2>1, <2>2 DEF Reset, UsageInv, OneDocument
  <1> QED BY <1>1, <1>4, <1>6, <1>7, <1>8, <1>10, <1>11, <1>12, <1>13, <1>14, <1>15, <1>16
          DEF Step

\* A step of the whole is a step of one part, and of every other nothing.
LEMMA EachPartSteps ==
    ASSUME [PartsNext]_<<part, vars, demo, backup, domain>>
    PROVE  /\ Next \/ UNCHANGED vars
           /\ Demo!Next \/ UNCHANGED demo
           /\ Backup!Next \/ UNCHANGED backup
           /\ Domain!Next \/ UNCHANGED domain
  BY DEF PartsNext

LEMMA UsageKept == PartsSpec => []UsageInv
  <1>1. PartsInit => UsageInv
    BY UsageInitially DEF PartsInit
  <1>2. ASSUME UsageInv, [PartsNext]_<<part, vars, demo, backup, domain>>
        PROVE  UsageInv'
    <2>1. CASE Next
      BY <1>2, <2>1, UsageStep DEF Next
    <2>2. CASE UNCHANGED vars
      BY <1>2, <2>2 DEF vars, process, UsageInv, OneDocument, Processed
    <2> QED BY <1>2, <2>1, <2>2, EachPartSteps
  <1> QED BY <1>1, <1>2, PTL DEF PartsSpec

\* The records of the ledger, read as attempts and answers, change as the abstract
\* evidence does: an attempt for a phase that has none, an answer for an attempt that
\* has none, and nothing is ever taken back.
LEMMA RecordsAreEvidence ==
    ASSUME UsageInv, Next \/ UNCHANGED vars
    PROVE  [Evidence!EvidenceNext]_Evidence!evidence
  <1>1. CASE records' = records
    BY <1>1 DEF Evidence!evidence
  <1>2. CASE records' # records
    <2>1. PICK p \in Processes : AppendOnce(p) \/ AppendAmbiguous(p)
      BY <1>2 DEF Next, vars, Start, Step, Fail, Return, Die, Reset, End, Find, PrepareAttempt,
                  Prepare, AskProvider, Observe, Reread, RereadAgain, Prove, GoTo
    <2> DEFINE d == draft[p]
    <2>2. Slot(d) = {} /\ records' = records \cup {d}
      BY <1>2, <2>1 DEF AppendOnce, AppendAmbiguous, End
    <2>3. d \in Document
      BY <2>1 DEF AppendOnce, AppendAmbiguous, UsageInv, Processed, Drafting
    <2>4. CASE d.kind = "attempt"
      <3>1. d.attempt \in Evidence!Attempt
        BY <2>3, DocumentForms
           DEF Attempt, Phase, Evidence!Attempt, Evidence!Phase
      <3>2. Evidence!Begin(d.attempt)
        <4>1. \A e \in records : e.kind = "attempt" /\ e.attempt.res = d.attempt.res
                                     => e.attempt.phase # d.attempt.phase
          BY <2>2, <2>4 DEF Slot, Key
        <4> HIDE DEF d
        <4> QED BY <2>2, <2>4, <4>1 DEF Evidence!Begin
      <3>3. \E a \in Evidence!Attempt : Evidence!Begin(a)
        BY <3>1, <3>2 DEF Evidence!Begin
      <3> QED BY <3>3 DEF Evidence!EvidenceNext
    <2>5. CASE d.kind = "usage"
      <3> DEFINE u == [attempt |-> d.attempt, cost |-> d.cost]
      <3>1. u \in Evidence!Usage
        BY <2>3, <2>5, DocumentForms
           DEF Attempt, Phase, CostsOf, Recordable, Evidence!Attempt, Evidence!Phase,
               Evidence!CostsOf, Evidence!Usage
      <3>2. Evidence!Answer(u)
        <4>1. \A e \in records : e.kind = "usage" => e.attempt # d.attempt
          BY <2>2, <2>5 DEF Slot, Key
        <4> HIDE DEF d
        <4> QED BY <2>2, <2>5, <4>1 DEF Evidence!Answer
      <3>3. \E v \in Evidence!Usage : Evidence!Answer(v)
        <4> HIDE DEF u
        <4> QED BY <3>1, <3>2 DEF Evidence!Answer
      <3> QED BY <3>3 DEF Evidence!EvidenceNext
    <2> QED BY <2>3, <2>4, <2>5, DocumentForms
  <1> QED BY <1>1, <1>2

\* ImplementsProviderEvidence: what the ledger stores is what the cost ledger settles by,
\* one attempt for each phase of a reservation and one answer for each attempt, neither
\* ever changed, whatever races, acknowledgements or processes are lost
\* (openDurableEngineeringProviderUsageLedger).
THEOREM UsageImplementsEvidence == PartsSpec => ImplementsProviderEvidence
  <1>1. PartsInit => Evidence!EvidenceInit
    BY DEF PartsInit, Init, Evidence!EvidenceInit
  <1>2. UsageInv /\ [PartsNext]_<<part, vars, demo, backup, domain>>
            => [Evidence!EvidenceNext]_Evidence!evidence
    BY EachPartSteps, RecordsAreEvidence
  <1> QED BY <1>1, <1>2, UsageKept, PTL
          DEF PartsSpec, ImplementsProviderEvidence, Evidence!EvidenceSpec

-----------------------------------------------------------------------------
(* The demo ports *)

Records == Demo!Attempts \cup Demo!Usages
OneRecord == \A r, s \in ports : r.slot = s.slot => r = s

\* The usage of an attempt is recorded as the attempt was.
OfItsAttempt == \A r \in ports \cap Demo!Usages : r.content = r.slot.attempt.content

Busy == {"looking", "writing", "rereading", "in doubt", "in doubt still",
         "finding usage", "claiming", "claim in doubt", "contending", "resolving"}
Asking == {"finding usage", "claiming", "claim in doubt", "contending", "resolving"}
Writing == {"writing", "in doubt", "in doubt still"}

\* The slot of a usage names the attempt that is stored for its key.
Rooted(s) == /\ s.attempt \in ports
             /\ s.attempt.slot = [key |-> s.key, attempt |-> None]

\* A caller drafts what it was asked for, and asks about an attempt that is stored.
Called(p) ==
    /\ at[p] = "idle" => record[p] = None
    /\ at[p] \in Busy \cup {"answered"} =>
          slot[p] \in Demo!Own \cup Demo!OfUsage /\ content[p] \in Demo!Content
    /\ at[p] \in Asking => slot[p] \in Demo!OfUsage
    /\ at[p] \in Busy \cup {"answered"} /\ slot[p].attempt # None =>
          Rooted(slot[p]) /\ content[p] = slot[p].attempt.content
    /\ record[p] # None /\ at[p] \in Busy =>
          record[p].slot = slot[p] /\ record[p].content = content[p]
    /\ at[p] \in Writing => record[p] # None
    /\ at[p] = "in doubt still" => read[p] \subseteq Demo!At(slot[p])
    /\ at[p] = "answered" => /\ told[p] \in ports /\ told[p].slot = slot[p]
                             /\ told[p].content = content[p]

\* A claim is the one of its key, and whoever has it asks the provider once.
ClaimedOnce ==
    /\ \A s \in claims : Rooted(s)
    /\ \A k \in Keys : /\ lookups[k] <= 1
                       /\ lookups[k] > 0 => \E s \in claims : s.key = k
    /\ \A p \in Processes : at[p] = "resolving" =>
          slot[p] \in claims /\ lookups[slot[p].key] = 0
    /\ \A p, q \in Processes : at[p] = "resolving" /\ at[q] = "resolving"
                                   /\ slot[p].key = slot[q].key => p = q

DemoTyped ==
    /\ port \in Demo!Ports
    /\ ports \subseteq Records
    /\ claims \subseteq Demo!OfUsage
    /\ lookups \in [Keys -> Nat]
    /\ at \in [Processes -> Busy \cup Demo!Ended]
    /\ slot \in [Processes -> Demo!Own \cup Demo!OfUsage \cup {None}]
    /\ content \in [Processes -> Demo!Content \cup {None}]
    /\ record \in [Processes -> Records \cup {None}]
    /\ read \in [Processes -> SUBSET Records]
    /\ told \in [Processes -> Records \cup {None}]

DemoInv ==
    /\ DemoTyped
    /\ OneRecord /\ OfItsAttempt
    /\ \A p \in Processes : Called(p)
    /\ ClaimedOnce

\* Slots and records know whether they are of an attempt or of its usage.
LEMMA DemoForms ==
    /\ \A r \in Demo!Attempts : r.slot \in Demo!Own /\ r.content \in Demo!Content
    /\ \A r \in Demo!Usages : r.slot \in Demo!OfUsage /\ r.content \in Demo!Content
    /\ \A s \in Demo!Own : s.key \in Keys /\ s.attempt = None
                           /\ s = [key |-> s.key, attempt |-> None]
    /\ \A s \in Demo!OfUsage : /\ s.key \in Keys /\ s.attempt \in Demo!Attempts
                               /\ s.attempt # None /\ s.attempt \in Records
    /\ \A s, t \in Demo!OfUsage : s.key = t.key /\ s.attempt = t.attempt => s = t
    /\ \A r \in Records : r # None
  BY PortsAssumption DEF Demo!Attempts, Demo!Usages, Demo!Own, Demo!OfUsage, Records

\* Two usages asked for under one key are of one attempt.
LEMMA RootedAgree ==
    ASSUME OneRecord, NEW s \in Demo!OfUsage, NEW t \in Demo!OfUsage,
           Rooted(s), Rooted(t), s.key = t.key
    PROVE  s = t
  BY DemoForms DEF OneRecord, Rooted

\* What a step leaves alone of every process but its own.
Apart(p) == \A q \in Processes \ {p} :
    /\ at'[q] = at[q] /\ slot'[q] = slot[q] /\ content'[q] = content[q]
    /\ record'[q] = record[q] /\ read'[q] = read[q] /\ told'[q] = told[q]

LEMMA CalledFrame ==
    ASSUME DemoInv, NEW p \in Processes, Apart(p), ports \subseteq ports', Called(p)'
    PROVE  \A q \in Processes : Called(q)'
  <1>1. ASSUME NEW q \in Processes \ {p}
        PROVE  Called(q)'
    <2>1. /\ at'[q] = at[q] /\ slot'[q] = slot[q] /\ content'[q] = content[q]
          /\ record'[q] = record[q] /\ read'[q] = read[q] /\ told'[q] = told[q]
      BY DEF Apart
    <2>2. Called(q)
      BY DEF DemoInv
    <2>3. Rooted(slot[q]) => Rooted(slot[q])'
      BY <2>1 DEF Rooted
    <2>4. read[q] \subseteq Demo!At(slot[q]) => (read[q] \subseteq Demo!At(slot[q]))'
      BY <2>1 DEF Demo!At
    <2>5. told[q] \in ports => (told[q] \in ports)'
      BY <2>1
    <2>6. /\ (at[q] = "idle" => record[q] = None)'
          /\ (at[q] \in Busy \cup {"answered"} =>
                slot[q] \in Demo!Own \cup Demo!OfUsage /\ content[q] \in Demo!Content)'
          /\ (at[q] \in Asking => slot[q] \in Demo!OfUsage)'
      BY <2>1, <2>2, Zenon DEF Called, Busy, Asking, Demo!Own, Demo!OfUsage, Demo!Content,
         Demo!Attempts
    <2>7. (at[q] \in Busy \cup {"answered"} /\ slot[q].attempt # None =>
             Rooted(slot[q]) /\ content[q] = slot[q].attempt.content)'
      BY <2>1, <2>2, <2>3 DEF Called, Busy
    <2>8. (record[q] # None /\ at[q] \in Busy =>
             record[q].slot = slot[q] /\ record[q].content = content[q])'
      BY <2>1, <2>2 DEF Called, Busy
    <2>9. /\ (at[q] \in Writing => record[q] # None)'
          /\ (at[q] = "in doubt still" => read[q] \subseteq Demo!At(slot[q]))'
      BY <2>1, <2>2, <2>4 DEF Called, Writing
    <2>10. (at[q] = "answered" => /\ told[q] \in ports /\ told[q].slot = slot[q]
                                  /\ told[q].content = content[q])'
      BY <2>1, <2>2, <2>5 DEF Called
    <2> QED BY <2>6, <2>7, <2>8, <2>9, <2>10 DEF Called
  <1> QED BY <1>1

LEMMA ClaimsFrame ==
    ASSUME DemoInv, NEW p \in Processes, Apart(p), ports \subseteq ports',
           UNCHANGED <<claims, lookups>>, at'[p] # "resolving"
    PROVE  ClaimedOnce'
  BY DEF Apart, DemoInv, ClaimedOnce, Rooted

LEMMA DemoInitially ==
    ASSUME Demo!Init
    PROVE  DemoInv
  BY DemoForms
     DEF Demo!Init, DemoInv, DemoTyped, OneRecord, OfItsAttempt, Called, ClaimedOnce, Busy, Asking,
         Writing, Demo!Ended

\* A caller that is answered, refused or gone: the record it is told is there.
LEMMA DemoEnds ==
    ASSUME DemoInv, NEW p \in Processes, UNCHANGED <<port, ports, claims, lookups>>,
           \/ \E r \in Demo!At(slot[p]) : /\ Demo!Answer(p, r) /\ r.content = content[p]
                                          /\ at[p] \in Busy
           \/ \E as \in {"conflict", "failed", "pending"} : Demo!Refuse(p, as)
           \/ Demo!Leave(p)
    PROVE  DemoInv'
  <1>1. CASE \E r \in Demo!At(slot[p]) : /\ Demo!Answer(p, r) /\ r.content = content[p]
                                         /\ at[p] \in Busy
    <2>1. PICK r \in Demo!At(slot[p]) : Demo!Answer(p, r) /\ r.content = content[p]
      BY <1>1
    <2>2. DemoTyped' /\ Apart(p)
      BY <2>1 DEF Demo!Answer, Demo!Goto, Demo!At, DemoInv, DemoTyped, Apart, Demo!Ended
    <2>3. Called(p)' /\ at'[p] # "resolving"
      BY <1>1, <2>1
         DEF Demo!Answer, Demo!Goto, Demo!At, DemoInv, DemoTyped, Called, Rooted, Busy, Asking,
             Writing
    <2> QED BY <2>2, <2>3, CalledFrame, ClaimsFrame DEF DemoInv, OneRecord, OfItsAttempt
  <1>2. CASE (\E as \in {"conflict", "failed", "pending"} : Demo!Refuse(p, as)) \/ Demo!Leave(p)
    <2>1. DemoTyped' /\ Apart(p)
      BY <1>2 DEF Demo!Refuse, Demo!Leave, Demo!Goto, DemoInv, DemoTyped, Apart, Demo!Ended
    <2>2. Called(p)' /\ at'[p] # "resolving"
      BY <1>2
         DEF Demo!Refuse, Demo!Leave, Demo!Goto, DemoInv, DemoTyped, Called, Busy, Asking,
             Writing
    <2> QED BY <2>1, <2>2, CalledFrame, ClaimsFrame DEF DemoInv, OneRecord, OfItsAttempt
  <1> QED BY <1>1, <1>2

\* A step that moves its own process on, and changes no record and no claim.
LEMMA DemoMoves ==
    ASSUME DemoInv, NEW p \in Processes, UNCHANGED <<port, ports, claims, lookups>>,
           DemoTyped', Apart(p), Called(p)', at'[p] # "resolving"
    PROVE  DemoInv'
  BY CalledFrame, ClaimsFrame DEF DemoInv, OneRecord, OfItsAttempt

LEMMA DemoStarts ==
    ASSUME DemoInv, NEW p \in Processes, Demo!Start(p)
    PROVE  DemoInv'
  <1>1. PICK s \in Demo!Own, c \in Demo!Contents :
            slot' = [slot EXCEPT ![p] = s] /\ content' = [content EXCEPT ![p] = c]
    BY DEF Demo!Start
  <1>2. c \in Demo!Content /\ s.attempt = None
    BY PortsAssumption, DemoForms DEF Demo!Contents
  <1>3. DemoTyped' /\ Apart(p)
    BY <1>1, <1>2
       DEF Demo!Start, Demo!Goto, Demo!Stored, DemoInv, DemoTyped, Apart, Busy
  <1>4. Called(p)' /\ at'[p] = "looking"
    BY <1>1, <1>2
       DEF Demo!Start, Demo!Goto, Demo!Stored, DemoInv, DemoTyped, Called, Busy, Asking, Writing
  <1> QED BY <1>3, <1>4, DemoMoves DEF Demo!Start, Demo!Stored

\* A caller goes on with the draft of what it was asked for.
LEMMA CalledDrafts ==
    ASSUME DemoInv, NEW p \in Processes, at[p] \in Busy, ports \subseteq ports',
           at'[p] \in {"writing", "rereading", "in doubt"},
           slot'[p] = slot[p], content'[p] = content[p], record'[p] # None,
           record'[p].slot = slot[p], record'[p].content = content[p]
    PROVE  Called(p)'
  <1>1. /\ slot[p] \in Demo!Own \cup Demo!OfUsage /\ content[p] \in Demo!Content
        /\ slot[p].attempt # None => Rooted(slot[p]) /\ content[p] = slot[p].attempt.content
    BY DEF DemoInv, Called
  <1>2. slot'[p].attempt # None => Rooted(slot[p])' /\ content'[p] = slot'[p].attempt.content
    BY <1>1 DEF Rooted
  <1>3. /\ at'[p] # "idle" /\ at'[p] # "in doubt still" /\ at'[p] # "answered"
        /\ at'[p] \notin Asking
    BY DEF Asking
  <1>4. slot'[p] \in Demo!Own \cup Demo!OfUsage /\ content'[p] \in Demo!Content
    BY <1>1
  <1> QED BY <1>2, <1>3, <1>4 DEF Called, Demo!Own, Demo!OfUsage, Demo!Content, Demo!Attempts

LEMMA DemoLooks ==
    ASSUME DemoInv, NEW p \in Processes, Demo!Look(p)
    PROVE  DemoInv'
  <1>1. CASE Demo!At(slot[p]) # {}
    BY <1>1, DemoEnds DEF Demo!Look, Demo!Same, Demo!Stored, Busy
  <1>2. CASE Demo!At(slot[p]) = {} /\ record[p] # None
    <2>1. DemoTyped' /\ Apart(p)
      BY <1>2 DEF Demo!Look, Demo!Goto, Demo!Stored, DemoInv, DemoTyped, Apart, Busy
    <2>2. Called(p)' /\ at'[p] = "writing"
      BY <1>2
         DEF Demo!Look, Demo!Goto, Demo!Stored, DemoInv, DemoTyped, Called, Rooted, Busy, Asking,
             Writing
    <2> QED BY <2>1, <2>2, DemoMoves DEF Demo!Look, Demo!Stored
  <1>3. CASE Demo!At(slot[p]) = {} /\ record[p] = None
    <2>1. PICK m \in Stamps : record' = [record EXCEPT ![p] =
              [slot |-> slot[p], content |-> content[p], mark |-> m]]
      BY <1>3 DEF Demo!Look
    <2>2. [slot |-> slot[p], content |-> content[p], mark |-> m] \in Records
      BY DEF Demo!Look, DemoInv, Called, Busy, Records, Demo!Attempts, Demo!Usages
    <2>3. DemoTyped' /\ Apart(p)
      BY <1>3, <2>1, <2>2 DEF Demo!Look, Demo!Goto, Demo!Stored, DemoInv, DemoTyped, Apart, Busy
    <2>4. /\ at[p] \in Busy /\ at'[p] = "writing" /\ slot' = slot /\ content' = content
          /\ ports' = ports
      BY <1>3 DEF Demo!Look, Demo!Goto, Demo!Stored, DemoInv, DemoTyped, Busy
    <2>5. record'[p] = [slot |-> slot[p], content |-> content[p], mark |-> m]
      BY <2>1 DEF DemoInv, DemoTyped
    <2>6. record'[p] # None
      BY <2>2, <2>5, DemoForms
    <2>7. Called(p)'
      <3>1. /\ at'[p] \in {"writing", "rereading", "in doubt"} /\ slot'[p] = slot[p]
            /\ content'[p] = content[p] /\ ports \subseteq ports'
        BY <2>4
      <3>2. record'[p].slot = slot[p] /\ record'[p].content = content[p]
        BY <2>5
      <3> QED BY <2>4, <2>6, <3>1, <3>2, CalledDrafts
    <2> QED BY <2>3, <2>4, <2>7, DemoMoves DEF Demo!Look, Demo!Stored
  <1> QED BY <1>1, <1>2, <1>3

\* The draft of a caller takes a free slot, and records of an attempt's usage what the
\* attempt records.
LEMMA DraftLands ==
    ASSUME DemoInv, NEW p \in Processes, at[p] \in Writing,
           \/ ports' = ports
           \/ Demo!At(slot[p]) = {} /\ ports' = ports \cup {record[p]}
    PROVE  ports \subseteq ports' /\ ports' \subseteq Records /\ OneRecord' /\ OfItsAttempt'
  <1>1. /\ record[p] \in Records /\ record[p].slot = slot[p] /\ record[p].content = content[p]
        /\ slot[p].attempt # None => content[p] = slot[p].attempt.content
    BY DEF DemoInv, DemoTyped, Called, Writing, Busy
  <1>2. OneRecord'
    BY <1>1 DEF DemoInv, OneRecord, Demo!At
  <1>3. OfItsAttempt'
    BY <1>1, DemoForms DEF DemoInv, OfItsAttempt
  <1> QED BY <1>1, <1>2, <1>3 DEF DemoInv, DemoTyped

LEMMA DemoWrites ==
    ASSUME DemoInv, NEW p \in Processes, Demo!Write(p) \/ Demo!WriteInDoubt(p)
    PROVE  DemoInv'
  <1>1. /\ at[p] = "writing" /\ at[p] \in Writing /\ UNCHANGED <<port, claims, lookups>>
        /\ \/ ports' = ports
           \/ Demo!At(slot[p]) = {} /\ ports' = ports \cup {record[p]}
    BY DEF Demo!Write, Demo!WriteInDoubt, Writing
  <1>2. ports \subseteq ports' /\ ports' \subseteq Records /\ OneRecord' /\ OfItsAttempt'
    BY <1>1, DraftLands
  <1>3. DemoTyped' /\ Apart(p)
    BY <1>1, <1>2
       DEF Demo!Write, Demo!WriteInDoubt, Demo!Answer, Demo!Goto, Demo!Kept, DemoInv,
           DemoTyped, Apart, Busy, Demo!Ended
  <1>4. /\ record[p] # None /\ record[p].slot = slot[p] /\ record[p].content = content[p]
        /\ at[p] \in Busy
    BY <1>1 DEF DemoInv, Called, Busy, Writing
  <1>5. Called(p)' /\ at'[p] # "resolving"
    <2>1. CASE Demo!Answer(p, record[p]) /\ record[p] \in ports'
      <3>1. /\ at'[p] = "answered" /\ told'[p] = record[p]
            /\ slot' = slot /\ content' = content
        BY <2>1 DEF Demo!Answer, Demo!Goto, DemoInv, DemoTyped
      <3>2. /\ slot[p] \in Demo!Own \cup Demo!OfUsage /\ content[p] \in Demo!Content
            /\ slot[p].attempt # None => Rooted(slot[p]) /\ content[p] = slot[p].attempt.content
        BY <1>4 DEF DemoInv, Called
      <3>3. slot'[p].attempt # None =>
              Rooted(slot[p])' /\ content'[p] = slot'[p].attempt.content
        BY <1>2, <3>1, <3>2 DEF Rooted
      <3>4. at'[p] \notin Busy /\ at'[p] \notin Asking /\ at'[p] \notin Writing
        BY <3>1 DEF Busy, Asking, Writing
      <3>5. (slot[p] \in Demo!Own \cup Demo!OfUsage /\ content[p] \in Demo!Content)'
        BY <3>1, <3>2 DEF Demo!Own, Demo!OfUsage, Demo!Content, Demo!Attempts
      <3>6. told'[p] \in ports' /\ told'[p].slot = slot'[p] /\ told'[p].content = content'[p]
        BY <1>4, <2>1, <3>1
      <3> QED BY <3>1, <3>3, <3>4, <3>5, <3>6 DEF Called
    <2>2. CASE /\ Demo!Goto(p, "rereading") \/ Demo!Goto(p, "in doubt")
               /\ Demo!Kept
      <3>1. /\ at'[p] \in {"rereading", "in doubt"} /\ slot' = slot /\ content' = content
            /\ record' = record
        BY <2>2 DEF Demo!Goto, Demo!Kept, DemoInv, DemoTyped
      <3> QED BY <1>2, <1>4, <3>1, CalledDrafts
    <2> QED BY <2>1, <2>2 DEF Demo!Write, Demo!WriteInDoubt
  <1> QED BY <1>1, <1>2, <1>3, <1>5, CalledFrame, ClaimsFrame DEF DemoInv

LEMMA DemoRereads ==
    ASSUME DemoInv, NEW p \in Processes,
           Demo!Reread(p) \/ Demo!DoubtRead(p) \/ Demo!DoubtReadAgain(p)
    PROVE  DemoInv'
  <1>1. CASE Demo!Reread(p)
    BY <1>1, DemoEnds DEF Demo!Reread, Demo!Same, Demo!Stored, Busy
  <1>2. CASE Demo!DoubtRead(p)
    <2>1. Demo!At(slot[p]) \subseteq Records
      BY DEF Demo!At, DemoInv, DemoTyped
    <2>2. DemoTyped' /\ Apart(p)
      BY <1>2, <2>1
         DEF Demo!DoubtRead, Demo!ReadOnce, Demo!Goto, Demo!Stored, DemoInv, DemoTyped, Apart,
             Busy
    <2>3. Called(p)' /\ at'[p] = "in doubt still"
      BY <1>2
         DEF Demo!DoubtRead, Demo!ReadOnce, Demo!Goto, Demo!Stored, Demo!At, DemoInv, DemoTyped,
             Called, Rooted, Busy, Asking, Writing
    <2> QED BY <1>2, <2>2, <2>3, DemoMoves DEF Demo!DoubtRead, Demo!ReadOnce, Demo!Stored
  <1>3. CASE Demo!DoubtReadAgain(p)
    <2>1. \A r \in read[p] : Demo!Same(p, r) => r.content = content[p]
      BY DEF Demo!Same
    <2>2. CASE Demo!At(slot[p]) = read[p] /\ \E r \in read[p] : Demo!Same(p, r)
      <3>1. PICK r \in Demo!At(slot[p]) : Demo!Answer(p, r)
        BY <1>3, <2>2 DEF Demo!DoubtReadAgain
      <3>2. \A q \in Demo!At(slot[p]) : q = r
        BY DEF DemoInv, OneRecord, Demo!At
      <3> QED BY <1>3, <2>1, <2>2, <3>1, <3>2, DemoEnds DEF Demo!DoubtReadAgain, Demo!Stored, Busy
    <2> QED BY <1>3, <2>2, DemoEnds DEF Demo!DoubtReadAgain, Demo!Stored
  <1> QED BY <1>1, <1>2, <1>3

\* An attempt that is stored may be asked about.
LEMMA DemoReconciles ==
    ASSUME DemoInv, NEW p \in Processes, Demo!Reconcile(p)
    PROVE  DemoInv'
  <1> DEFINE s == [key |-> slot[p].key, attempt |-> told[p]]
  <1>1. /\ at[p] = "answered" /\ told[p] \in Demo!Attempts /\ told[p] \in ports
        /\ told[p].slot = slot[p] /\ told[p].content = content[p]
        /\ content[p] \in Demo!Content
    BY DEF Demo!Reconcile, DemoInv, Called
  <1>2. s \in Demo!OfUsage /\ Rooted(s) /\ s.attempt = told[p]
    BY <1>1, DemoForms DEF Demo!OfUsage, Rooted
  <1> HIDE DEF s
  <1>3. slot' = [slot EXCEPT ![p] = s]
    BY DEF Demo!Reconcile, s
  <1>4. DemoTyped' /\ Apart(p)
    BY <1>2, <1>3
       DEF Demo!Reconcile, Demo!Goto, Demo!Stored, DemoInv, DemoTyped, Apart, Busy
  <1>5. Called(p)' /\ at'[p] = "finding usage"
    BY <1>1, <1>2, <1>3
       DEF Demo!Reconcile, Demo!Goto, Demo!Stored, DemoInv, DemoTyped, Called, Rooted, Busy,
           Asking, Writing
  <1> QED BY <1>4, <1>5, DemoMoves DEF Demo!Reconcile, Demo!Stored

\* What is found under the slot of a usage records what its caller asked for.
LEMMA UsageFound ==
    ASSUME DemoInv, NEW p \in Processes, at[p] \in Asking, NEW r \in Demo!At(slot[p])
    PROVE  r.content = content[p]
  <1>1. /\ slot[p] \in Demo!OfUsage /\ slot[p].attempt # None
        /\ content[p] = slot[p].attempt.content
    BY DemoForms DEF DemoInv, Called, Asking, Busy
  <1>2. r \in ports \cap Demo!Usages /\ r.slot = slot[p]
    BY <1>1, DemoForms DEF Demo!At, DemoInv, DemoTyped, Records
  <1> QED BY <1>1, <1>2 DEF DemoInv, OfItsAttempt

LEMMA DemoFinds ==
    ASSUME DemoInv, NEW p \in Processes,
           Demo!FindUsage(p) \/ Demo!Contend(p) \/ Demo!DoubtClaim(p)
    PROVE  DemoInv'
  <1>1. at[p] \in Asking /\ at[p] \in Busy /\ UNCHANGED <<port, ports, claims, lookups>>
    BY DEF Demo!FindUsage, Demo!Contend, Demo!DoubtClaim, Demo!Stored, Asking, Busy
  <1>2. ASSUME NEW step \in {"claiming", "contending"}, Demo!Goto(p, step), Demo!Kept
        PROVE  DemoInv'
    <2>1. DemoTyped' /\ Apart(p)
      BY <1>1, <1>2 DEF Demo!Goto, Demo!Kept, DemoInv, DemoTyped, Apart, Busy
    <2>2. Called(p)' /\ at'[p] # "resolving"
      BY <1>1, <1>2
         DEF Demo!Goto, Demo!Kept, DemoInv, DemoTyped, Called, Rooted, Busy, Asking, Writing
    <2> QED BY <1>1, <2>1, <2>2, DemoMoves
  <1>3. CASE Demo!FindUsage(p) \/ Demo!Contend(p)
    <2>1. CASE Demo!At(slot[p]) # {}
      BY <1>1, <1>3, <2>1, UsageFound, DemoEnds DEF Demo!FindUsage, Demo!Contend
    <2>2. CASE Demo!At(slot[p]) = {}
      BY <1>1, <1>2, <1>3, <2>2, DemoEnds DEF Demo!FindUsage, Demo!Contend
    <2> QED BY <2>1, <2>2
  <1>4. CASE Demo!DoubtClaim(p)
    BY <1>1, <1>2, <1>4, DemoEnds DEF Demo!DoubtClaim, Demo!ClaimFound
  <1> QED BY <1>3, <1>4

\* A claim is made of a slot that nobody claimed, and of one attempt for a key: who
\* makes it is the first to ask.
LEMMA DemoClaims ==
    ASSUME DemoInv, NEW p \in Processes, Demo!Claim(p) \/ Demo!ClaimInDoubt(p)
    PROVE  DemoInv'
  <1>1. /\ at[p] = "claiming" /\ slot[p] \in Demo!OfUsage /\ Rooted(slot[p])
        /\ UNCHANGED <<port, ports, lookups>>
    BY DemoForms DEF Demo!Claim, Demo!ClaimInDoubt, DemoInv, Called, Asking, Busy
  <1>2. DemoTyped' /\ Apart(p)
    BY <1>1
       DEF Demo!Claim, Demo!ClaimInDoubt, Demo!Goto, Demo!Kept, DemoInv, DemoTyped, Apart, Busy
  <1>3. Called(p)'
    BY <1>1
       DEF Demo!Claim, Demo!ClaimInDoubt, Demo!Goto, Demo!Kept, DemoInv, DemoTyped, Called,
           Rooted, Busy, Asking, Writing
  <1>4. claims \subseteq claims' /\ claims' \subseteq claims \cup {slot[p]} /\ slot' = slot
    BY DEF Demo!Claim, Demo!ClaimInDoubt, Demo!Kept
  <1>5. /\ \A s \in claims' : Rooted(s)'
        /\ \A k \in Keys : /\ lookups'[k] <= 1
                           /\ lookups'[k] > 0 => \E s \in claims' : s.key = k
    BY <1>1, <1>4 DEF DemoInv, ClaimedOnce, Rooted
  <1>6. ASSUME at'[p] # "resolving"
        PROVE  ClaimedOnce'
    <2>1. \A q \in Processes : at'[q] = "resolving" => at[q] = "resolving"
      BY <1>2, <1>6 DEF Apart
    <2>2. \A q \in Processes : at'[q] = "resolving" =>
              slot'[q] \in claims' /\ lookups'[slot'[q].key] = 0
      BY <1>1, <1>4, <2>1 DEF DemoInv, ClaimedOnce
    <2>3. \A q, t \in Processes :
              at'[q] = "resolving" /\ at'[t] = "resolving" /\ slot'[q].key = slot'[t].key => q = t
      BY <1>4, <2>1 DEF DemoInv, ClaimedOnce
    <2> QED BY <1>5, <2>2, <2>3 DEF ClaimedOnce
  <1>7. ASSUME at'[p] = "resolving"
        PROVE  ClaimedOnce'
    <2>1. slot[p] \notin claims /\ slot[p] \in claims'
      BY <1>1, <1>7
         DEF Demo!Claim, Demo!ClaimInDoubt, Demo!Goto, Demo!Claimed, DemoInv, DemoTyped
    <2>2. \A s \in claims : s.key # slot[p].key
      BY <1>1, <2>1, RootedAgree DEF DemoInv, DemoTyped, ClaimedOnce
    <2>3. lookups[slot[p].key] = 0
      BY <1>1, <2>2, DemoForms DEF DemoInv, DemoTyped, ClaimedOnce
    <2>4. \A q \in Processes \ {p} : at'[q] = "resolving" =>
              /\ slot[q] \in claims /\ lookups[slot[q].key] = 0 /\ slot[q].key # slot[p].key
      BY <1>2, <2>2 DEF DemoInv, ClaimedOnce, Apart
    <2>5. \A q \in Processes : at'[q] = "resolving" =>
              slot'[q] \in claims' /\ lookups'[slot'[q].key] = 0
      BY <1>1, <1>4, <2>1, <2>3, <2>4
    <2>6. \A q, t \in Processes :
              at'[q] = "resolving" /\ at'[t] = "resolving" /\ slot'[q].key = slot'[t].key => q = t
      BY <1>2, <1>4, <2>4 DEF DemoInv, ClaimedOnce, Apart
    <2> QED BY <1>5, <2>5, <2>6 DEF ClaimedOnce
  <1>8. OneRecord' /\ OfItsAttempt'
    BY <1>1 DEF DemoInv, OneRecord, OfItsAttempt
  <1> QED BY <1>1, <1>2, <1>3, <1>6, <1>7, <1>8, CalledFrame DEF DemoInv

\* The provider is asked by the one who may ask.
LEMMA DemoResolves ==
    ASSUME DemoInv, NEW p \in Processes, Demo!Resolve(p)
    PROVE  DemoInv'
  <1>1. /\ at[p] = "resolving" /\ slot[p] \in Demo!OfUsage /\ slot[p] \in claims
        /\ lookups[slot[p].key] = 0 /\ slot[p].key \in Keys /\ content[p] \in Demo!Content
        /\ UNCHANGED <<port, ports, claims, slot, content, read, told>>
        /\ at' = [at EXCEPT ![p] = "looking"]
        /\ lookups' = [lookups EXCEPT ![slot[p].key] = 1]
    <2>1. at[p] = "resolving"
      BY DEF Demo!Resolve
    <2>2. /\ slot[p] \in Demo!OfUsage /\ slot[p] \in claims /\ lookups[slot[p].key] = 0
          /\ content[p] \in Demo!Content
      BY <2>1 DEF DemoInv, Called, ClaimedOnce, Asking, Busy
    <2>3. slot[p].key \in Keys
      BY <2>2, DemoForms
    <2>4. lookups' = [lookups EXCEPT ![slot[p].key] = 1]
      BY <2>2, <2>3 DEF Demo!Resolve, DemoInv, DemoTyped
    <2> QED BY <2>1, <2>2, <2>3, <2>4 DEF Demo!Resolve, Demo!Goto
  <1>2. PICK m \in Stamps : record' = [record EXCEPT ![p] =
            [slot |-> slot[p], content |-> content[p], mark |-> m]]
    BY DEF Demo!Resolve
  <1>3. [slot |-> slot[p], content |-> content[p], mark |-> m] \in Records
    BY <1>1 DEF Records, Demo!Usages
  <1>4. DemoTyped' /\ Apart(p)
    BY <1>1, <1>2, <1>3 DEF DemoInv, DemoTyped, Apart, Busy
  <1>5. Called(p)'
    BY <1>1, <1>2, <1>3, DemoForms
       DEF DemoInv, DemoTyped, Called, Rooted, Busy, Asking, Writing
  <1>6. \A q \in Processes \ {p} : at'[q] = "resolving" => slot[q].key # slot[p].key
    BY <1>1, <1>4 DEF DemoInv, ClaimedOnce, Apart
  <1>7. ClaimedOnce'
    <2>1. \A s \in claims' : Rooted(s)'
      BY <1>1 DEF DemoInv, ClaimedOnce, Rooted
    <2>2. \A k \in Keys : /\ lookups'[k] <= 1
                          /\ lookups'[k] > 0 => \E s \in claims' : s.key = k
      BY <1>1 DEF DemoInv, DemoTyped, ClaimedOnce
    <2>3. \A q \in Processes : at'[q] = "resolving" =>
              q # p /\ at[q] = "resolving" /\ slot'[q] \in claims' /\ lookups'[slot'[q].key] = 0
      <3>1. ASSUME NEW q \in Processes, at'[q] = "resolving"
            PROVE  /\ q # p /\ at[q] = "resolving" /\ slot[q] \in claims
                   /\ lookups[slot[q].key] = 0
        BY <1>1, <1>4, <3>1 DEF DemoInv, DemoTyped, ClaimedOnce, Apart
      <3>2. \A s \in claims : s.key \in Keys
        BY DemoForms DEF DemoInv, DemoTyped
      <3> QED BY <1>1, <1>6, <3>1, <3>2 DEF DemoInv, DemoTyped
    <2> QED BY <1>1, <2>1, <2>2, <2>3 DEF DemoInv, ClaimedOnce
  <1>8. OneRecord' /\ OfItsAttempt'
    BY <1>1 DEF DemoInv, OneRecord, OfItsAttempt
  <1> QED BY <1>1, <1>4, <1>5, <1>7, <1>8, CalledFrame DEF DemoInv

LEMMA DemoKept == PartsSpec => []DemoInv
  <1>1. PartsInit => DemoInv
    BY DemoInitially DEF PartsInit
  <1>2. ASSUME DemoInv, [PartsNext]_<<part, vars, demo, backup, domain>>
        PROVE  DemoInv'
    <2>1. ASSUME NEW p \in Processes, Demo!Return(p) \/ Demo!Die(p)
          PROVE  DemoInv'
      BY <1>2, <2>1, DemoEnds DEF Demo!Return, Demo!Die, Demo!Stored
    <2>2. CASE Demo!Next
      BY <1>2, <2>1, <2>2, DemoStarts, DemoLooks, DemoWrites, DemoRereads, DemoReconciles,
         DemoFinds, DemoClaims, DemoResolves
         DEF Demo!Next, Demo!Operation, Demo!Usage
    <2>3. CASE UNCHANGED demo
      <3>1. /\ UNCHANGED <<port, ports, claims, lookups>>
            /\ UNCHANGED <<at, slot, content, record, read, told>>
        BY <2>3 DEF demo
      <3>2. DemoTyped' /\ OneRecord' /\ OfItsAttempt'
        BY <1>2, <3>1 DEF DemoInv, DemoTyped, OneRecord, OfItsAttempt
      <3>3. \A p \in Processes : Called(p)'
        BY <1>2, <3>1 DEF DemoInv, Called, Rooted, Demo!At
      <3>4. ClaimedOnce'
        BY <1>2, <3>1 DEF DemoInv, ClaimedOnce, Rooted
      <3> QED BY <3>2, <3>3, <3>4 DEF DemoInv
    <2> QED BY <1>2, <2>2, <2>3, EachPartSteps
  <1> QED BY <1>1, <1>2, PTL DEF PartsSpec

\* ToldWhatIsStored: whoever is answered by a port of the stores holds the one record of
\* its operation, and that records what it asked for, whatever is raced, lost or retried.
THEOREM PortsTellWhatIsStored == PartsSpec => []ToldWhatIsStored
  <1>1. UsageInv => ToldIsStored
    <2> SUFFICES ASSUME UsageInv
                 PROVE  ToldIsStored
      OBVIOUS
    <2>1. TypeOK
      BY DEF UsageInv, TypeOK
    <2>2. ASSUME NEW p \in Processes, answer[p].as = "done"
          PROVE  /\ Slot(answer[p].document) = {answer[p].document}
                 /\ answer[p].document.attempt = call[p].attempt
      BY <2>2 DEF UsageInv, Processed, OneDocument, Slot
    <2> QED BY <2>1, <2>2 DEF ToldIsStored
  <1>2. DemoInv => Demo!ToldWhatIsStored
    <2> SUFFICES ASSUME DemoInv
                 PROVE  Demo!ToldWhatIsStored
      OBVIOUS
    <2>1. Demo!TypeOK
      BY DEF DemoInv, DemoTyped, Demo!TypeOK, Records
    <2>2. ASSUME NEW p \in Processes, at[p] = "answered"
          PROVE  Demo!At(slot[p]) = {told[p]} /\ told[p].content = content[p]
      <3>1. told[p] \in ports /\ told[p].slot = slot[p] /\ told[p].content = content[p]
        BY <2>2 DEF DemoInv, Called
      <3> QED BY <3>1 DEF DemoInv, OneRecord, Demo!At
    <2> QED BY <2>1, <2>2 DEF Demo!ToldWhatIsStored, Demo!At
  <1>3. ToldIsStored /\ Demo!ToldWhatIsStored => ToldWhatIsStored
    BY DEF ToldWhatIsStored
  <1> QED BY <1>1, <1>2, <1>3, UsageKept, DemoKept, PTL

\* LookedUpOnce: the provider is asked at most once for the usage of one attempt key.
THEOREM PortsLookUpOnce == PartsSpec => []LookedUpOnce
  <1>1. DemoInv => LookedUpOnce
    BY DEF DemoInv, ClaimedOnce, LookedUpOnce, Demo!LookedUpOnce
  <1> QED BY <1>1, DemoKept, PTL

-----------------------------------------------------------------------------
(* Backup and restore *)

Journals == [Backup!Ids -> Seq(Nat)]
Evidences == [generation : Nat, observation : Nat]
Copying == [at : {"copying"}, before : Evidences, files : Seq(Seq(Nat))]
Verifying == [at : {"verifying"}, manifests : Journals, verified : Nat]
Works == {Backup!Idle} \cup Copying \cup Verifying

\* Writers and a current observation are only there over stores that are trusted.
Guarded ==
    /\ ~ guard.disabled => trusted
    /\ guard.current => guard.disabled /\ trusted
    /\ trusted => live \in cuts

\* While the generation is the one a backup began in, what it copied is what is there.
Copied(o) ==
    work[o].at = "copying" =>
        /\ trusted /\ Len(work[o].files) <= Len(Stores)
        /\ work[o].before.generation <= guard.generation
        /\ work[o].before.generation = guard.generation =>
              /\ guard.disabled
              /\ \A i \in 1 .. Len(work[o].files) : work[o].files[i] = live[Stores[i]]

\* What a restore has verified of a whole set stays so until the stores are trusted.
Verified(o) ==
    work[o].at = "verifying" =>
        /\ work[o].manifests \in cuts /\ work[o].verified <= Len(Stores)
        /\ trusted \/ \A i \in 1 .. work[o].verified :
                         live[Stores[i]] = work[o].manifests[Stores[i]]

BackupTyped ==
    /\ live \in Journals /\ cuts \subseteq Journals /\ writes \in Nat /\ trusted \in BOOLEAN
    /\ guard \in [disabled : BOOLEAN, generation : Nat, observation : Nat, current : BOOLEAN]
    /\ sets \subseteq [quiescence : Evidences, files : cuts]
    /\ work \in [Operators -> Works]

BackupInv ==
    /\ BackupTyped /\ Guarded
    /\ \A o \in Operators : Copied(o) /\ Verified(o)

\* Every store has a place in the order, and every place a store.
LEMMA StoresInOrder ==
    /\ Stores \in Seq(Backup!Ids)
    /\ \A i \in 1 .. Len(Stores) : Stores[i] \in Backup!Ids
    /\ \A s \in Backup!Ids : \E i \in 1 .. Len(Stores) : Stores[i] = s
  BY PortsAssumption DEF Backup!Ids, Backup!ToSet

\* What an operator does says which operation it is in.
LEMMA WorkForms ==
    /\ \A w \in Works : w.at = "copying" => w \in Copying
    /\ \A w \in Works : w.at = "verifying" => w \in Verifying
    /\ \A w \in Works : w # Backup!Idle => w.at \in {"copying", "verifying"}
    /\ Backup!Idle.at = "idle"
  BY DEF Works, Copying, Verifying, Backup!Idle

LEMMA BackupInitially ==
    ASSUME Backup!Init
    PROVE  BackupInv
  <1>1. BackupTyped
    BY DEF Backup!Init, BackupTyped, Journals, Works
  <1> QED BY <1>1, WorkForms DEF Backup!Init, BackupInv, Guarded, Copied, Verified

\* Writers and the guard: a backup under way has what is there only while they rest.
LEMMA WritersKeep ==
    ASSUME BackupInv, NEW s \in Backup!Ids, Backup!Write(s)
    PROVE  BackupInv'
  <1>1. live' \in Journals /\ writes' \in Nat /\ cuts' = cuts \cup {live'}
    BY DEF Backup!Write, BackupInv, BackupTyped, Journals
  <1>2. /\ guard.disabled = FALSE /\ trusted
        /\ UNCHANGED <<guard, sets, work, trusted>>
    BY DEF Backup!Write, BackupInv, BackupTyped, Guarded
  <1>3. BackupTyped' /\ Guarded'
    BY <1>1, <1>2 DEF BackupInv, BackupTyped, Guarded
  <1>4. \A o \in Operators : Copied(o)' /\ Verified(o)'
    BY <1>1, <1>2 DEF BackupInv, Copied, Verified
  <1> QED BY <1>3, <1>4 DEF BackupInv

LEMMA GuardKeeps ==
    ASSUME BackupInv, Backup!Disable \/ Backup!Expire \/ Backup!Observe \/ Backup!Enable
    PROVE  BackupInv'
  <1>1. UNCHANGED <<live, writes, sets, work, trusted, cuts>>
    BY DEF Backup!Disable, Backup!Expire, Backup!Observe, Backup!Enable
  <1>2. BackupTyped' /\ Guarded'
    <2> USE <1>1 DEF BackupInv, BackupTyped, Guarded
    <2>1. CASE Backup!Disable
      <3>1. guard' = [disabled |-> TRUE, generation |-> guard.generation,
                      observation |-> guard.observation + 1, current |-> TRUE]
        BY <2>1 DEF Backup!Disable
      <3>2. ~ guard.disabled
        BY <2>1 DEF Backup!Disable
      <3> QED BY <3>1, <3>2
    <2>2. CASE Backup!Expire
      BY <2>2 DEF Backup!Expire
    <2>3. CASE Backup!Observe
      <3>1. guard' = [disabled |-> guard.disabled, generation |-> guard.generation,
                      observation |-> guard.observation + 1, current |-> TRUE]
        BY <2>3 DEF Backup!Observe
      <3>2. guard.disabled /\ trusted
        BY <2>3 DEF Backup!Observe
      <3> QED BY <3>1, <3>2
    <2>4. CASE Backup!Enable
      <3>1. guard' = [disabled |-> FALSE, generation |-> guard.generation + 1,
                      observation |-> guard.observation, current |-> FALSE]
        BY <2>4 DEF Backup!Enable
      <3>2. guard.disabled /\ trusted
        BY <2>4 DEF Backup!Enable
      <3> QED BY <3>1, <3>2
    <2> QED BY <2>1, <2>2, <2>3, <2>4
  <1>3. \/ guard'.generation = guard.generation /\ (guard.disabled => guard'.disabled)
        \/ guard'.generation = guard.generation + 1
    BY DEF Backup!Disable, Backup!Expire, Backup!Observe, Backup!Enable, BackupInv, BackupTyped
  <1>4. ASSUME NEW o \in Operators
        PROVE  Copied(o)' /\ Verified(o)'
    <2>1. Verified(o)'
      BY <1>1 DEF BackupInv, Verified
    <2>2. work[o].at = "copying" => work[o].before.generation \in Nat
      BY WorkForms DEF BackupInv, BackupTyped, Copying, Evidences
    <2>3. Copied(o)'
      BY <1>1, <1>3, <2>2 DEF BackupInv, BackupTyped, Copied
    <2> QED BY <2>1, <2>3
  <1> QED BY <1>2, <1>4 DEF BackupInv

\* Files are put in place while nobody copies or verifies.
LEMMA PlaceKeeps ==
    ASSUME BackupInv, Backup!Place
    PROVE  BackupInv'
  <1>1. PICK from \in [Backup!Ids -> sets] : live' = [s \in Backup!Ids |-> from[s].files[s]]
    BY DEF Backup!Place
  <1>2. live' \in Journals
    BY <1>1 DEF BackupInv, BackupTyped, Journals
  <1>3. BackupTyped' /\ Guarded'
    BY <1>2 DEF Backup!Place, BackupInv, BackupTyped, Guarded
  <1>4. \A o \in Operators : Copied(o)' /\ Verified(o)'
    BY WorkForms DEF Backup!Place, Copied, Verified
  <1> QED BY <1>3, <1>4 DEF BackupInv

\* What another operator's step leaves alone.
LEMMA OperatorFrame ==
    ASSUME BackupInv, NEW o \in Operators, NEW w \in Works, work' = [work EXCEPT ![o] = w],
           UNCHANGED <<live, writes, guard, cuts>>, sets \subseteq sets',
           sets' \subseteq [quiescence : Evidences, files : cuts],
           trusted' = trusted \/ (trusted' = TRUE /\ live \in cuts),
           Copied(o)', Verified(o)'
    PROVE  BackupInv'
  <1>1. BackupTyped' /\ Guarded'
    BY DEF BackupInv, BackupTyped, Guarded
  <1>2. ASSUME NEW q \in Operators, q # o
        PROVE  Copied(q)' /\ Verified(q)'
    BY <1>2 DEF BackupInv, BackupTyped, Copied, Verified
  <1> QED BY <1>1, <1>2 DEF BackupInv

LEMMA BackupSteps ==
    ASSUME BackupInv, NEW o \in Operators, Backup!StartBackup(o) \/ Backup!Copy(o)
    PROVE  BackupInv'
  <1>1. UNCHANGED <<live, writes, guard, sets, trusted, cuts>>
    BY DEF Backup!StartBackup, Backup!Copy
  <1>2. CASE Backup!StartBackup(o)
    <2> DEFINE w == [at |-> "copying", before |-> Backup!Evidence, files |-> <<>>]
    <2>1. w \in Copying /\ w \in Works
      BY DEF BackupInv, BackupTyped, Copying, Works, Backup!Evidence, Evidences
    <2>2. work' = [work EXCEPT ![o] = w]
      BY <1>2 DEF Backup!StartBackup, Backup!Do
    <2>3. Copied(o)' /\ Verified(o)'
      BY <1>1, <1>2, <2>2, StoresInOrder
         DEF BackupInv, BackupTyped, Guarded, Copied, Verified, Backup!Evidence,
             Backup!StartBackup, Backup!Quiescent
    <2> QED BY <1>1, <2>1, <2>2, <2>3, OperatorFrame DEF BackupInv, BackupTyped
  <1>3. CASE Backup!Copy(o)
    <2> DEFINE next == live[Stores[Len(work[o].files) + 1]]
               w == [at |-> "copying", before |-> work[o].before,
                     files |-> Append(work[o].files, next)]
    <2>1. work[o] \in Copying /\ Len(work[o].files) < Len(Stores)
      BY <1>3, WorkForms DEF Backup!Copy, BackupInv, BackupTyped
    <2>2. Stores[Len(work[o].files) + 1] \in Backup!Ids /\ next \in Seq(Nat)
      <3>1. Len(work[o].files) + 1 \in 1 .. Len(Stores)
        BY <2>1, StoresInOrder DEF Copying
      <3>2. Stores[Len(work[o].files) + 1] \in Backup!Ids
        BY <3>1, StoresInOrder
      <3> QED BY <3>2 DEF BackupInv, BackupTyped, Journals
    <2>3. work' = [work EXCEPT ![o] = w]
      <3>1. PICK c \in Copying : c = work[o]
        BY <2>1
      <3>2. \A f : [c EXCEPT !.files = f] = [at |-> "copying", before |-> c.before, files |-> f]
        BY DEF Copying
      <3> QED BY <1>3, <3>1, <3>2 DEF Backup!Copy, Backup!Do
    <2>4. /\ w \in Copying /\ w.at = "copying" /\ w.before = work[o].before
          /\ w.files = Append(work[o].files, next)
      BY <2>1, <2>2 DEF Copying
    <2>5. work'[o] = w
      BY <2>3 DEF BackupInv, BackupTyped
    <2>6. Copied(o)'
      <3>1. \A i \in 1 .. Len(w.files) : w.files[i] = IF i = Len(work[o].files) + 1 THEN next
                                                      ELSE work[o].files[i]
        BY <2>1, <2>2, <2>4 DEF Copying
      <3>2. Len(w.files) = Len(work[o].files) + 1
        BY <2>1, <2>2, <2>4 DEF Copying
      <3>3. work[o].before.generation \in Nat /\ Len(work[o].files) \in Nat
        BY <2>1 DEF Copying, Evidences
      <3>4. Copied(o)
        BY DEF BackupInv
      <3> HIDE DEF w, next
      <3>5. \A i \in 1 .. Len(w.files) : i = Len(work[o].files) + 1 \/ i \in 1 .. Len(work[o].files)
        BY <3>2, <3>3
      <3>6. next = live[Stores[Len(work[o].files) + 1]]
        BY DEF next
      <3>7. work[o].at = "copying" /\ Len(w.files) <= Len(Stores)
        BY <2>1, <3>2, <3>3, StoresInOrder DEF Copying
      <3> QED BY <1>1, <2>4, <2>5, <3>1, <3>4, <3>5, <3>6, <3>7 DEF Copied
    <2>7. Verified(o)'
      BY <2>4, <2>5 DEF Copying, Verified
    <2> QED BY <1>1, <2>3, <2>4, <2>6, <2>7, OperatorFrame DEF Works, BackupInv, BackupTyped
  <1> QED BY <1>2, <1>3

\* The copies of a backup that closes are what the stores hold, all of them, now.
LEMMA CloseKeeps ==
    ASSUME BackupInv, NEW o \in Operators, Backup!CloseBackup(o)
    PROVE  BackupInv'
  <1> DEFINE place(s) == CHOOSE i \in DOMAIN Stores : Stores[i] = s
             files == [s \in Backup!Ids |-> work[o].files[place(s)]]
  <1>1. /\ work[o] \in Copying /\ trusted /\ live \in cuts
        /\ Len(work[o].files) = Len(Stores)
        /\ \A i \in 1 .. Len(Stores) : work[o].files[i] = live[Stores[i]]
    BY WorkForms
       DEF Backup!CloseBackup, Backup!StillQuiescent, Backup!Evidence, BackupInv, BackupTyped,
           Guarded, Copied
  <1>2. \A s \in Backup!Ids : place(s) \in 1 .. Len(Stores) /\ Stores[place(s)] = s
    BY StoresInOrder
  <1>3. files = live
    <2>1. \A s \in Backup!Ids : work[o].files[place(s)] = live[s]
      BY <1>1, <1>2
    <2> HIDE DEF place
    <2> QED BY <2>1 DEF BackupInv, BackupTyped, Journals
  <1>4. sets' = sets \cup {[quiescence |-> Backup!Evidence, files |-> live]}
    BY <1>3 DEF Backup!CloseBackup
  <1>5. Backup!Evidence \in Evidences
    BY DEF Backup!Evidence, Evidences, BackupInv, BackupTyped
  <1>6. /\ sets \subseteq sets'
        /\ sets' \subseteq [quiescence : Evidences, files : cuts]
    BY <1>1, <1>4, <1>5 DEF BackupInv, BackupTyped
  <1>7. work' = [work EXCEPT ![o] = Backup!Idle] /\ UNCHANGED <<live, writes, guard, trusted, cuts>>
    BY DEF Backup!CloseBackup, Backup!Do
  <1>8. Copied(o)' /\ Verified(o)'
    BY <1>7, WorkForms DEF BackupInv, BackupTyped, Copied, Verified
  <1> QED BY <1>6, <1>7, <1>8, OperatorFrame DEF Works

LEMMA VerifySteps ==
    ASSUME BackupInv, NEW o \in Operators,
           Backup!StartVerify(o) \/ Backup!Verify(o) \/ Backup!EndVerify(o) \/ Backup!Abandon(o)
    PROVE  BackupInv'
  <1>1. UNCHANGED <<live, writes, guard, sets, cuts>>
    BY DEF Backup!StartVerify, Backup!Verify, Backup!EndVerify, Backup!Abandon
  <1>2. ASSUME work' = [work EXCEPT ![o] = Backup!Idle],
               trusted' = trusted \/ (trusted' = TRUE /\ live \in cuts)
        PROVE  BackupInv'
    <2>1. Copied(o)' /\ Verified(o)'
      BY <1>2, WorkForms DEF BackupInv, BackupTyped, Copied, Verified
    <2> QED BY <1>1, <1>2, <2>1, OperatorFrame DEF Works, BackupInv, BackupTyped
  <1>3. CASE Backup!StartVerify(o)
    <2>1. PICK set \in sets : work' = [work EXCEPT ![o] =
              [at |-> "verifying", manifests |-> set.files, verified |-> 0]]
      BY <1>3 DEF Backup!StartVerify, Backup!Bound, Backup!Do
    <2>2. set.files \in cuts
      BY DEF BackupInv, BackupTyped
    <2> DEFINE w == [at |-> "verifying", manifests |-> set.files, verified |-> 0]
    <2>3. w \in Verifying /\ w \in Works /\ trusted' = trusted
      BY <1>3, <2>2 DEF Verifying, Works, BackupInv, BackupTyped, Backup!StartVerify
    <2>4. Copied(o)' /\ Verified(o)'
      BY <1>1, <2>1, <2>2, StoresInOrder DEF BackupInv, BackupTyped, Copied, Verified
    <2> QED BY <1>1, <2>1, <2>3, <2>4, OperatorFrame DEF BackupInv, BackupTyped
  <1>4. CASE Backup!Verify(o)
    <2> DEFINE s == Stores[work[o].verified + 1]
               w == [at |-> "verifying", manifests |-> work[o].manifests,
                     verified |-> work[o].verified + 1]
    <2>1. work[o] \in Verifying /\ work[o].verified < Len(Stores) /\ trusted' = trusted
      BY <1>4, WorkForms DEF Backup!Verify, BackupInv, BackupTyped
    <2>2. CASE live[s] = work[o].manifests[s]
      <3>1. work' = [work EXCEPT ![o] = w]
        <4>1. w = [work[o] EXCEPT !.verified = @ + 1]
          BY <2>1 DEF Verifying
        <4> QED BY <1>4, <2>2, <4>1 DEF Backup!Verify, Backup!Do
      <3>2. /\ w \in Verifying /\ w.manifests = work[o].manifests
            /\ w.verified = work[o].verified + 1 /\ work'[o] = w
        BY <2>1, <3>1 DEF Verifying, BackupInv, BackupTyped
      <3>3. Verified(o)'
        <4>1. Verified(o) /\ work[o].at = "verifying" /\ work[o].verified \in Nat
          BY <2>1 DEF BackupInv, Verifying
        <4>2. \A i \in 1 .. work[o].verified + 1 :
                  i = work[o].verified + 1 \/ i \in 1 .. work[o].verified
          BY <4>1
        <4>3. work[o].verified + 1 <= Len(Stores)
          BY <2>1, <4>1, StoresInOrder
        <4> HIDE DEF w
        <4> QED BY <1>1, <2>1, <2>2, <3>2, <4>1, <4>2, <4>3 DEF Verified
      <3>4. Copied(o)'
        BY <3>2 DEF Verifying, Copied
      <3> QED BY <1>1, <2>1, <3>1, <3>2, <3>3, <3>4, OperatorFrame
              DEF Works, BackupInv, BackupTyped
    <2>3. CASE live[s] # work[o].manifests[s]
      BY <1>2, <1>4, <2>1, <2>3 DEF Backup!Verify, Backup!Do
    <2> QED BY <2>2, <2>3
  <1>5. CASE Backup!EndVerify(o)
    <2>1. /\ work[o] \in Verifying /\ work[o].verified = Len(Stores) /\ trusted' = TRUE
          /\ work' = [work EXCEPT ![o] = Backup!Idle]
      BY <1>5, WorkForms DEF Backup!EndVerify, Backup!Do, BackupInv, BackupTyped
    <2>2. CASE trusted
      BY <1>2, <2>1, <2>2 DEF BackupInv, Guarded
    <2>3. CASE ~ trusted
      <3>1. \A i \in 1 .. Len(Stores) : live[Stores[i]] = work[o].manifests[Stores[i]]
        BY <2>1, <2>3 DEF Verifying, BackupInv, Verified
      <3>2. live = work[o].manifests
        BY <2>1, <3>1, StoresInOrder DEF Verifying, BackupInv, BackupTyped, Journals
      <3> QED BY <1>2, <2>1, <3>2 DEF Verifying, BackupInv, Verified
    <2> QED BY <2>2, <2>3
  <1>6. CASE Backup!Abandon(o)
    BY <1>2, <1>6 DEF Backup!Abandon, Backup!Do
  <1> QED BY <1>3, <1>4, <1>5, <1>6

\* WritersResumeWhole: every backup is what the stores held together at one instant, and
\* writers only ever resume on such a cut, although the stores are copied, put in place
\* and verified one by one while the guard comes and goes.
THEOREM WritersResumeOnCuts == PartsSpec => []WritersResumeWhole
  <1>1. PartsInit => BackupInv
    BY BackupInitially DEF PartsInit
  <1>2. ASSUME BackupInv, [PartsNext]_<<part, vars, demo, backup, domain>>
        PROVE  BackupInv'
    <2>1. CASE Backup!Next
      BY <1>2, <2>1, WritersKeep, GuardKeeps, PlaceKeeps, BackupSteps, CloseKeeps, VerifySteps
         DEF Backup!Next
    <2>2. CASE UNCHANGED backup
      BY <1>2, <2>2 DEF backup, BackupInv, BackupTyped, Guarded, Copied, Verified
    <2> QED BY <1>2, <2>1, <2>2, EachPartSteps
  <1>3. BackupInv => WritersResumeWhole
    BY DEF BackupInv, BackupTyped, Guarded, WritersResumeWhole, Backup!WritersResumeWhole
  <1> QED BY <1>1, <1>2, <1>3, PTL DEF PartsSpec

-----------------------------------------------------------------------------
(* A domain run *)

Grants == [run : Runs, sequence : Nat, artifact : Artifacts]
Claims == [slot : Nat, grant : Grants, mark : Stamps]
Commits == [artifact : Artifacts, at : Stamps]
Jobs == [grant : Grants \cup {None}, position : Nat, claim : Claims \cup {None},
         commit : Commits \cup {None}, error : BOOLEAN, default : BOOLEAN,
         head : Commits \cup {None}]
Heads == Commits \cup {Foreign, None}
RunRecords == [id : Runs \cup {None}, head : Heads, revision : Nat, step : 0 .. 13]
Whats == {"package", "comment", "wait", "approve", "merge", "close"}
Entries == [what : Whats, head : Heads, revision : Nat]
Holding == {"packaging", "claiming", "scanning", "appending", "claimed", "updating",
            "reconciling", "default read", "confirming", "packaged"}
Before == {"drafting", "resolving", "bound", "authorized"} \cup Holding
Places == Domain!Ended \cup Before \cup {"closing"}
Granted == {"resolving", "bound", "authorized", "packaging", "claiming", "scanning",
            "appending", "claimed", "updating"}
Spending == {"claimed", "updating", "reconciling", "default read", "confirming", "packaged",
             "closing", "closed"}
Committed == Spending \ {"claimed"}

\* A worker has the grant it drafted for, fenced by a position of the chain, and what it
\* is about to append was unspent in all the slots before its own.
Appending(w) ==
    /\ where[w] \in Granted => job[w].grant \in Grants
    /\ where[w] \in {"claiming", "scanning", "appending"} => job[w].position <= Len(grants)
    /\ where[w] = "appending" =>
          /\ job[w].claim \in Claims
          /\ job[w].claim.slot = job[w].position + 1
          /\ job[w].claim.grant = job[w].grant
          /\ \A i \in 1 .. job[w].position : ~ Domain!Spent(grants[i], job[w].grant)

\* A package is moved to behind its claim, and no worker is told that it was not.
Packaging(w) ==
    /\ where[w] \in Spending => job[w].claim \in Domain!Range(grants)
    /\ where[w] \in {"claimed", "updating"} => job[w].claim.grant = job[w].grant
    /\ where[w] \in Committed => job[w].commit \in Commits
    /\ where[w] = "updating" => job[w].commit.artifact = job[w].grant.artifact
    /\ where[w] \in Granted \cup {"drafting", "stale"} => ~ applied[w]
    /\ applied[w] => proposal # <<>>
    /\ where[w] = "confirming" => job[w].head \in {None, job[w].commit}
    /\ where[w] \in {"packaged", "closing", "closed"} => job[w].commit \in Domain!Range(proposal)

\* The authority stays where it was resolved for as long as a run holds it.
Held(w) ==
    /\ where[w] \notin Domain!Ended => run[w].id \in Runs
    /\ run[w].revision <= revision
    /\ where[w] \in Holding \/ (where[w] = "closing" /\ run[w].step = 13) =>
          w \in guards /\ run[w].revision = revision

\* What a run has recorded at each step of its closing.
Trail == <<"package", "comment", "wait", "approve", "merge", "close">>
Recorded(step) == IF step <= 2 THEN 1 ELSE IF step <= 4 THEN 2 ELSE IF step <= 6 THEN 3
                  ELSE IF step <= 9 THEN 4 ELSE 5

\* What was recorded lies between the revision that was resolved and the one there is,
\* and names the package, unless something was pushed on top of it.
Attested(w) ==
    /\ where[w] \in Before => trail[w] = <<>>
    /\ where[w] = "closing" =>
          /\ run[w].step \in 1 .. 13 /\ Len(trail[w]) = Recorded(run[w].step)
          /\ \A i \in 1 .. Len(trail[w]) :
                /\ trail[w][i].what = Trail[i]
                /\ run[w].revision <= trail[w][i].revision /\ trail[w][i].revision <= revision
          /\ \A i \in 2 .. Len(trail[w]) :
                \/ trail[w][i].head = job[w].commit
                \/ Len(proposal) > 1 /\ run[w].step <= 10

Closed(w) ==
    where[w] = "closed" =>
        /\ Len(trail[w]) = 6
        /\ \A i \in 1 .. 6 : trail[w][i].what = Trail[i] /\ trail[w][i].revision = run[w].revision
        /\ \A i \in 2 .. 5 : trail[w][i].head = job[w].commit

\* The one package of the proposal is behind a claim for its artifact set.
ProposalClaimed ==
    \A i \in DOMAIN proposal : proposal[i] # Foreign =>
        i = 1 /\ \E c \in Domain!Range(grants) : c.grant.artifact = proposal[i].artifact

DomainTyped ==
    /\ grants \in Seq(Claims) /\ proposal \in Seq(Commits \cup {Foreign})
    /\ where \in [Processes -> Places] /\ job \in [Processes -> Jobs]
    /\ applied \in [Processes -> BOOLEAN]
    /\ revision \in Nat /\ guards \subseteq Processes
    /\ run \in [Processes -> RunRecords]
    /\ trail \in [Processes -> Seq(Entries)]

Worker(w) == Appending(w) /\ Packaging(w) /\ Held(w) /\ Attested(w) /\ Closed(w)

DomainInv ==
    /\ DomainTyped
    /\ Domain!GrantSpentOnce
    /\ ProposalClaimed
    /\ \A w \in Processes : Worker(w)

\* What the proposal ref points to.
LEMMA TipForms ==
    ASSUME proposal \in Seq(Commits \cup {Foreign})
    PROVE  /\ Domain!Tip \in Heads
           /\ Domain!Tip = None <=> proposal = <<>>
           /\ proposal # <<>> => /\ Len(proposal) >= 1
                                 /\ Domain!Tip = proposal[Len(proposal)]
  BY PortsAssumption DEF Domain!Tip, Domain!Last, Heads, Commits

\* One field of a worker's job is noted, the others and every other job stay.
Job(g, p, c, k, e, d, h) == [grant |-> g, position |-> p, claim |-> c, commit |-> k,
                             error |-> e, default |-> d, head |-> h]

LEMMA Noted ==
    ASSUME job \in [Processes -> Jobs], NEW w \in Processes, NEW v
    PROVE  LET j == job[w]
           IN  /\ Domain!Note(w, "grant", v) /\ v \in Grants =>
                    job' = [job EXCEPT ![w] = Job(v, j.position, j.claim, j.commit, j.error,
                                                  j.default, j.head)]
               /\ Domain!Note(w, "position", v) /\ v \in Nat =>
                    job' = [job EXCEPT ![w] = Job(j.grant, v, j.claim, j.commit, j.error,
                                                  j.default, j.head)]
               /\ Domain!Note(w, "claim", v) /\ v \in Claims =>
                    job' = [job EXCEPT ![w] = Job(j.grant, j.position, v, j.commit, j.error,
                                                  j.default, j.head)]
               /\ Domain!Note(w, "commit", v) /\ v \in Commits =>
                    job' = [job EXCEPT ![w] = Job(j.grant, j.position, j.claim, v, j.error,
                                                  j.default, j.head)]
               /\ Domain!Note(w, "error", v) /\ v \in BOOLEAN =>
                    job' = [job EXCEPT ![w] = Job(j.grant, j.position, j.claim, j.commit, v,
                                                  j.default, j.head)]
               /\ Domain!Note(w, "default", v) /\ v \in BOOLEAN =>
                    job' = [job EXCEPT ![w] = Job(j.grant, j.position, j.claim, j.commit,
                                                  j.error, v, j.head)]
               /\ Domain!Note(w, "head", v) /\ v \in Commits \cup {None} =>
                    job' = [job EXCEPT ![w] = Job(j.grant, j.position, j.claim, j.commit,
                                                  j.error, j.default, v)]
  BY DEF Domain!Note, Jobs, Job

\* The fields of a job, and what becomes of them when one is noted.
LEMMA NotedFields ==
    ASSUME job \in [Processes -> Jobs], NEW w \in Processes, NEW v
    PROVE  LET j == job[w]
               k == job'[w]
               Rest == job' \in [Processes -> Jobs] /\ \A q \in Processes \ {w} : job'[q] = job[q]
           IN  /\ Domain!Note(w, "grant", v) /\ v \in Grants => Rest /\ k.grant = v
               /\ Domain!Note(w, "position", v) /\ v \in Nat =>
                    Rest /\ k.position = v /\ k.grant = j.grant
               /\ Domain!Note(w, "claim", v) /\ v \in Claims =>
                    Rest /\ k.claim = v /\ k.grant = j.grant /\ k.position = j.position
               /\ Domain!Note(w, "commit", v) /\ v \in Commits =>
                    Rest /\ k.commit = v /\ k.claim = j.claim /\ k.grant = j.grant
               /\ Domain!Note(w, "error", v) /\ v \in BOOLEAN =>
                    Rest /\ k.commit = j.commit /\ k.claim = j.claim /\ k.grant = j.grant
               /\ Domain!Note(w, "default", v) /\ v \in BOOLEAN =>
                    Rest /\ k.commit = j.commit /\ k.claim = j.claim
               /\ Domain!Note(w, "head", v) /\ v \in Commits \cup {None} =>
                    Rest /\ k.head = v /\ k.commit = j.commit /\ k.claim = j.claim
  BY Noted DEF Job, Jobs

\* What a step leaves alone of every run but its own, and of what there is.
OtherRuns(w) == \A q \in Processes \ {w} :
    /\ where'[q] = where[q] /\ job'[q] = job[q] /\ applied'[q] = applied[q]
    /\ run'[q] = run[q] /\ trail'[q] = trail[q] /\ (q \in guards => q \in guards')
Grown ==
    /\ Len(grants) <= Len(grants') /\ \A i \in 1 .. Len(grants) : grants'[i] = grants[i]
    /\ Domain!Range(grants) \subseteq Domain!Range(grants')
    /\ Len(proposal) <= Len(proposal')
    /\ Domain!Range(proposal) \subseteq Domain!Range(proposal')

LEMMA RunsFrame ==
    ASSUME DomainInv, NEW w \in Processes, OtherRuns(w), Grown, DomainTyped',
           revision' = revision, Worker(w)'
    PROVE  \A q \in Processes : Worker(q)'
  <1>1. ASSUME NEW q \in Processes \ {w}
        PROVE  Worker(q)'
    <2>1. Appending(q)'
      <3>1. where'[q] = where[q] /\ job'[q] = job[q] /\ Appending(q)
        BY <1>1 DEF OtherRuns, DomainInv, Worker
      <3>2. /\ job[q].position \in Nat /\ Len(grants) \in Nat /\ Len(grants') \in Nat
            /\ Len(grants) <= Len(grants') /\ \A i \in 1 .. Len(grants) : grants'[i] = grants[i]
        BY DEF DomainInv, DomainTyped, Jobs, Grown
      <3>3. job[q].position <= Len(grants) =>
                /\ job[q].position <= Len(grants')
                /\ \A i \in 1 .. job[q].position : grants'[i] = grants[i]
        BY <3>2
      <3> QED BY <3>1, <3>3 DEF Appending
    <2>2. Packaging(q)'
      <3>1. proposal # <<>> => proposal' # <<>>
        BY DEF Grown, DomainInv, DomainTyped
      <3> QED BY <1>1, <3>1 DEF OtherRuns, Grown, DomainInv, Worker, Packaging
    <2>3. Held(q)'
      BY <1>1 DEF OtherRuns, DomainInv, Worker, Held
    <2>4. Attested(q)'
      <3>1. /\ where'[q] = where[q] /\ job'[q] = job[q] /\ run'[q] = run[q]
            /\ trail'[q] = trail[q] /\ Attested(q)
        BY <1>1 DEF OtherRuns, DomainInv, Worker
      <3>2. Len(proposal) > 1 => Len(proposal') > 1
        BY DEF Grown, DomainInv, DomainTyped
      <3> QED BY <3>1, <3>2 DEF Attested
    <2>5. Closed(q)'
      BY <1>1 DEF OtherRuns, DomainInv, Worker, Closed
    <2> QED BY <2>1, <2>2, <2>3, <2>4, <2>5 DEF Worker
  <1> QED BY <1>1

LEMMA RunMoves ==
    ASSUME DomainInv, NEW w \in Processes, OtherRuns(w), DomainTyped', Worker(w)',
           UNCHANGED <<grants, proposal, revision>>
    PROVE  DomainInv'
  <1>1. Grown
    BY DEF Grown, DomainInv, DomainTyped
  <1>2. Domain!GrantSpentOnce' /\ ProposalClaimed'
    BY DEF DomainInv, Domain!GrantSpentOnce, Domain!Spent, ProposalClaimed
  <1> QED BY <1>1, <1>2, RunsFrame DEF DomainInv

LEMMA DomainInitially ==
    ASSUME Domain!Init
    PROVE  DomainInv
  <1>1. DomainTyped
    BY DEF Domain!Init, Domain!PackageInit, DomainTyped, Places, Domain!Ended, Domain!NoJob,
           Domain!NoRun, Jobs, RunRecords, Heads
  <1>2. Domain!GrantSpentOnce /\ ProposalClaimed
    BY DEF Domain!Init, Domain!PackageInit, Domain!GrantSpentOnce, ProposalClaimed
  <1>3. ASSUME NEW w \in Processes
        PROVE  Worker(w)
    <2>1. where[w] = "idle" /\ applied[w] = FALSE /\ run[w].revision = 0 /\ revision = 1
      BY DEF Domain!Init, Domain!PackageInit, Domain!NoRun
    <2> QED BY <2>1
            DEF Worker, Appending, Packaging, Held, Attested, Closed, Granted, Spending, Committed,
                Holding, Before, Domain!Ended
  <1> QED BY <1>1, <1>2, <1>3 DEF DomainInv

\* A worker that ends without a package, or with none any more.
LEMMA RunEnds ==
    ASSUME DomainInv, NEW w \in Processes, NEW as \in {"refused", "stale", "ambiguous", "stopped"},
           Domain!Fail(w, as), UNCHANGED <<proposal, applied, revision>>,
           \/ grants' = grants
           \/ grants' \in Seq(Claims) /\ Grown /\ Domain!GrantSpentOnce',
           guards \ {w} \subseteq guards', guards' \subseteq guards,
           \/ UNCHANGED <<run, trail>>
           \/ /\ run' = [run EXCEPT ![w] = Domain!NoRun]
              /\ trail' = [trail EXCEPT ![w] = <<>>],
           as = "stale" => ~ applied[w]
    PROVE  DomainInv'
  <1>1. where' = [where EXCEPT ![w] = as] /\ job' = [job EXCEPT ![w] = Domain!NoJob]
    BY DEF Domain!Fail, Domain!Goto
  <1>2. Domain!NoJob \in Jobs /\ Domain!NoRun \in RunRecords /\ Domain!NoRun.revision = 0
    BY DEF Domain!NoJob, Domain!NoRun, Jobs, RunRecords, Heads
  <1>3. as \in Domain!Ended /\ as \in Places
    BY DEF Places, Domain!Ended
  <1>4. /\ where'[w] = as /\ run'[w].revision <= revision
        /\ run' \in [Processes -> RunRecords] /\ trail' \in [Processes -> Seq(Entries)]
        /\ \A q \in Processes \ {w} : run'[q] = run[q] /\ trail'[q] = trail[q]
    <2>1. run[w].revision <= revision
      BY DEF DomainInv, Worker, Held
    <2>2. CASE UNCHANGED <<run, trail>>
      BY <1>1, <2>1, <2>2 DEF DomainInv, DomainTyped
    <2>3. CASE /\ run' = [run EXCEPT ![w] = Domain!NoRun]
               /\ trail' = [trail EXCEPT ![w] = <<>>]
      BY <1>1, <1>2, <2>3 DEF DomainInv, DomainTyped
    <2> QED BY <2>2, <2>3
  <1>5. Packaging(w)'
    BY <1>4 DEF DomainInv, Worker, Packaging, Granted, Spending, Committed
  <1>6. Held(w)'
    BY <1>3, <1>4 DEF Held, Holding
  <1>7. Appending(w)' /\ Attested(w)' /\ Closed(w)'
    BY <1>4 DEF Appending, Attested, Closed, Granted, Before, Holding
  <1>8. DomainTyped' /\ OtherRuns(w)
    BY <1>1, <1>2, <1>3, <1>4 DEF DomainInv, DomainTyped, OtherRuns
  <1>9. CASE grants' = grants
    BY <1>5, <1>6, <1>7, <1>8, <1>9, RunMoves DEF Worker
  <1>10. CASE grants' \in Seq(Claims) /\ Grown /\ Domain!GrantSpentOnce'
    <2>1. ProposalClaimed'
      BY <1>10 DEF DomainInv, ProposalClaimed, Grown
    <2> QED BY <1>5, <1>6, <1>7, <1>8, <1>10, <2>1, RunsFrame DEF Worker, DomainInv
  <1> QED BY <1>9, <1>10

LEMMA RunStarts ==
    ASSUME DomainInv, NEW w \in Processes, Domain!Start(w)
    PROVE  DomainInv'
  <1>1. PICK id \in Runs : run' = [run EXCEPT ![w] =
            [id |-> id, head |-> Domain!Tip, revision |-> 0, step |-> 0]]
    BY DEF Domain!Start, Domain!NoRun
  <1> DEFINE r == [id |-> id, head |-> Domain!Tip, revision |-> 0, step |-> 0]
  <1>2. run' = [run EXCEPT ![w] = r]
    BY <1>1
  <1>3. r \in RunRecords /\ r.id \in Runs /\ r.revision = 0
    BY TipForms DEF RunRecords, DomainInv, DomainTyped
  <1> HIDE DEF r
  <1>4. Domain!NoJob \in Jobs
    BY DEF Domain!NoJob, Jobs
  <1>5. /\ where' = [where EXCEPT ![w] = "drafting"] /\ job' = [job EXCEPT ![w] = Domain!NoJob]
        /\ applied' = [applied EXCEPT ![w] = FALSE] /\ trail' = [trail EXCEPT ![w] = <<>>]
        /\ UNCHANGED <<grants, proposal, revision, guards>>
    BY DEF Domain!Start, Domain!Goto, Domain!authority
  <1>6. DomainTyped' /\ OtherRuns(w)
    BY <1>2, <1>3, <1>4, <1>5 DEF DomainInv, DomainTyped, OtherRuns, Places, Before
  <1>7. /\ where'[w] = "drafting" /\ applied'[w] = FALSE /\ trail'[w] = <<>>
        /\ run'[w] = r
    BY <1>2, <1>5 DEF DomainInv, DomainTyped
  <1>8. Appending(w)' /\ Packaging(w)'
    BY <1>7 DEF Appending, Packaging, Granted, Spending, Committed
  <1>9. Held(w)' /\ Attested(w)' /\ Closed(w)'
    BY <1>3, <1>5, <1>7 DEF DomainInv, DomainTyped, Held, Attested, Closed, Holding
  <1> QED BY <1>5, <1>6, <1>8, <1>9, RunMoves DEF Worker

LEMMA RunDrafts ==
    ASSUME DomainInv, NEW w \in Processes, Domain!Draft(w)
    PROVE  DomainInv'
  <1>1. PICK drafts \in 1 .. MaxDrafts, a \in Artifacts :
            Domain!Note(w, "grant", [run |-> run[w].id, sequence |-> 2 * drafts + 1,
                                     artifact |-> a])
    BY DEF Domain!Draft
  <1>2. where[w] = "drafting" /\ run[w].id \in Runs
    BY DEF Domain!Draft, DomainInv, Worker, Held, Domain!Ended
  <1>3. [run |-> run[w].id, sequence |-> 2 * drafts + 1, artifact |-> a] \in Grants
    BY <1>2, PortsAssumption DEF Grants
  <1>4. /\ job' \in [Processes -> Jobs] /\ \A q \in Processes \ {w} : job'[q] = job[q]
        /\ job'[w].grant \in Grants
    BY <1>1, <1>3, NotedFields DEF DomainInv, DomainTyped
  <1>5. /\ where' = [where EXCEPT ![w] = "resolving"]
        /\ UNCHANGED <<grants, proposal, revision, guards, applied, run, trail>>
    BY DEF Domain!Draft, Domain!Goto, Domain!authority, Domain!Refs
  <1>6. DomainTyped' /\ OtherRuns(w) /\ where'[w] = "resolving"
    BY <1>4, <1>5 DEF DomainInv, DomainTyped, OtherRuns, Places, Before
  <1>7. Appending(w)' /\ Packaging(w)'
    BY <1>2, <1>4, <1>5, <1>6
       DEF DomainInv, DomainTyped, Worker, Appending, Packaging, Granted, Spending, Committed
  <1>8. Held(w)' /\ Attested(w)' /\ Closed(w)'
    BY <1>2, <1>5, <1>6
       DEF DomainInv, Worker, Held, Attested, Closed, Holding, Before
  <1> QED BY <1>5, <1>6, <1>7, <1>8, RunMoves DEF Worker

LEMMA RunResolves ==
    ASSUME DomainInv, NEW w \in Processes,
           Domain!ResolveRights(w) \/ Domain!CheckBinding(w) \/ Domain!Guard(w)
    PROVE  DomainInv'
  <1>1. /\ where[w] \in {"resolving", "bound", "authorized"}
        /\ UNCHANGED <<grants, proposal, revision, job, applied, trail>>
        /\ guards \subseteq guards' /\ guards' \subseteq guards \cup {w}
    BY DEF Domain!ResolveRights, Domain!CheckBinding, Domain!Guard, Domain!authority, Domain!Refs
  <1>2. \/ /\ where' = [where EXCEPT ![w] = "bound"]
           /\ run' = [run EXCEPT ![w] = [id |-> run[w].id, head |-> run[w].head,
                                         revision |-> revision, step |-> run[w].step]]
        \/ /\ where' = [where EXCEPT ![w] = "authorized"] /\ run' = run
        \/ /\ where' = [where EXCEPT ![w] = "packaging"] /\ run' = run
           /\ w \in guards' /\ run[w].revision = revision
    BY DEF Domain!ResolveRights, Domain!CheckBinding, Domain!Guard, Domain!Goto,
           Domain!RightsCurrent, DomainInv, DomainTyped, RunRecords
  <1>3. DomainTyped'
    <2>1. where' \in [Processes -> Places]
      BY <1>2 DEF DomainInv, DomainTyped, Places, Before, Holding
    <2>2. run[w] \in RunRecords /\ revision \in Nat
      BY DEF DomainInv, DomainTyped
    <2>3. [id |-> run[w].id, head |-> run[w].head, revision |-> revision, step |-> run[w].step]
              \in RunRecords
      BY <2>2 DEF RunRecords
    <2>4. run' \in [Processes -> RunRecords]
      BY <1>2, <2>3 DEF DomainInv, DomainTyped
    <2> QED BY <1>1, <2>1, <2>4 DEF DomainInv, DomainTyped
  <1>4. /\ OtherRuns(w) /\ where'[w] \in {"bound", "authorized", "packaging"}
        /\ run'[w].id = run[w].id /\ run'[w].revision \in {revision, run[w].revision}
        /\ where'[w] = "packaging" => w \in guards' /\ run'[w].revision = revision
    BY <1>1, <1>2 DEF DomainInv, DomainTyped, OtherRuns
  <1>5. Appending(w)' /\ Packaging(w)'
    BY <1>1, <1>4
       DEF DomainInv, Worker, Appending, Packaging, Granted, Spending, Committed
  <1>6. Held(w)'
    <2>1. run[w].id \in Runs /\ run[w].revision <= revision /\ revision \in Nat
      BY <1>1 DEF DomainInv, DomainTyped, Worker, Held, Domain!Ended
    <2>2. run'[w].revision <= revision
      BY <1>4, <2>1
    <2>3. where'[w] \in Holding => where'[w] = "packaging"
      BY <1>4 DEF Holding
    <2> QED BY <1>1, <1>4, <2>1, <2>2, <2>3 DEF Held
  <1>7. Attested(w)' /\ Closed(w)'
    BY <1>1, <1>4 DEF DomainInv, Worker, Attested, Closed, Before, Holding
  <1> QED BY <1>1, <1>3, <1>4, <1>5, <1>6, <1>7, RunMoves DEF Worker

\* The chain of claims grows by a claim in the slot behind it, of a grant unspent in it.
LEMMA ClaimLands ==
    ASSUME DomainInv, NEW w \in Processes, where[w] = "appending",
           grants' = grants \/ grants' = Domain!Landed(job[w].claim)
    PROVE  /\ grants' \in Seq(Claims) /\ Domain!GrantSpentOnce'
           /\ Len(grants) <= Len(grants') /\ \A i \in 1 .. Len(grants) : grants'[i] = grants[i]
           /\ Domain!Range(grants) \subseteq Domain!Range(grants')
  <1> DEFINE c == job[w].claim
  <1>1. /\ c \in Claims /\ c.slot = job[w].position + 1 /\ c.grant = job[w].grant
        /\ job[w].position \in Nat /\ job[w].position <= Len(grants)
        /\ \A i \in 1 .. job[w].position : ~ Domain!Spent(grants[i], c.grant)
    BY DEF DomainInv, DomainTyped, Worker, Appending, Jobs
  <1>2. grants \in Seq(Claims) /\ Domain!GrantSpentOnce
    BY DEF DomainInv, DomainTyped
  <1> HIDE DEF c
  <1>3. CASE grants' = grants
    BY <1>2, <1>3 DEF Domain!GrantSpentOnce, Domain!Spent
  <1>4. CASE grants' # grants
    <2>1. grants' = Append(grants, c) /\ Domain!SlotFree(c)
      BY <1>4 DEF Domain!Landed, c
    <2>2. job[w].position = Len(grants)
      <3>1. \A i \in 1 .. Len(grants) : i # job[w].position + 1
        BY <1>1, <1>2, <2>1 DEF Domain!SlotFree, Domain!GrantSpentOnce
      <3> QED BY <1>1, <1>2, <3>1
    <2>3. /\ grants' \in Seq(Claims) /\ Len(grants') = Len(grants) + 1
          /\ \A i \in 1 .. Len(grants) : grants'[i] = grants[i]
          /\ grants'[Len(grants) + 1] = c
      BY <1>1, <1>2, <2>1
    <2>4. \A i \in 1 .. Len(grants) : /\ ~ Domain!Spent(grants[i], c.grant)
                                      /\ ~ Domain!Spent(c, grants[i].grant)
      BY <1>1, <2>2 DEF Domain!Spent
    <2>5. Domain!GrantSpentOnce'
      <3>1. \A i \in 1 .. Len(grants) : grants[i].slot = i
        BY <1>2 DEF Domain!GrantSpentOnce
      <3>2. \A i, j \in 1 .. Len(grants) : Domain!Spent(grants[i], grants[j].grant) => i = j
        BY <1>2 DEF Domain!GrantSpentOnce
      <3>3. DOMAIN grants' = 1 .. Len(grants) + 1 /\ Len(grants) \in Nat
        BY <1>2, <2>3
      <3>4. \A i \in 1 .. Len(grants) + 1 : i \in 1 .. Len(grants) \/ i = Len(grants) + 1
        BY <3>3
      <3>5. \A i \in DOMAIN grants' : grants'[i].slot = i
        BY <1>1, <2>2, <2>3, <3>1, <3>3, <3>4
      <3>6. ASSUME NEW i \in DOMAIN grants', NEW j \in DOMAIN grants',
                   Domain!Spent(grants'[i], grants'[j].grant)
            PROVE  i = j
        BY <2>3, <2>4, <3>2, <3>3, <3>4, <3>6
      <3> QED BY <3>5, <3>6 DEF Domain!GrantSpentOnce, Domain!Spent
    <2> QED BY <1>2, <2>3, <2>5 DEF Domain!Range
  <1> QED BY <1>3, <1>4

LEMMA GrantSteps ==
    ASSUME DomainInv, NEW w \in Processes, Domain!Release(w), UNCHANGED <<revision, run, trail>>,
           Domain!ReadHead(w) \/ Domain!CheckFence(w) \/ Domain!Scan(w)
    PROVE  DomainInv'
  <1>1. /\ where[w] \in {"packaging", "claiming", "scanning"} /\ ~ applied[w]
        /\ UNCHANGED <<grants, proposal, applied>>
    BY DEF Domain!ReadHead, Domain!CheckFence, Domain!Scan, Domain!Refs, DomainInv, Worker,
           Packaging, Granted
  <1>2. ASSUME NEW as \in {"refused", "stale"}, Domain!Fail(w, as)
        PROVE  DomainInv'
    <2>1. guards \ {w} \subseteq guards' /\ guards' \subseteq guards
      BY DEF Domain!Release
    <2> QED BY <1>1, <1>2, <2>1, RunEnds
  <1>3. ASSUME NEW as \in {"claiming", "scanning", "appending"}, Domain!Goto(w, as),
               job' \in [Processes -> Jobs], \A q \in Processes \ {w} : job'[q] = job[q],
               job'[w].grant = job[w].grant, Appending(w)'
        PROVE  DomainInv'
    <2>1. where' = [where EXCEPT ![w] = as] /\ where'[w] = as /\ as \notin Domain!Ended
      BY <1>3 DEF Domain!Goto, Domain!Ended, DomainInv, DomainTyped
    <2>2. guards' = guards
      BY <2>1 DEF Domain!Release
    <2>3. as \in Places
      BY DEF Places, Before, Holding
    <2>4. DomainTyped' /\ OtherRuns(w)
      BY <1>1, <1>3, <2>1, <2>2, <2>3 DEF DomainInv, DomainTyped, OtherRuns
    <2>5. Packaging(w)'
      BY <1>1, <2>1 DEF DomainInv, Worker, Packaging, Granted, Spending, Committed
    <2>6. Held(w)' /\ Attested(w)' /\ Closed(w)'
      BY <1>1, <2>1, <2>2
         DEF DomainInv, Worker, Held, Attested, Closed, Holding, Before, Domain!Ended
    <2> QED BY <1>1, <1>3, <2>4, <2>5, <2>6, RunMoves DEF Worker
  <1>4. job[w] \in Jobs /\ job[w].grant \in Grants /\ Len(grants) \in Nat
    BY <1>1 DEF DomainInv, DomainTyped, Worker, Appending, Granted
  <1>5. CASE Domain!ReadHead(w)
    <2>1. CASE moved \/ Domain!Tip # None
      BY <1>2, <1>5, <2>1 DEF Domain!ReadHead
    <2>2. CASE ~ (moved \/ Domain!Tip # None)
      <3>1. Domain!Note(w, "position", Len(grants)) /\ Domain!Goto(w, "claiming")
        BY <1>5, <2>2 DEF Domain!ReadHead
      <3>2. /\ job' \in [Processes -> Jobs] /\ \A q \in Processes \ {w} : job'[q] = job[q]
            /\ job'[w].grant = job[w].grant /\ job'[w].position = Len(grants)
        BY <1>4, <3>1, NotedFields DEF DomainInv, DomainTyped
      <3>3. where'[w] = "claiming"
        BY <3>1 DEF Domain!Goto, DomainInv, DomainTyped
      <3>4. Appending(w)'
        BY <1>1, <1>4, <3>2, <3>3 DEF Appending
      <3> QED BY <1>3, <3>1, <3>2, <3>4
    <2> QED BY <2>1, <2>2
  <1>6. CASE Domain!CheckFence(w)
    <2>1. CASE Len(grants) = job[w].position
      <3>1. Domain!Goto(w, "scanning") /\ job' = job
        BY <1>6, <2>1 DEF Domain!CheckFence
      <3>2. where'[w] = "scanning"
        BY <3>1 DEF Domain!Goto, DomainInv, DomainTyped
      <3>3. Appending(w)'
        BY <1>1, <1>4, <2>1, <3>1, <3>2 DEF Appending
      <3> QED BY <1>3, <3>1, <3>3 DEF DomainInv, DomainTyped
    <2>2. CASE Len(grants) # job[w].position
      BY <1>2, <1>6, <2>2 DEF Domain!CheckFence
    <2> QED BY <2>1, <2>2
  <1>7. CASE Domain!Scan(w)
    <2>1. CASE \E i \in DOMAIN grants : Domain!Spent(grants[i], job[w].grant)
      BY <1>2, <1>7, <2>1 DEF Domain!Scan
    <2>2. CASE \A i \in DOMAIN grants : ~ Domain!Spent(grants[i], job[w].grant)
      <3>1. PICK m \in Stamps :
                Domain!Note(w, "claim", [slot |-> job[w].position + 1, grant |-> job[w].grant,
                                         mark |-> m])
        BY <1>7, <2>2 DEF Domain!Scan
      <3> DEFINE c == [slot |-> job[w].position + 1, grant |-> job[w].grant, mark |-> m]
      <3>2. /\ c \in Claims /\ c.slot = job[w].position + 1 /\ c.grant = job[w].grant
            /\ job[w].position \in Nat
        BY <1>4 DEF Jobs, Claims
      <3> HIDE DEF c
      <3>3. Domain!Note(w, "claim", c)
        BY <3>1 DEF c
      <3>4. /\ job' \in [Processes -> Jobs] /\ \A q \in Processes \ {w} : job'[q] = job[q]
            /\ job'[w].claim = c /\ job'[w].grant = job[w].grant
            /\ job'[w].position = job[w].position
        BY <3>2, <3>3, NotedFields DEF DomainInv, DomainTyped
      <3>5. Domain!Goto(w, "appending") /\ where[w] = "scanning"
        BY <1>7, <2>2 DEF Domain!Scan
      <3>6. where'[w] = "appending"
        BY <3>5 DEF Domain!Goto, DomainInv, DomainTyped
      <3>7. job[w].position <= Len(grants)
        BY <3>5 DEF DomainInv, Worker, Appending
      <3>8. \A i \in 1 .. job[w].position : i \in DOMAIN grants
        BY <1>4, <3>2, <3>7 DEF DomainInv, DomainTyped
      <3>9. Appending(w)'
        BY <1>1, <1>4, <2>2, <3>2, <3>4, <3>6, <3>7, <3>8 DEF Appending
      <3> QED BY <1>3, <3>4, <3>5, <3>9
    <2> QED BY <2>1, <2>2
  <1> QED BY <1>5, <1>6, <1>7

LEMMA AppendSteps ==
    ASSUME DomainInv, NEW w \in Processes, Domain!Release(w), UNCHANGED <<revision, run, trail>>,
           Domain!AppendClaim(w) \/ Domain!AppendInDoubt(w)
    PROVE  DomainInv'
  <1>1. /\ where[w] = "appending" /\ ~ applied[w] /\ UNCHANGED <<proposal, applied>>
        /\ grants' = grants \/ grants' = Domain!Landed(job[w].claim)
    BY DEF Domain!AppendClaim, Domain!AppendInDoubt, Domain!Refs, DomainInv, Worker, Packaging,
           Granted
  <1>2. grants' \in Seq(Claims) /\ Domain!GrantSpentOnce' /\ Grown
    BY <1>1, ClaimLands DEF Grown, DomainInv, DomainTyped
  <1>3. guards \ {w} \subseteq guards' /\ guards' \subseteq guards
    BY DEF Domain!Release
  <1>4. ASSUME NEW as \in {"refused", "ambiguous"}, Domain!Fail(w, as)
        PROVE  DomainInv'
    BY <1>1, <1>2, <1>3, <1>4, RunEnds
  <1>5. CASE Domain!AppendClaim(w) /\ Domain!SlotFree(job[w].claim)
    <2>1. /\ where' = [where EXCEPT ![w] = "claimed"] /\ UNCHANGED job
          /\ grants' = Append(grants, job[w].claim)
      BY <1>5 DEF Domain!AppendClaim, Domain!Landed, Domain!Goto
    <2>2. where'[w] = "claimed" /\ "claimed" \notin Domain!Ended /\ "claimed" \in Places
      BY <2>1 DEF DomainInv, DomainTyped, Domain!Ended, Places, Before, Holding
    <2>3. guards' = guards
      BY <2>2 DEF Domain!Release
    <2>4. /\ job[w].claim \in Claims /\ job[w].claim.grant = job[w].grant
          /\ job[w].grant \in Grants
      BY <1>1 DEF DomainInv, Worker, Appending, Granted
    <2>5. job[w].claim \in Domain!Range(grants')
      <3>1. Len(grants) + 1 \in DOMAIN grants' /\ grants'[Len(grants) + 1] = job[w].claim
        BY <2>1, <2>4 DEF DomainInv, DomainTyped
      <3> QED BY <3>1 DEF Domain!Range
    <2>6. DomainTyped' /\ OtherRuns(w)
      BY <1>1, <1>2, <2>1, <2>2, <2>3 DEF DomainInv, DomainTyped, OtherRuns
    <2>7. Appending(w)' /\ Packaging(w)'
      BY <1>1, <2>1, <2>2, <2>4, <2>5
         DEF DomainInv, Worker, Appending, Packaging, Granted, Committed
    <2>8. Held(w)' /\ Attested(w)' /\ Closed(w)'
      BY <1>1, <2>2, <2>3
         DEF DomainInv, Worker, Held, Attested, Closed, Holding, Before, Domain!Ended
    <2>9. ProposalClaimed'
      BY <1>1, <1>2 DEF DomainInv, ProposalClaimed, Grown
    <2> QED BY <1>2, <2>6, <2>7, <2>8, <2>9, RunsFrame DEF DomainInv, Worker
  <1>6. CASE Domain!AppendClaim(w) /\ ~ Domain!SlotFree(job[w].claim)
    BY <1>4, <1>6 DEF Domain!AppendClaim
  <1>7. CASE Domain!AppendInDoubt(w)
    BY <1>4, <1>7 DEF Domain!AppendInDoubt
  <1> QED BY <1>5, <1>6, <1>7

\* The proposal is only moved off the base commit, by the package of a worker whose grant
\* is in the chain.
LEMMA ProposalMoves ==
    ASSUME DomainInv, NEW w \in Processes, where[w] = "updating", Domain!Movable,
           proposal' = Append(proposal, job[w].commit), UNCHANGED grants
    PROVE  /\ proposal' \in Seq(Commits \cup {Foreign}) /\ proposal' # <<>>
           /\ ProposalClaimed' /\ Grown
  <1>1. /\ job[w].commit \in Commits /\ job[w].claim \in Domain!Range(grants)
        /\ job[w].claim.grant.artifact = job[w].commit.artifact
    BY DEF DomainInv, Worker, Packaging, Spending, Committed
  <1>2. proposal = <<>>
    BY TipForms DEF DomainInv, DomainTyped, Domain!Movable
  <1>3. /\ proposal' \in Seq(Commits \cup {Foreign}) /\ Len(proposal') = 1
        /\ DOMAIN proposal' = {1} /\ proposal'[1] = job[w].commit
    BY <1>1, <1>2
  <1>4. ProposalClaimed'
    BY <1>1, <1>3 DEF ProposalClaimed
  <1>5. Domain!Range(proposal) = {}
    BY <1>2 DEF Domain!Range
  <1>6. Grown
    BY <1>2, <1>3, <1>5 DEF Grown, DomainInv, DomainTyped
  <1> QED BY <1>3, <1>4, <1>6

LEMMA UpdateSteps ==
    ASSUME DomainInv, NEW w \in Processes, Domain!Release(w), UNCHANGED <<revision, run, trail>>,
           \/ Domain!Prepare(w) \/ Domain!UpdateRef(w) \/ Domain!UpdateMisreported(w)
           \/ Domain!UpdateRefused(w)
    PROVE  DomainInv'
  <1>1. where[w] \in {"claimed", "updating"} /\ ~ applied[w] /\ UNCHANGED grants
    BY DEF Domain!Prepare, Domain!UpdateRef, Domain!UpdateMisreported, Domain!UpdateRefused,
           DomainInv, Worker, Packaging, Granted
  <1>2. /\ job[w].grant \in Grants /\ job[w].claim \in Domain!Range(grants)
        /\ job[w].claim.grant = job[w].grant
    BY <1>1 DEF DomainInv, Worker, Appending, Packaging, Granted, Spending
  <1>3. ASSUME Domain!Fail(w, "stale"), UNCHANGED <<proposal, applied>>
        PROVE  DomainInv'
    <2>1. guards \ {w} \subseteq guards' /\ guards' \subseteq guards
      BY DEF Domain!Release
    <2> QED BY <1>1, <1>3, <2>1, RunEnds
  <1>4. ASSUME NEW as \in {"updating", "reconciling"}, Domain!Goto(w, as),
               job' \in [Processes -> Jobs], \A q \in Processes \ {w} : job'[q] = job[q],
               job'[w].grant = job[w].grant, job'[w].claim = job[w].claim,
               job'[w].commit \in Commits,
               as = "updating" => /\ job'[w].commit.artifact = job[w].grant.artifact
                                  /\ UNCHANGED applied,
               \/ UNCHANGED <<proposal, applied>>
               \/ /\ proposal' \in Seq(Commits \cup {Foreign}) /\ proposal' # <<>>
                  /\ ProposalClaimed' /\ Grown
                  /\ applied' = [applied EXCEPT ![w] = TRUE]
        PROVE  DomainInv'
    <2>1. where' = [where EXCEPT ![w] = as] /\ where'[w] = as /\ as \notin Domain!Ended
      BY <1>4 DEF Domain!Goto, Domain!Ended, DomainInv, DomainTyped
    <2>2. guards' = guards
      BY <2>1 DEF Domain!Release
    <2>3. as \in Places
      BY DEF Places, Before, Holding
    <2>4. /\ proposal' \in Seq(Commits \cup {Foreign}) /\ ProposalClaimed' /\ Grown
          /\ applied' \in [Processes -> BOOLEAN]
          /\ \A q \in Processes \ {w} : applied'[q] = applied[q]
          /\ applied'[w] => proposal' # <<>>
      <3>1. CASE UNCHANGED <<proposal, applied>>
        BY <1>1, <3>1 DEF DomainInv, DomainTyped, ProposalClaimed, Grown, Worker, Packaging
      <3>2. CASE proposal' # <<>> /\ ProposalClaimed' /\ Grown
                 /\ proposal' \in Seq(Commits \cup {Foreign})
                 /\ applied' = [applied EXCEPT ![w] = TRUE]
        BY <3>2 DEF DomainInv, DomainTyped
      <3> QED BY <1>4, <3>1, <3>2
    <2>5. DomainTyped' /\ OtherRuns(w)
      BY <1>1, <1>4, <2>1, <2>2, <2>3, <2>4 DEF DomainInv, DomainTyped, OtherRuns
    <2>6. Appending(w)'
      BY <1>2, <1>4, <2>1 DEF Appending
    <2>7. Packaging(w)'
      BY <1>1, <1>2, <1>4, <2>1, <2>4 DEF Packaging, Granted
    <2>8. Held(w)' /\ Attested(w)' /\ Closed(w)'
      BY <1>1, <2>1, <2>2
         DEF DomainInv, Worker, Held, Attested, Closed, Holding, Before, Domain!Ended
    <2>9. Domain!GrantSpentOnce'
      BY <1>1 DEF DomainInv, Domain!GrantSpentOnce, Domain!Spent
    <2> QED BY <2>4, <2>5, <2>6, <2>7, <2>8, <2>9, RunsFrame DEF DomainInv, Worker
  <1>5. CASE Domain!Prepare(w)
    <2>1. CASE moved \/ Domain!Tip # None
      BY <1>3, <1>5, <2>1 DEF Domain!Prepare, Domain!Refs
    <2>2. CASE ~ (moved \/ Domain!Tip # None)
      <3>1. PICK m \in Stamps :
                Domain!Note(w, "commit", [artifact |-> job[w].grant.artifact, at |-> m])
        BY <1>5, <2>2 DEF Domain!Prepare
      <3> DEFINE c == [artifact |-> job[w].grant.artifact, at |-> m]
      <3>2. c \in Commits /\ c.artifact = job[w].grant.artifact
        BY <1>2 DEF Grants, Commits
      <3> HIDE DEF c
      <3>3. Domain!Note(w, "commit", c)
        BY <3>1 DEF c
      <3>4. Domain!Goto(w, "updating") /\ UNCHANGED <<proposal, applied>>
        BY <1>5, <2>2 DEF Domain!Prepare, Domain!Refs
      <3>5. /\ job' \in [Processes -> Jobs] /\ \A q \in Processes \ {w} : job'[q] = job[q]
            /\ job'[w].commit = c /\ job'[w].claim = job[w].claim
            /\ job'[w].grant = job[w].grant
        BY <3>2, <3>3, NotedFields DEF DomainInv, DomainTyped
      <3> QED BY <1>4, <3>2, <3>4, <3>5
    <2> QED BY <2>1, <2>2
  <1>6. CASE Domain!UpdateRefused(w) /\ Domain!Fail(w, "stale")
    BY <1>3, <1>6 DEF Domain!UpdateRefused, Domain!Refs
  <1>7. CASE \/ Domain!UpdateRef(w) \/ Domain!UpdateMisreported(w)
             \/ Domain!UpdateRefused(w) /\ ~ Domain!Fail(w, "stale")
    <2>1. PICK e \in BOOLEAN : Domain!Note(w, "error", e)
      BY <1>7 DEF Domain!UpdateRef, Domain!UpdateMisreported, Domain!UpdateRefused
    <2>2. where[w] = "updating" /\ Domain!Goto(w, "reconciling")
      BY <1>7 DEF Domain!UpdateRef, Domain!UpdateMisreported, Domain!UpdateRefused
    <2>3. /\ job' \in [Processes -> Jobs] /\ \A q \in Processes \ {w} : job'[q] = job[q]
          /\ job'[w].commit = job[w].commit /\ job'[w].claim = job[w].claim
          /\ job'[w].grant = job[w].grant
      BY <2>1, NotedFields DEF DomainInv, DomainTyped
    <2>4. job[w].commit \in Commits
      BY <2>2 DEF DomainInv, Worker, Packaging, Spending, Committed
    <2>5. \/ UNCHANGED <<proposal, applied>>
          \/ /\ Domain!Movable /\ proposal' = Append(proposal, job[w].commit)
             /\ applied' = [applied EXCEPT ![w] = TRUE]
      BY <1>7 DEF Domain!UpdateRef, Domain!UpdateMisreported, Domain!UpdateRefused, Domain!Refs
    <2>6. \/ UNCHANGED <<proposal, applied>>
          \/ /\ proposal' \in Seq(Commits \cup {Foreign}) /\ proposal' # <<>>
             /\ ProposalClaimed' /\ Grown
             /\ applied' = [applied EXCEPT ![w] = TRUE]
      BY <1>1, <2>2, <2>5, ProposalMoves
    <2> QED BY <1>4, <2>2, <2>3, <2>4, <2>6
  <1> QED BY <1>5, <1>6, <1>7

LEMMA ReadSteps ==
    ASSUME DomainInv, NEW w \in Processes, Domain!Release(w), UNCHANGED <<revision, run, trail>>,
           Domain!ReadDefault(w) \/ Domain!ReadProposal(w) \/ Domain!Confirm(w)
    PROVE  DomainInv'
  <1>1. /\ where[w] \in {"reconciling", "default read", "confirming"}
        /\ UNCHANGED <<grants, proposal, applied>>
    BY DEF Domain!ReadDefault, Domain!ReadProposal, Domain!Confirm, Domain!Refs
  <1>2. /\ job[w].claim \in Domain!Range(grants) /\ job[w].commit \in Commits
        /\ applied[w] => proposal # <<>>
    BY <1>1 DEF DomainInv, Worker, Packaging, Spending, Committed
  <1>3. ASSUME NEW as \in {"ambiguous", "stale"}, Domain!Fail(w, as),
               as = "stale" => ~ applied[w]
        PROVE  DomainInv'
    <2>1. guards \ {w} \subseteq guards' /\ guards' \subseteq guards
      BY DEF Domain!Release
    <2> QED BY <1>1, <1>3, <2>1, RunEnds
  <1>4. ASSUME NEW as \in {"default read", "confirming", "packaged"}, Domain!Goto(w, as),
               job' \in [Processes -> Jobs], \A q \in Processes \ {w} : job'[q] = job[q],
               job'[w].claim = job[w].claim, job'[w].commit = job[w].commit,
               as = "confirming" => job'[w].head \in {None, job[w].commit},
               as = "packaged" => job[w].commit \in Domain!Range(proposal)
        PROVE  DomainInv'
    <2>1. where' = [where EXCEPT ![w] = as] /\ where'[w] = as /\ as \notin Domain!Ended
      BY <1>4 DEF Domain!Goto, Domain!Ended, DomainInv, DomainTyped
    <2>2. guards' = guards
      BY <2>1 DEF Domain!Release
    <2>3. as \in Places
      BY DEF Places, Before, Holding
    <2>4. DomainTyped' /\ OtherRuns(w)
      BY <1>1, <1>4, <2>1, <2>2, <2>3 DEF DomainInv, DomainTyped, OtherRuns
    <2>5. Appending(w)' /\ Packaging(w)'
      BY <1>1, <1>2, <1>4, <2>1 DEF Appending, Packaging, Granted
    <2>6. Held(w)' /\ Attested(w)' /\ Closed(w)'
      BY <1>1, <2>1, <2>2
         DEF DomainInv, Worker, Held, Attested, Closed, Holding, Before, Domain!Ended
    <2> QED BY <1>1, <2>4, <2>5, <2>6, RunMoves DEF Worker
  <1>5. CASE Domain!ReadDefault(w)
    <2>1. Domain!Note(w, "default", ~ moved) /\ Domain!Goto(w, "default read")
      BY <1>5 DEF Domain!ReadDefault
    <2>2. /\ job' \in [Processes -> Jobs] /\ \A q \in Processes \ {w} : job'[q] = job[q]
          /\ job'[w].claim = job[w].claim /\ job'[w].commit = job[w].commit
      BY <2>1, NotedFields DEF DomainInv, DomainTyped
    <2> QED BY <1>4, <2>1, <2>2
  <1>6. CASE Domain!ReadProposal(w)
    <2>1. CASE job[w].default /\ Domain!Found(w) \in {None, job[w].commit}
      <3>1. Domain!Note(w, "head", Domain!Found(w)) /\ Domain!Goto(w, "confirming")
        BY <1>6, <2>1 DEF Domain!ReadProposal
      <3>2. Domain!Found(w) \in Commits \cup {None}
        BY <1>2, <2>1
      <3>3. /\ job' \in [Processes -> Jobs] /\ \A q \in Processes \ {w} : job'[q] = job[q]
            /\ job'[w].claim = job[w].claim /\ job'[w].commit = job[w].commit
            /\ job'[w].head = Domain!Found(w)
        BY <3>1, <3>2, NotedFields DEF DomainInv, DomainTyped
      <3> QED BY <1>4, <2>1, <3>1, <3>3
    <2>2. CASE ~ (job[w].default /\ Domain!Found(w) \in {None, job[w].commit})
      BY <1>3, <1>6, <2>2 DEF Domain!ReadProposal
    <2> QED BY <2>1, <2>2
  <1>7. CASE Domain!Confirm(w)
    <2>1. CASE moved \/ Domain!Found(w) # job[w].head
      BY <1>3, <1>7, <2>1 DEF Domain!Confirm
    <2>2. CASE ~ (moved \/ Domain!Found(w) # job[w].head) /\ job[w].head = None
      <3>1. ~ applied[w]
        BY <1>2, <2>2, TipForms DEF Domain!Found, DomainInv, DomainTyped
      <3> QED BY <1>3, <1>7, <2>2, <3>1 DEF Domain!Confirm
    <2>3. CASE ~ (moved \/ Domain!Found(w) # job[w].head) /\ job[w].head # None
      <3>1. Domain!Goto(w, "packaged") /\ job' = job
        BY <1>7, <2>3 DEF Domain!Confirm
      <3>2. Domain!Tip = job[w].commit /\ proposal # <<>>
        BY <1>7, <2>3, TipForms
           DEF Domain!Confirm, Domain!Found, DomainInv, DomainTyped, Worker, Packaging
      <3>3. job[w].commit \in Domain!Range(proposal)
        <4>1. Len(proposal) \in DOMAIN proposal /\ proposal[Len(proposal)] = job[w].commit
          BY <3>2, TipForms DEF DomainInv, DomainTyped
        <4> QED BY <4>1 DEF Domain!Range
      <3> QED BY <1>4, <3>1, <3>3 DEF DomainInv, DomainTyped
    <2> QED BY <2>1, <2>2, <2>3
  <1> QED BY <1>5, <1>6, <1>7

-----------------------------------------------------------------------------
(* The closing of a run, with its package on the proposal. *)

LEMMA ClosingSteps ==
    ASSUME NEW s \in 1 .. 13
    PROVE  /\ Domain!Closing[s] = "head" => s \in {1, 7, 10}
           /\ Domain!Closing[s] = "rights" => s \in {3, 5, 8, 11}
           /\ Domain!Closing[s] = "comment" => s = 2
           /\ Domain!Closing[s] = "wait" => s = 4
           /\ Domain!Closing[s] = "approve" => s = 6
           /\ Domain!Closing[s] = "merge" => s = 9
           /\ Domain!Closing[s] = "guard" => s = 12
           /\ Domain!Closing[s] = "close" => s = 13
  BY DEF Domain!Closing

\* The package is at the bottom of the proposal: it is the head, or something is on top.
LEMMA PackageAtBottom ==
    ASSUME DomainInv, NEW c \in Commits, c \in Domain!Range(proposal)
    PROVE  /\ Len(proposal) = 1 => Domain!Tip = c
           /\ Len(proposal) >= 1
           /\ Domain!Tip = c => Len(proposal) = 1
  <1>1. proposal \in Seq(Commits \cup {Foreign}) /\ c # Foreign
    BY PortsAssumption DEF DomainInv, DomainTyped, Commits
  <1>2. PICK i \in DOMAIN proposal : proposal[i] = c
    BY DEF Domain!Range
  <1>3. i = 1
    BY <1>1, <1>2 DEF DomainInv, ProposalClaimed
  <1>4. proposal # <<>> /\ Len(proposal) >= 1
    BY <1>1, <1>2
  <1>5. Domain!Tip = proposal[Len(proposal)] /\ Len(proposal) \in DOMAIN proposal
    BY <1>1, <1>4, TipForms
  <1>6. Domain!Tip = c => Len(proposal) = 1
    BY <1>1, <1>5 DEF DomainInv, ProposalClaimed
  <1> QED BY <1>2, <1>3, <1>4, <1>5, <1>6

LEMMA EntryForm ==
    ASSUME DomainInv, NEW w \in Processes, NEW what \in Whats
    PROVE  /\ Domain!Entry(w, what) \in Entries
           /\ Domain!Entry(w, what).what = what
           /\ Domain!Entry(w, what).head = Domain!Tip
           /\ Domain!Entry(w, what).revision = revision
  <1>1. Domain!Tip \in Heads /\ revision \in Nat
    BY TipForms DEF DomainInv, DomainTyped
  <1> QED BY <1>1 DEF Domain!Entry, Entries

LEMMA RunPackaged ==
    ASSUME DomainInv, NEW w \in Processes, Domain!Packaged(w)
    PROVE  DomainInv'
  <1> DEFINE e == Domain!Entry(w, "package")
             r == [run[w] EXCEPT !.step = 1]
  <1>1. /\ where[w] = "packaged" /\ where' = [where EXCEPT ![w] = "closing"]
        /\ UNCHANGED <<grants, proposal, applied, job, revision>> /\ guards' = guards \ {w}
        /\ run' = [run EXCEPT ![w] = r] /\ trail' = [trail EXCEPT ![w] = Append(@, e)]
    BY DEF Domain!Packaged, Domain!Record, Domain!Goto, Domain!Refs
  <1>2. r \in RunRecords /\ r.id = run[w].id /\ r.revision = run[w].revision /\ r.step = 1
    <2>1. run[w] \in RunRecords
      BY DEF DomainInv, DomainTyped
    <2> QED BY <2>1 DEF RunRecords
  <1>3. e \in Entries /\ e.what = "package" /\ e.revision = revision
    <2>1. "package" \in Whats
      BY DEF Whats
    <2> QED BY <2>1, EntryForm
  <1>4. trail[w] = <<>> /\ run[w].revision = revision /\ run[w].id \in Runs
    BY <1>1 DEF DomainInv, Worker, Attested, Held, Before, Holding, Domain!Ended
  <1> HIDE DEF e, r
  <1>5. DomainTyped' /\ OtherRuns(w)
    BY <1>1, <1>2, <1>3, <1>4 DEF DomainInv, DomainTyped, OtherRuns, Places
  <1>6. /\ where'[w] = "closing" /\ run'[w] = r
        /\ Len(trail'[w]) = 1 /\ trail'[w][1] = e
    BY <1>1, <1>3, <1>4 DEF DomainInv, DomainTyped
  <1>7. Appending(w)' /\ Packaging(w)'
    BY <1>1, <1>6
       DEF DomainInv, Worker, Appending, Packaging, Granted, Spending, Committed
  <1>8. Held(w)' /\ Closed(w)'
    BY <1>1, <1>2, <1>4, <1>6 DEF DomainInv, DomainTyped, Held, Closed, Holding
  <1>9. Attested(w)'
    BY <1>1, <1>2, <1>3, <1>4, <1>6
       DEF DomainInv, DomainTyped, Attested, Before, Holding, Recorded, Trail
  <1> QED BY <1>1, <1>5, <1>7, <1>8, <1>9, RunMoves DEF Worker

\* A run that takes one more step of its closing.
LEMMA ClosingMoves ==
    ASSUME DomainInv, NEW w \in Processes, where[w] = "closing", Domain!Advance(w),
           UNCHANGED <<grants, proposal, where, job, applied, revision>>,
           guards \subseteq guards', guards' \subseteq guards \cup {w},
           run[w].step \in 1 .. 12,
           run[w].step = 12 => w \in guards' /\ run[w].revision = revision,
           NEW t \in Seq(Entries), trail' = [trail EXCEPT ![w] = t],
           Len(t) = Recorded(run[w].step + 1),
           \A i \in 1 .. Len(t) :
               /\ t[i].what = Trail[i]
               /\ run[w].revision <= t[i].revision /\ t[i].revision <= revision,
           \A i \in 2 .. Len(t) : \/ t[i].head = job[w].commit
                                  \/ Len(proposal) > 1 /\ run[w].step + 1 <= 10
    PROVE  DomainInv'
  <1> DEFINE r == [id |-> run[w].id, head |-> run[w].head, revision |-> run[w].revision,
                   step |-> run[w].step + 1]
  <1>1. run' = [run EXCEPT ![w] = r]
    <2>1. PICK n \in 1 .. 13 : n = run[w].step + 1
      OBVIOUS
    <2>2. run' = [run EXCEPT ![w].step = n]
      BY <2>1 DEF Domain!Advance
    <2>3. run[w] \in RunRecords
      BY DEF DomainInv, DomainTyped
    <2>4. run' = [run EXCEPT ![w] = [id |-> run[w].id, head |-> run[w].head,
                                     revision |-> run[w].revision, step |-> n]]
      <3>1. run' = [run EXCEPT ![w] = [run[w] EXCEPT !.step = n]]
        BY <2>2 DEF DomainInv, DomainTyped
      <3>2. [run[w] EXCEPT !.step = n] = [id |-> run[w].id, head |-> run[w].head,
                                          revision |-> run[w].revision, step |-> n]
        BY <2>3 DEF RunRecords
      <3> QED BY <3>1, <3>2
    <2> QED BY <2>1, <2>4
  <1>2. /\ r \in RunRecords /\ r.id = run[w].id /\ r.revision = run[w].revision
        /\ r.step = run[w].step + 1
    <2>1. run[w] \in RunRecords
      BY DEF DomainInv, DomainTyped
    <2> QED BY <2>1 DEF RunRecords
  <1> HIDE DEF r
  <1>3. DomainTyped' /\ OtherRuns(w) /\ run'[w] = r /\ trail'[w] = t
    BY <1>1, <1>2 DEF DomainInv, DomainTyped, OtherRuns
  <1>4. Appending(w)' /\ Packaging(w)' /\ Closed(w)'
    BY DEF DomainInv, Worker, Appending, Packaging, Closed
  <1>5. /\ where'[w] = "closing" /\ run'[w].step = run[w].step + 1 /\ run'[w].step \in 1 .. 13
        /\ run'[w].step = 13 => run[w].step = 12
        /\ run'[w].id = run[w].id /\ run'[w].revision = run[w].revision
    BY <1>2, <1>3
  <1>6. Held(w)'
    <2>1. run[w].id \in Runs /\ run[w].revision <= revision
      BY DEF DomainInv, Worker, Held, Domain!Ended
    <2> QED BY <1>5, <2>1 DEF Held, Holding
  <1>7. Attested(w)'
    <2>1. "closing" \notin Before
      BY DEF Before, Holding
    <2> QED BY <1>3, <1>5, <2>1 DEF Attested
  <1> QED BY <1>3, <1>4, <1>6, <1>7, RunMoves DEF Worker

LEMMA RunChecks ==
    ASSUME DomainInv, NEW w \in Processes,
           Domain!CheckHead(w) \/ Domain!CheckRights(w) \/ Domain!GuardClosure(w)
    PROVE  DomainInv'
  <1>1. /\ where[w] = "closing" /\ Domain!Advance(w)
        /\ UNCHANGED <<grants, proposal, where, job, applied, revision, trail>>
        /\ guards \subseteq guards' /\ guards' \subseteq guards \cup {w}
    BY DEF Domain!CheckHead, Domain!CheckRights, Domain!GuardClosure, Domain!At,
           Domain!package, Domain!authority
  <1>2. run[w].step \in 1 .. 13 /\ Attested(w)
    BY <1>1 DEF DomainInv, Worker, Attested
  <1>3. /\ Len(trail[w]) = Recorded(run[w].step)
        /\ \A i \in 1 .. Len(trail[w]) :
              /\ trail[w][i].what = Trail[i]
              /\ run[w].revision <= trail[w][i].revision /\ trail[w][i].revision <= revision
        /\ \A i \in 2 .. Len(trail[w]) :
              \/ trail[w][i].head = job[w].commit
              \/ Len(proposal) > 1 /\ run[w].step <= 10
    BY <1>1, <1>2 DEF Attested
  <1>4. trail[w] \in Seq(Entries) /\ trail' = [trail EXCEPT ![w] = trail[w]]
    BY <1>1 DEF DomainInv, DomainTyped
  <1>5. CASE Domain!CheckHead(w)
    <2>1. run[w].step \in {1, 7, 10} /\ Domain!Tip = job[w].commit
      BY <1>2, <1>5, ClosingSteps DEF Domain!CheckHead, Domain!At, Domain!HeadUnmoved
    <2>2. job[w].commit \in Commits /\ job[w].commit \in Domain!Range(proposal)
      BY <1>1 DEF DomainInv, Worker, Packaging, Spending, Committed
    <2>3. Len(proposal) = 1
      BY <2>1, <2>2, PackageAtBottom
    <2>4. \A i \in 2 .. Len(trail[w]) : trail[w][i].head = job[w].commit
      BY <1>3, <2>3
    <2>5. Recorded(run[w].step + 1) = Recorded(run[w].step)
      BY <2>1 DEF Recorded
    <2>6. /\ run[w].step \in 1 .. 12 /\ run[w].step # 12
          /\ Len(trail[w]) = Recorded(run[w].step + 1)
      BY <1>3, <2>1, <2>5
    <2> QED BY <1>1, <1>3, <1>4, <2>4, <2>6, ClosingMoves
  <1>6. CASE Domain!CheckRights(w)
    <2>1. run[w].step \in {3, 5, 8, 11}
      BY <1>2, <1>6, ClosingSteps DEF Domain!CheckRights, Domain!At
    <2>2. Recorded(run[w].step + 1) = Recorded(run[w].step)
      BY <2>1 DEF Recorded
    <2>3. \A i \in 2 .. Len(trail[w]) :
              \/ trail[w][i].head = job[w].commit
              \/ Len(proposal) > 1 /\ run[w].step + 1 <= 10
      BY <1>3, <2>1
    <2>4. /\ run[w].step \in 1 .. 12 /\ run[w].step # 12
          /\ Len(trail[w]) = Recorded(run[w].step + 1)
      BY <1>3, <2>1, <2>2
    <2> QED BY <1>1, <1>3, <1>4, <2>3, <2>4, ClosingMoves
  <1>7. CASE Domain!GuardClosure(w)
    <2>1. run[w].step = 12 /\ w \in guards' /\ run[w].revision = revision
      BY <1>2, <1>7, ClosingSteps DEF Domain!GuardClosure, Domain!At, Domain!RightsCurrent
    <2>2. Recorded(run[w].step + 1) = Recorded(run[w].step)
      BY <2>1 DEF Recorded
    <2>3. \A i \in 2 .. Len(trail[w]) : trail[w][i].head = job[w].commit
      BY <1>3, <2>1
    <2>4. run[w].step \in 1 .. 12 /\ Len(trail[w]) = Recorded(run[w].step + 1)
      BY <1>3, <2>1, <2>2
    <2> QED BY <1>1, <1>3, <1>4, <2>1, <2>3, <2>4, ClosingMoves
  <1> QED BY <1>5, <1>6, <1>7

LEMMA RunAttests ==
    ASSUME DomainInv, NEW w \in Processes, NEW what \in {"comment", "wait", "approve", "merge"},
           Domain!Attest(w, what)
    PROVE  DomainInv'
  <1> DEFINE e == Domain!Entry(w, what)
             t == Append(trail[w], e)
  <1>1. /\ where[w] = "closing" /\ Domain!Advance(w) /\ trail' = [trail EXCEPT ![w] = t]
        /\ UNCHANGED <<grants, proposal, where, job, applied, revision, guards>>
    BY DEF Domain!Attest, Domain!At, Domain!Record, Domain!package, Domain!authority
  <1>2. /\ run[w].step \in 1 .. 13 /\ Len(trail[w]) = Recorded(run[w].step)
        /\ \A i \in 1 .. Len(trail[w]) :
              /\ trail[w][i].what = Trail[i]
              /\ run[w].revision <= trail[w][i].revision /\ trail[w][i].revision <= revision
        /\ \A i \in 2 .. Len(trail[w]) :
              \/ trail[w][i].head = job[w].commit
              \/ Len(proposal) > 1 /\ run[w].step <= 10
    BY <1>1 DEF DomainInv, Worker, Attested
  <1>3. /\ e \in Entries /\ e.what = what /\ e.head = Domain!Tip /\ e.revision = revision
    <2>1. what \in Whats
      BY DEF Whats
    <2> QED BY <2>1, EntryForm
  <1>4. trail[w] \in Seq(Entries) /\ run[w].revision <= revision /\ revision \in Nat
    BY DEF DomainInv, DomainTyped, Worker, Held
  <1>5. /\ run[w].step \in {2, 4, 6, 9} /\ Trail[Len(trail[w]) + 1] = what
        /\ Recorded(run[w].step + 1) = Len(trail[w]) + 1
    <2>1. Domain!Closing[run[w].step] = what
      BY DEF Domain!Attest, Domain!At
    <2>2. \/ what = "comment" /\ run[w].step = 2
          \/ what = "wait" /\ run[w].step = 4
          \/ what = "approve" /\ run[w].step = 6
          \/ what = "merge" /\ run[w].step = 9
      BY <1>2, <2>1, ClosingSteps
    <2> QED BY <1>2, <2>2 DEF Recorded, Trail
  <1>6. Domain!Tip = job[w].commit \/ Len(proposal) > 1
    <2>1. job[w].commit \in Commits /\ job[w].commit \in Domain!Range(proposal)
      BY <1>1 DEF DomainInv, Worker, Packaging, Spending, Committed
    <2>2. Len(proposal) = 1 => Domain!Tip = job[w].commit
      BY <2>1, PackageAtBottom
    <2>3. Len(proposal) >= 1
      BY <2>1, PackageAtBottom
    <2>4. Len(proposal) \in Nat
      BY DEF DomainInv, DomainTyped
    <2>5. Len(proposal) = 1 \/ Len(proposal) > 1
      BY <2>3, <2>4
    <2> QED BY <2>2, <2>5
  <1> HIDE DEF e
  <1>7. /\ t \in Seq(Entries) /\ Len(t) = Len(trail[w]) + 1
        /\ \A i \in 1 .. Len(trail[w]) : t[i] = trail[w][i]
        /\ t[Len(trail[w]) + 1] = e
    BY <1>3, <1>4
  <1> HIDE DEF t
  <1>8. \A i \in 1 .. Len(t) : i \in 1 .. Len(trail[w]) \/ i = Len(trail[w]) + 1
    BY <1>4, <1>7
  <1>9. \A i \in 1 .. Len(t) :
            /\ t[i].what = Trail[i]
            /\ run[w].revision <= t[i].revision /\ t[i].revision <= revision
    BY <1>2, <1>3, <1>4, <1>5, <1>7, <1>8
  <1>10. \A i \in 2 .. Len(t) : \/ t[i].head = job[w].commit
                                \/ Len(proposal) > 1 /\ run[w].step + 1 <= 10
    <2>1. ASSUME NEW i \in 2 .. Len(t)
          PROVE  \/ t[i].head = job[w].commit
                 \/ Len(proposal) > 1 /\ run[w].step + 1 <= 10
      <3>1. i \in 2 .. Len(trail[w]) \/ i = Len(trail[w]) + 1
        BY <1>4, <1>7
      <3> QED BY <1>2, <1>3, <1>5, <1>6, <1>7, <3>1
    <2> QED BY <2>1
  <1>11. /\ run[w].step \in 1 .. 12 /\ run[w].step # 12
         /\ Len(t) = Recorded(run[w].step + 1)
    BY <1>5, <1>7
  <1> QED BY <1>1, <1>7, <1>9, <1>10, <1>11, ClosingMoves

\* What was recorded up to the closure was recorded at the revision that is held for it.
LEMMA RunCloses ==
    ASSUME DomainInv, NEW w \in Processes, Domain!Close(w)
    PROVE  DomainInv'
  <1> DEFINE e == Domain!Entry(w, "close")
             t == Append(trail[w], e)
  <1>1. /\ where[w] = "closing" /\ Domain!Closing[run[w].step] = "close"
        /\ where' = [where EXCEPT ![w] = "closed"] /\ trail' = [trail EXCEPT ![w] = t]
        /\ UNCHANGED <<grants, proposal, applied, job, revision, run>>
        /\ guards' = guards \ {w}
    BY DEF Domain!Close, Domain!At, Domain!Record, Domain!Goto, Domain!Refs
  <1>2. /\ run[w].step \in 1 .. 13 /\ Len(trail[w]) = Recorded(run[w].step)
        /\ \A i \in 1 .. Len(trail[w]) :
              /\ trail[w][i].what = Trail[i]
              /\ run[w].revision <= trail[w][i].revision /\ trail[w][i].revision <= revision
        /\ \A i \in 2 .. Len(trail[w]) :
              \/ trail[w][i].head = job[w].commit
              \/ Len(proposal) > 1 /\ run[w].step <= 10
    BY <1>1 DEF DomainInv, Worker, Attested
  <1>3. run[w].step = 13 /\ Len(trail[w]) = 5
    BY <1>1, <1>2, ClosingSteps DEF Recorded
  <1>4. run[w].revision = revision /\ run[w].revision \in Nat
    BY <1>1, <1>3 DEF DomainInv, DomainTyped, RunRecords, Worker, Held
  <1>5. trail[w] \in Seq(Entries)
    BY DEF DomainInv, DomainTyped
  <1>6. e \in Entries /\ e.what = "close" /\ e.revision = revision
    <2>1. "close" \in Whats
      BY DEF Whats
    <2> QED BY <2>1, EntryForm
  <1> HIDE DEF e
  <1>7. /\ t \in Seq(Entries) /\ Len(t) = 6 /\ t[6] = e
        /\ \A i \in 1 .. 5 : t[i] = trail[w][i]
    <2>1. /\ t \in Seq(Entries) /\ Len(t) = Len(trail[w]) + 1
          /\ \A i \in 1 .. Len(trail[w]) : t[i] = trail[w][i]
          /\ t[Len(trail[w]) + 1] = e
      BY <1>5, <1>6
    <2> HIDE DEF t
    <2> QED BY <1>3, <2>1
  <1> HIDE DEF t
  <1>8. DomainTyped' /\ OtherRuns(w) /\ where'[w] = "closed" /\ trail'[w] = t
    BY <1>1, <1>7 DEF DomainInv, DomainTyped, OtherRuns, Places, Domain!Ended
  <1>9. Appending(w)' /\ Packaging(w)'
    BY <1>1, <1>8 DEF DomainInv, Worker, Appending, Packaging, Granted, Spending, Committed
  <1>10. Held(w)' /\ Attested(w)'
    BY <1>1, <1>8 DEF DomainInv, Worker, Held, Attested, Domain!Ended, Holding, Before
  <1>11. Closed(w)'
    <2>1. \A i \in 1 .. 5 : trail[w][i].revision = run[w].revision
      <3>1. ASSUME NEW i \in 1 .. 5
            PROVE  trail[w][i].revision = run[w].revision
        <4>1. trail[w][i] \in Entries
          BY <1>3, <1>5
        <4>2. trail[w][i].revision \in Nat
          BY <4>1 DEF Entries
        <4> QED BY <1>2, <1>3, <1>4, <4>2
      <3> QED BY <3>1
    <2>2. \A i \in 1 .. 6 : i \in 1 .. 5 \/ i = 6
      OBVIOUS
    <2>3. Trail[6] = "close"
      BY DEF Trail
    <2>4. \A i \in 1 .. 6 : t[i].what = Trail[i] /\ t[i].revision = run[w].revision
      BY <1>2, <1>3, <1>4, <1>6, <1>7, <2>1, <2>2, <2>3
    <2>5. \A i \in 2 .. 5 : t[i].head = job[w].commit
      BY <1>2, <1>3, <1>7
    <2> QED BY <1>1, <1>7, <1>8, <2>4, <2>5 DEF Closed
  <1> QED BY <1>1, <1>8, <1>9, <1>10, <1>11, RunMoves DEF Worker

LEMMA RunStops ==
    ASSUME DomainInv, NEW w \in Processes, Domain!Stop(w)
    PROVE  DomainInv'
  BY RunEnds DEF Domain!Stop, Domain!Refs

\* The authority is revised when no run holds it.
LEMMA AuthorityRevised ==
    ASSUME DomainInv, Domain!Revise
    PROVE  DomainInv'
  <1>1. /\ guards = {} /\ revision' = revision + 1 /\ revision \in Nat
        /\ UNCHANGED <<grants, proposal, where, job, applied, guards, run, trail>>
    BY DEF Domain!Revise, Domain!package, DomainInv, DomainTyped
  <1>2. DomainTyped' /\ Domain!GrantSpentOnce' /\ ProposalClaimed'
    BY <1>1 DEF DomainInv, DomainTyped, Domain!GrantSpentOnce, Domain!Spent, ProposalClaimed
  <1>3. ASSUME NEW w \in Processes
        PROVE  Worker(w)'
    <2>1. Worker(w)
      BY DEF DomainInv
    <2>2. Appending(w)' /\ Packaging(w)' /\ Closed(w)'
      BY <1>1, <2>1 DEF Worker, Appending, Packaging, Closed, Domain!Spent
    <2>3. run[w].revision \in Nat /\ trail[w] \in Seq(Entries)
      BY DEF DomainInv, DomainTyped, RunRecords
    <2>4. Held(w)'
      BY <1>1, <2>1, <2>3 DEF Worker, Held
    <2>5. Attested(w)'
      <3>1. ASSUME NEW i \in 1 .. Len(trail[w])
            PROVE  trail[w][i].revision \in Nat
        <4>1. trail[w][i] \in Entries
          BY <2>3
        <4> QED BY <4>1 DEF Entries
      <3>2. \A i \in 1 .. Len(trail[w]) :
                trail[w][i].revision <= revision => trail[w][i].revision <= revision'
        BY <1>1, <3>1
      <3> QED BY <1>1, <2>1, <3>2 DEF Worker, Attested
    <2> QED BY <2>2, <2>4, <2>5 DEF Worker
  <1> QED BY <1>2, <1>3 DEF DomainInv

LEMMA OthersMove ==
    ASSUME DomainInv, Domain!Others, UNCHANGED <<revision, guards, run, trail>>
    PROVE  DomainInv'
  <1>1. /\ UNCHANGED <<grants, where, job, applied, revision, guards, run, trail>>
        /\ proposal' = proposal \/ proposal' = Append(proposal, Foreign)
    BY DEF Domain!Others, Domain!Push, Domain!MoveDefault
  <1>2. proposal \in Seq(Commits \cup {Foreign}) /\ ProposalClaimed
    BY DEF DomainInv, DomainTyped
  <1>3. /\ proposal' \in Seq(Commits \cup {Foreign}) /\ ProposalClaimed'
        /\ Len(proposal) <= Len(proposal')
        /\ Domain!Range(proposal) \subseteq Domain!Range(proposal')
    <2>1. CASE proposal' = proposal
      BY <1>1, <1>2, <2>1 DEF ProposalClaimed
    <2>2. CASE proposal' = Append(proposal, Foreign)
      <3>1. /\ proposal' \in Seq(Commits \cup {Foreign}) /\ Len(proposal') = Len(proposal) + 1
            /\ DOMAIN proposal' = 1 .. Len(proposal) + 1
            /\ DOMAIN proposal = 1 .. Len(proposal) /\ Len(proposal) \in Nat
            /\ \A i \in 1 .. Len(proposal) : proposal'[i] = proposal[i]
            /\ proposal'[Len(proposal) + 1] = Foreign
        BY <1>2, <2>2
      <3>2. \A i \in DOMAIN proposal' : proposal'[i] # Foreign =>
                i \in DOMAIN proposal /\ proposal'[i] = proposal[i]
        BY <3>1
      <3>3. ProposalClaimed'
        BY <1>1, <1>2, <3>2 DEF ProposalClaimed
      <3>4. Domain!Range(proposal) \subseteq Domain!Range(proposal')
        BY <3>1 DEF Domain!Range
      <3> QED BY <3>1, <3>3, <3>4
    <2> QED BY <1>1, <2>1, <2>2
  <1>4. DomainTyped' /\ Domain!GrantSpentOnce'
    BY <1>1, <1>3 DEF DomainInv, DomainTyped, Domain!GrantSpentOnce, Domain!Spent
  <1>5. Grown
    BY <1>1, <1>3 DEF Grown, DomainInv, DomainTyped
  <1>6. ASSUME NEW w \in Processes
        PROVE  Worker(w)'
    <2>1. Worker(w)
      BY DEF DomainInv
    <2>2. proposal # <<>> => proposal' # <<>>
      BY <1>2, <1>3
    <2>3. Len(proposal) > 1 => Len(proposal') > 1
      BY <1>2, <1>3
    <2>4. Appending(w)'
      BY <1>1, <2>1 DEF Worker, Appending, Domain!Spent
    <2>5. Packaging(w)'
      BY <1>1, <1>3, <2>1, <2>2 DEF Worker, Packaging
    <2>6. Held(w)' /\ Closed(w)'
      BY <1>1, <2>1 DEF Worker, Held, Closed
    <2>7. Attested(w)'
      BY <1>1, <2>1, <2>3 DEF Worker, Attested
    <2> QED BY <2>4, <2>5, <2>6, <2>7 DEF Worker
  <1> QED BY <1>3, <1>4, <1>6 DEF DomainInv

LEMMA DomainKept == PartsSpec => []DomainInv
  <1>1. PartsInit => DomainInv
    BY DomainInitially DEF PartsInit
  <1>2. ASSUME DomainInv, [PartsNext]_<<part, vars, demo, backup, domain>>
        PROVE  DomainInv'
    <2>1. ASSUME NEW w \in Processes, Domain!Step(w)
          PROVE  DomainInv'
      <3>1. CASE Domain!PackageStep(w)
        <4>1. /\ Domain!Release(w) /\ UNCHANGED <<revision, run, trail>>
              /\ Domain!Package(w)
          BY <3>1 DEF Domain!PackageStep
        <4> QED BY <1>2, <4>1, GrantSteps, AppendSteps, UpdateSteps, ReadSteps
                DEF Domain!Package
      <3>2. CASE \E what \in {"comment", "wait", "approve", "merge"} : Domain!Attest(w, what)
        BY <1>2, <3>2, RunAttests
      <3>3. CASE \/ Domain!Start(w) \/ Domain!Draft(w) \/ Domain!ResolveRights(w)
                 \/ Domain!CheckBinding(w) \/ Domain!Guard(w) \/ Domain!Packaged(w)
        BY <1>2, <3>3, RunStarts, RunDrafts, RunResolves, RunPackaged
      <3>4. CASE \/ Domain!CheckHead(w) \/ Domain!CheckRights(w) \/ Domain!GuardClosure(w)
                 \/ Domain!Close(w) \/ Domain!Stop(w)
        BY <1>2, <3>4, RunChecks, RunCloses, RunStops
      <3> QED BY <2>1, <3>1, <3>2, <3>3, <3>4 DEF Domain!Step
    <2>2. CASE Domain!Revise
      BY <1>2, <2>2, AuthorityRevised
    <2>3. CASE Domain!Others /\ UNCHANGED <<Domain!authority, run, starts, trail>>
      BY <1>2, <2>3, OthersMove DEF Domain!authority
    <2>4. CASE UNCHANGED domain
      <3>1. UNCHANGED <<grants, proposal, where, job, applied, revision, guards, run, trail>>
        BY <2>4 DEF domain
      <3>2. DomainTyped' /\ Domain!GrantSpentOnce' /\ ProposalClaimed'
        BY <1>2, <3>1
           DEF DomainInv, DomainTyped, Domain!GrantSpentOnce, Domain!Spent, ProposalClaimed
      <3>3. ASSUME NEW w \in Processes
            PROVE  Worker(w)'
        <4>1. Worker(w)
          BY <1>2 DEF DomainInv
        <4> QED BY <3>1, <4>1
                DEF Worker, Appending, Packaging, Held, Attested, Closed, Domain!Spent
      <3> QED BY <3>2, <3>3 DEF DomainInv
    <2> QED BY <1>2, <2>1, <2>2, <2>3, <2>4, EachPartSteps DEF Domain!Next
  <1> QED BY <1>1, <1>2, PTL DEF PartsSpec

\* A redemption key, and an operation of a run, is spent once, however many workers
\* race for it and whatever happens to their acknowledgements: the fence of a claim is
\* the slot behind the chain that was searched (claim of
\* openDurableDomainOperationGrantStore in src/durable-domain-stores.ts).
THEOREM GrantsAreSpentOnce == PartsSpec => []GrantSpentOnce
  <1>1. DomainInv => GrantSpentOnce
    BY DEF DomainInv, GrantSpentOnce
  <1> QED BY <1>1, DomainKept, PTL

\* One package at most is on the proposal, behind a claim of its grant, and whoever is
\* told that its package is in place, or that the ref did not move, is told what is so
\* (packageDraftPullRequest and reconcileRefAttempt of src/domain-git-packager.ts).
THEOREM PackagesAreTold == PartsSpec => []PackageTold
  <1>1. ASSUME DomainInv
        PROVE  PackageTold
    <2>1. Domain!TypeOK
      <3>1. Len(Domain!Closing) = 13
        BY DEF Domain!Closing
      <3>2. ASSUME NEW w \in Processes
            PROVE  /\ where[w] \notin Domain!Ended => run[w].id \in Runs
                   /\ run[w].step \in 0 .. Len(Domain!Closing)
        BY <1>1, <3>1 DEF DomainInv, DomainTyped, Worker, Held, RunRecords
      <3> QED BY <1>1, <3>2 DEF Domain!TypeOK, DomainInv, DomainTyped
    <2>2. Domain!PackageTold
      <3>1. ASSUME NEW w \in Processes
            PROVE  /\ where[w] \in {"packaged", "closing", "closed"} =>
                        /\ job[w].commit \in Domain!Range(proposal)
                        /\ job[w].claim \in Domain!Range(grants)
                   /\ where[w] = "stale" => ~ applied[w]
        BY <1>1 DEF DomainInv, Worker, Packaging, Spending
      <3> QED BY <1>1, <3>1 DEF Domain!PackageTold, DomainInv, ProposalClaimed
    <2> QED BY <2>1, <2>2 DEF PackageTold
  <1> QED BY <1>1, DomainKept, PTL

\* A run is closed on evidence of one proposal under one revision of its claims and
\* rights, although it lets go of both between any two of its steps
\* (runDomainPackDemonstration of src/domain-packs.ts).
THEOREM ClosuresAreUndisturbed == PartsSpec => []ClosureUndisturbed
  <1>1. ASSUME DomainInv
        PROVE  ClosureUndisturbed
    <2>1. ASSUME NEW w \in Processes, where[w] = "closed"
          PROVE  /\ [i \in 1 .. 6 |-> trail[w][i].what]
                        = <<"package", "comment", "wait", "approve", "merge", "close">>
                 /\ \A i \in 1 .. 6 : trail[w][i].revision = run[w].revision
                 /\ \A i \in 2 .. 5 : trail[w][i].head = job[w].commit
      <3>1. /\ \A i \in 1 .. 6 : trail[w][i].what = Trail[i]
            /\ \A i \in 1 .. 6 : trail[w][i].revision = run[w].revision
            /\ \A i \in 2 .. 5 : trail[w][i].head = job[w].commit
        BY <1>1, <2>1 DEF DomainInv, Worker, Closed
      <3>2. [i \in 1 .. 6 |-> trail[w][i].what] = [i \in 1 .. 6 |-> Trail[i]]
        BY <3>1
      <3>3. [i \in 1 .. 6 |-> Trail[i]]
                = <<"package", "comment", "wait", "approve", "merge", "close">>
        BY DEF Trail
      <3> QED BY <3>1, <3>2, <3>3
    <2> QED BY <2>1 DEF ClosureUndisturbed, Domain!ClosureUndisturbed
  <1> QED BY <1>1, DomainKept, PTL
=============================================================================
