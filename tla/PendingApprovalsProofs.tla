----------------------- MODULE PendingApprovalsProofs -----------------------
(***************************************************************************)
(* Proofs about PendingApprovals for any host ids, rounds and limits and   *)
(* any number of calls.                                                    *)
(*                                                                         *)
(* Inv is inductive: ApprovalInv, which ties the entries to the presenter  *)
(* threads and the channel, together with the two properties about the     *)
(* host's requests, which need each other.  One lemma per action.  The     *)
(* bounds and what the host gets to read rest on three more invariants,    *)
(* each inductive given Inv: RoomGood, ReadGood and RoundsGood.            *)
(***************************************************************************)
EXTENDS PendingApprovals, FiniteSetTheorems, TLAPS

Inv == ApprovalInv /\ OneAnswer /\ RequestsServed

\* What Inv says, in one place.
LEMMA Known ==
  ASSUME Inv
  PROVE  /\ TypeOK /\ PresentersTracked /\ EntriesGood /\ FreshIds
         /\ OneAnswer /\ RequestsServed
BY DEF Inv, ApprovalInv

\* None is neither an entry, a set of rounds nor a status.
LEMMA NoneApart ==
  /\ None \notin Entry /\ None \notin Status
  /\ \A settled \in SUBSET Round : settled # None
  /\ Limit \in Nat /\ MaxRounds \in Nat /\ MaxCalls \in Nat
BY ConstantsAssumption

\* A new entry is one.
LEMMA NewEntryTyped ==
  ASSUME NEW h \in HostId
  PROVE  NewEntry(h) \in Entry /\ NewEntry(h) # None
<1>1. NewEntry(h) \in Entry
  BY DEF NewEntry, Entry, Status
<1> QED
  BY <1>1, NoneApart

\* At the start there is no call at all.
LEMMA InitInv == Init => Inv
<1> SUFFICES ASSUME Init PROVE Inv
  OBVIOUS
<1>1. TypeOK
  BY NoneApart DEF Init, TypeOK, Op
<1>2. PresentersTracked /\ EntriesGood /\ FreshIds
  BY DEF Init, PresentersTracked, EntriesGood, EntryGood, FreshIds, Live, Op
<1>3. OneAnswer /\ RequestsServed
  BY DEF Init, OneAnswer, RequestsServed, Unanswered, Op
<1> QED
  BY <1>1, <1>2, <1>3 DEF Inv, ApprovalInv

\* Giving up a retirable entry, or none, disturbs nothing: the host's request
\* was answered, and no presenter is left.
LEMMA RoomIsSafe ==
  ASSUME Inv, NEW table \in Room
  PROVE  /\ table \in [Op -> {None} \cup Entry]
         /\ \A k \in Op : table[k] = entries[k] \/ (table[k] = None /\ k \in Retirable)
<1>1. CASE table = entries
  BY <1>1, Known DEF TypeOK
<1>2. CASE \E k \in Retirable : table = [entries EXCEPT ![k] = None]
  BY <1>2, Known DEF TypeOK, Retirable, Live
<1> QED
  BY <1>1, <1>2 DEF Room

\* The invariant holds of the table after giving up an entry.
LEMMA RoomKeeps ==
  ASSUME Inv, NEW table \in Room, entries' = table,
         UNCHANGED <<issued, workers, decided, open, host, resumes>>
  PROVE  Inv'
<1>1. /\ table \in [Op -> {None} \cup Entry]
      /\ \A k \in Op : table[k] = entries[k] \/ (table[k] = None /\ k \in Retirable)
  BY RoomIsSafe
<1>2. TypeOK'
  BY <1>1, Known DEF TypeOK, host
<1>3. PresentersTracked'
  BY <1>1, Known DEF TypeOK, PresentersTracked, Presenter, Live, Retirable
<1>4. EntriesGood' /\ FreshIds' /\ OneAnswer'
  BY <1>1, Known DEF TypeOK, EntriesGood, EntryGood, FreshIds, OneAnswer, Live, host
<1>5. RequestsServed'
  <2>1. Unanswered' = Unanswered /\ Unanswered \subseteq Op
    BY Known, NoneApart DEF Unanswered, host, TypeOK, Op
  <2>2. \A k \in Unanswered : k \notin Retirable
    BY Known DEF RequestsServed, Retirable, EntriesGood, EntryGood
  <2> QED
    BY <1>1, <2>1, <2>2, Known DEF RequestsServed, Live
<1> QED
  BY <1>2, <1>3, <1>4, <1>5 DEF Inv, ApprovalInv

\* A new call: its private id is new, and no request in flight has its host id.
LEMMA CallKeeps ==
  ASSUME Inv, NEW h \in HostId, Call(h)
  PROVE  Inv'
<1> DEFINE n == issued + 1
<1>1. PICK table \in Room :
        ~InFlight(table, h) /\ entries' = [table EXCEPT ![n] = NewEntry(h)]
  BY DEF Call
<1>2. /\ table \in [Op -> {None} \cup Entry]
      /\ \A k \in Op : table[k] = entries[k] \/ (table[k] = None /\ k \in Retirable)
  BY RoomIsSafe
<1>3. /\ issued \in Nat /\ n \in Op /\ issued' = n /\ n \in 0 .. MaxCalls
      /\ UNCHANGED <<workers, decided, open, answers, cancelled, told, resumes>>
  BY Known, NoneApart DEF Call, TypeOK, Op, host
<1>4. NewEntry(h) \in Entry /\ NewEntry(h) # None
  BY NewEntryTyped
<1>5. n \notin Live(entries) /\ entries[n] = None /\ answers[n] = 0 /\ n \notin cancelled
  BY <1>3, Known DEF EntriesGood, EntryGood, Live, FreshIds
<1>6. /\ entries'[n] = NewEntry(h)
      /\ \A k \in Op \ {n} : entries'[k] = table[k]
  BY <1>1, <1>2, <1>3
<1>7. TypeOK'
  BY <1>1, <1>2, <1>3, <1>4, Known DEF TypeOK
<1>8. PresentersTracked'
  <2>1. \A w \in workers \cup decided : w.op \in Op /\ w.op # n /\ table[w.op] = entries[w.op]
    BY <1>2, <1>5, Known DEF PresentersTracked, TypeOK, Presenter, Live, Retirable
  <2> QED
    BY <1>3, <1>6, <2>1, Known DEF PresentersTracked, Live
<1>9. EntriesGood'
  <2> SUFFICES ASSUME NEW k \in Live(entries)'
               PROVE  EntryGood(k, entries[k])'
    BY DEF EntriesGood, EntryGood
  <2>1. CASE k = n
    <3>1. {} # None
      BY NoneApart
    <3> QED
      BY <1>3, <1>5, <1>6, <2>1, <3>1 DEF NewEntry, EntryGood
  <2>2. CASE k # n
    <3>1. k \in Live(entries) /\ entries'[k] = entries[k] /\ k \in Op
      BY <1>2, <1>6, <2>2 DEF Live
    <3>2. EntryGood(k, entries[k])
      BY <3>1, Known DEF EntriesGood
    <3> QED
      BY <1>3, <3>1, <3>2 DEF EntryGood, Op
  <2> QED
    BY <2>1, <2>2
<1>10. FreshIds' /\ OneAnswer'
  BY <1>3, Known DEF FreshIds, OneAnswer, Op
<1>11. RequestsServed'
  <2>1. /\ Unanswered' \subseteq Unanswered \cup {n}
        /\ Unanswered \subseteq Op \ {n}
    BY <1>3, Known, NoneApart DEF Unanswered, Op, TypeOK
  <2>2. \A k \in Unanswered : k \in Live(entries) /\ ~entries[k].deferred /\ table[k] = entries[k]
    BY <1>2, <2>1, Known DEF RequestsServed, Retirable, EntriesGood, EntryGood
  <2>3. \A k \in Unanswered : entries[k].host # h
    BY <1>1, <2>2 DEF InFlight, Live
  <2>4. NewEntry(h).host = h /\ ~NewEntry(h).deferred
    BY DEF NewEntry
  <2> QED
    BY <1>3, <1>4, <1>6, <2>1, <2>2, <2>3, <2>4, Known DEF RequestsServed, Live
<1> QED
  BY <1>7, <1>8, <1>9, <1>10, <1>11 DEF Inv, ApprovalInv

\* A cancelled request had no answer and no presenter.
LEMMA CancelKeeps ==
  ASSUME Inv, NEW h \in HostId, Cancel(h)
  PROVE  Inv'
<1>1. PICK k \in Live(entries) :
        /\ ~entries[k].deferred /\ entries[k].host = h
        /\ entries' = [entries EXCEPT ![k] = None]
        /\ cancelled' = cancelled \cup {k}
  BY DEF Cancel
<1>2. UNCHANGED <<issued, workers, decided, open, answers, told, resumes>>
  BY DEF Cancel
<1>3. k \in Op /\ k <= issued /\ answers[k] = 0 /\ k \notin cancelled /\ ~entries[k].waiting
  BY <1>1, Known DEF EntriesGood, EntryGood, Live
<1>4. entries'[k] = None /\ \A j \in Op \ {k} : entries'[j] = entries[j]
  BY <1>1, <1>3, Known DEF TypeOK
<1>5. TypeOK'
  BY <1>1, <1>2, <1>3, Known DEF TypeOK
<1>6. PresentersTracked'
  <2>1. \A w \in workers \cup decided : w.op \in Op /\ w.op # k
    BY <1>1, Known DEF PresentersTracked, EntriesGood, EntryGood, TypeOK, Presenter
  <2> QED
    BY <1>2, <1>4, <2>1, Known DEF PresentersTracked, Live
<1>7. EntriesGood' /\ FreshIds' /\ OneAnswer'
  <2>1. EntriesGood'
    <3> SUFFICES ASSUME NEW j \in Live(entries)'
                 PROVE  EntryGood(j, entries[j])'
      BY DEF EntriesGood
    <3>1. j \in Live(entries) /\ j # k /\ entries'[j] = entries[j]
      BY <1>4 DEF Live
    <3>2. EntryGood(j, entries[j])
      BY <3>1, Known DEF EntriesGood
    <3> QED
      BY <1>1, <1>2, <3>1, <3>2 DEF EntryGood
  <2>2. FreshIds'
    BY <1>1, <1>2, <1>3, Known DEF FreshIds, TypeOK, Op
  <2>3. OneAnswer'
    BY <1>1, <1>2, <1>3, Known DEF OneAnswer
  <2> QED
    BY <2>1, <2>2, <2>3
<1>8. RequestsServed'
  <2>1. Unanswered' = Unanswered \ {k} /\ Unanswered \subseteq Op
    BY <1>1, <1>2, Known, NoneApart DEF Unanswered, TypeOK, Op
  <2> QED
    BY <1>4, <2>1, Known DEF RequestsServed, Live
<1> QED
  BY <1>5, <1>6, <1>7, <1>8 DEF Inv, ApprovalInv

\* A step that changes one entry for another, and of the threads, the channel
\* and the host's view nothing but its answer: what is to be shown of it.
LEMMA EntryChanges ==
  ASSUME Inv,
         NEW k \in Live(entries), NEW e \in Entry,
         entries' = [entries EXCEPT ![k] = e],
         e.host = entries[k].host, e.worker = entries[k].worker,
         EntryGood(k, e)',
         UNCHANGED <<issued, workers, decided, open, cancelled, resumes>>,
         told' \in [Op -> {None} \cup Status],
         \/ answers' = answers /\ e.deferred = entries[k].deferred
         \/ answers' = [answers EXCEPT ![k] = @ + 1] /\ ~entries[k].deferred /\ e.deferred
  PROVE  Inv'
<1>1. k \in Op /\ EntryGood(k, entries[k]) /\ e # None /\ entries[k] \in Entry
  BY NoneApart, Known DEF Live, EntriesGood, TypeOK
<1>2. entries'[k] = e /\ \A j \in Op \ {k} : entries'[j] = entries[j] /\ answers'[j] = answers[j]
  BY <1>1, Known DEF TypeOK
<1>3. TypeOK'
  BY <1>1, Known DEF TypeOK
<1>4. Live(entries)' = Live(entries)
  BY <1>1, <1>2 DEF Live
<1>5. PresentersTracked'
  BY <1>1, <1>2, <1>4, Known DEF PresentersTracked, Live
<1>6. EntriesGood'
  <2> SUFFICES ASSUME NEW j \in Live(entries)'
               PROVE  EntryGood(j, entries[j])'
    BY DEF EntriesGood
  <2>1. CASE j = k
    BY <1>2, <2>1
  <2>2. CASE j # k
    <3>1. EntryGood(j, entries[j]) /\ j \in Op
      BY <1>4, Known DEF EntriesGood, Live
    <3> QED
      BY <1>2, <2>2, <3>1 DEF EntryGood
  <2> QED
    BY <2>1, <2>2
<1>7. FreshIds' /\ OneAnswer'
  <2>1. ~entries[k].deferred => answers[k] = 0 /\ k \notin cancelled
    BY <1>1 DEF EntryGood
  <2>2. answers' \in [Op -> Nat] /\ issued \in Nat /\ k <= issued
    BY <1>1, <1>3, Known DEF TypeOK, EntryGood
  <2>3. FreshIds'
    BY <1>2, <2>2, Known DEF FreshIds, Op
  <2>4. OneAnswer'
    BY <1>1, <1>2, <2>1, Known DEF OneAnswer, TypeOK
  <2> QED
    BY <2>3, <2>4
<1>8. RequestsServed'
  <2>1. 1 .. issued \subseteq Op /\ Unanswered \subseteq Op
    BY Known, NoneApart DEF Unanswered, TypeOK, Op
  <2>2. CASE answers' = answers
    <3>1. Unanswered' = Unanswered
      BY <2>2 DEF Unanswered
    <3>2. ASSUME NEW j \in Unanswered'
          PROVE  /\ j \in Live(entries)' /\ ~entries'[j].deferred
                 /\ entries'[j].host = entries[j].host
      <4>1. j \in Unanswered /\ j \in Op /\ j \in Live(entries) /\ ~entries[j].deferred
        BY <2>1, <3>1, Known DEF RequestsServed
      <4>2. CASE j = k
        <5>1. answers[k] = 0
          BY <4>1, <4>2 DEF Unanswered
        <5> QED
          BY <1>1, <1>2, <1>4, <2>2, <4>1, <4>2, <5>1, Known DEF TypeOK
      <4> QED
        BY <1>2, <1>4, <4>1, <4>2
    <3>3. ASSUME NEW i \in Unanswered', NEW j \in Unanswered',
                 entries'[i].host = entries'[j].host
          PROVE  i = j
      <4>1. i \in Unanswered /\ j \in Unanswered /\ entries[i].host = entries[j].host
        BY <3>1, <3>2, <3>3
      <4> QED
        BY <4>1, Known DEF RequestsServed
    <3> QED
      BY <3>2, <3>3 DEF RequestsServed
  <2>3. CASE ~entries[k].deferred /\ answers' = [answers EXCEPT ![k] = @ + 1]
    <3>1. answers'[k] # 0
      BY <1>1, <2>3, Known DEF TypeOK, EntryGood
    <3>2. Unanswered' \subseteq Unanswered \ {k}
      BY <1>2, <2>1, <3>1 DEF Unanswered
    <3> QED
      BY <1>2, <1>4, <2>1, <3>2, Known DEF RequestsServed
  <2> QED
    BY <2>2, <2>3
<1> QED
  BY <1>3, <1>5, <1>6, <1>7, <1>8 DEF Inv, ApprovalInv

\* The same for an entry that is removed with its request answered.
LEMMA EntryAnsweredGoes ==
  ASSUME Inv,
         NEW k \in Live(entries), ~entries[k].deferred,
         entries' = [entries EXCEPT ![k] = None],
         UNCHANGED <<issued, workers, decided, open, cancelled, resumes>>,
         told' \in [Op -> {None} \cup Status],
         answers' = [answers EXCEPT ![k] = @ + 1]
  PROVE  Inv'
<1>1. k \in Op /\ EntryGood(k, entries[k])
  BY Known DEF Live, EntriesGood
<1>2. /\ entries'[k] = None
      /\ \A j \in Op \ {k} : entries'[j] = entries[j] /\ answers'[j] = answers[j]
      /\ answers[k] = 0 /\ answers'[k] = 1 /\ k \notin cancelled /\ ~entries[k].worker
  BY <1>1, Known DEF TypeOK, EntryGood
<1>3. TypeOK'
  BY <1>1, Known DEF TypeOK
<1>4. Live(entries)' = Live(entries) \ {k}
  BY <1>1, <1>2 DEF Live
<1>5. PresentersTracked'
  BY <1>1, <1>2, <1>4, Known DEF PresentersTracked, Live
<1>6. EntriesGood'
  <2> SUFFICES ASSUME NEW j \in Live(entries)'
               PROVE  EntryGood(j, entries[j])'
    BY DEF EntriesGood
  <2>1. EntryGood(j, entries[j]) /\ j \in Op \ {k}
    BY <1>4, Known DEF EntriesGood, Live
  <2> QED
    BY <1>2, <2>1 DEF EntryGood
<1>7. FreshIds' /\ OneAnswer'
  <2>1. issued \in Nat /\ k <= issued /\ k \in Nat
    BY <1>1, Known DEF TypeOK, EntryGood, Op
  <2>2. FreshIds'
    BY <1>2, <2>1, Known DEF FreshIds, Op
  <2>3. OneAnswer'
    BY <1>2, Known DEF OneAnswer
  <2> QED
    BY <2>2, <2>3
<1>8. RequestsServed'
  <2>1. 1 .. issued \subseteq Op /\ Unanswered \subseteq Op
    BY Known, NoneApart DEF Unanswered, TypeOK, Op
  <2>2. Unanswered' \subseteq Unanswered \ {k}
    BY <1>2, <2>1 DEF Unanswered, Op
  <2>3. \A j \in Unanswered' : j \in Live(entries)' /\ ~entries'[j].deferred /\ entries'[j] = entries[j]
    BY <1>2, <1>4, <2>1, <2>2, Known DEF RequestsServed
  <2> QED
    BY <2>2, <2>3, Known DEF RequestsServed
<1> QED
  BY <1>3, <1>5, <1>6, <1>7, <1>8 DEF Inv, ApprovalInv

\* What an action on a live entry may start from.
LEMMA LiveEntry ==
  ASSUME Inv, NEW k \in Live(entries)
  PROVE  k \in Op /\ entries[k] \in Entry /\ entries[k] # None /\ EntryGood(k, entries[k])
BY Known DEF Live, EntriesGood, TypeOK

\* Reading the status only marks the entry as read.
LEMMA AskStatusKeeps ==
  ASSUME Inv, NEW k \in Op, AskStatus(k)
  PROVE  Inv'
<1>1. k \in Live(entries) /\ entries[k].deferred
  BY DEF AskStatus
<1>2. entries[k] \in Entry /\ EntryGood(k, entries[k])
  BY <1>1, LiveEntry
<1>e. PICK e \in Entry : e = [entries[k] EXCEPT !.observed = TRUE]
  BY <1>2 DEF Entry, Status
<1>3. /\ e.host = entries[k].host /\ e.worker = entries[k].worker
      /\ e.waiting = entries[k].waiting /\ e.state = entries[k].state
      /\ e.context = entries[k].context /\ e.deferred = entries[k].deferred
  BY <1>e, <1>2 DEF Entry
<1>4. /\ entries' = [entries EXCEPT ![k] = e]
      /\ UNCHANGED <<issued, workers, decided, open, answers, cancelled, resumes>>
      /\ told' = [told EXCEPT ![k] = entries[k].state]
  BY <1>e DEF AskStatus
<1>5. EntryGood(k, e)'
  BY <1>e, <1>1, <1>2, <1>3, <1>4 DEF EntryGood
<1>6. told' \in [Op -> {None} \cup Status]
  BY <1>e, <1>2, <1>4, Known DEF TypeOK, Entry
<1> QED
  BY <1>e, <1>1, <1>3, <1>4, <1>5, <1>6, EntryChanges

\* The deadline passes for an entry that waits.
LEMMA ElapseKeeps ==
  ASSUME Inv, NEW k \in Op, Elapse(k)
  PROVE  Inv'
<1>1. k \in Live(entries)
  BY DEF Elapse
<1>2. entries[k] \in Entry /\ EntryGood(k, entries[k])
  BY <1>1, LiveEntry
<1>e. PICK e \in Entry : e = [entries[k] EXCEPT !.late = TRUE]
  BY <1>2 DEF Entry, Status
<1>3. /\ e.host = entries[k].host /\ e.worker = entries[k].worker
      /\ e.waiting = entries[k].waiting /\ e.state = entries[k].state
      /\ e.context = entries[k].context /\ e.deferred = entries[k].deferred
      /\ e.observed = entries[k].observed
  BY <1>e, <1>2 DEF Entry
<1>4. /\ entries' = [entries EXCEPT ![k] = e]
      /\ UNCHANGED <<issued, workers, decided, open, answers, cancelled, told, resumes>>
  BY <1>e DEF Elapse, host
<1>5. EntryGood(k, e)'
  BY <1>e, <1>2, <1>3, <1>4 DEF EntryGood
<1>6. told' \in [Op -> {None} \cup Status]
  BY <1>e, <1>4, Known DEF TypeOK
<1> QED
  BY <1>e, <1>1, <1>3, <1>4, <1>5, <1>6, EntryChanges

\* An entry a message of the runtime may reach has no presenter.
LEMMA ListeningRuns ==
  ASSUME Inv, NEW k \in Op, Listening(k)
  PROVE  /\ k \in Live(entries) /\ entries[k] \in Entry /\ EntryGood(k, entries[k])
         /\ entries[k].state = "running" /\ ~entries[k].worker
         /\ \A w \in workers \cup decided : w.op # k
<1>1. k \in Live(entries) /\ ~entries[k].waiting /\ entries[k].state \notin Final
  BY DEF Listening
<1>2. entries[k] \in Entry /\ EntryGood(k, entries[k])
  BY <1>1, LiveEntry
<1>3. entries[k].state = "running"
  BY <1>1, <1>2 DEF Entry, Status, Final, EntryGood
<1>4. ~entries[k].worker
  BY <1>2, <1>3 DEF EntryGood
<1> QED
  BY <1>1, <1>2, <1>3, <1>4, Known DEF PresentersTracked

\* The presenter could not be started: the approval is unavailable.
LEMMA PresentFailsKeeps ==
  ASSUME Inv, NEW k \in Op, NEW r \in Round, PresentFails(k, r)
  PROVE  Inv'
<1>1. /\ k \in Live(entries) /\ entries[k] \in Entry /\ EntryGood(k, entries[k])
      /\ entries[k].state = "running" /\ ~entries[k].worker
  BY ListeningRuns DEF PresentFails
<1>e. PICK e \in Entry : e = [entries[k] EXCEPT !.context = None, !.state = "unavailable", !.late = FALSE, !.deferred = TRUE]
  BY <1>1 DEF Entry, Status
<1>2. /\ e.host = entries[k].host /\ e.worker = entries[k].worker
      /\ e.waiting = entries[k].waiting /\ e.state = "unavailable" /\ e.deferred
  BY <1>e, <1>1 DEF Entry, Status
<1>3. /\ entries' = [entries EXCEPT ![k] = e]
      /\ Answer(k, "unavailable")
      /\ UNCHANGED <<issued, workers, decided, open, cancelled, resumes>>
  BY <1>e DEF PresentFails
<1>4. /\ told' \in [Op -> {None} \cup Status]
      /\ \/ answers' = answers /\ entries[k].deferred
         \/ answers' = [answers EXCEPT ![k] = @ + 1] /\ ~entries[k].deferred
      /\ answers'[k] = 1
  BY <1>e, <1>1, <1>3, Known DEF Answer, TypeOK, Status, EntryGood
<1>5. EntryGood(k, e)'
  BY <1>e, <1>1, <1>2, <1>3, <1>4 DEF EntryGood
<1>6. \/ answers' = answers /\ e.deferred = entries[k].deferred
      \/ answers' = [answers EXCEPT ![k] = @ + 1] /\ ~entries[k].deferred /\ e.deferred
  BY <1>e, <1>1, <1>2, <1>4 DEF Entry
<1> QED
  BY <1>e, <1>1, <1>2, <1>3, <1>4, <1>5, <1>6, EntryChanges

\* A round that cannot be presented: the request is answered, or the approval
\* unavailable.
LEMMA RejectRoundKeeps ==
  ASSUME Inv, NEW k \in Op, RejectRound(k)
  PROVE  Inv'
<1>1. /\ k \in Live(entries) /\ entries[k] \in Entry /\ EntryGood(k, entries[k])
      /\ entries[k].state = "running" /\ ~entries[k].worker
  BY ListeningRuns DEF RejectRound
<1>2. Answer(k, None) /\ UNCHANGED <<issued, workers, decided, open, cancelled, resumes>>
  BY DEF RejectRound
<1>3. told' \in [Op -> {None} \cup Status]
  BY <1>2, Known DEF Answer, TypeOK
<1>4. CASE entries[k].deferred
  <2>e. PICK e \in Entry : e = [entries[k] EXCEPT !.state = "unavailable"]
    BY <1>1 DEF Entry, Status
  <2>1. /\ e.host = entries[k].host /\ e.worker = entries[k].worker
        /\ e.waiting = entries[k].waiting /\ e.state = "unavailable"
        /\ e.deferred = entries[k].deferred
    BY <2>e, <1>1 DEF Entry, Status
  <2>2. entries' = [entries EXCEPT ![k] = e] /\ answers' = answers
    BY <2>e, <1>2, <1>4 DEF RejectRound, Answer
  <2>3. EntryGood(k, e)'
    BY <2>e, <1>1, <1>2, <1>4, <2>1, <2>2 DEF EntryGood
  <2> QED
    BY <2>e, <1>1, <1>2, <1>3, <2>1, <2>2, <2>3, EntryChanges
<1>5. CASE ~entries[k].deferred
  <2>1. entries' = [entries EXCEPT ![k] = None] /\ answers' = [answers EXCEPT ![k] = @ + 1]
    BY <1>2, <1>5 DEF RejectRound, Answer
  <2> QED
    BY <1>1, <1>2, <1>3, <1>5, <2>1, EntryAnsweredGoes
<1> QED
  BY <1>4, <1>5

\* The result of a call: the request is answered, or the result kept.
LEMMA CompleteKeeps ==
  ASSUME Inv, NEW k \in Op, Complete(k)
  PROVE  Inv'
<1>1. /\ k \in Live(entries) /\ entries[k] \in Entry /\ EntryGood(k, entries[k])
      /\ entries[k].state = "running" /\ ~entries[k].worker
  BY ListeningRuns DEF Complete
<1>2. Answer(k, None) /\ UNCHANGED <<issued, workers, decided, open, cancelled, resumes>>
  BY DEF Complete
<1>3. told' \in [Op -> {None} \cup Status]
  BY <1>2, Known DEF Answer, TypeOK
<1>4. CASE entries[k].deferred
  <2>e. PICK e \in Entry : e = [entries[k] EXCEPT !.state = "completed", !.observed = FALSE, !.context = None]
    BY <1>1 DEF Entry, Status
  <2>1. /\ e.host = entries[k].host /\ e.worker = entries[k].worker
        /\ e.waiting = entries[k].waiting /\ e.state = "completed"
        /\ e.deferred = entries[k].deferred
    BY <2>e, <1>1 DEF Entry, Status
  <2>2. entries' = [entries EXCEPT ![k] = e] /\ answers' = answers
    BY <2>e, <1>2, <1>4 DEF Complete, Answer
  <2>3. EntryGood(k, e)'
    BY <2>e, <1>1, <1>2, <1>4, <2>1, <2>2 DEF EntryGood
  <2> QED
    BY <2>e, <1>1, <1>2, <1>3, <2>1, <2>2, <2>3, EntryChanges
<1>5. CASE ~entries[k].deferred
  <2>1. entries' = [entries EXCEPT ![k] = None] /\ answers' = [answers EXCEPT ![k] = @ + 1]
    BY <1>2, <1>5 DEF Complete, Answer
  <2> QED
    BY <1>1, <1>2, <1>3, <1>5, <2>1, EntryAnsweredGoes
<1> QED
  BY <1>4, <1>5

\* A round is presented: the entry gets the one presenter it has.
LEMMA PresentKeeps ==
  ASSUME Inv, NEW k \in Op, NEW r \in Round, Present(k, r)
  PROVE  Inv'
<1>1. /\ k \in Live(entries) /\ entries[k] \in Entry /\ EntryGood(k, entries[k])
      /\ entries[k].state = "running" /\ ~entries[k].worker
      /\ \A w \in workers \cup decided : w.op # k
  BY ListeningRuns DEF Present
<1>e. PICK e \in Entry : e = [entries[k] EXCEPT !.context = None, !.waiting = TRUE,
                               !.worker = TRUE, !.late = FALSE,
                               !.state = "awaiting_approval", !.deferred = TRUE]
  BY <1>1 DEF Entry, Status
<1>2. /\ e.host = entries[k].host /\ e.worker /\ e.waiting /\ e.deferred
      /\ e.state = "awaiting_approval" /\ e # None
  BY <1>1, <1>e, NoneApart DEF Entry
<1>p. PICK p \in Presenter : p = [op |-> k, round |-> r, context |-> entries[k].context]
  BY <1>1 DEF Presenter, Entry, Present, Presentable
<1>3. /\ entries' = [entries EXCEPT ![k] = e]
      /\ workers' = workers \cup {p}
      /\ Answer(k, "awaiting_approval")
      /\ UNCHANGED <<issued, decided, open, cancelled, resumes>>
  BY <1>e, <1>p DEF Present
<1>4. /\ told' \in [Op -> {None} \cup Status]
      /\ answers' \in [Op -> Nat]
      /\ \A j \in Op \ {k} : answers'[j] = answers[j]
      /\ answers'[k] = 1
  BY <1>1, <1>3, Known DEF Answer, TypeOK, Status, EntryGood
<1>5. entries'[k] = e /\ \A j \in Op \ {k} : entries'[j] = entries[j]
  BY <1>3, Known DEF TypeOK
<1>6. TypeOK'
  BY <1>3, <1>4, Known DEF TypeOK
<1>7. Live(entries)' = Live(entries)
  BY <1>1, <1>2, <1>5 DEF Live
<1>8. PresentersTracked'
  <2>1. p.op = k
    BY <1>p
  <2>2. \A w \in workers \cup decided : w.op \in Op \ {k}
    BY <1>1, Known DEF TypeOK, Presenter
  <2> QED
    BY <1>1, <1>2, <1>3, <1>5, <1>7, <2>1, <2>2, Known DEF PresentersTracked
<1>9. EntriesGood'
  <2> SUFFICES ASSUME NEW j \in Live(entries)'
               PROVE  EntryGood(j, entries[j])'
    BY DEF EntriesGood
  <2>1. CASE j = k
    BY <1>1, <1>2, <1>3, <1>4, <1>5, <1>p, <2>1 DEF EntryGood
  <2>2. CASE j # k
    <3>1. EntryGood(j, entries[j]) /\ j \in Op
      BY <1>7, Known DEF EntriesGood, Live
    <3> QED
      BY <1>3, <1>4, <1>5, <2>2, <3>1 DEF EntryGood
  <2> QED
    BY <2>1, <2>2
<1>10. FreshIds' /\ OneAnswer'
  <2>1. k <= issued /\ k \notin cancelled /\ issued \in Nat
    BY <1>1, Known DEF EntryGood, TypeOK
  <2>2. FreshIds'
    BY <1>3, <1>4, <2>1, Known DEF FreshIds, Op
  <2>3. OneAnswer'
    BY <1>3, <1>4, <2>1, Known DEF OneAnswer
  <2> QED
    BY <2>2, <2>3
<1>11. RequestsServed'
  <2>1. 1 .. issued \subseteq Op /\ Unanswered \subseteq Op
    BY Known, NoneApart DEF Unanswered, TypeOK, Op
  <2>2. Unanswered' \subseteq Unanswered \ {k}
    BY <1>3, <1>4, <2>1 DEF Unanswered
  <2>3. \A j \in Unanswered' : j \in Live(entries)' /\ ~entries'[j].deferred /\ entries'[j] = entries[j]
    BY <1>5, <1>7, <2>1, <2>2, Known DEF RequestsServed
  <2> QED
    BY <2>2, <2>3, Known DEF RequestsServed
<1> QED
  BY <1>6, <1>8, <1>9, <1>10, <1>11 DEF Inv, ApprovalInv

\* A decision takes its presenter's place.
LEMMA DecideKeeps ==
  ASSUME Inv, NEW w \in Presenter, Decide(w)
  PROVE  Inv'
<1>d. PICK d \in Presenter : d = [w EXCEPT !.context = @ \cup {w.round}]
  BY DEF Presenter
<1>1. /\ w \in workers
      /\ workers' = workers \ {w} /\ decided' = decided \cup {d}
      /\ UNCHANGED <<entries, issued, open, answers, cancelled, told, resumes>>
  BY <1>d DEF Decide, host
<1>2. d.op = w.op
  BY <1>d DEF Presenter
<1>3. \A v \in workers \cup decided : v.op = w.op => v = w
  BY <1>1, Known DEF PresentersTracked
<1>4. w \notin decided
  BY <1>1, Known DEF PresentersTracked
<1>5. \A v \in (workers \ {w}) \cup decided : v.op # w.op
  BY <1>3, <1>4
<1>6. TypeOK'
  BY <1>1, Known DEF TypeOK
<1>7. PresentersTracked'
  <2> SUFFICES ASSUME NEW v \in (workers \ {w}) \cup decided \cup {d}
               PROVE  /\ v.op \in Live(entries) /\ entries[v.op].worker
                      /\ \A u \in (workers \ {w}) \cup decided \cup {d} : u.op = v.op => u = v
                      /\ ~(v \in workers \ {w} /\ v \in decided \cup {d})
    BY <1>1 DEF PresentersTracked, Live
  <2>1. CASE v = d
    <3>1. v.op \in Live(entries) /\ entries[v.op].worker
      BY <1>1, <1>2, <2>1, Known DEF PresentersTracked
    <3> QED
      BY <1>2, <1>5, <2>1, <3>1
  <2>2. CASE v \in (workers \ {w}) \cup decided
    BY <1>2, <1>5, <2>2, Known DEF PresentersTracked
  <2> QED
    BY <2>1, <2>2
<1>8. EntriesGood'
  <2> SUFFICES ASSUME NEW j \in Live(entries)'
               PROVE  EntryGood(j, entries[j])'
    BY DEF EntriesGood
  <2>1. j \in Live(entries) /\ EntryGood(j, entries[j])
    BY <1>1, Known DEF EntriesGood, Live
  <2>2. (\E v \in workers \cup decided : v.op = j) => \E v \in workers' \cup decided' : v.op = j
    BY <1>1, <1>2
  <2> QED
    BY <1>1, <2>1, <2>2 DEF EntryGood
<1>9. FreshIds' /\ OneAnswer' /\ RequestsServed'
  BY <1>1, Known DEF FreshIds, OneAnswer, RequestsServed, Unanswered, Live
<1> QED
  BY <1>6, <1>7, <1>8, <1>9 DEF Inv, ApprovalInv

\* What expiry does to an entry.
LEMMA ExpiredEntry ==
  ASSUME NEW e \in Entry
  PROVE  /\ Expired(e) \in Entry
         /\ Expired(e).host = e.host /\ Expired(e).deferred = e.deferred
         /\ Expired(e).worker = e.worker
         /\ ~(e.waiting /\ e.late) => Expired(e) = e
         /\ e.waiting /\ e.late =>
              ~Expired(e).waiting /\ Expired(e).state = "expired" /\ ~Expired(e).observed
<1>1. CASE e.waiting /\ e.late
  BY <1>1 DEF Expired, Entry, Status
<1>2. CASE ~(e.waiting /\ e.late)
  BY <1>2 DEF Expired
<1> QED
  BY <1>1, <1>2

\* What a decision does to an entry.
LEMMA DecidedEntry ==
  ASSUME NEW e \in Entry, NEW d \in Presenter
  PROVE  /\ Decided(e, d) \in Entry
         /\ Decided(e, d).host = e.host /\ Decided(e, d).deferred = e.deferred
         /\ Decided(e, d).observed = e.observed
         /\ ~Decided(e, d).worker
         /\ Resumable(e) => /\ ~Decided(e, d).waiting /\ Decided(e, d).state = "running"
                            /\ Decided(e, d).context # None
         /\ ~Resumable(e) => /\ Decided(e, d).waiting = e.waiting
                             /\ Decided(e, d).state = e.state
                             /\ Decided(e, d).context = e.context
<1>1. d.context \in SUBSET Round /\ d.context # None
  BY NoneApart DEF Presenter
<1>2. CASE Resumable(e)
  BY <1>1, <1>2 DEF Decided, Entry, Status
<1>3. CASE ~Resumable(e)
  BY <1>3 DEF Decided, Entry
<1> QED
  BY <1>2, <1>3

\* A tick leaves an entry with a decision without a presenter, and one without
\* a decision as it is or expired.
LEMMA TickEntry ==
  ASSUME Inv, Tick, NEW k \in Live(entries), NEW f, f = entries'[k]
  PROVE  /\ f \in Entry /\ f.host = entries[k].host /\ f.deferred = entries[k].deferred
         /\ f.worker <=> \E w \in workers : w.op = k
         /\ f.waiting <=> f.state = "awaiting_approval"
         /\ f.waiting => f.worker
         /\ f.state = "running" => ~f.worker /\ f.context # None
         /\ ~f.deferred => f.state = "running" /\ ~f.observed
<1>1. k \in Op /\ entries[k] \in Entry /\ entries[k] # None /\ EntryGood(k, entries[k])
  BY LiveEntry
<1>e. PICK e \in Entry : e = Expired(entries[k])
  BY <1>1, ExpiredEntry
<1>2. /\ e.host = entries[k].host /\ e.deferred = entries[k].deferred
      /\ e.worker = entries[k].worker
      /\ e.waiting <=> e.state = "awaiting_approval"
      /\ e.waiting => e.worker /\ ~e.late
      /\ e.state = "running" => ~e.worker /\ e.context # None
      /\ ~e.deferred => e.state = "running" /\ ~e.observed
  <2>1. CASE entries[k].waiting /\ entries[k].late
    BY <1>1, <1>e, <2>1, ExpiredEntry DEF EntryGood
  <2>2. CASE ~(entries[k].waiting /\ entries[k].late)
    BY <1>1, <1>e, <2>2, ExpiredEntry DEF EntryGood
  <2> QED
    BY <2>1, <2>2
<1>3. CASE \E d \in decided : d.op = k
  <2>1. DecisionFor(k) \in decided /\ DecisionFor(k).op = k
    BY <1>3 DEF DecisionFor
  <2>d. PICK d \in Presenter : d = DecisionFor(k)
    BY <2>1, Known DEF TypeOK
  <2>2. \A w \in workers : w.op # k
    BY <1>3, Known DEF PresentersTracked
  <2>3. f = Decided(e, d)
    BY <1>1, <1>e, <1>3, <2>d DEF Tick
  <2> QED
    BY <1>1, <1>2, <2>2, <2>3, DecidedEntry DEF Resumable
<1>4. CASE ~\E d \in decided : d.op = k
  <2>1. f = e
    BY <1>1, <1>e, <1>4 DEF Tick
  <2>2. e.worker <=> \E w \in workers : w.op = k
    BY <1>1, <1>2, <1>4, Known DEF EntryGood, PresentersTracked
  <2> QED
    BY <1>1, <1>2, <2>1, <2>2
<1> QED
  BY <1>3, <1>4

\* Expiry and every decision in the channel, in one step.
LEMMA TickKeeps ==
  ASSUME Inv, Tick
  PROVE  Inv'
<1>1. /\ decided' = {}
      /\ UNCHANGED <<issued, workers, open, answers, cancelled, told>>
  BY DEF Tick, host
<1>2. \A k \in Op : entries[k] = None => entries'[k] = None
  BY DEF Tick
<1>3. \A k \in Live(entries) :
        /\ entries'[k] \in Entry /\ entries'[k].host = entries[k].host
        /\ entries'[k].deferred = entries[k].deferred
        /\ entries'[k].worker <=> \E w \in workers : w.op = k
        /\ entries'[k].waiting <=> entries'[k].state = "awaiting_approval"
        /\ entries'[k].waiting => entries'[k].worker
        /\ entries'[k].state = "running" => ~entries'[k].worker /\ entries'[k].context # None
        /\ ~entries'[k].deferred => entries'[k].state = "running" /\ ~entries'[k].observed
  BY TickEntry
<1>4. Live(entries)' = Live(entries)
  BY <1>2, <1>3, NoneApart DEF Live
<1>5. TypeOK'
  <2>1. entries' \in [Op -> {None} \cup Entry]
    <3>1. \A k \in Op : entries'[k] \in {None} \cup Entry
      BY <1>2, <1>3 DEF Live
    <3>2. entries' = [k \in Op |-> entries'[k]]
      BY DEF Tick
    <3> QED
      BY <3>1, <3>2
  <2>2. resumes' \in [Op -> [Round -> Nat]]
    BY Known DEF TypeOK, Tick
  <2> QED
    BY <1>1, <2>1, <2>2, Known DEF TypeOK
<1>6. PresentersTracked'
  BY <1>1, <1>3, <1>4, Known DEF PresentersTracked
<1>7. EntriesGood'
  <2> SUFFICES ASSUME NEW k \in Live(entries)'
               PROVE  EntryGood(k, entries[k])'
    BY DEF EntriesGood
  <2>1. k \in Live(entries) /\ EntryGood(k, entries[k])
    BY <1>4, LiveEntry
  <2> QED
    BY <1>1, <1>3, <2>1 DEF EntryGood
<1>8. FreshIds' /\ OneAnswer'
  BY <1>1, Known DEF FreshIds, OneAnswer
<1>9. RequestsServed'
  <2>1. Unanswered' = Unanswered
    BY <1>1 DEF Unanswered
  <2> QED
    BY <1>3, <1>4, <2>1, Known DEF RequestsServed
<1> QED
  BY <1>5, <1>6, <1>7, <1>8, <1>9 DEF Inv, ApprovalInv

\* Every step keeps the invariant.
LEMMA StepKeeps == Inv /\ [Next]_vars => Inv'
<1> SUFFICES ASSUME Inv, [Next]_vars PROVE Inv'
  OBVIOUS
<1>1. ASSUME NEW h \in HostId, Call(h) PROVE Inv'
  BY <1>1, CallKeeps
<1>2. ASSUME NEW h \in HostId, Cancel(h) PROVE Inv'
  BY <1>2, CancelKeeps
<1>3. CASE CallRefused
  <2>1. PICK table \in Room : table = entries'
    BY <1>3 DEF CallRefused
  <2> QED
    BY <1>3, <2>1, RoomKeeps DEF CallRefused
<1>4. CASE CloseUpstream
  <2>1. open' \in BOOLEAN
    BY <1>4 DEF CloseUpstream
  <2> QED
    BY <1>4, <2>1, Known
    DEF CloseUpstream, host, Inv, ApprovalInv, TypeOK, PresentersTracked, EntriesGood,
        EntryGood, FreshIds, OneAnswer, RequestsServed, Unanswered, Live
<1>5. ASSUME NEW k \in Op, AskStatus(k) PROVE Inv'
  BY <1>5, AskStatusKeeps
<1>6. ASSUME NEW k \in Op, RejectRound(k) PROVE Inv'
  BY <1>6, RejectRoundKeeps
<1>7. ASSUME NEW k \in Op, Complete(k) PROVE Inv'
  BY <1>7, CompleteKeeps
<1>8. ASSUME NEW k \in Op, Elapse(k) PROVE Inv'
  BY <1>8, ElapseKeeps
<1>9. ASSUME NEW k \in Op, NEW r \in Round, Present(k, r) PROVE Inv'
  BY <1>9, PresentKeeps
<1>10. ASSUME NEW k \in Op, NEW r \in Round, PresentFails(k, r) PROVE Inv'
  BY <1>10, PresentFailsKeeps
<1>11. ASSUME NEW w \in Presenter, Decide(w) PROVE Inv'
  BY <1>11, DecideKeeps
<1>12. CASE Tick
  BY <1>12, TickKeeps
<1>13. CASE UNCHANGED vars
  BY <1>13
  DEF vars, host, Inv, ApprovalInv, TypeOK, PresentersTracked, EntriesGood,
      EntryGood, FreshIds, OneAnswer, RequestsServed, Unanswered, Live
<1> QED
  BY <1>1, <1>2, <1>3, <1>4, <1>5, <1>6, <1>7, <1>8, <1>9, <1>10, <1>11, <1>12, <1>13 DEF Next

\* The invariant, of every behaviour of the bridge.
LEMMA Invariance == Spec => []Inv
<1>1. Inv /\ [Next]_vars => Inv'
  BY StepKeeps
<1> QED
  BY <1>1, InitInv, PTL DEF Spec

\* The table of the bridge (Entry, decisions) stays in step with its threads,
\* its channel and the host, for any number of calls and rounds.
THEOREM TableInStep == Spec => []ApprovalInv
<1>1. Inv => ApprovalInv
  BY DEF Inv
<1> QED
  BY <1>1, Invariance, PTL

\* upstream and downstream answer a request of the host once at most, and never
\* after it cancelled it.
THEOREM AnswersOnce == Spec => []OneAnswer
<1>1. Inv => OneAnswer
  BY DEF Inv
<1> QED
  BY <1>1, Invariance, PTL

\* Every request the host waits for keeps its entry, and its id to itself: the
\* eviction of upstream never takes one away.
THEOREM RequestsKeepEntries == Spec => []RequestsServed
<1>1. Inv => RequestsServed
  BY DEF Inv
<1> QED
  BY <1>1, Invariance, PTL

\* A terminal status is the last one, and nothing is resumed after it: not by a
\* late decision, nor by a late message of the runtime.
THEOREM FinalIsFinal == Spec => FinalStays
<1> DEFINE Stays == \A k \in Live(entries) : entries[k].state \in Final =>
                      /\ resumes'[k] = resumes[k]
                      /\ entries'[k] = None \/ entries'[k].state = entries[k].state
<1>1. ASSUME Inv, [Next]_vars PROVE Stays
  <2> SUFFICES ASSUME NEW k \in Live(entries), entries[k].state \in Final
               PROVE  /\ resumes'[k] = resumes[k]
                      /\ entries'[k] = None \/ entries'[k].state = entries[k].state
    OBVIOUS
  <2>1. k \in Op /\ entries[k] \in Entry /\ EntryGood(k, entries[k]) /\ ~entries[k].waiting
    BY <1>1, LiveEntry DEF EntryGood, Final
  <2>2. ASSUME NEW j \in Op, Listening(j) PROVE j # k
    BY <2>2 DEF Listening
  <2>3. ASSUME NEW table \in Room PROVE table[k] = entries[k] \/ table[k] = None
    BY <1>1, <2>1, <2>3, RoomIsSafe
  <2>4. ASSUME NEW h \in HostId, Call(h) PROVE Stays!(k)
    <3>1. k # issued + 1
      BY <2>1, <1>1, Known DEF EntryGood, TypeOK, Op
    <3>2. PICK table \in Room : entries' = [table EXCEPT ![issued + 1] = NewEntry(h)]
      BY <2>4 DEF Call
    <3>3. table \in [Op -> {None} \cup Entry]
      BY <1>1, <3>2, RoomIsSafe
    <3> QED
      BY <2>1, <2>3, <2>4, <3>1, <3>2, <3>3 DEF Call
  <2>5. ASSUME NEW h \in HostId, Cancel(h) PROVE Stays!(k)
    BY <1>1, <2>1, <2>5, Known DEF Cancel, TypeOK
  <2>6. CASE CallRefused
    BY <2>3, <2>6 DEF CallRefused
  <2>7. CASE CloseUpstream
    BY <2>7 DEF CloseUpstream
  <2>8. ASSUME NEW j \in Op, AskStatus(j) \/ Elapse(j) PROVE Stays!(k)
    BY <1>1, <2>1, <2>8, Known DEF AskStatus, Elapse, TypeOK, Entry
  <2>9. ASSUME NEW j \in Op, RejectRound(j) \/ Complete(j) PROVE Stays!(k)
    <3>1. j # k
      BY <2>2, <2>9 DEF RejectRound, Complete
    <3> QED
      BY <1>1, <2>1, <2>9, <3>1, Known DEF RejectRound, Complete, TypeOK
  <2>10. ASSUME NEW j \in Op, NEW r \in Round, Present(j, r) \/ PresentFails(j, r)
         PROVE  Stays!(k)
    <3>1. j # k
      BY <2>2, <2>10 DEF Present, PresentFails
    <3> QED
      BY <1>1, <2>1, <2>10, <3>1, Known DEF Present, PresentFails, TypeOK
  <2>11. ASSUME NEW w \in Presenter, Decide(w) PROVE Stays!(k)
    BY <2>11 DEF Decide
  <2>12. CASE Tick
    <3>1. Expired(entries[k]) = entries[k] /\ ~Resumable(Expired(entries[k]))
      BY <2>1 DEF Expired, Resumable
    <3>2. entries'[k] = entries[k] \/ \E d \in decided : entries'[k] = Decided(entries[k], d)
      BY <2>1, <2>12, <3>1, NoneApart DEF Tick, DecisionFor
    <3>3. \A d : Decided(entries[k], d).state = entries[k].state
      BY <2>1, <3>1 DEF Decided, Entry
    <3>4. resumes'[k] = [r \in Round |-> resumes[k][r]]
      BY <2>1, <2>12, <3>1 DEF Tick
    <3>5. resumes[k] \in [Round -> Nat]
      BY <1>1, <2>1, Known DEF TypeOK
    <3> QED
      BY <3>2, <3>3, <3>4, <3>5
  <2>13. CASE UNCHANGED vars
    BY <2>13 DEF vars
  <2> QED
    BY <1>1, <2>4, <2>5, <2>6, <2>7, <2>8, <2>9, <2>10, <2>11, <2>12, <2>13 DEF Next
<1>2. Inv /\ [Next]_vars => [Stays]_vars
  BY <1>1
<1> QED
  BY <1>2, Invariance, PTL DEF Spec, FinalStays

-----------------------------------------------------------------------------
(* The size of the table, and of the crowd of presenters.                  *)

RoomGood == Cardinality(Live(entries)) <= Limit

\* The table is finite, and so is every part of it.
LEMMA TableFinite ==
  ASSUME NEW S \in SUBSET Op
  PROVE  IsFiniteSet(S) /\ Cardinality(S) \in Nat
<1>1. IsFiniteSet(1 .. MaxCalls)
  BY NoneApart, FS_Interval
<1>2. IsFiniteSet(S)
  BY <1>1, FS_Subset DEF Op
<1> QED
  BY <1>2, FS_CardinalityType

LEMMA FewerIsRoom ==
  ASSUME RoomGood, Live(entries)' \subseteq Live(entries)
  PROVE  RoomGood'
<1>1. Live(entries) \in SUBSET Op /\ Live(entries)' \in SUBSET Live(entries)
  BY DEF Live
<1>2. Cardinality(Live(entries)') <= Cardinality(Live(entries))
  BY <1>1, TableFinite, FS_Subset
<1>3. Cardinality(Live(entries)) \in Nat /\ Cardinality(Live(entries)') \in Nat
  BY <1>1, TableFinite
<1> QED
  BY <1>2, <1>3, NoneApart DEF RoomGood

\* Only a call the bridge accepts makes an entry.
LEMMA OnlyCallAdds ==
  ASSUME Inv, [Next]_vars, \A h \in HostId : ~Call(h)
  PROVE  Live(entries)' \subseteq Live(entries)
<1> SUFFICES ASSUME NEW k \in Op, entries[k] = None PROVE entries'[k] = None
  BY DEF Live
<1>1. entries \in [Op -> {None} \cup Entry]
  BY Known DEF TypeOK
<1>2. ASSUME NEW h \in HostId, Cancel(h) PROVE entries'[k] = None
  BY <1>1, <1>2 DEF Cancel
<1>3. CASE CallRefused
  BY <1>3, RoomIsSafe DEF CallRefused
<1>4. ASSUME NEW j \in Op, AskStatus(j) \/ RejectRound(j) \/ Complete(j) \/ Elapse(j)
      PROVE  entries'[k] = None
  BY <1>1, <1>4 DEF AskStatus, RejectRound, Complete, Elapse, Listening, Live
<1>5. ASSUME NEW j \in Op, NEW r \in Round, Present(j, r) \/ PresentFails(j, r)
      PROVE  entries'[k] = None
  BY <1>1, <1>5 DEF Present, PresentFails, Listening, Live
<1>6. CASE Tick
  BY <1>6 DEF Tick
<1>7. CASE CloseUpstream \/ (\E w \in Presenter : Decide(w)) \/ UNCHANGED vars
  BY <1>7 DEF CloseUpstream, Decide, vars
<1> QED
  BY <1>2, <1>3, <1>4, <1>5, <1>6, <1>7 DEF Next

\* A call is accepted into a table with room.
LEMMA CallHasRoom ==
  ASSUME Inv, RoomGood, NEW h \in HostId, Call(h)
  PROVE  RoomGood'
<1>1. PICK table \in Room : /\ Cardinality(Live(table)) < Limit
                            /\ entries' = [table EXCEPT ![issued + 1] = NewEntry(h)]
  BY DEF Call
<1>2. table \in [Op -> {None} \cup Entry]
  BY <1>1, RoomIsSafe
<1>3. Live(entries)' \in SUBSET (Live(table) \cup {issued + 1})
  BY <1>1, <1>2 DEF Live
<1>4. Live(table) \in SUBSET Op
  BY DEF Live
<1>5. /\ IsFiniteSet(Live(table)) /\ Cardinality(Live(table)) \in Nat
      /\ IsFiniteSet(Live(table) \cup {issued + 1})
      /\ Cardinality(Live(table) \cup {issued + 1}) <= Cardinality(Live(table)) + 1
  BY <1>4, TableFinite, FS_AddElement
<1>6. Cardinality(Live(entries)') <= Cardinality(Live(table) \cup {issued + 1})
  BY <1>3, <1>5, FS_Subset
<1>7. Cardinality(Live(entries)') \in Nat /\ Cardinality(Live(table) \cup {issued + 1}) \in Nat
  <2>1. Live(entries)' \in SUBSET Op
    BY DEF Live
  <2> QED
    BY <1>5, <2>1, TableFinite, FS_CardinalityType
<1> QED
  BY <1>1, <1>5, <1>6, <1>7, NoneApart DEF RoomGood

LEMMA RoomInvariance == Spec => []RoomGood
<1>1. Init => RoomGood
  <2>1. Init => Live(entries) = {}
    BY DEF Init, Live
  <2> QED
    BY <2>1, FS_EmptySet, NoneApart DEF RoomGood
<1>2. Inv /\ RoomGood /\ [Next]_vars => RoomGood'
  BY CallHasRoom, OnlyCallAdds, FewerIsRoom
<1> QED
  BY <1>1, <1>2, Invariance, PTL DEF Spec

\* However many calls come and go, no more questions are open at a time than the
\* table has entries: a presenter that does not return holds its entry, and an
\* entry that is held is not evicted (upstream, spawn_presenter).
THEOREM PresentersAreBounded == Spec => []PresentersBounded
<1>1. ASSUME Inv, RoomGood PROVE PresentersBounded
  <2> DEFINE f == [w \in workers |-> w.op]
  <2>1. \A w \in workers : w.op \in Live(entries)
    BY <1>1, Known DEF PresentersTracked
  <2>2. \A v, w \in workers : v.op = w.op => v = w
    BY <1>1, Known DEF PresentersTracked
  <2>3. f \in Injection(workers, Live(entries))
    BY <2>1, <2>2 DEF Injection, IsInjective
  <2>4. IsFiniteSet(Live(entries)) /\ Cardinality(Live(entries)) \in Nat
    BY TableFinite DEF Live
  <2>5. IsFiniteSet(workers) /\ Cardinality(workers) <= Cardinality(Live(entries))
    BY <2>3, <2>4, FS_Injection
  <2>6. Cardinality(workers) \in Nat
    BY <2>5, FS_CardinalityType
  <2> QED
    BY <1>1, <2>4, <2>5, <2>6, NoneApart DEF RoomGood, PresentersBounded
<1> QED
  BY <1>1, Invariance, RoomInvariance, PTL

-----------------------------------------------------------------------------
(* What the host read.                                                     *)

\* An outcome marked as read is the one the host was told last.
ReadGood ==
  \A k \in Live(entries) :
    entries[k].observed /\ entries[k].state \in {"completed", "expired"} =>
      told[k] = entries[k].state

\* Reading is the only step that marks an outcome as read: a step that changes
\* one entry, and keeps the mark, has to keep what it marks.
LEMMA StillRead ==
  ASSUME Inv, ReadGood, NEW k \in Live(entries), NEW e,
         \/ entries' = [entries EXCEPT ![k] = e]
         \/ entries' = [entries EXCEPT ![k] = None],
         \A j \in Op \ {k} : told'[j] = told[j],
         e.observed => e.state \notin {"completed", "expired"} \/ told'[k] = e.state
  PROVE  ReadGood'
<1>1. k \in Op /\ entries \in [Op -> {None} \cup Entry]
  BY LiveEntry, Known DEF TypeOK
<1>2. \A j \in Op \ {k} : entries'[j] = entries[j]
  BY <1>1
<1>3. entries'[k] = e \/ entries'[k] = None
  BY <1>1
<1> QED
  BY <1>2, <1>3 DEF ReadGood, Live

\* The same for the messages of the runtime, which find an entry running.
LEMMA MessageStillRead ==
  ASSUME Inv, ReadGood, NEW k \in Op, Listening(k), NEW e, NEW said, Answer(k, said),
         \/ entries' = [entries EXCEPT ![k] = e]
         \/ entries' = [entries EXCEPT ![k] = None],
         e.observed => e.state \notin {"completed", "expired"}
  PROVE  ReadGood'
<1>1. k \in Live(entries)
  BY ListeningRuns
<1>2. \A j \in Op \ {k} : told'[j] = told[j]
  BY Known DEF Answer, TypeOK
<1> QED
  BY <1>1, <1>2, StillRead

LEMMA ReadStep == Inv /\ ReadGood /\ [Next]_vars => ReadGood'
<1> SUFFICES ASSUME Inv, ReadGood, [Next]_vars PROVE ReadGood'
  OBVIOUS
<1>1. entries \in [Op -> {None} \cup Entry] /\ told \in [Op -> {None} \cup Status]
  BY Known DEF TypeOK
<1>2. ASSUME NEW table \in Room, entries' = table, told' = told
      PROVE  ReadGood'
  <2>1. \A k \in Op : entries'[k] = entries[k] \/ entries'[k] = None
    BY <1>2, RoomIsSafe
  <2> QED
    BY <1>2, <2>1 DEF ReadGood, Live
<1>3. ASSUME NEW h \in HostId, Call(h) PROVE ReadGood'
  <2>1. PICK table \in Room : entries' = [table EXCEPT ![issued + 1] = NewEntry(h)]
    BY <1>3 DEF Call
  <2>2. /\ table \in [Op -> {None} \cup Entry]
        /\ \A k \in Op : table[k] = entries[k] \/ table[k] = None
    BY RoomIsSafe
  <2>3. \A k \in Op : entries'[k] \in {entries[k], None, NewEntry(h)}
    BY <2>1, <2>2
  <2>4. ~NewEntry(h).observed /\ told' = told
    BY <1>3 DEF NewEntry, Call, host
  <2> QED
    BY <2>3, <2>4 DEF ReadGood, Live
<1>4. ASSUME NEW h \in HostId, Cancel(h) PROVE ReadGood'
  BY <1>1, <1>4 DEF Cancel, ReadGood, Live
<1>5. CASE CallRefused
  BY <1>2, <1>5 DEF CallRefused, host
<1>6. ASSUME NEW k \in Op, AskStatus(k) PROVE ReadGood'
  <2>1. k \in Live(entries) /\ entries[k] \in Entry
    BY <1>6, LiveEntry DEF AskStatus
  <2> DEFINE e == [entries[k] EXCEPT !.observed = TRUE]
  <2>2. entries' = [entries EXCEPT ![k] = e] /\ told' = [told EXCEPT ![k] = entries[k].state]
    BY <1>6 DEF AskStatus
  <2>3. e.state = entries[k].state /\ told'[k] = entries[k].state
        /\ \A j \in Op \ {k} : told'[j] = told[j]
    BY <1>1, <2>1, <2>2 DEF Entry
  <2> HIDE DEF e
  <2> QED
    BY <2>1, <2>2, <2>3, StillRead
<1>7. ASSUME NEW k \in Op, RejectRound(k) PROVE ReadGood'
  <2> DEFINE e == [entries[k] EXCEPT !.state = "unavailable"]
  <2>1. e.state = "unavailable"
    BY <1>7, ListeningRuns DEF RejectRound, Entry
  <2>2. entries' = [entries EXCEPT ![k] = e] \/ entries' = [entries EXCEPT ![k] = None]
    BY <1>7 DEF RejectRound
  <2> HIDE DEF e
  <2> QED
    BY <1>7, <2>1, <2>2, MessageStillRead DEF RejectRound
<1>8. ASSUME NEW k \in Op, Complete(k) PROVE ReadGood'
  <2> DEFINE e == [entries[k] EXCEPT !.state = "completed", !.observed = FALSE, !.context = None]
  <2>1. ~e.observed
    BY <1>8, ListeningRuns DEF Complete, Entry
  <2>2. entries' = [entries EXCEPT ![k] = e] \/ entries' = [entries EXCEPT ![k] = None]
    BY <1>8 DEF Complete
  <2> HIDE DEF e
  <2> QED
    BY <1>8, <2>1, <2>2, MessageStillRead DEF Complete
<1>9. ASSUME NEW k \in Op, Elapse(k) PROVE ReadGood'
  <2>1. k \in Live(entries) /\ entries[k] \in Entry
    BY <1>9, LiveEntry DEF Elapse
  <2> DEFINE e == [entries[k] EXCEPT !.late = TRUE]
  <2>2. entries' = [entries EXCEPT ![k] = e] /\ told' = told
    BY <1>9 DEF Elapse, host
  <2>3. e.state = entries[k].state /\ e.observed = entries[k].observed
    BY <2>1 DEF Entry
  <2> HIDE DEF e
  <2> QED
    BY <2>1, <2>2, <2>3, StillRead DEF ReadGood
<1>10. ASSUME NEW k \in Op, NEW r \in Round, Present(k, r) PROVE ReadGood'
  <2> DEFINE e == [entries[k] EXCEPT !.context = None, !.waiting = TRUE, !.worker = TRUE,
                     !.late = FALSE, !.state = "awaiting_approval", !.deferred = TRUE]
  <2>1. e.state = "awaiting_approval"
    BY <1>10, ListeningRuns DEF Present, Entry
  <2>2. entries' = [entries EXCEPT ![k] = e]
    BY <1>10 DEF Present
  <2> HIDE DEF e
  <2> QED
    BY <1>10, <2>1, <2>2, MessageStillRead DEF Present
<1>11. ASSUME NEW k \in Op, NEW r \in Round, PresentFails(k, r) PROVE ReadGood'
  <2> DEFINE e == [entries[k] EXCEPT !.context = None, !.state = "unavailable",
                     !.late = FALSE, !.deferred = TRUE]
  <2>1. e.state = "unavailable"
    BY <1>11, ListeningRuns DEF PresentFails, Entry
  <2>2. entries' = [entries EXCEPT ![k] = e]
    BY <1>11 DEF PresentFails
  <2> HIDE DEF e
  <2> QED
    BY <1>11, <2>1, <2>2, MessageStillRead DEF PresentFails
<1>12. CASE Tick
  <2> SUFFICES ASSUME NEW k \in Live(entries)', entries'[k].observed,
                      entries'[k].state \in {"completed", "expired"}
               PROVE  told'[k] = entries'[k].state
    BY DEF ReadGood
  <2>1. k \in Live(entries) /\ k \in Op /\ entries[k] \in Entry
    BY <1>12, LiveEntry DEF Live, Tick
  <2>2. PICK e \in Entry : e = Expired(entries[k])
    BY <2>1, ExpiredEntry
  <2>3. /\ entries'[k].observed = e.observed
        /\ entries'[k].state = e.state \/ entries'[k].state = "running"
    <3>1. CASE \E d \in decided : d.op = k
      <4>1. PICK d \in Presenter : d = DecisionFor(k)
        BY <3>1, Known DEF DecisionFor, TypeOK
      <4>2. entries'[k] = Decided(e, d)
        BY <1>12, <2>1, <2>2, <3>1, <4>1, NoneApart DEF Tick
      <4>3. /\ Decided(e, d).observed = e.observed
            /\ Decided(e, d).state = "running" \/ Decided(e, d).state = e.state
        BY DecidedEntry
      <4> QED
        BY <4>2, <4>3
    <3>2. CASE ~\E d \in decided : d.op = k
      BY <1>12, <2>1, <2>2, <3>2, NoneApart DEF Tick
    <3> QED
      BY <3>1, <3>2
  <2>4. e = entries[k]
    BY <2>1, <2>2, <2>3, ExpiredEntry
  <2> QED
    BY <1>12, <2>1, <2>3, <2>4 DEF Tick, host, ReadGood
<1>13. CASE CloseUpstream \/ (\E w \in Presenter : Decide(w)) \/ UNCHANGED vars
  BY <1>13 DEF CloseUpstream, Decide, vars, host, ReadGood, Live
<1> QED
  BY <1>3, <1>4, <1>5, <1>6, <1>7, <1>8, <1>9, <1>10, <1>11, <1>12, <1>13 DEF Next

LEMMA ReadInvariance == Spec => []ReadGood
<1>1. Init => ReadGood
  BY DEF Init, ReadGood, Live
<1> QED
  BY <1>1, ReadStep, Invariance, PTL DEF Spec

\* An entry the host has the approval id of goes only when its outcome was read:
\* neither a new call nor a refused one takes a result nobody saw (upstream).
THEOREM ResultsStayUntilRead == Spec => ResultsAreRead
<1> DEFINE Read == \A k \in Live(entries) : entries[k].deferred /\ entries'[k] = None =>
         entries[k].state \in Final
         /\ (entries[k].state \in {"completed", "expired"} => told[k] = entries[k].state)
<1>1. ASSUME Inv, ReadGood, [Next]_vars PROVE Read
  <2> SUFFICES ASSUME NEW k \in Live(entries), entries[k].deferred, entries'[k] = None
               PROVE  k \in Retirable
    BY <1>1 DEF ReadGood, Retirable
  <2>1. k \in Op /\ entries[k] # None /\ entries[k] \in Entry /\ entries \in [Op -> {None} \cup Entry]
    BY <1>1, LiveEntry, Known DEF TypeOK
  <2>2. ASSUME NEW table \in Room, table[k] = None PROVE k \in Retirable
    BY <1>1, <2>1, <2>2, RoomIsSafe
  <2>3. ASSUME NEW h \in HostId, Call(h) PROVE k \in Retirable
    <3>1. PICK table \in Room : entries' = [table EXCEPT ![issued + 1] = NewEntry(h)]
      BY <2>3 DEF Call
    <3>2. table \in [Op -> {None} \cup Entry] /\ NewEntry(h) # None
      BY <1>1, RoomIsSafe, NewEntryTyped
    <3> QED
      BY <2>1, <2>2, <3>1, <3>2
  <2>4. ASSUME NEW h \in HostId, Cancel(h) PROVE FALSE
    BY <2>1, <2>4 DEF Cancel, Live
  <2>5. CASE CallRefused
    BY <2>2, <2>5 DEF CallRefused
  <2>6. ASSUME NEW j \in Op, AskStatus(j) \/ RejectRound(j) \/ Complete(j) \/ Elapse(j) PROVE FALSE
    <3>1. /\ [entries[k] EXCEPT !.observed = TRUE] \in Entry
          /\ [entries[k] EXCEPT !.late = TRUE] \in Entry
          /\ [entries[k] EXCEPT !.state = "unavailable"] \in Entry
          /\ [entries[k] EXCEPT !.state = "completed", !.observed = FALSE, !.context = None] \in Entry
      BY <2>1 DEF Entry, Status
    <3> QED
      BY <2>1, <2>6, <3>1, NoneApart DEF AskStatus, RejectRound, Complete, Elapse
  <2>7. ASSUME NEW j \in Op, NEW r \in Round, Present(j, r) \/ PresentFails(j, r) PROVE FALSE
    <3>1. /\ [entries[k] EXCEPT !.context = None, !.waiting = TRUE, !.worker = TRUE, !.late = FALSE,
                 !.state = "awaiting_approval", !.deferred = TRUE] \in Entry
          /\ [entries[k] EXCEPT !.context = None, !.state = "unavailable", !.late = FALSE,
                 !.deferred = TRUE] \in Entry
      BY <2>1 DEF Entry, Status
    <3> QED
      BY <2>1, <2>7, <3>1, NoneApart DEF Present, PresentFails
  <2>8. CASE Tick
    BY <1>1, <2>8, TickEntry, NoneApart
  <2>9. CASE CloseUpstream \/ (\E w \in Presenter : Decide(w)) \/ UNCHANGED vars
    BY <2>1, <2>9 DEF CloseUpstream, Decide, vars
  <2> QED
    BY <1>1, <2>3, <2>4, <2>5, <2>6, <2>7, <2>8, <2>9 DEF Next
<1>2. Inv /\ ReadGood /\ [Next]_vars => [Read]_vars
  BY <1>1
<1> QED
  BY <1>2, Invariance, ReadInvariance, PTL DEF Spec, ResultsAreRead

-----------------------------------------------------------------------------
(* The rounds of a call.                                                   *)

Settled(k) == {r \in Round : resumes[k][r] > 0}

\* The context that goes round with a call, from its entry to the presenter
\* and back with the decision, is exactly the rounds the call was resumed for;
\* a presenter asks about one more, and there is room for it.
RoundsGood ==
  /\ \A k \in Op : /\ \A r \in Round : resumes[k][r] <= 1
                   /\ Cardinality(Settled(k)) <= MaxRounds
                   /\ k > issued => Settled(k) = {}
  /\ \A k \in Live(entries) : entries[k].context # None => entries[k].context = Settled(k)
  /\ \A w \in workers : /\ w.context = Settled(w.op) /\ w.round \notin w.context
                        /\ Cardinality(w.context) < MaxRounds
  /\ \A d \in decided : /\ d.round \notin Settled(d.op)
                        /\ d.context = Settled(d.op) \cup {d.round}
                        /\ Cardinality(d.context) <= MaxRounds

LEMMA RoundsFinite ==
  ASSUME NEW S \in SUBSET Round
  PROVE  IsFiniteSet(S) /\ Cardinality(S) \in Nat
BY ConstantsAssumption, FS_Subset, FS_CardinalityType

\* Nothing is presented, decided or resumed.
LEMMA RoundsKept ==
  ASSUME Inv, RoundsGood, UNCHANGED <<workers, decided, resumes>>,
         issued' \in Nat, issued <= issued',
         \A k \in Live(entries)' : entries'[k].context # None =>
            \/ k \in Live(entries) /\ entries'[k].context = entries[k].context
            \/ k > issued /\ entries'[k].context = {}
  PROVE  RoundsGood'
<1>1. \A k \in Op : Settled(k)' = Settled(k) /\ k \in Nat /\ issued \in Nat
  BY Known DEF Settled, Op, TypeOK
<1>2. \A w \in workers \cup decided : w.op \in Op
  BY Known DEF TypeOK, Presenter
<1>3. \A k \in Live(entries)' : entries'[k].context # None => entries'[k].context = Settled(k)'
  BY <1>1 DEF RoundsGood, Live
<1> QED
  BY <1>1, <1>2, <1>3 DEF RoundsGood

\* One entry changes and may lose its context.
LEMMA ContextKept ==
  ASSUME Inv, RoundsGood, UNCHANGED <<workers, decided, resumes, issued>>,
         NEW k \in Live(entries), NEW e, e.context = entries[k].context \/ e.context = None,
         entries' = [entries EXCEPT ![k] = e] \/ entries' = [entries EXCEPT ![k] = None]
  PROVE  RoundsGood'
<1>1. k \in Op /\ entries \in [Op -> {None} \cup Entry] /\ issued \in Nat
  BY LiveEntry, Known DEF TypeOK
<1>2. \A j \in Live(entries)' : j \in Live(entries) /\ entries'[j] \in {entries[j], e}
                                /\ (j # k => entries'[j] = entries[j])
  BY <1>1 DEF Live
<1> QED
  BY <1>1, <1>2, RoundsKept

\* The presenter takes the context with it.
LEMMA PresentTakesContext ==
  ASSUME Inv, RoundsGood, NEW k \in Op, NEW r \in Round, Present(k, r)
  PROVE  RoundsGood'
<1>1. /\ k \in Live(entries) /\ entries[k] \in Entry /\ k \in Op
      /\ entries \in [Op -> {None} \cup Entry]
  BY ListeningRuns, Known DEF Present, TypeOK
<1> DEFINE e == [entries[k] EXCEPT !.context = None, !.waiting = TRUE, !.worker = TRUE,
                     !.late = FALSE, !.state = "awaiting_approval", !.deferred = TRUE]
           p == [op |-> k, round |-> r, context |-> entries[k].context]
<1>2. e.context = None
  BY <1>1 DEF Entry
<1>3. /\ entries' = [entries EXCEPT ![k] = e] /\ workers' = workers \cup {p}
      /\ UNCHANGED <<issued, decided, resumes>>
      /\ r \notin entries[k].context /\ Cardinality(entries[k].context) < MaxRounds
      /\ entries[k].context # None
  BY DEF Present, Presentable
<1>4. p.op = k /\ p.round = r /\ p.context = Settled(k)
  BY <1>1, <1>3 DEF RoundsGood
<1>5. \A j \in Op : Settled(j)' = Settled(j)
  BY <1>3 DEF Settled
<1> HIDE DEF e, p
<1>6. \A w \in workers' : /\ w.context = Settled(w.op)' /\ w.round \notin w.context
                          /\ Cardinality(w.context) < MaxRounds
  <2>1. \A w \in workers : w.op \in Op
    BY Known DEF TypeOK, Presenter
  <2>2. Settled(k) = entries[k].context
    BY <1>1, <1>3 DEF RoundsGood
  <2> QED
    BY <1>3, <1>4, <1>5, <2>1, <2>2 DEF RoundsGood
<1>7. \A j \in Live(entries)' : entries'[j].context # None => entries'[j].context = Settled(j)'
  BY <1>1, <1>2, <1>3, <1>5 DEF RoundsGood, Live
<1>8. \A d \in decided' : d.op \in Op /\ d \in decided
  BY <1>3, Known DEF TypeOK, Presenter
<1> QED
  BY <1>3, <1>5, <1>6, <1>7, <1>8 DEF RoundsGood

\* A decision adds its round, the one more there is room for.
LEMMA DecideAddsRound ==
  ASSUME Inv, RoundsGood, NEW w \in Presenter, Decide(w)
  PROVE  RoundsGood'
<1> DEFINE d == [w EXCEPT !.context = @ \cup {w.round}]
<1>1. /\ w \in workers /\ workers' = workers \ {w} /\ decided' = decided \cup {d}
      /\ UNCHANGED <<entries, issued, resumes>>
  BY DEF Decide
<1>2. d.op = w.op /\ d.round = w.round /\ d.context = w.context \cup {w.round}
      /\ w.op \in Op /\ w.context \in SUBSET Round
  BY DEF Presenter
<1> HIDE DEF d
<1>3. w.context = Settled(w.op) /\ w.round \notin w.context /\ Cardinality(w.context) < MaxRounds
  BY <1>1 DEF RoundsGood
<1>4. Cardinality(d.context) <= MaxRounds
  <2>1. IsFiniteSet(w.context) /\ Cardinality(w.context) \in Nat
    BY <1>2, RoundsFinite
  <2>2. Cardinality(w.context \cup {w.round}) = Cardinality(w.context) + 1
    BY <1>3, <2>1, FS_AddElement
  <2> QED
    BY <1>2, <1>3, <2>1, <2>2, NoneApart
<1>5. \A k \in Op : Settled(k)' = Settled(k)
  BY <1>1 DEF Settled
<1>6. \A v \in workers \cup decided : v.op \in Op
  BY Known DEF TypeOK, Presenter
<1>7. \A k \in Live(entries)' : k \in Live(entries) /\ k \in Op
  BY <1>1 DEF Live
<1>8. \A v \in decided' : /\ v.round \notin Settled(v.op)'
                          /\ v.context = Settled(v.op)' \cup {v.round}
                          /\ Cardinality(v.context) <= MaxRounds
  <2>1. ASSUME NEW v \in decided
        PROVE  /\ v.round \notin Settled(v.op)'
               /\ v.context = Settled(v.op)' \cup {v.round}
               /\ Cardinality(v.context) <= MaxRounds
    BY <1>5, <1>6 DEF RoundsGood
  <2>2. /\ d.round \notin Settled(d.op)'
        /\ d.context = Settled(d.op)' \cup {d.round}
        /\ Cardinality(d.context) <= MaxRounds
    BY <1>2, <1>3, <1>4, <1>5
  <2> QED
    BY <1>1, <2>1, <2>2
<1>9. \A v \in workers' : /\ v.context = Settled(v.op)' /\ v.round \notin v.context
                          /\ Cardinality(v.context) < MaxRounds
  BY <1>1, <1>5, <1>6 DEF RoundsGood
<1>10. \A k \in Live(entries)' : entries'[k].context # None => entries'[k].context = Settled(k)'
  BY <1>1, <1>5, <1>7 DEF RoundsGood
<1>11. \A k \in Op : /\ \A r \in Round : resumes'[k][r] <= 1
                     /\ Cardinality(Settled(k)') <= MaxRounds
                     /\ k > issued' => Settled(k)' = {}
  BY <1>1, <1>5 DEF RoundsGood
<1> QED
  BY <1>8, <1>9, <1>10, <1>11 DEF RoundsGood

\* What a tick does to one call: it is resumed for the round of its decision,
\* or keeps its rounds and at most loses its context.
LEMMA TickResumes ==
  ASSUME Inv, RoundsGood, Tick, NEW k \in Op
  PROVE  \/ /\ \A r \in Round : resumes'[k][r] = resumes[k][r]
            /\ k \in Live(entries)' =>
                 \/ entries'[k].context = None
                 \/ k \in Live(entries) /\ entries'[k].context = entries[k].context
         \/ \E d \in decided :
              /\ d.op = k /\ d.round \in Round
              /\ \A r \in Round : resumes'[k][r] = resumes[k][r] + (IF r = d.round THEN 1 ELSE 0)
              /\ entries'[k].context = d.context
<1> DEFINE e == Expired(entries[k])
<1>1. CASE k \notin Live(entries)
  BY <1>1 DEF Tick, Live
<1>2. CASE k \in Live(entries) /\ ~\E d \in decided : d.op = k
  <2>1. entries'[k] = e /\ entries[k] \in Entry
    BY <1>2, LiveEntry DEF Tick
  <2>2. e.context = None \/ e.context = entries[k].context
    BY <2>1 DEF Expired, Entry
  <2> QED
    BY <1>2, <2>1, <2>2 DEF Tick
<1>3. CASE k \in Live(entries) /\ \E d \in decided : d.op = k
  <2>1. PICK d \in decided : d = DecisionFor(k) /\ d.op = k
    BY <1>3 DEF DecisionFor
  <2>2. entries'[k] = Decided(e, d) /\ entries[k] \in Entry /\ entries[k] # None /\ d \in Presenter
    BY <1>3, <2>1, LiveEntry, Known DEF Tick, TypeOK
  <2>3. e \in Entry /\ (e.context = None \/ e.context = entries[k].context)
    BY <2>2, ExpiredEntry DEF Expired, Entry
  <2>4. \A r \in Round : resumes'[k][r] =
          IF Resumable(e) /\ d.round = r THEN resumes[k][r] + 1 ELSE resumes[k][r]
    BY <1>3, <2>1 DEF Tick
  <2> HIDE DEF e
  <2>5. CASE Resumable(e)
    <3>1. entries'[k].context = d.context /\ d.round \in Round
      BY <2>2, <2>3, <2>5 DEF Decided, Entry, Presenter
    <3>2. \A r \in Round : resumes[k][r] \in Nat
      BY Known DEF TypeOK
    <3> QED
      BY <2>1, <2>4, <2>5, <3>1, <3>2
  <2>6. CASE ~Resumable(e)
    <3>1. entries'[k].context = e.context
      BY <2>2, <2>3, <2>6 DEF Decided, Entry
    <3> QED
      BY <1>3, <2>3, <2>4, <2>6, <3>1
  <2> QED
    BY <2>5, <2>6
<1> QED
  BY <1>1, <1>2, <1>3

LEMMA TickKeepsRounds ==
  ASSUME Inv, RoundsGood, Tick
  PROVE  RoundsGood'
<1>1. UNCHANGED <<issued, workers>> /\ decided' = {}
  BY DEF Tick
<1>2. \A k \in Op, r \in Round : resumes[k][r] \in Nat /\ resumes[k][r] <= 1
  BY Known DEF TypeOK, RoundsGood
<1> DEFINE Good(k) ==
             /\ \A r \in Round : resumes'[k][r] <= 1
             /\ Cardinality(Settled(k)') <= MaxRounds
             /\ k > issued => Settled(k)' = {}
             /\ k \in Live(entries)' /\ entries'[k].context # None =>
                  entries'[k].context = Settled(k)'
             /\ \A w \in workers : w.op = k => Settled(k)' = Settled(k)
<1>3. ASSUME NEW k \in Op
      PROVE  Good(k)
  <2>1. CASE /\ \A r \in Round : resumes'[k][r] = resumes[k][r]
             /\ k \in Live(entries)' =>
                  \/ entries'[k].context = None
                  \/ k \in Live(entries) /\ entries'[k].context = entries[k].context
    <3>1. Settled(k)' = Settled(k)
      BY <2>1 DEF Settled
    <3> QED
      BY <1>2, <2>1, <3>1 DEF RoundsGood
  <2>2. ASSUME NEW d \in decided, d.op = k, d.round \in Round,
               \A r \in Round : resumes'[k][r] = resumes[k][r] + (IF r = d.round THEN 1 ELSE 0),
               entries'[k].context = d.context
        PROVE  Good(k)
    <3>1. /\ d.round \notin Settled(k) /\ d.context = Settled(k) \cup {d.round}
          /\ Cardinality(d.context) <= MaxRounds
      BY <2>2 DEF RoundsGood
    <3>2. resumes[k][d.round] = 0
      BY <1>2, <2>2, <3>1 DEF Settled
    <3>3. \A r \in Round : resumes'[k][r] <= 1
      BY <1>2, <2>2, <3>2
    <3>4. Settled(k)' = d.context
      <4>1. \A r \in Round : resumes'[k][r] > 0 <=> resumes[k][r] > 0 \/ r = d.round
        BY <1>2, <2>2, <3>2
      <4> QED
        BY <2>2, <3>1, <4>1 DEF Settled
    <3>5. k <= issued /\ issued \in Nat
      BY <2>2, LiveEntry, Known DEF PresentersTracked, EntryGood, TypeOK
    <3>6. \A w \in workers : w.op # k
      BY <2>2, Known DEF PresentersTracked
    <3> QED
      BY <2>2, <3>1, <3>3, <3>4, <3>5, <3>6 DEF Op
  <2> QED
    BY <2>1, <2>2, TickResumes
<1>4. \A w \in workers : w.op \in Op
  BY Known DEF TypeOK, Presenter
<1>5. \A k \in Live(entries)' : k \in Op
  BY DEF Live
<1> QED
  BY <1>1, <1>3, <1>4, <1>5 DEF RoundsGood

LEMMA RoundsStep == Inv /\ RoundsGood /\ [Next]_vars => RoundsGood'
<1> SUFFICES ASSUME Inv, RoundsGood, [Next]_vars PROVE RoundsGood'
  OBVIOUS
<1>1. issued \in Nat
  BY Known DEF TypeOK
<1>2. ASSUME NEW h \in HostId, Call(h) PROVE RoundsGood'
  <2>1. PICK table \in Room : entries' = [table EXCEPT ![issued + 1] = NewEntry(h)]
    BY <1>2 DEF Call
  <2>2. /\ table \in [Op -> {None} \cup Entry]
        /\ \A k \in Op : table[k] = entries[k] \/ table[k] = None
    BY RoomIsSafe
  <2>3. \A k \in Live(entries)' : IF k = issued + 1 THEN entries'[k] = NewEntry(h)
                                  ELSE k \in Live(entries) /\ entries'[k] = entries[k]
    BY <2>1, <2>2 DEF Live
  <2>4. NewEntry(h).context = {}
    BY DEF NewEntry
  <2>5. issued' = issued + 1 /\ UNCHANGED <<workers, decided, resumes>>
    BY <1>2 DEF Call
  <2> QED
    BY <1>1, <2>3, <2>4, <2>5, RoundsKept
<1>3. ASSUME NEW h \in HostId, Cancel(h) PROVE RoundsGood'
  BY <1>3, ContextKept DEF Cancel
<1>4. CASE CallRefused
  <2>1. \A k \in Live(entries)' : k \in Live(entries) /\ entries'[k] = entries[k]
    BY <1>4, RoomIsSafe DEF CallRefused, Live
  <2> QED
    BY <1>1, <1>4, <2>1, RoundsKept DEF CallRefused
<1>5. ASSUME NEW k \in Op, AskStatus(k) PROVE RoundsGood'
  <2>1. k \in Live(entries) /\ entries[k] \in Entry
    BY <1>5, LiveEntry DEF AskStatus
  <2>2. [entries[k] EXCEPT !.observed = TRUE].context = entries[k].context
    BY <2>1 DEF Entry
  <2> QED
    BY <1>5, <2>1, <2>2, ContextKept DEF AskStatus
<1>6. ASSUME NEW k \in Op, RejectRound(k) PROVE RoundsGood'
  <2>1. k \in Live(entries) /\ entries[k] \in Entry
    BY <1>6, ListeningRuns DEF RejectRound
  <2>2. [entries[k] EXCEPT !.state = "unavailable"].context = entries[k].context
    BY <2>1 DEF Entry
  <2> QED
    BY <1>6, <2>1, <2>2, ContextKept DEF RejectRound
<1>7. ASSUME NEW k \in Op, Complete(k) PROVE RoundsGood'
  <2>1. k \in Live(entries) /\ entries[k] \in Entry
    BY <1>7, ListeningRuns DEF Complete
  <2>2. [entries[k] EXCEPT !.state = "completed", !.observed = FALSE, !.context = None].context = None
    BY <2>1 DEF Entry
  <2> QED
    BY <1>7, <2>1, <2>2, ContextKept DEF Complete
<1>8. ASSUME NEW k \in Op, Elapse(k) PROVE RoundsGood'
  <2>1. k \in Live(entries) /\ entries[k] \in Entry
    BY <1>8, LiveEntry DEF Elapse
  <2>2. [entries[k] EXCEPT !.late = TRUE].context = entries[k].context
    BY <2>1 DEF Entry
  <2> QED
    BY <1>8, <2>1, <2>2, ContextKept DEF Elapse
<1>9. ASSUME NEW k \in Op, NEW r \in Round, PresentFails(k, r) PROVE RoundsGood'
  <2>1. k \in Live(entries) /\ entries[k] \in Entry
    BY <1>9, ListeningRuns DEF PresentFails
  <2>2. [entries[k] EXCEPT !.context = None, !.state = "unavailable", !.late = FALSE,
                           !.deferred = TRUE].context = None
    BY <2>1 DEF Entry
  <2> QED
    BY <1>9, <2>1, <2>2, ContextKept DEF PresentFails
<1>10. CASE CloseUpstream \/ UNCHANGED vars
  <2>1. UNCHANGED <<entries, issued, workers, decided, resumes>>
    BY <1>10 DEF CloseUpstream, vars
  <2>2. Live(entries)' = Live(entries)
    BY <2>1 DEF Live
  <2> QED
    BY <1>1, <2>1, <2>2, RoundsKept
<1> QED
  BY <1>2, <1>3, <1>4, <1>5, <1>6, <1>7, <1>8, <1>9, <1>10,
     PresentTakesContext, DecideAddsRound, TickKeepsRounds DEF Next

LEMMA RoundsInvariance == Spec => []RoundsGood
<1>1. Init => RoundsGood
  <2> SUFFICES ASSUME Init PROVE RoundsGood
    OBVIOUS
  <2>1. \A k \in Op : Settled(k) = {}
    BY DEF Init, Settled
  <2>2. workers = {} /\ decided = {} /\ Live(entries) = {}
    BY DEF Init, Live
  <2>3. \A k \in Op, r \in Round : resumes[k][r] = 0
    BY DEF Init
  <2>4. Cardinality({}) = 0
    BY FS_EmptySet
  <2> QED
    BY <2>1, <2>2, <2>3, <2>4, NoneApart DEF RoundsGood
<1> QED
  BY <1>1, RoundsStep, Invariance, PTL DEF Spec

\* A round a human decided resumes its call once, and a call is resumed for no
\* more rounds than it may have, whatever the runtime asks again and however
\* late a decision comes (NativeMrtr::prepare, decisions).
THEOREM RoundsResumeOnce == Spec => []ResumedOnce
<1>1. RoundsGood => ResumedOnce
  BY DEF RoundsGood, ResumedOnce, Settled
<1> QED
  BY <1>1, RoundsInvariance, PTL
=============================================================================
