-------------------------- MODULE PendingApprovals --------------------------
(***************************************************************************)
(* The bridge of `aos mcp serve' between a coding host and the runtime,    *)
(* crates/unicity-aos-bootstrap/src/mcp/pending.rs: a tool call that needs *)
(* a human decision is answered at once with an approval id, a presenter   *)
(* thread asks the human, and its decision resumes the call in the runtime *)
(* while the host reads the outcome with a status tool.                    *)
(*                                                                         *)
(* One event loop (mcp/mod.rs) handles the host's messages, the runtime's  *)
(* and a tick; the presenter threads run beside it and report over a       *)
(* channel.  The runtime is not trusted to send each answer once, in order *)
(* or in time.                                                             *)
(***************************************************************************)
EXTENDS Naturals, FiniteSets

CONSTANTS
  HostId,     \* ids the host gives its requests, and may use again
  Round,      \* what tells a call's input_required rounds apart, its requestState
  Limit,      \* max_in_flight_calls: entries of the table
  MaxRounds,  \* max_input_rounds: rounds resumed for one call
  MaxCalls,   \* bound: calls the bridge accepts
  None        \* no entry, no context, nothing told

Op     == 1 .. MaxCalls
Status == {"running", "awaiting_approval", "completed", "expired", "unavailable"}
Final  == {"completed", "expired", "unavailable"}

\* deferred: the host has its approval id; context: the rounds settled, unless
\* a presenter has it; late: the deadline is over.  `result' is there exactly
\* in the state "completed".
Entry == [host : HostId, deferred : BOOLEAN, state : Status,
          context : {None} \cup SUBSET Round,
          waiting : BOOLEAN, observed : BOOLEAN, worker : BOOLEAN, late : BOOLEAN]

\* A presenter thread, and the decision it sends.
Presenter == [op : Op, round : Round, context : SUBSET Round]

ASSUME ConstantsAssumption ==
  /\ IsFiniteSet(Round)
  /\ Limit \in Nat \ {0} /\ MaxRounds \in Nat \ {0} /\ MaxCalls \in Nat
  /\ None \notin Entry /\ None \notin Status
  /\ \A settled \in SUBSET Round : settled # None

VARIABLES
  entries,    \* the table, by private id
  issued,     \* how many private ids were made: a new one is used once
  workers,    \* presenter threads asking a human
  decided,    \* decisions in the channel
  open,       \* is the host's side open?
  answers,    \* history: answers given to each call's request
  cancelled,  \* history: calls the host cancelled
  told,       \* history: what the host was told last of each approval
  resumes     \* history: how often each round of each call was resumed

host == <<answers, cancelled, told>>
vars == <<entries, issued, workers, decided, open, host, resumes>>

TypeOK ==
  /\ entries \in [Op -> {None} \cup Entry]
  /\ issued \in 0 .. MaxCalls
  /\ workers \subseteq Presenter /\ decided \subseteq Presenter
  /\ open \in BOOLEAN
  /\ answers \in [Op -> Nat]
  /\ cancelled \subseteq Op
  /\ told \in [Op -> {None} \cup Status]
  /\ resumes \in [Op -> [Round -> Nat]]

Init ==
  /\ entries = [k \in Op |-> None]
  /\ issued = 0
  /\ workers = {} /\ decided = {}
  /\ open = TRUE
  /\ answers = [k \in Op |-> 0] /\ cancelled = {}
  /\ told = [k \in Op |-> None]
  /\ resumes = [k \in Op |-> [r \in Round |-> 0]]

Live(table) == {k \in Op : table[k] # None}

-----------------------------------------------------------------------------
(* PendingApprovals::upstream, a message of the host.                      *)

\* An outcome the host has looked at, and no presenter left.
RetirableUnread ==
  {k \in Live(entries) : ~entries[k].waiting /\ ~entries[k].worker}
RetirableBlocked ==
  {k \in Live(entries) : entries[k].observed /\ entries[k].state \in Final}
Retirable ==
  {k \in Live(entries) : /\ entries[k].observed /\ ~entries[k].worker
                         /\ entries[k].state \in Final}

\* The table a new call meets: a full one gives up a retirable entry, the one
\* with the earliest deadline in the code, any of them here.
Room ==
  IF Cardinality(Live(entries)) < Limit \/ Retirable = {}
    THEN {entries}
    ELSE {[entries EXCEPT ![k] = None] : k \in Retirable}

InFlight(table, h) == \E k \in Live(table) : ~table[k].deferred /\ table[k].host = h

NewEntry(h) ==
  [host |-> h, deferred |-> FALSE, state |-> "running", context |-> {},
   waiting |-> FALSE, observed |-> FALSE, worker |-> FALSE, late |-> FALSE]

\* tools/call: the call goes to the runtime under a private id ...
Call(h) ==
  /\ open /\ issued < MaxCalls
  /\ \E table \in Room :
       /\ Cardinality(Live(table)) < Limit /\ ~InFlight(table, h)
       /\ entries' = [table EXCEPT ![issued + 1] = NewEntry(h)]
  /\ issued' = issued + 1
  /\ UNCHANGED <<workers, decided, open, host, resumes>>

\* ... or is refused: no room, its id is in flight, or it is malformed.  By
\* then an entry may have been given up for it.
CallRefused ==
  /\ open
  /\ entries' \in Room
  /\ UNCHANGED <<issued, workers, decided, open, host, resumes>>

\* notifications/cancelled for a request still unanswered; any other is passed
\* on as it is, and names no private id.
Cancel(h) ==
  /\ open
  /\ \E k \in Live(entries) :
       /\ ~entries[k].deferred /\ entries[k].host = h
       /\ entries' = [entries EXCEPT ![k] = None]
       /\ cancelled' = cancelled \cup {k}
  /\ UNCHANGED <<issued, workers, decided, open, answers, told, resumes>>

\* status: tools/call of the status tool.
AskStatus(k) ==
  /\ open
  /\ k \in Live(entries) /\ entries[k].deferred
  /\ entries' = [entries EXCEPT ![k].observed = TRUE]
  /\ told' = [told EXCEPT ![k] = entries[k].state]
  /\ UNCHANGED <<issued, workers, decided, open, answers, cancelled, resumes>>

\* The host closes its side: its messages and the tick stop, the runtime's
\* messages still come.
CloseUpstream ==
  /\ open /\ open' = FALSE
  /\ UNCHANGED <<entries, issued, workers, decided, host, resumes>>

-----------------------------------------------------------------------------
(* PendingApprovals::downstream, a message of the runtime for a private    *)
(* id.  One for an entry that is gone, waits or is final is consumed.      *)

Listening(k) ==
  /\ k \in Live(entries)
  /\ ~entries[k].waiting /\ entries[k].state \notin Final

\* The host's request is answered, the first time.
Answer(k, said) ==
  IF entries[k].deferred
    THEN UNCHANGED <<answers, told>>
    ELSE /\ answers' = [answers EXCEPT ![k] = @ + 1]
         /\ told' = [told EXCEPT ![k] = said]

\* mrtr prepare: a round that was not settled, of those a call may have.
PresentableAgain(k, r) ==
  entries[k].context # None /\ Cardinality(entries[k].context) < MaxRounds
Presentable(k, r) ==
  /\ entries[k].context # None
  /\ r \notin entries[k].context /\ Cardinality(entries[k].context) < MaxRounds

\* input_required: a presenter thread takes the context and asks.
PresentTwice(k, r) ==
  /\ Listening(k) /\ Presentable(k, r)
  /\ entries' = [entries EXCEPT ![k] =
       [@ EXCEPT !.context = None, !.waiting = TRUE, !.worker = TRUE, !.late = FALSE,
                 !.state = "awaiting_approval"]]
  /\ workers' = workers \cup {[op |-> k, round |-> r, context |-> entries[k].context]}
  /\ Answer(k, "awaiting_approval")
  /\ UNCHANGED <<issued, decided, open, cancelled, resumes>>
Present(k, r) ==
  /\ Listening(k) /\ Presentable(k, r)
  /\ entries' = [entries EXCEPT ![k] =
       [@ EXCEPT !.context = None, !.waiting = TRUE, !.worker = TRUE, !.late = FALSE,
                 !.state = "awaiting_approval", !.deferred = TRUE]]
  /\ workers' = workers \cup {[op |-> k, round |-> r, context |-> entries[k].context]}
  /\ Answer(k, "awaiting_approval")
  /\ UNCHANGED <<issued, decided, open, cancelled, resumes>>

\* The thread cannot be spawned: the context is lost with it.
PresentFails(k, r) ==
  /\ Listening(k) /\ Presentable(k, r)
  /\ entries' = [entries EXCEPT ![k] =
       [@ EXCEPT !.context = None, !.state = "unavailable", !.late = FALSE, !.deferred = TRUE]]
  /\ Answer(k, "unavailable")
  /\ UNCHANGED <<issued, workers, decided, open, cancelled, resumes>>

\* input_required that cannot be presented: settled before, one too many, or
\* without a form a human can answer, which any may be.
RejectRound(k) ==
  /\ Listening(k) /\ entries[k].context # None
  /\ entries' = [entries EXCEPT ![k] =
       IF entries[k].deferred THEN [@ EXCEPT !.state = "unavailable"] ELSE None]
  /\ Answer(k, None)
  /\ UNCHANGED <<issued, workers, decided, open, cancelled, resumes>>

\* The call's result: passed on to a host that waits for it, or else kept.
CompleteStillObserved(k) ==
  /\ Listening(k)
  /\ entries' = [entries EXCEPT ![k] =
       IF entries[k].deferred THEN [@ EXCEPT !.state = "completed", !.context = None] ELSE None]
  /\ Answer(k, None)
  /\ UNCHANGED <<issued, workers, decided, open, cancelled, resumes>>
Complete(k) ==
  /\ Listening(k)
  /\ entries' = [entries EXCEPT ![k] =
       IF entries[k].deferred
         THEN [@ EXCEPT !.state = "completed", !.observed = FALSE, !.context = None]
         ELSE None]
  /\ Answer(k, None)
  /\ UNCHANGED <<issued, workers, decided, open, cancelled, resumes>>

-----------------------------------------------------------------------------
(* The presenter threads, the clock, and PendingApprovals::decisions.      *)

\* NativeMrtr::decide: the human decides, or the presenter gives up and the
\* forms are cancelled; either way the round is settled and the call is to be
\* resumed.  (Its error cannot happen: the thread owns the context it checks.)
Decide(w) ==
  /\ w \in workers
  /\ workers' = workers \ {w}
  /\ decided' = decided \cup {[w EXCEPT !.context = @ \cup {w.round}]}
  /\ UNCHANGED <<entries, issued, open, host, resumes>>

\* The local deadline passes.
Elapse(k) ==
  /\ k \in Live(entries) /\ entries[k].waiting /\ ~entries[k].late
  /\ entries' = [entries EXCEPT ![k].late = TRUE]
  /\ UNCHANGED <<issued, workers, decided, open, host, resumes>>

ExpiredNever(e) == e
Expired(e) ==
  IF e.waiting /\ e.late
    THEN [e EXCEPT !.waiting = FALSE, !.state = "expired", !.observed = FALSE, !.context = None]
    ELSE e

\* A decision resumes an entry that still waits for one.
ResumableLate(e) == TRUE
Resumable(e) == e.waiting /\ ~e.late

DecidedKeepsContext(e, d) ==
  IF Resumable(e)
    THEN [e EXCEPT !.worker = FALSE, !.waiting = FALSE, !.state = "running"]
    ELSE [e EXCEPT !.worker = FALSE]
Decided(e, d) ==
  IF Resumable(e)
    THEN [e EXCEPT !.worker = FALSE, !.waiting = FALSE, !.state = "running", !.context = d.context]
    ELSE [e EXCEPT !.worker = FALSE]

DecisionFor(k) == CHOOSE d \in decided : d.op = k

\* Late entries expire, then every decision in the channel is taken out.
Tick ==
  /\ open
  /\ entries' = [k \in Op |->
       IF entries[k] = None THEN None
       ELSE IF \E d \in decided : d.op = k THEN Decided(Expired(entries[k]), DecisionFor(k))
       ELSE Expired(entries[k])]
  /\ resumes' = [k \in Op |-> [r \in Round |->
       IF /\ k \in Live(entries) /\ Resumable(Expired(entries[k]))
          /\ \E d \in decided : d.op = k /\ DecisionFor(k).round = r
         THEN resumes[k][r] + 1 ELSE resumes[k][r]]]
  /\ decided' = {}
  /\ UNCHANGED <<issued, workers, open, host>>

Next ==
  \/ \E h \in HostId : Call(h) \/ Cancel(h)
  \/ CallRefused \/ CloseUpstream
  \/ \E k \in Op : AskStatus(k) \/ RejectRound(k) \/ Complete(k) \/ Elapse(k)
  \/ \E k \in Op, r \in Round : Present(k, r) \/ PresentFails(k, r)
  \/ \E w \in Presenter : Decide(w)
  \/ Tick

Spec == Init /\ [][Next]_vars

\* Time passes, and the event loop gets to its tick.
FairSpec == Spec /\ WF_vars(Tick) /\ \A k \in Op : WF_vars(Elapse(k))

-----------------------------------------------------------------------------
(* Properties.                                                             *)

Unanswered == {k \in 1 .. issued : answers[k] = 0 /\ k \notin cancelled}

\* Every presenter thread and every decision in the channel belongs to an
\* entry of the table, which has no other and says so.
PresentersTracked ==
  \A w \in workers \cup decided :
    /\ w.op \in Live(entries) /\ entries[w.op].worker
    /\ \A v \in workers \cup decided : v.op = w.op => v = w
    /\ ~(w \in workers /\ w \in decided)

\* What an entry's fields say of each other, of its presenter and of the
\* request it stands for.
EntryGood(k, e) ==
  /\ k <= issued /\ k \notin cancelled
  /\ e.waiting <=> e.state = "awaiting_approval"
  /\ e.waiting => e.worker
  /\ e.worker => \E w \in workers \cup decided : w.op = k
  /\ e.state = "running" => ~e.worker /\ e.context # None
  /\ e.deferred => answers[k] = 1
  /\ ~e.deferred => e.state = "running" /\ answers[k] = 0 /\ ~e.observed
EntriesGood == \A k \in Live(entries) : EntryGood(k, entries[k])

\* A private id that was not made yet has no past.
FreshIds == \A k \in Op : k > issued => answers[k] = 0 /\ k \notin cancelled

\* Why the properties below hold: the entry is all the loop knows of a call,
\* and it stays in step with the threads, the channel and the host.
ApprovalInv == TypeOK /\ PresentersTracked /\ EntriesGood /\ FreshIds

\* A request of the host gets one answer at most, and none once cancelled,
\* whatever the runtime sends again and whatever ids the host uses again.
OneAnswer ==
  \A k \in Op : answers[k] + (IF k \in cancelled THEN 1 ELSE 0) <= 1

\* A request the host waits for is in the table, to be answered, and no other
\* one it waits for has its id: no eviction, refusal or cancellation of another
\* call, old or new, leaves it without its own answer.
RequestsServed ==
  /\ \A k \in Unanswered : k \in Live(entries) /\ ~entries[k].deferred
  /\ \A j, k \in Unanswered : entries[j].host = entries[k].host => j = k

\* The human is asked by as many threads as the table has entries at most:
\* one that does not return cannot be evicted to start another.
PresentersBounded == Cardinality(workers) <= Limit

\* A decision resumes its round once, and a call resumes its rounds up to the
\* limit.
ResumedOnce ==
  \A k \in Op : /\ \A r \in Round : resumes[k][r] <= 1
                /\ Cardinality({r \in Round : resumes[k][r] > 0}) <= MaxRounds

\* Completed, expired or unavailable is what an approval stays: no late
\* decision, result or round changes it, or resumes the call.
FinalStays ==
  [][\A k \in Live(entries) : entries[k].state \in Final =>
       /\ resumes'[k] = resumes[k]
       /\ entries'[k] = None \/ entries'[k].state = entries[k].state]_vars

\* The result of a call, or that it expired, is kept until the host read it.
ResultsAreRead ==
  [][\A k \in Live(entries) : entries[k].deferred /\ entries'[k] = None =>
       entries[k].state \in Final
       /\ (entries[k].state \in {"completed", "expired"} => told[k] = entries[k].state)]_vars

\* While the host is there, an approval is not awaited for ever, whether or
\* not a human answers.
Awaiting(k) == k \in Live(entries) /\ entries[k].state = "awaiting_approval"
AwaitingEnds == \A k \in Op : Awaiting(k) ~> (~Awaiting(k) \/ ~open)
=============================================================================
