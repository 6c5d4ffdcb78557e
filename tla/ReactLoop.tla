----------------------------- MODULE ReactLoop -----------------------------
(***************************************************************************)
(* The ReAct coordinator capsule, capsules/capsule-react/src/lib.rs.       *)
(*                                                                         *)
(* The capsule keeps no memory between invocations: every interceptor      *)
(* loads a session's TurnState from the KV store, decides, saves it and    *)
(* publishes.  An invocation runs on a leased instance (Worker) and waits, *)
(* in the middle, for the session capsule or for the registry; it is       *)
(* modelled as the steps between those waits.  With one worker the         *)
(* invocations are serialized; with several they interleave.               *)
(*                                                                         *)
(* A uuid is a number: 0 stands for the nil uuid and for the uuids drawn   *)
(* by a reset to Idle, which no message ever carries.  Texts, prompts,     *)
(* tool arguments and results are abstracted to the turn they belong to.   *)
(***************************************************************************)
EXTENDS Naturals, Sequences, FiniteSets

CONSTANTS
  Session,        \* session ids
  CallId,         \* tool call ids, chosen by the LLM
  Worker,         \* instances the kernel may lease to interceptors
  None,           \* absent key
  MaxId,          \* bound: uuids drawn
  MaxTools,       \* bound: tool calls in one generation
  MaxIterations,  \* the max_iterations setting
  MaxRetry,       \* MAX_REDRIVE_RETRIES
  Faults,         \* what may fail: session replies, publishes, KV writes
  Duplicates,     \* what may be delivered twice: "reply", "result"
  ReuseCalls,     \* may the LLM reuse the id of an earlier call?
  Interrupts      \* what may cut a turn short: "clear", "reload"

ASSUME ConstantsAssumption ==
  /\ MaxId \in Nat \ {0}
  /\ MaxTools \in Nat
  /\ MaxIterations \in Nat \ {0}
  /\ MaxRetry \in Nat
  /\ Faults \subseteq {"session", "publish", "kv"}
  /\ Duplicates \subseteq {"reply", "result"}
  /\ ReuseCalls \in BOOLEAN
  /\ Interrupts \subseteq {"clear", "reload"}
  /\ None \notin Session
  /\ Session # {}

VARIABLES
  turn,       \* KV react.turn.<session>; a missing key reads as FreshTurn
  late,       \* sessions whose saved phase timestamp is past its timeout
  active,     \* KV react.active_sessions
  req2sess,   \* KV react.req2sess.<request_id>
  call2sess,  \* KV react.call2sess.<call_id>
  invocation, \* what each worker is in the middle of
  reloaded,   \* the capsule was reloaded, its restart event is not handled yet
  replies,    \* orchestration replies in flight (identity, prompt builder)
  jobs,       \* tool executions still to answer
  history,    \* the session capsule's transcripts, by session
  nextId,     \* the next uuid
  owner,      \* history variable: the session that admitted a turn
  finals      \* history variable: terminal responses published for a turn
              \* (2: two or more)

kv      == <<turn, late, active, req2sess, call2sess>>
outside == <<replies, jobs, history>>
ghosts  == <<owner, finals>>
vars    == <<kv, invocation, reloaded, outside, nextId, ghosts>>

Id     == 1 .. MaxId
IdOr0  == 0 .. MaxId
Phase  == {"Idle", "AwaitingIdentity", "AwaitingPromptBuild", "Streaming", "AwaitingTools"}

\* A dispatched tool call: `rid' is its turn_request_id, `from' the request
\* whose job produced its result (0: no result yet).
Dispatched == [call : CallId, rid : IdOr0, from : IdOr0]

\* `req' is request_id, `comp' completion_id, `text' "response_text is not
\* empty", `sys' the turn whose identity reply gave the system prompt.
Turn == [phase : Phase, req : IdOr0, comp : IdOr0, text : BOOLEAN,
         pending : Seq(CallId), dispatched : Seq(Dispatched),
         iter : Nat, sys : IdOr0]

FreshTurn == [phase |-> "Idle", req |-> 0, comp |-> 0, text |-> FALSE,
              pending |-> <<>>, dispatched |-> <<>>, iter |-> 0, sys |-> 0]

Handler == {"free", "prompt", "identity", "assemble", "generate", "ask",
            "delta", "dispatch", "answer", "empty", "abort", "lag", "cancel",
            "expire", "record", "cap", "round", "clear"}

\* `st' is the TurnState in memory, `list' the active list as last read,
\* `io' the state of the pending session request, `fresh' the uuid drawn,
\* `calls' the call ids of the state that was loaded.
Invocation == [h : Handler, s : Session \cup {None}, st : Turn,
               list : SUBSET Session, io : {"none", "wait", "ok"},
               fresh : IdOr0, calls : SUBSET CallId]

Free == [h |-> "free", s |-> None, st |-> FreshTurn, list |-> {},
         io |-> "none", fresh |-> 0, calls |-> {}]

Reply == [kind : {"identity", "prompt"}, s : Session, id : Id, retry : 0 .. MaxRetry]
Job   == [call : CallId, id : IdOr0]

\* What a session keeps of a message: the turn and the round it belongs to.
Entry == [kind : {"user", "tools", "answer"}, turn : IdOr0, round : Nat]
UserMessage(i)     == [kind |-> "user", turn |-> i, round |-> 0]
RoundMessage(i, n) == [kind |-> "tools", turn |-> i, round |-> n]

TypeOK ==
  /\ turn \in [Session -> Turn]
  /\ late \subseteq Session
  /\ active \subseteq Session
  /\ req2sess \in [Id -> Session \cup {None}]
  /\ call2sess \in [CallId -> Session \cup {None}]
  /\ invocation \in [Worker -> Invocation]
  /\ reloaded \in BOOLEAN
  /\ replies \subseteq Reply
  /\ jobs \subseteq Job
  /\ history \in [Session -> Seq(Entry)]
  /\ nextId \in 1 .. MaxId + 1
  /\ owner \in [Id -> Session \cup {None}]
  /\ finals \in [Id -> 0 .. 2]

Init ==
  /\ turn = [s \in Session |-> FreshTurn]
  /\ late = {}
  /\ active = {}
  /\ req2sess = [i \in Id |-> None]
  /\ call2sess = [c \in CallId |-> None]
  /\ invocation = [w \in Worker |-> Free]
  /\ reloaded = FALSE
  /\ replies = {}
  /\ jobs = {}
  /\ history = [s \in Session |-> <<>>]
  /\ nextId = 1
  /\ owner = [i \in Id |-> None]
  /\ finals = [i \in Id |-> 0]

-----------------------------------------------------------------------------
(* Helpers.                                                                *)

Calls(st) == {st.dispatched[i].call : i \in DOMAIN st.dispatched}

Without(f, K) == [k \in DOMAIN f |-> IF k \in K THEN None ELSE f[k]]

\* May an operation subject to fault f succeed, fail, or both?
Outcome(f) == IF f \in Faults THEN BOOLEAN ELSE {TRUE}

\* A delivered message leaves its channel, unless it is delivered again.
Consumed(channel, m, kind) ==
  {channel \ {m}} \cup (IF kind \in Duplicates THEN {channel} ELSE {})

Begin(w, h, s, st, io, fresh, calls) ==
  /\ invocation[w] = Free
  /\ invocation' = [invocation EXCEPT ![w] =
       [h |-> h, s |-> s, st |-> st, list |-> active,
        io |-> io, fresh |-> fresh, calls |-> calls]]

\* The invocation is past its wait and runs handler h.
Ready(w, h) == invocation[w].h = h /\ invocation[w].io \in {"none", "ok"}

Return(w) == invocation' = [invocation EXCEPT ![w] = Free]

\* The handler calls a helper that waits again (registry, context engine).
Continue(w, h) ==
  invocation' = [invocation EXCEPT ![w].h = h, ![w].io = "none", ![w].list = active']

\* What KV may hold after v was written over old; the write's error, here,
\* is only logged.
Written(old, v) == IF "kv" \in Faults THEN {old, v} ELSE {v}

\* register_active_session / unregister_active_session: read, modify, write.
RegisterForgotten(c) == UNCHANGED active
Register(c) ==
  active' \in IF c.s \in c.list THEN {active} ELSE Written(active, c.list \cup {c.s})
Unregister(c) ==
  active' \in IF c.s \in c.list THEN Written(active, c.list \ {c.s}) ELSE {active}

\* TurnState::save with a new phase timestamp.
Save(s, st, ok) ==
  /\ turn' = IF ok THEN [turn EXCEPT ![s] = st] ELSE turn
  /\ late' = IF ok THEN late \ {s} ELSE late

\* set_phase(Idle), then save.
SaveIdleForgotten(c, st, ok) == Unregister(c) /\ UNCHANGED <<turn, late>>
SaveIdle(c, st, ok) == Unregister(c) /\ Save(c.s, st, ok)

\* cleanup_inflight_mappings.
CleanupRequestOnly(st) == req2sess' = Without(req2sess, {st.req}) /\ UNCHANGED call2sess
Cleanup(st) ==
  /\ req2sess' = Without(req2sess, {st.req})
  /\ call2sess' = Without(call2sess, Calls(st))

\* Publish a terminal agent.v1.response for the turn st is in.
Final(st, ok) ==
  finals' = IF ok /\ st.comp # 0
              THEN [finals EXCEPT ![st.comp] = IF @ < 2 THEN @ + 1 ELSE 2] ELSE finals

InTurn(s) == turn[s].phase # "Idle"

-----------------------------------------------------------------------------
(* Interceptors, up to their first wait.                                   *)

\* handle_user_prompt: the user message is appended to the session first.
UserPrompt(w, s) ==
  /\ nextId <= MaxId
  /\ Begin(w, "prompt", s, turn[s], "wait", nextId, {})
  /\ nextId' = nextId + 1
  /\ UNCHANGED <<kv, reloaded, outside, ghosts>>

\* handle_cancel; without a turn in progress it does nothing.
CancelTurn(w, s) ==
  /\ InTurn(s)
  /\ Begin(w, "cancel", s, turn[s], "none", 0, {})
  /\ UNCHANGED <<kv, reloaded, outside, nextId, ghosts>>

\* handle_session_clear: the session capsule is asked for a successor.
SessionClear(w, s) ==
  /\ "clear" \in Interrupts
  /\ Begin(w, "clear", s, FreshTurn, "wait", 0, {})
  /\ UNCHANGED <<kv, reloaded, outside, nextId, ghosts>>

\* handle_watchdog_tick, for one session of the list it loaded.
WatchdogTick(w, s) ==
  /\ s \in active /\ InTurn(s) /\ s \in late
  /\ Begin(w, "expire", s, turn[s], "none", 0, {})
  /\ UNCHANGED <<kv, reloaded, outside, nextId, ghosts>>

\* handle_bus_lag, for one session of the list it loaded.
BusLag(w, s) ==
  /\ s \in active /\ turn[s].phase \in {"Streaming", "AwaitingTools"}
  /\ Begin(w, "lag", s, turn[s], "none", 0, {})
  /\ UNCHANGED <<kv, reloaded, outside, nextId, ghosts>>

Expected(m) == IF m.kind = "identity" THEN "AwaitingIdentity" ELSE "AwaitingPromptBuild"

\* orchestration_reply_is_stale.
AcceptAnyReply(m) == FALSE
ReplyIsStale(m) == InTurn(m.s) /\ turn[m.s].req # m.id

\* handle_identity_response / handle_prompt_response, reply out of time.
ReplyTooLate(w, m) ==
  /\ m \in replies /\ InTurn(m.s) /\ ~ReplyIsStale(m) /\ m.s \in late
  /\ Begin(w, "expire", m.s, turn[m.s], "none", 0, {})
  /\ replies' \in Consumed(replies, m, "reply")
  /\ UNCHANGED <<kv, reloaded, jobs, history, nextId, ghosts>>

\* What a bounced reply leaves on the bus: one retry more, within the budget.
BouncedForever(m) == {[m EXCEPT !.retry = @ + 1]}
BouncedUncounted(m) == {m}
Bounced(m) == IF m.retry < MaxRetry THEN {[m EXCEPT !.retry = @ + 1]} ELSE {}

\* redrive_if_unready: an Idle turn bounces the reply through the bus.
Redrive(w, m) ==
  /\ m \in replies /\ ~InTurn(m.s)
  /\ invocation[w] = Free
  /\ replies' = (replies \ {m}) \cup Bounced(m)
  /\ UNCHANGED <<kv, invocation, reloaded, jobs, history, nextId, ghosts>>

\* A stale reply, or one for a phase the turn has left, is dropped.
DropReply(w, m) ==
  /\ m \in replies /\ InTurn(m.s)
  /\ ReplyIsStale(m) \/ (m.s \notin late /\ turn[m.s].phase # Expected(m))
  /\ invocation[w] = Free
  /\ replies' = replies \ {m}
  /\ UNCHANGED <<kv, invocation, reloaded, jobs, history, nextId, ghosts>>

\* handle_identity_response: history is fetched before the state is saved.
IdentityResponse(w, m) ==
  /\ m \in replies /\ m.kind = "identity" /\ InTurn(m.s)
  /\ ~ReplyIsStale(m) /\ m.s \notin late /\ turn[m.s].phase = Expected(m)
  /\ Begin(w, "identity", m.s,
           [turn[m.s] EXCEPT !.phase = "AwaitingPromptBuild", !.sys = m.id], "wait", 0, {})
  /\ replies' \in Consumed(replies, m, "reply")
  /\ UNCHANGED <<kv, reloaded, jobs, history, nextId, ghosts>>

\* handle_prompt_response.
PromptResponse(w, m) ==
  /\ m \in replies /\ m.kind = "prompt" /\ InTurn(m.s)
  /\ ~ReplyIsStale(m) /\ m.s \notin late /\ turn[m.s].phase = Expected(m)
  /\ Begin(w, "generate", m.s,
           [turn[m.s] EXCEPT !.phase = "Streaming", !.sys = m.id], "none", 0, {})
  /\ replies' \in Consumed(replies, m, "reply")
  /\ UNCHANGED <<kv, reloaded, jobs, history, nextId, ghosts>>

\* handle_llm_stream: an event of request i, which a provider may send at
\* any time once the request is published, finds its session s still
\* streaming i.  An event of an unknown request changes nothing.
StreamOf(s, i) ==
  req2sess[i] = s /\ s \notin late
  /\ turn[s].phase = "Streaming" /\ turn[s].req = i

\* ... its turn is out of time.
StreamTooLate(w, s, i) ==
  /\ req2sess[i] = s /\ InTurn(s) /\ s \in late
  /\ Begin(w, "expire", s, turn[s], "none", 0, {})
  /\ UNCHANGED <<kv, reloaded, outside, nextId, ghosts>>

\* StreamEvent::TextDelta.  An empty one, like the events that only fill in
\* a tool call's arguments or report usage, restarts the phase timer alone.
TextDelta(w, s, i) ==
  /\ StreamOf(s, i)
  /\ \E text \in {turn[s].text, TRUE} :
       Begin(w, "delta", s, [turn[s] EXCEPT !.text = text], "none", 0, {})
  /\ UNCHANGED <<kv, reloaded, outside, nextId, ghosts>>

\* Nothing in the system still refers to call c.
Unused(c) ==
  /\ call2sess[c] = None
  /\ \A j \in jobs : j.call # c
  /\ \A s \in Session : InTurn(s) =>
       c \notin Calls(turn[s]) \cup {turn[s].pending[k] : k \in DOMAIN turn[s].pending}

\* StreamEvent::ToolCallStart.
ToolCallStart(w, s, i, c) ==
  /\ StreamOf(s, i)
  /\ Len(turn[s].pending) < MaxTools
  /\ ReuseCalls \/ Unused(c)
  /\ Begin(w, "delta", s, [turn[s] EXCEPT !.pending = Append(@, c)], "none", 0, {})
  /\ UNCHANGED <<kv, reloaded, outside, nextId, ghosts>>

\* StreamEvent::Done: handle_stream_done first forgets the request.
StreamDone(w, s, i) ==
  /\ StreamOf(s, i)
  /\ LET st == turn[s]
         h  == IF st.pending # <<>> THEN "dispatch" ELSE IF st.text THEN "answer" ELSE "empty"
     IN  Begin(w, h, s, st, IF h = "answer" THEN "wait" ELSE "none", 0, {})
  /\ req2sess' = Without(req2sess, {i})
  /\ UNCHANGED <<turn, late, active, call2sess, reloaded, replies, jobs, history, nextId, ghosts>>

\* StreamEvent::Error.
StreamError(w, s, i) ==
  /\ StreamOf(s, i)
  /\ Begin(w, "abort", s, turn[s], "none", 0, {})
  /\ UNCHANGED <<kv, reloaded, replies, jobs, history, nextId, ghosts>>

\* The dispatched calls with j's id; the first one takes the result.
Matching(st, j) == {k \in DOMAIN st.dispatched : st.dispatched[k].call = j.call}
First(ks) == CHOOSE k \in ks : \A l \in ks : k <= l

\* The call was dispatched by another request than the turn's current one.
Mismatched(st, j) ==
  Matching(st, j) # {} /\ st.dispatched[First(Matching(st, j))].rid # st.req

Recorded(st, j) ==
  IF Matching(st, j) = {} THEN st
  ELSE [st EXCEPT !.dispatched[First(Matching(st, j))].from = j.id]

AllDone(st) ==
  st.dispatched # <<>> /\ \A k \in DOMAIN st.dispatched : st.dispatched[k].from # 0

\* The iteration this round would complete is one too many.
AtLimitOneLate(st) == st.iter >= MaxIterations
AtLimit(st) == st.iter + 1 >= MaxIterations

\* handle_tool_result, its turn out of time.
ResultTooLate(w, s, j) ==
  /\ j \in jobs /\ call2sess[j.call] = s /\ InTurn(s) /\ s \in late
  /\ Begin(w, "expire", s, turn[s], "none", 0, {})
  /\ jobs' \in Consumed(jobs, j, "result")
  /\ UNCHANGED <<kv, reloaded, replies, history, nextId, ghosts>>

\* handle_tool_result: record, and when every call has its result stop at
\* the iteration bound or append the round to the session.
ToolResult(w, s, j) ==
  /\ j \in jobs /\ call2sess[j.call] = s /\ s \notin late
  /\ turn[s].phase = "AwaitingTools" /\ ~Mismatched(turn[s], j)
  /\ jobs' \in Consumed(jobs, j, "result")
  /\ LET st == Recorded(turn[s], j)
     IN  \/ /\ ~AllDone(st)
            /\ Begin(w, "record", s, st, "none", 0, {})
            /\ UNCHANGED nextId
         \/ /\ AllDone(st) /\ AtLimit(st)
            /\ Begin(w, "cap", s, st, "none", 0, Calls(st))
            /\ UNCHANGED nextId
         \/ /\ AllDone(st) /\ ~AtLimit(st)
            /\ nextId <= MaxId
            /\ Begin(w, "round", s,
                     [st EXCEPT !.phase = "Streaming", !.req = nextId, !.text = FALSE,
                                !.pending = <<>>, !.dispatched = <<>>, !.iter = @ + 1],
                     "wait", 0, Calls(st))
            /\ nextId' = nextId + 1
  /\ UNCHANGED <<kv, reloaded, replies, history, ghosts>>

-----------------------------------------------------------------------------
(* The session capsule, as react calls it: append and read are one atomic  *)
(* operation; its reply can miss react's deadline, applied or not.         *)

Appended(c) ==
  CASE c.h = "prompt" -> <<UserMessage(c.fresh)>>
    [] c.h = "round"  -> <<RoundMessage(c.st.comp, c.st.iter)>>
    [] c.h = "answer" -> <<[kind |-> "answer", turn |-> c.st.comp, round |-> c.st.iter]>>
    [] OTHER          -> <<>>

SessionReply(w) ==
  LET c == invocation[w]
  IN  /\ c.io = "wait"
      /\ history' = [history EXCEPT ![c.s] = @ \o Appended(c)]
      /\ invocation' = [invocation EXCEPT ![w].io = "ok", ![w].list = active]
      /\ UNCHANGED <<kv, reloaded, replies, jobs, nextId, ghosts>>

\* The `?' after the wait: the interceptor returns its error.
SessionFailed(w) ==
  LET c == invocation[w]
  IN  /\ "session" \in Faults /\ c.io = "wait"
      /\ history' \in {history, [history EXCEPT ![c.s] = @ \o Appended(c)]}
      /\ Return(w)
      /\ UNCHANGED <<kv, reloaded, replies, jobs, nextId, ghosts>>

-----------------------------------------------------------------------------
(* Interceptors, after their waits.                                        *)

\* handle_user_prompt: interrupt the turn in progress, open the new one.
FinishPrompt(w) ==
  LET c  == invocation[w]
      st == [FreshTurn EXCEPT !.phase = "AwaitingIdentity",
                              !.req = c.fresh, !.comp = c.fresh]
  IN  /\ Ready(w, "prompt")
      /\ IF c.st.phase = "Idle" THEN UNCHANGED <<req2sess, call2sess>> ELSE Cleanup(c.st)
      /\ Register(c)
      /\ \E saved \in Outcome("kv"), sent \in Outcome("publish") :
           /\ Save(c.s, st, saved)
           /\ owner' = IF saved THEN [owner EXCEPT ![c.fresh] = c.s] ELSE owner
           /\ replies' = IF saved /\ sent
                THEN replies \cup {[kind |-> "identity", s |-> c.s, id |-> c.fresh, retry |-> 0]}
                ELSE replies
      /\ Return(w)
      /\ UNCHANGED <<reloaded, jobs, history, nextId, finals>>

\* The interceptor saves its state; what follows it depends on the handler.
SaveAnd(w, h, next, calls) ==
  LET c == invocation[w]
  IN  /\ Ready(w, h)
      /\ \E saved \in Outcome("kv") :
           /\ Save(c.s, c.st, saved)
           /\ call2sess' = IF saved THEN Without(call2sess, calls) ELSE call2sess
           /\ UNCHANGED active
           /\ IF saved /\ next # "return" THEN Continue(w, next) ELSE Return(w)
      /\ UNCHANGED <<req2sess, reloaded, outside, nextId, ghosts>>

FinishIdentity(w) == SaveAnd(w, "identity", "assemble", {})
FinishGenerate(w) == SaveAnd(w, "generate", "ask", {})
FinishRound(w)    == SaveAnd(w, "round", "ask", invocation[w].calls)
FinishDelta(w)    == SaveAnd(w, "delta", "return", {})

\* A tool result that leaves others outstanding keeps the phase timestamp.
FinishRecord(w) ==
  LET c == invocation[w]
  IN  /\ Ready(w, "record")
      /\ \E saved \in Outcome("kv") :
           turn' = IF saved THEN [turn EXCEPT ![c.s] = c.st] ELSE turn
      /\ Return(w)
      /\ UNCHANGED <<late, active, req2sess, call2sess, reloaded, outside, nextId, ghosts>>

\* Report a terminal error (or, cancelled, nothing), clean up, go Idle.
Abort(w, told) ==
  LET c == invocation[w]
  IN  /\ Final(c.st, told)
      /\ Cleanup(c.st)
      /\ \E saved \in Outcome("kv") : SaveIdle(c, FreshTurn, saved)
      /\ Return(w)
      /\ UNCHANGED <<reloaded, outside, nextId, owner>>

FinishAbort(w) ==
  (Ready(w, "abort") \/ Ready(w, "lag")) /\ \E sent \in Outcome("publish") : Abort(w, sent)

FinishCancel(w) == Ready(w, "cancel") /\ Abort(w, FALSE)

\* No model selected: fail_no_model_selected.
NoModel(w) ==
  /\ Ready(w, "assemble") \/ Ready(w, "ask")
  /\ \E sent \in Outcome("publish") : Abort(w, sent)

\* handle_identity_response, the model known: ask the prompt builder.
FinishAssemble(w) ==
  LET c == invocation[w]
  IN  /\ Ready(w, "assemble")
      /\ \E sent \in Outcome("publish") :
           replies' = IF sent
             THEN replies \cup {[kind |-> "prompt", s |-> c.s, id |-> c.st.req, retry |-> 0]}
             ELSE replies
      /\ Return(w)
      /\ UNCHANGED <<kv, reloaded, jobs, history, nextId, ghosts>>

\* publish_llm_request, the model known: map the request and publish it; a
\* failure of either leaves no mapping.
FinishAsk(w) ==
  LET c == invocation[w]
  IN  /\ Ready(w, "ask")
      /\ \E asked \in Outcome("kv") \cup Outcome("publish") :
           req2sess' = [req2sess EXCEPT ![c.st.req] = IF asked THEN c.s ELSE None]
      /\ Return(w)
      /\ UNCHANGED <<turn, late, active, call2sess, reloaded, replies, jobs, history, nextId, ghosts>>

\* handle_stream_done with tool calls: map, save, publish one by one.
Dispatch(st) ==
  [st EXCEPT !.phase = "AwaitingTools", !.pending = <<>>,
             !.dispatched = [k \in DOMAIN st.pending |->
                               [call |-> st.pending[k], rid |-> st.req, from |-> 0]]]

Mapped(s, ids) == [k \in CallId |-> IF k \in ids THEN s ELSE call2sess[k]]

JobsOf(st, n) == {[call |-> st.pending[k], id |-> st.req] : k \in 1 .. n}

FinishDispatch(w) ==
  LET c   == invocation[w]
      n   == Len(c.st.pending)
      ids == {c.st.pending[k] : k \in 1 .. n}
  IN  /\ Ready(w, "dispatch")
      /\ \/ /\ call2sess' = Mapped(c.s, ids)
            /\ Save(c.s, Dispatch(c.st), TRUE)
            /\ jobs' = jobs \cup JobsOf(c.st, n)
            /\ UNCHANGED <<active, finals>>
         \/ \* publishing call k + 1 fails: the turn ends
            /\ "publish" \in Faults
            /\ \E k \in 0 .. n - 1, sent \in BOOLEAN, saved \in Outcome("kv") :
                 /\ jobs' = jobs \cup JobsOf(c.st, k)
                 /\ Final(c.st, sent)
                 /\ Unregister(c)
                 /\ turn' = [turn EXCEPT ![c.s] =
                      [Dispatch(c.st) EXCEPT !.phase = IF saved THEN "Idle" ELSE @]]
                 /\ late' = late \ {c.s}
            /\ call2sess' = Without(call2sess, ids)
         \/ \* the state cannot be saved
            /\ "kv" \in Faults
            /\ call2sess' = Without(call2sess, ids)
            /\ UNCHANGED <<turn, late, active, jobs, finals>>
         \/ \* the mapping of call k + 1 cannot be stored
            /\ "kv" \in Faults
            /\ \E k \in 0 .. n - 1 :
                 call2sess' = Mapped(c.s, {c.st.pending[l] : l \in 1 .. k})
            /\ UNCHANGED <<turn, late, active, jobs, finals>>
      /\ Return(w)
      /\ UNCHANGED <<req2sess, reloaded, replies, history, nextId, owner>>

\* handle_stream_done with text: deliver it, then go Idle without a reset.
FinishAnswer(w) ==
  LET c == invocation[w]
  IN  /\ Ready(w, "answer")
      /\ \E sent \in Outcome("publish"), saved \in Outcome("kv") :
           /\ Final(c.st, sent)
           /\ IF sent THEN SaveIdle(c, [c.st EXCEPT !.phase = "Idle"], saved)
                      ELSE UNCHANGED <<turn, late, active>>
      /\ Return(w)
      /\ UNCHANGED <<req2sess, call2sess, reloaded, outside, nextId, owner>>

\* handle_stream_done with neither: Idle, and no terminal response.
FinishEmpty(w) ==
  LET c == invocation[w]
  IN  /\ Ready(w, "empty")
      /\ \E saved \in Outcome("kv") : SaveIdle(c, [c.st EXCEPT !.phase = "Idle"], saved)
      /\ Return(w)
      /\ UNCHANGED <<req2sess, call2sess, reloaded, outside, nextId, ghosts>>

\* handle_tool_result at the iteration bound.
FinishCap(w) ==
  LET c == invocation[w]
  IN  /\ Ready(w, "cap")
      /\ \E sent \in Outcome("publish"), saved \in Outcome("kv") :
           /\ Final(c.st, sent)
           /\ SaveIdle(c, FreshTurn, saved)
           /\ call2sess' = IF saved THEN Without(call2sess, c.calls) ELSE call2sess
      /\ Return(w)
      /\ UNCHANGED <<req2sess, reloaded, outside, nextId, owner>>

\* check_timeout_with_cleanup: the mappings go only once the reset is saved.
FinishExpire(w) ==
  LET c == invocation[w]
  IN  /\ Ready(w, "expire")
      /\ \E sent \in Outcome("publish"), saved \in Outcome("kv") :
           /\ Final(c.st, sent)
           /\ SaveIdle(c, FreshTurn, saved)
           /\ IF saved THEN Cleanup(c.st) ELSE UNCHANGED <<req2sess, call2sess>>
      /\ Return(w)
      /\ UNCHANGED <<reloaded, outside, nextId, owner>>

\* handle_session_clear: the old turn's key goes.  The successor's key is
\* written with the value a missing key reads as.
FinishClear(w) ==
  LET c == invocation[w]
  IN  /\ Ready(w, "clear")
      /\ turn' = [turn EXCEPT ![c.s] = FreshTurn]
      /\ late' = late \ {c.s}
      /\ Unregister(c)
      /\ Return(w)
      /\ UNCHANGED <<req2sess, call2sess, reloaded, outside, nextId, ghosts>>

-----------------------------------------------------------------------------
(* The kernel, the clock and the bus.                                      *)

\* The capsule is reloaded: invocations in progress are gone.
Reload ==
  /\ "reload" \in Interrupts /\ ~reloaded
  /\ reloaded' = TRUE
  /\ invocation' = [w \in Worker |-> Free]
  /\ UNCHANGED <<kv, outside, nextId, ghosts>>

\* handle_lifecycle_restart: clear_ephemeral_keys.
LifecycleRestart(w) ==
  /\ reloaded /\ invocation[w] = Free
  /\ reloaded' = FALSE
  /\ turn' = [s \in Session |-> FreshTurn]
  /\ late' = {}
  /\ active' = {}
  /\ req2sess' = [i \in Id |-> None]
  /\ call2sess' = [c \in CallId |-> None]
  /\ UNCHANGED <<invocation, outside, nextId, ghosts>>

\* The phase's timeout passes.
Age(s) ==
  /\ InTurn(s) /\ s \notin late
  /\ late' = late \cup {s}
  /\ UNCHANGED <<turn, active, req2sess, call2sess, invocation, reloaded, outside, nextId, ghosts>>

\* A message is lost, or the component that owes it never sends it.
Lose ==
  /\ \/ \E m \in replies : replies' = replies \ {m} /\ UNCHANGED jobs
     \/ \E j \in jobs : jobs' = jobs \ {j} /\ UNCHANGED replies
  /\ UNCHANGED <<kv, invocation, reloaded, history, nextId, ghosts>>

-----------------------------------------------------------------------------

Start(w) ==
  \/ \E s \in Session :
       \/ UserPrompt(w, s) \/ CancelTurn(w, s) \/ SessionClear(w, s)
       \/ WatchdogTick(w, s) \/ BusLag(w, s)
       \/ \E i \in Id :
            \/ StreamTooLate(w, s, i) \/ TextDelta(w, s, i)
            \/ StreamDone(w, s, i) \/ StreamError(w, s, i)
            \/ \E c \in CallId : ToolCallStart(w, s, i, c)
       \/ \E j \in jobs : ResultTooLate(w, s, j) \/ ToolResult(w, s, j)
  \/ \E m \in replies :
       \/ ReplyTooLate(w, m) \/ Redrive(w, m) \/ DropReply(w, m)
       \/ IdentityResponse(w, m) \/ PromptResponse(w, m)
  \/ LifecycleRestart(w)

Resume(w) ==
  \/ SessionReply(w) \/ SessionFailed(w)
  \/ FinishPrompt(w) \/ FinishIdentity(w) \/ FinishAssemble(w) \/ FinishGenerate(w)
  \/ FinishAsk(w) \/ NoModel(w) \/ FinishDelta(w) \/ FinishDispatch(w)
  \/ FinishAnswer(w) \/ FinishEmpty(w) \/ FinishAbort(w) \/ FinishCancel(w)
  \/ FinishExpire(w) \/ FinishRecord(w) \/ FinishCap(w) \/ FinishRound(w)
  \/ FinishClear(w)

Next ==
  \/ \E w \in Worker : Start(w) \/ Resume(w)
  \/ \E s \in Session : Age(s)
  \/ Reload
  \/ Lose

Spec == Init /\ [][Next]_vars

\* The kernel keeps ticking the watchdog and delivers the events it has
\* queued, the clock advances, an interceptor that was started goes on to its
\* end (the session capsule's answer or the deadline ends its wait), and a
\* reload is followed by its restart event.  Users, providers, tools and the
\* other capsules need not ever do anything.
Fairness ==
  /\ \A w \in Worker : WF_vars(Resume(w)) /\ SF_vars(LifecycleRestart(w))
  /\ \A s \in Session : WF_vars(Age(s)) /\ SF_vars(\E w \in Worker : WatchdogTick(w, s))
  /\ SF_vars(\E w \in Worker, m \in replies :
                ReplyTooLate(w, m) \/ Redrive(w, m) \/ DropReply(w, m)
                \/ IdentityResponse(w, m) \/ PromptResponse(w, m))

FairSpec == Spec /\ Fairness

\* The turn lifecycle the frontend sees: turn i is open while its session's
\* saved state carries it.
Status(i) ==
  IF owner[i] = None THEN "none"
  ELSE IF InTurn(owner[i]) /\ turn[owner[i]].comp = i THEN "open" ELSE "closed"

Lifecycle == INSTANCE AgentTurn WITH Turn <- Id, status <- [i \in Id |-> Status(i)]

-----------------------------------------------------------------------------
(* Properties.                                                             *)

\* Every session in the middle of a turn is in the list the watchdog walks:
\* a turn whose reply, stream or tool result is lost is always timed out.
WatchdogCoversTurns == \A s \in Session : InTurn(s) => s \in active

\* A conversation turn gets at most one terminal response, whatever was
\* late, lost, repeated or interrupted.
AtMostOneFinal == \A i \in Id : finals[i] <= 1

\* The system prompt and tool set a turn runs on were assembled for that
\* turn, never for a cancelled or superseded turn of the same session.
OwnPrompt ==
  \A s \in Session :
    turn[s].phase \in {"AwaitingPromptBuild", "Streaming", "AwaitingTools"} =>
      turn[s].sys = turn[s].comp

\* Correlation keys do not leak: a request id is mapped only while its
\* generation is awaited, a call id only while its result is.
MappingsOwned ==
  /\ \A i \in Id : req2sess[i] # None =>
       turn[req2sess[i]].phase = "Streaming" /\ turn[req2sess[i]].req = i
  /\ \A c \in CallId : call2sess[c] # None =>
       turn[call2sess[c]].phase = "AwaitingTools" /\ c \in Calls(turn[call2sess[c]])

\* A transcript is well formed: no message of a turn that was admitted lands
\* after a message of a later turn, each turn is opened by its user message, an
\* answer ends it, and its rounds of tool calls, fewer than MaxIterations, are
\* there in order and none is missing.  One may be there twice: when the reply
\* of the append is lost, the next result appends the round again.
TranscriptWellFormed ==
  \A s \in Session :
    LET h        == history[s]
        admitted == {k \in DOMAIN h : owner[h[k].turn] # None}
    IN  /\ \A k, l \in admitted : k < l =>
             \/ h[k].turn < h[l].turn
             \/ /\ h[k].turn = h[l].turn /\ h[k].round <= h[l].round
                /\ h[k].kind # "answer" /\ h[l].kind # "user"
        /\ \A l \in admitted :
             /\ h[l].round < MaxIterations
             /\ \E k \in 1 .. l : h[k] = UserMessage(h[l].turn)
             /\ \A n \in 1 .. h[l].round : \E k \in 1 .. l : h[k] = RoundMessage(h[l].turn, n)

\* The coordinator implements the turn lifecycle, its safety part ...
ImplementsLifecycle == Lifecycle!Spec

\* Text deltas restart the phase timer, so a turn lasts as long as its
\* provider keeps streaming: assume it stops some day.
FiniteStreams ==
  <>[][\A w \in Worker, s \in Session, i \in Id : ~TextDelta(w, s, i)]_vars

\* ... and, the watchdog ticking, its promise that every turn ends.
EveryTurnEnds == FiniteStreams => Lifecycle!EveryTurnCloses

\* An orchestration reply that finds no turn is not bounced forever.
RepliesSettle == \A i \in Id : <>[](\A m \in replies : m.id # i)
=============================================================================
