-------------------------- MODULE ReactLoopProofs --------------------------
(***************************************************************************)
(* Theorems about the ReAct coordinator, for every value of the constants. *)
(***************************************************************************)
EXTENDS ReactLoop, TLAPS, SequenceTheorems

-----------------------------------------------------------------------------
(* The inductive invariant behind type correctness and OwnPrompt.  Several *)
(* workers hold copies of turns that are saved later, so what holds of a   *)
(* saved turn must hold of every copy.                                     *)

\* While the prompt is put together the turn has one request, the one that
\* names it; from then on its prompt is the one made for that name.
PromptMatches(t) ==
  /\ t.phase \in {"AwaitingIdentity", "AwaitingPromptBuild"} => t.comp = t.req
  /\ t.phase \in {"AwaitingPromptBuild", "Streaming", "AwaitingTools"} => t.sys = t.comp

GoodTurn(t) ==
  /\ t \in Turn
  /\ t.phase # "Idle" => t.req \in Id
  /\ PromptMatches(t)

\* An interceptor past its guard has a session, and all but a prompt's and a
\* clear's have found that session in a turn, a dispatch's in a stream.
GoodInvocation(c) ==
  /\ c \in Invocation
  /\ GoodTurn(c.st)
  /\ c.h # "free" => c.s \in Session
  /\ c.h = "prompt" => c.fresh \in Id
  /\ c.h \notin {"free", "prompt", "clear"} => c.st.phase # "Idle"
  /\ c.h = "dispatch" => c.st.phase = "Streaming"

TurnsGood == turn \in [Session -> Turn] /\ \A s \in Session : GoodTurn(turn[s])

InvocationsGood ==
  /\ invocation \in [Worker -> Invocation]
  /\ \A w \in Worker : GoodInvocation(invocation[w])

KeysTyped ==
  /\ late \subseteq Session
  /\ active \subseteq Session
  /\ req2sess \in [Id -> Session \cup {None}]
  /\ call2sess \in [CallId -> Session \cup {None}]

OutsideTyped ==
  /\ replies \subseteq Reply
  /\ jobs \subseteq Job
  /\ history \in [Session -> Seq(Entry)]

CountersTyped ==
  /\ reloaded \in BOOLEAN
  /\ nextId \in 1 .. MaxId + 1
  /\ owner \in [Id -> Session \cup {None}]
  /\ finals \in [Id -> 0 .. 2]

IInv == TurnsGood /\ InvocationsGood /\ KeysTyped /\ OutsideTyped /\ CountersTyped

-----------------------------------------------------------------------------
(* Lemmas about the data.                                                  *)

\* The turn of a missing key is a good one.
LEMMA FreshTurnGood == GoodTurn(FreshTurn)
<1>1. <<>> \in Seq(CallId) /\ <<>> \in Seq(Dispatched)
  BY EmptySeq
<1> QED
  BY <1>1, ConstantsAssumption DEF FreshTurn, GoodTurn, PromptMatches, Turn, Phase, IdOr0, Id

\* The turn a prompt opens.
LEMMA OpenedTurnGood ==
  ASSUME NEW i \in Id
  PROVE  GoodTurn([FreshTurn EXCEPT !.phase = "AwaitingIdentity", !.req = i, !.comp = i])
<1>1. FreshTurn \in Turn /\ i \in IdOr0
  BY FreshTurnGood, ConstantsAssumption DEF GoodTurn, Id, IdOr0
<1> QED
  BY <1>1 DEF GoodTurn, PromptMatches, Turn, Phase

\* A released worker holds nothing that could go wrong.
LEMMA FreeGood == Free \in Invocation /\ GoodInvocation(Free)
  BY FreshTurnGood, ConstantsAssumption
     DEF Free, GoodInvocation, GoodTurn, Invocation, Handler, IdOr0

\* The call ids of a turn are call ids.
LEMMA CallsTyped == ASSUME NEW st \in Turn PROVE Calls(st) \subseteq CallId
<1> SUFFICES ASSUME NEW i \in DOMAIN st.dispatched
             PROVE  st.dispatched[i].call \in CallId
  BY DEF Calls
<1>1. st.dispatched \in Seq(Dispatched)
  BY DEF Turn
<1>2. st.dispatched[i] \in Dispatched
  BY <1>1, LenProperties, ElementOfSeq
<1> QED
  BY <1>2 DEF Dispatched

\* Recording a result changes nothing but the dispatched list.
LEMMA RecordedGood ==
  ASSUME NEW st, GoodTurn(st), NEW j \in Job
  PROVE  /\ GoodTurn(Recorded(st, j))
         /\ Recorded(st, j).phase = st.phase
<1> DEFINE k == First(Matching(st, j))
           d == [st.dispatched EXCEPT ![k].from = j.id]
<1>1. st \in Turn /\ st.dispatched \in Seq(Dispatched)
  BY DEF GoodTurn, Turn
<1>2. CASE Matching(st, j) = {}
  BY <1>2 DEF Recorded
<1>3. CASE Matching(st, j) # {}
  <2>1. d \in Seq(Dispatched)
    <3>1. CASE k \in 1 .. Len(st.dispatched)
      <4>1. st.dispatched[k] \in Dispatched
        BY <1>1, <3>1, ElementOfSeq
      <4>2. [st.dispatched[k] EXCEPT !.from = j.id] \in Dispatched
        BY <4>1 DEF Dispatched, Job
      <4>3. d = [st.dispatched EXCEPT ![k] = [st.dispatched[k] EXCEPT !.from = j.id]]
        OBVIOUS
      <4> HIDE DEF k
      <4> QED
        BY <1>1, <3>1, <4>2, <4>3, ExceptSeq
    <3>2. CASE k \notin 1 .. Len(st.dispatched)
      <4>1. DOMAIN st.dispatched = 1 .. Len(st.dispatched) /\ st.dispatched \in [1 .. Len(st.dispatched) -> Dispatched]
        BY <1>1, LenProperties
      <4> HIDE DEF k
      <4>2. d = st.dispatched
        BY <3>2, <4>1
      <4> QED
        BY <1>1, <4>2
    <3> QED
      BY <3>1, <3>2
  <2>2. Recorded(st, j) = [st EXCEPT !.dispatched = d]
    BY <1>1, <1>3 DEF Recorded, Turn
  <2> HIDE DEF d
  <2> QED
    BY <1>1, <2>1, <2>2 DEF GoodTurn, PromptMatches, Turn
<1> QED
  BY <1>2, <1>3

\* The turn a dispatch saves.
LEMMA DispatchGood ==
  ASSUME NEW st, GoodTurn(st), st.phase = "Streaming"
  PROVE  GoodTurn(Dispatch(st))
<1> DEFINE d == [k \in DOMAIN st.pending |->
                   [call |-> st.pending[k], rid |-> st.req, from |-> 0]]
<1>1. st \in Turn /\ st.pending \in Seq(CallId)
  BY DEF GoodTurn, Turn
<1>2. DOMAIN st.pending = 1 .. Len(st.pending) /\ Len(st.pending) \in Nat
  BY <1>1, LenProperties
<1>3. d \in [1 .. Len(st.pending) -> Dispatched]
  <2>1. \A k \in 1 .. Len(st.pending) : st.pending[k] \in CallId
    BY <1>1, ElementOfSeq
  <2> QED
    BY <1>1, <1>2, <2>1, ConstantsAssumption DEF Turn, Dispatched, IdOr0
<1>4. d \in Seq(Dispatched)
  BY <1>2, <1>3, SeqDef
<1>5. <<>> \in Seq(CallId)
  BY EmptySeq
<1> HIDE DEF d
<1>6. Dispatch(st) = [st EXCEPT !.phase = "AwaitingTools", !.pending = <<>>, !.dispatched = d]
  BY DEF Dispatch, d
<1> QED
  BY <1>1, <1>4, <1>5, <1>6 DEF GoodTurn, PromptMatches, Turn, Phase

\* Aborting a dispatch that was under way leaves its list, in an Idle turn.
LEMMA AbortedDispatchGood ==
  ASSUME NEW st, GoodTurn(st), st.phase = "Streaming", NEW saved \in BOOLEAN
  PROVE  GoodTurn([Dispatch(st) EXCEPT !.phase = IF saved THEN "Idle" ELSE @])
  BY DispatchGood DEF GoodTurn, PromptMatches, Turn, Phase

-----------------------------------------------------------------------------
(* Lemmas about the helpers: what each leaves of the invariant.            *)

\* Starting an interceptor with a good turn.
LEMMA BeginGood ==
  ASSUME InvocationsGood, active \subseteq Session, NEW w \in Worker,
         NEW h \in Handler \ {"free"}, NEW s \in Session, NEW st, GoodTurn(st),
         NEW io \in {"none", "wait", "ok"}, NEW fresh \in IdOr0,
         NEW calls \in SUBSET CallId,
         h = "prompt" => fresh \in Id,
         h \notin {"prompt", "clear"} => st.phase # "Idle",
         h = "dispatch" => st.phase = "Streaming",
         Begin(w, h, s, st, io, fresh, calls)
  PROVE  InvocationsGood'
<1> DEFINE c == [h |-> h, s |-> s, st |-> st, list |-> active,
                 io |-> io, fresh |-> fresh, calls |-> calls]
<1>1. invocation' = [invocation EXCEPT ![w] = c]
  BY DEF Begin
<1>2. GoodInvocation(c)
  BY DEF GoodInvocation, Invocation, GoodTurn
<1>3. c \in Invocation
  BY <1>2 DEF GoodInvocation
<1> HIDE DEF c
<1> QED
  BY <1>1, <1>2, <1>3 DEF InvocationsGood

\* Starting an interceptor that found its session in a turn.
LEMMA BeginInTurnGood ==
  ASSUME InvocationsGood, active \subseteq Session, NEW w \in Worker,
         NEW h \in Handler \ {"free", "prompt", "clear"}, NEW s \in Session,
         NEW st, GoodTurn(st), st.phase # "Idle", NEW io \in {"none", "wait"},
         NEW calls \in SUBSET CallId, h = "dispatch" => st.phase = "Streaming",
         Begin(w, h, s, st, io, 0, calls)
  PROVE  InvocationsGood'
<1>1. 0 \in IdOr0
  BY ConstantsAssumption DEF IdOr0
<1> QED
  BY <1>1, BeginGood

\* The handlers that start in the middle of a turn.
LEMMA InTurnHandlers ==
  {"identity", "generate", "delta", "dispatch", "answer", "empty", "abort", "lag",
   "cancel", "expire", "record", "cap", "round"} \subseteq Handler \ {"free", "prompt", "clear"}
  BY DEF Handler

\* ... with no calls to remember.
LEMMA BeginPlainGood ==
  ASSUME InvocationsGood, active \subseteq Session, NEW w \in Worker,
         NEW h \in Handler \ {"free", "prompt", "clear"}, NEW s \in Session,
         NEW st, GoodTurn(st), st.phase # "Idle", NEW io \in {"none", "wait"},
         h = "dispatch" => st.phase = "Streaming",
         Begin(w, h, s, st, io, 0, {})
  PROVE  InvocationsGood'
<1>1. {} \in SUBSET CallId
  OBVIOUS
<1> QED
  BY <1>1, BeginInTurnGood

\* Releasing a worker.
LEMMA ReturnGood ==
  ASSUME InvocationsGood, NEW w \in Worker, Return(w)
  PROVE  InvocationsGood'
  BY FreeGood DEF InvocationsGood, Return

\* Going on with a later part of the same handler.
LEMMA ContinueGood ==
  ASSUME InvocationsGood, NEW w \in Worker, NEW h \in {"assemble", "ask"},
         active' \subseteq Session,
         invocation[w].h \in {"identity", "generate", "round"},
         Continue(w, h)
  PROVE  InvocationsGood'
<1> DEFINE c == [invocation[w] EXCEPT !.h = h, !.io = "none", !.list = active']
<1>1. invocation[w] \in Invocation /\ GoodInvocation(invocation[w])
  BY DEF InvocationsGood
<1>2. invocation' = [invocation EXCEPT ![w] = c]
  BY DEF Continue
<1>3. GoodInvocation(c) /\ c \in Invocation
  BY <1>1 DEF GoodInvocation, Invocation, Handler
<1> HIDE DEF c
<1> QED
  BY <1>2, <1>3 DEF InvocationsGood

\* Saving a good turn.
LEMMA SaveGood ==
  ASSUME TurnsGood, late \subseteq Session, NEW s \in Session, NEW st, GoodTurn(st),
         NEW ok \in BOOLEAN, Save(s, st, ok)
  PROVE  TurnsGood' /\ late' \subseteq Session
<1>1. st \in Turn
  BY DEF GoodTurn
<1> QED
  BY <1>1 DEF TurnsGood, Save

\* The active list stays a list of sessions.
LEMMA ListGood ==
  ASSUME active \subseteq Session, NEW c, c.s \in Session, c.list \subseteq Session,
         Register(c) \/ Unregister(c)
  PROVE  active' \subseteq Session
  BY DEF Register, Unregister, Written

\* Forgetting the mappings of a turn.
LEMMA CleanupGood ==
  ASSUME KeysTyped, NEW st, Cleanup(st)
  PROVE  /\ req2sess' \in [Id -> Session \cup {None}]
         /\ call2sess' \in [CallId -> Session \cup {None}]
  BY DEF KeysTyped, Cleanup, Without

\* Publishing a terminal response.
LEMMA FinalGood ==
  ASSUME finals \in [Id -> 0 .. 2], NEW st \in Turn, NEW ok \in BOOLEAN, Final(st, ok)
  PROVE  finals' \in [Id -> 0 .. 2]
<1>1. CASE ok /\ st.comp # 0
  <2>1. st.comp \in Id
    BY <1>1, ConstantsAssumption DEF Turn, Id, IdOr0
  <2>2. finals[st.comp] \in 0 .. 2
    BY <2>1
  <2>3. (IF finals[st.comp] < 2 THEN finals[st.comp] + 1 ELSE 2) \in 0 .. 2
    BY <2>2
  <2> QED
    BY <1>1, <2>3 DEF Final
<1>2. CASE ~(ok /\ st.comp # 0)
  BY <1>2 DEF Final
<1> QED
  BY <1>1, <1>2

-----------------------------------------------------------------------------
(* The invariant is inductive.                                             *)

\* Before the first event nothing is stored and no worker is busy.
LEMMA InitGood == Init => IInv
<1> SUFFICES ASSUME Init PROVE IInv
  OBVIOUS
<1>1. TurnsGood
  BY FreshTurnGood DEF Init, TurnsGood, GoodTurn
<1>2. InvocationsGood
  BY FreeGood DEF Init, InvocationsGood
<1>3. KeysTyped
  BY DEF Init, KeysTyped
<1>4. <<>> \in Seq(Entry)
  BY EmptySeq
<1>5. OutsideTyped
  BY <1>4 DEF Init, OutsideTyped
<1>6. nextId \in 1 .. MaxId + 1 /\ finals \in [Id -> 0 .. 2]
  BY ConstantsAssumption DEF Init
<1>7. owner \in [Id -> Session \cup {None}] /\ reloaded \in BOOLEAN
  BY DEF Init
<1> QED
  BY <1>1, <1>2, <1>3, <1>5, <1>6, <1>7 DEF IInv, CountersTyped

\* Interceptors of the frontends' and the kernel's events.
LEMMA StartedByEventGood ==
  ASSUME IInv, NEW w \in Worker, NEW s \in Session,
         UserPrompt(w, s) \/ CancelTurn(w, s) \/ SessionClear(w, s)
         \/ WatchdogTick(w, s) \/ BusLag(w, s)
  PROVE  IInv'
<1>0. GoodTurn(turn[s]) /\ InvocationsGood /\ active \subseteq Session
  BY DEF IInv, TurnsGood, KeysTyped
<1>1. ASSUME UNCHANGED <<kv, reloaded, outside, ghosts>>, nextId' \in 1 .. MaxId + 1,
             InvocationsGood'
      PROVE  IInv'
  BY <1>1 DEF IInv, TurnsGood, KeysTyped, OutsideTyped, CountersTyped, kv, outside, ghosts
<1>2. CASE UserPrompt(w, s)
  <2>1. Begin(w, "prompt", s, turn[s], "wait", nextId, {}) /\ nextId' = nextId + 1
        /\ UNCHANGED <<kv, reloaded, outside, ghosts>>
    BY <1>2 DEF UserPrompt
  <2>2. nextId \in Id /\ nextId \in IdOr0 /\ nextId + 1 \in 1 .. MaxId + 1
    BY <1>2, ConstantsAssumption DEF UserPrompt, IInv, CountersTyped, Id, IdOr0
  <2>3. InvocationsGood'
    BY <1>0, <2>1, <2>2, BeginGood DEF Handler
  <2> QED
    BY <1>1, <2>1, <2>2, <2>3
<1>3. CASE SessionClear(w, s)
  <2>1. Begin(w, "clear", s, FreshTurn, "wait", 0, {})
    BY <1>3 DEF SessionClear
  <2>2. 0 \in IdOr0
    BY ConstantsAssumption DEF IdOr0
  <2>3. InvocationsGood'
    BY <1>0, <2>1, <2>2, FreshTurnGood, BeginGood DEF Handler
  <2> QED
    BY <1>1, <1>3, <2>3 DEF SessionClear, IInv, CountersTyped
<1>4. CASE CancelTurn(w, s) \/ WatchdogTick(w, s) \/ BusLag(w, s)
  <2>1. \E h \in {"cancel", "expire", "lag"} : Begin(w, h, s, turn[s], "none", 0, {})
    BY <1>4 DEF CancelTurn, WatchdogTick, BusLag
  <2>2. turn[s].phase # "Idle"
    BY <1>4 DEF CancelTurn, WatchdogTick, BusLag, InTurn
  <2>3. InvocationsGood'
    BY <1>0, <2>1, <2>2, InTurnHandlers, BeginPlainGood
  <2> QED
    BY <1>1, <1>4, <2>3 DEF CancelTurn, WatchdogTick, BusLag, IInv, CountersTyped
<1> QED
  BY <1>2, <1>3, <1>4

\* Interceptors of orchestration replies.
LEMMA StartedByReplyGood ==
  ASSUME IInv, NEW w \in Worker, NEW m \in replies,
         ReplyTooLate(w, m) \/ Redrive(w, m) \/ DropReply(w, m)
         \/ IdentityResponse(w, m) \/ PromptResponse(w, m)
  PROVE  IInv'
<1> USE DEF IInv, KeysTyped, OutsideTyped, CountersTyped
<1>0. m \in Reply /\ m.s \in Session /\ m.id \in Id /\ GoodTurn(turn[m.s])
      /\ TurnsGood /\ InvocationsGood
  BY DEF TurnsGood, Reply
<1>1. ASSUME UNCHANGED <<kv, reloaded, jobs, history, nextId, ghosts>>,
             replies' \subseteq Reply, InvocationsGood'
      PROVE  IInv'
  BY <1>0, <1>1 DEF kv, ghosts, TurnsGood
<1>2. \A r \in Consumed(replies, m, "reply") : r \subseteq Reply
  BY DEF Consumed
<1>3. CASE ReplyTooLate(w, m)
  <2>1. Begin(w, "expire", m.s, turn[m.s], "none", 0, {}) /\ turn[m.s].phase # "Idle"
    BY <1>3 DEF ReplyTooLate, InTurn
  <2>2. InvocationsGood'
    BY <1>0, <2>1, InTurnHandlers, BeginPlainGood
  <2> QED
    BY <1>1, <1>2, <1>3, <2>2 DEF ReplyTooLate
<1>4. CASE Redrive(w, m)
  <2>1. m.retry + 1 \in 0 .. MaxRetry => [m EXCEPT !.retry = m.retry + 1] \in Reply
    BY <1>0 DEF Reply
  <2>2. m.retry \in 0 .. MaxRetry
    BY <1>0 DEF Reply
  <2>3. m.retry < MaxRetry => m.retry + 1 \in 0 .. MaxRetry
    BY <2>2, ConstantsAssumption
  <2>4. Bounced(m) \subseteq Reply
    BY <2>1, <2>3 DEF Bounced
  <2> QED
    BY <1>0, <1>1, <1>4, <2>4 DEF Redrive, InvocationsGood
<1>5. CASE DropReply(w, m)
  BY <1>0, <1>1, <1>5 DEF DropReply, InvocationsGood
<1>6. CASE IdentityResponse(w, m)
  <2> DEFINE st == [turn[m.s] EXCEPT !.phase = "AwaitingPromptBuild", !.sys = m.id]
  <2>1. Begin(w, "identity", m.s, st, "wait", 0, {})
        /\ turn[m.s].phase = "AwaitingIdentity" /\ turn[m.s].req = m.id
    BY <1>0, <1>6 DEF IdentityResponse, ReplyIsStale, Expected
  <2>2. GoodTurn(st) /\ st.phase # "Idle"
    BY <1>0, <2>1, ConstantsAssumption DEF GoodTurn, PromptMatches, Turn, Phase, IdOr0, Id
  <2> HIDE DEF st
  <2>3. InvocationsGood'
    BY <1>0, <2>1, <2>2, InTurnHandlers, BeginPlainGood
  <2> QED
    BY <1>1, <1>2, <1>6, <2>3 DEF IdentityResponse
<1>7. CASE PromptResponse(w, m)
  <2> DEFINE st == [turn[m.s] EXCEPT !.phase = "Streaming", !.sys = m.id]
  <2>1. Begin(w, "generate", m.s, st, "none", 0, {})
        /\ turn[m.s].phase = "AwaitingPromptBuild" /\ turn[m.s].req = m.id
    BY <1>0, <1>7 DEF PromptResponse, ReplyIsStale, Expected
  <2>2. GoodTurn(st) /\ st.phase # "Idle"
    BY <1>0, <2>1, ConstantsAssumption DEF GoodTurn, PromptMatches, Turn, Phase, IdOr0, Id
  <2> HIDE DEF st
  <2>3. InvocationsGood'
    BY <1>0, <2>1, <2>2, InTurnHandlers, BeginPlainGood
  <2> QED
    BY <1>1, <1>2, <1>7, <2>3 DEF PromptResponse
<1> QED
  BY <1>3, <1>4, <1>5, <1>6, <1>7

\* Interceptors of the provider's stream events.
LEMMA StartedByStreamGood ==
  ASSUME IInv, NEW w \in Worker, NEW s \in Session, NEW i \in Id,
         StreamTooLate(w, s, i) \/ TextDelta(w, s, i) \/ (\E c \in CallId : ToolCallStart(w, s, i, c))
         \/ StreamDone(w, s, i) \/ StreamError(w, s, i)
  PROVE  IInv'
<1>0. GoodTurn(turn[s]) /\ InvocationsGood /\ active \subseteq Session
  BY DEF IInv, TurnsGood, KeysTyped
<1>1. ASSUME UNCHANGED <<turn, late, active, call2sess, reloaded, outside, nextId, ghosts>>,
             req2sess' \in [Id -> Session \cup {None}], InvocationsGood'
      PROVE  IInv'
  BY <1>1 DEF IInv, TurnsGood, KeysTyped, OutsideTyped, CountersTyped, outside, ghosts
<1>2. req2sess \in [Id -> Session \cup {None}]
      /\ Without(req2sess, {i}) \in [Id -> Session \cup {None}]
  BY DEF IInv, KeysTyped, Without
<1>3. CASE StreamTooLate(w, s, i)
  <2>1. Begin(w, "expire", s, turn[s], "none", 0, {}) /\ turn[s].phase # "Idle"
    BY <1>3 DEF StreamTooLate, InTurn
  <2>2. InvocationsGood'
    BY <1>0, <2>1, InTurnHandlers, BeginPlainGood
  <2> QED
    BY <1>1, <1>2, <1>3, <2>2 DEF StreamTooLate, kv
<1>4. CASE TextDelta(w, s, i)
  <2>1. PICK text \in {turn[s].text, TRUE} :
          Begin(w, "delta", s, [turn[s] EXCEPT !.text = text], "none", 0, {})
    BY <1>4 DEF TextDelta
  <2>2. turn[s].phase = "Streaming"
    BY <1>4 DEF TextDelta, StreamOf
  <2> DEFINE st == [turn[s] EXCEPT !.text = text]
  <2>3. GoodTurn(st) /\ st.phase # "Idle"
    BY <1>0, <2>2 DEF GoodTurn, PromptMatches, Turn
  <2>5. Begin(w, "delta", s, st, "none", 0, {})
    BY <2>1
  <2> HIDE DEF st
  <2>4. InvocationsGood'
    BY <1>0, <2>5, <2>3, InTurnHandlers, BeginPlainGood
  <2> QED
    BY <1>1, <1>2, <1>4, <2>4 DEF TextDelta, kv
<1>5. ASSUME NEW c \in CallId, ToolCallStart(w, s, i, c) PROVE IInv'
  <2> DEFINE st == [turn[s] EXCEPT !.pending = Append(turn[s].pending, c)]
  <2>1. Begin(w, "delta", s, st, "none", 0, {}) /\ turn[s].phase = "Streaming"
    BY <1>5 DEF ToolCallStart, StreamOf
  <2>2. turn[s].pending \in Seq(CallId)
    BY <1>0 DEF GoodTurn, Turn
  <2>3. Append(turn[s].pending, c) \in Seq(CallId)
    BY <2>2, AppendProperties
  <2>4. GoodTurn(st) /\ st.phase # "Idle"
    BY <1>0, <2>1, <2>3 DEF GoodTurn, PromptMatches, Turn
  <2> HIDE DEF st
  <2>5. InvocationsGood'
    BY <1>0, <2>1, <2>4, InTurnHandlers, BeginPlainGood
  <2> QED
    BY <1>1, <1>2, <1>5, <2>5 DEF ToolCallStart, kv
<1>6. CASE StreamDone(w, s, i)
  <2>1. PICK h \in {"dispatch", "answer", "empty"}, io \in {"none", "wait"} :
          Begin(w, h, s, turn[s], io, 0, {})
    BY <1>6 DEF StreamDone
  <2>2. turn[s].phase = "Streaming"
    BY <1>6 DEF StreamDone, StreamOf
  <2>3. InvocationsGood'
    BY <1>0, <2>1, <2>2, InTurnHandlers, BeginPlainGood
  <2> QED
    BY <1>1, <1>2, <1>6, <2>3 DEF StreamDone, outside
<1>7. CASE StreamError(w, s, i)
  <2>1. Begin(w, "abort", s, turn[s], "none", 0, {}) /\ turn[s].phase # "Idle"
    BY <1>7 DEF StreamError, StreamOf
  <2>2. InvocationsGood'
    BY <1>0, <2>1, InTurnHandlers, BeginPlainGood
  <2> QED
    BY <1>1, <1>2, <1>7, <2>2 DEF StreamError, kv, outside
<1> QED
  BY <1>3, <1>4, <1>5, <1>6, <1>7

\* Interceptors of tool results.
LEMMA StartedByResultGood ==
  ASSUME IInv, NEW w \in Worker, NEW s \in Session, NEW j \in jobs,
         ResultTooLate(w, s, j) \/ ToolResult(w, s, j)
  PROVE  IInv'
<1>0. GoodTurn(turn[s]) /\ InvocationsGood /\ active \subseteq Session /\ j \in Job
  BY DEF IInv, TurnsGood, KeysTyped, OutsideTyped
<1>1. ASSUME UNCHANGED <<kv, reloaded, replies, history, ghosts>>, jobs' \subseteq Job,
             nextId' \in 1 .. MaxId + 1, InvocationsGood'
      PROVE  IInv'
  BY <1>1 DEF IInv, TurnsGood, KeysTyped, OutsideTyped, CountersTyped, kv, ghosts
<1>2. jobs \subseteq Job /\ \A r \in Consumed(jobs, j, "result") : r \subseteq Job
  BY DEF Consumed, IInv, OutsideTyped
<1>3. nextId \in 1 .. MaxId + 1
  BY DEF IInv, CountersTyped
<1>4. CASE ResultTooLate(w, s, j)
  <2>1. Begin(w, "expire", s, turn[s], "none", 0, {}) /\ turn[s].phase # "Idle"
    BY <1>4 DEF ResultTooLate, InTurn
  <2>2. InvocationsGood'
    BY <1>0, <2>1, InTurnHandlers, BeginPlainGood
  <2> QED
    BY <1>1, <1>2, <1>3, <1>4, <2>2 DEF ResultTooLate
<1>5. CASE ToolResult(w, s, j)
  <2> DEFINE st == Recorded(turn[s], j)
             next == [st EXCEPT !.phase = "Streaming", !.req = nextId, !.text = FALSE,
                                !.pending = <<>>, !.dispatched = <<>>, !.iter = @ + 1]
  <2>1. GoodTurn(st) /\ st.phase = "AwaitingTools"
    BY <1>0, <1>5, RecordedGood DEF ToolResult
  <2>2. Calls(st) \in SUBSET CallId
    BY <2>1, CallsTyped DEF GoodTurn
  <2> HIDE DEF st
  <2>3. \/ Begin(w, "record", s, st, "none", 0, {}) /\ nextId' = nextId
        \/ Begin(w, "cap", s, st, "none", 0, Calls(st)) /\ nextId' = nextId
        \/ Begin(w, "round", s, next, "wait", 0, Calls(st)) /\ nextId' = nextId + 1 /\ nextId <= MaxId
    BY <1>5 DEF ToolResult, st
  <2>4. nextId <= MaxId => nextId \in Id /\ nextId \in IdOr0 /\ nextId + 1 \in 1 .. MaxId + 1
    BY <1>3, ConstantsAssumption DEF Id, IdOr0
  <2>5. <<>> \in Seq(CallId) /\ <<>> \in Seq(Dispatched)
    BY EmptySeq
  <2>6. nextId <= MaxId => GoodTurn(next) /\ next.phase # "Idle"
    <3>1. st \in Turn /\ st.sys = st.comp /\ st.iter + 1 \in Nat
      BY <2>1 DEF GoodTurn, PromptMatches, Turn
    <3>2. nextId <= MaxId => next \in Turn
      BY <2>4, <2>5, <3>1 DEF Turn, Phase
    <3>3. next.phase = "Streaming" /\ next.req = nextId /\ next.sys = st.sys /\ next.comp = st.comp
      BY <3>1 DEF Turn
    <3> QED
      BY <2>4, <3>1, <3>2, <3>3 DEF GoodTurn, PromptMatches
  <2> HIDE DEF next
  <2>7. InvocationsGood'
    BY <1>0, <2>1, <2>2, <2>3, <2>6, InTurnHandlers, BeginInTurnGood
  <2>8. nextId' \in 1 .. MaxId + 1
    BY <1>3, <2>3, <2>4
  <2> QED
    BY <1>1, <1>2, <1>5, <2>7, <2>8 DEF ToolResult
<1> QED
  BY <1>4, <1>5

\* The restart event empties the keys.
LEMMA RestartGood ==
  ASSUME IInv, NEW w \in Worker, LifecycleRestart(w)
  PROVE  IInv'
<1>1. TurnsGood'
  BY FreshTurnGood DEF LifecycleRestart, TurnsGood, GoodTurn
<1>2. InvocationsGood'
  BY DEF IInv, LifecycleRestart, InvocationsGood
<1>3. KeysTyped'
  BY DEF LifecycleRestart, KeysTyped
<1> QED
  BY <1>1, <1>2, <1>3 DEF IInv, LifecycleRestart, OutsideTyped, CountersTyped, outside, ghosts

\* The kernel, the clock and the bus.
LEMMA SurroundingsGood ==
  ASSUME IInv, (\E s \in Session : Age(s)) \/ Reload \/ Lose
  PROVE  IInv'
<1>1. CASE \E s \in Session : Age(s)
  BY <1>1 DEF IInv, Age, TurnsGood, InvocationsGood, KeysTyped, OutsideTyped, CountersTyped,
              outside, ghosts
<1>2. CASE Reload
  <2>1. InvocationsGood'
    BY <1>2, FreeGood DEF Reload, InvocationsGood
  <2> QED
    BY <1>2, <2>1 DEF IInv, Reload, TurnsGood, KeysTyped, OutsideTyped, CountersTyped,
                      kv, outside, ghosts
<1>3. CASE Lose
  <2>1. replies' \subseteq Reply /\ jobs' \subseteq Job
    BY <1>3 DEF IInv, OutsideTyped, Lose
  <2> QED
    BY <1>3, <2>1 DEF IInv, Lose, TurnsGood, InvocationsGood, KeysTyped, OutsideTyped,
                      CountersTyped, kv, ghosts
<1> QED
  BY <1>1, <1>2, <1>3

-----------------------------------------------------------------------------
(* Interceptors after their waits.                                         *)

\* What is known of the invocation a worker is in the middle of.
LEMMA InvocationKnown ==
  ASSUME IInv, NEW w \in Worker, NEW c, c = invocation[w]
  PROVE  /\ GoodInvocation(c) /\ GoodTurn(c.st) /\ c.st \in Turn
         /\ c.list \subseteq Session /\ c.calls \subseteq CallId
         /\ c.h # "free" => c.s \in Session
         /\ TurnsGood /\ late \subseteq Session /\ active \subseteq Session
         /\ finals \in [Id -> 0 .. 2]
  BY DEF IInv, InvocationsGood, GoodInvocation, GoodTurn, Invocation, KeysTyped, CountersTyped

\* What an invocation adds to a transcript.
LEMMA AppendedTyped ==
  ASSUME NEW c, c \in Invocation
  PROVE  Appended(c) \in Seq(Entry)
<1>1. c.fresh \in IdOr0 /\ c.st.comp \in IdOr0 /\ c.st.iter \in Nat
  BY DEF Invocation, Turn
<1>2. \A e \in Entry : <<e>> \in Seq(Entry)
  OBVIOUS
<1>3. <<>> \in Seq(Entry)
  BY EmptySeq
<1>4. /\ UserMessage(c.fresh) \in Entry
      /\ RoundMessage(c.st.comp, c.st.iter) \in Entry
      /\ [kind |-> "answer", turn |-> c.st.comp, round |-> c.st.iter] \in Entry
  BY <1>1 DEF Entry, UserMessage, RoundMessage
<1> QED
  BY <1>2, <1>3, <1>4 DEF Appended

\* The session capsule answers, or fails to.
LEMMA SessionAnswerGood ==
  ASSUME IInv, NEW w \in Worker, SessionReply(w) \/ SessionFailed(w)
  PROVE  IInv'
<1> DEFINE c == invocation[w]
           H == [history EXCEPT ![c.s] = history[c.s] \o Appended(c)]
<1>1. GoodInvocation(c) /\ c \in Invocation /\ active \subseteq Session /\ InvocationsGood
  BY InvocationKnown DEF IInv, InvocationsGood
<1>2. H \in [Session -> Seq(Entry)]
  <2>1. Appended(c) \in Seq(Entry)
    BY <1>1, AppendedTyped
  <2>2. history \in [Session -> Seq(Entry)]
    BY DEF IInv, OutsideTyped
  <2>3. c.s \in Session => history[c.s] \o Appended(c) \in Seq(Entry)
    BY <2>1, <2>2, ConcatProperties
  <2> HIDE DEF c
  <2> QED
    BY <2>2, <2>3
<1>3. history' \in {history, H}
  BY DEF SessionReply, SessionFailed
<1>4. InvocationsGood'
  <2>1. CASE SessionReply(w)
    <3> DEFINE d == [c EXCEPT !.io = "ok", !.list = active]
    <3>1. invocation' = [invocation EXCEPT ![w] = d]
      BY <2>1 DEF SessionReply
    <3>2. GoodInvocation(d) /\ d \in Invocation
      BY <1>1 DEF GoodInvocation, Invocation
    <3> HIDE DEF d
    <3> QED
      BY <1>1, <3>1, <3>2 DEF InvocationsGood
  <2>2. CASE SessionFailed(w)
    BY <1>1, <2>2, ReturnGood DEF SessionFailed
  <2> QED
    BY <2>1, <2>2
<1> HIDE DEF H
<1> QED
  BY <1>2, <1>3, <1>4 DEF IInv, SessionReply, SessionFailed, TurnsGood, KeysTyped,
                          OutsideTyped, CountersTyped, kv, ghosts

\* handle_user_prompt, after its wait.
LEMMA PromptFinishGood ==
  ASSUME IInv, NEW w \in Worker, FinishPrompt(w)
  PROVE  IInv'
<1> DEFINE c  == invocation[w]
           st == [FreshTurn EXCEPT !.phase = "AwaitingIdentity", !.req = c.fresh, !.comp = c.fresh]
           m  == [kind |-> "identity", s |-> c.s, id |-> c.fresh, retry |-> 0]
<1>1. c.h = "prompt" /\ c.s \in Session /\ c.fresh \in Id /\ c.list \subseteq Session
      /\ late \subseteq Session /\ active \subseteq Session /\ TurnsGood /\ KeysTyped
  BY InvocationKnown DEF FinishPrompt, Ready, GoodInvocation, IInv
<1>2. GoodTurn(st)
  BY <1>1, OpenedTurnGood
<1>3. m \in Reply
  BY <1>1, ConstantsAssumption DEF Reply
<1>4. InvocationsGood'
  BY ReturnGood DEF FinishPrompt, IInv
<1>5. active' \subseteq Session
  BY <1>1, ListGood DEF FinishPrompt
<1>6. req2sess' \in [Id -> Session \cup {None}] /\ call2sess' \in [CallId -> Session \cup {None}]
  <2>1. UNCHANGED <<req2sess, call2sess>> \/ Cleanup(c.st)
    BY DEF FinishPrompt
  <2> QED
    BY <1>1, <2>1, CleanupGood DEF KeysTyped
<1> HIDE DEF st, m
<1>7. \E saved \in BOOLEAN :
        /\ Save(c.s, st, saved)
        /\ owner' \in {owner, [owner EXCEPT ![c.fresh] = c.s]}
        /\ replies' \in {replies, replies \cup {m}}
  BY DEF FinishPrompt, Outcome, st, m
<1>8. TurnsGood' /\ late' \subseteq Session
  BY <1>1, <1>2, <1>7, SaveGood
<1>9. owner' \in [Id -> Session \cup {None}] /\ replies' \subseteq Reply
  BY <1>1, <1>3, <1>7 DEF IInv, CountersTyped, OutsideTyped
<1> QED
  BY <1>4, <1>5, <1>6, <1>8, <1>9
     DEF IInv, FinishPrompt, KeysTyped, OutsideTyped, CountersTyped

\* The interceptors that save their turn and go on, or are done.
LEMMA SaveAndGood ==
  ASSUME IInv, NEW w \in Worker,
         FinishIdentity(w) \/ FinishGenerate(w) \/ FinishRound(w) \/ FinishDelta(w)
  PROVE  IInv'
<1> DEFINE c == invocation[w]
<1>1. PICK h \in {"identity", "generate", "round", "delta"},
           next \in {"assemble", "ask", "return"}, calls \in SUBSET CallId :
             SaveAnd(w, h, next, calls) /\ (h = "delta" => next = "return")
  BY InvocationKnown DEF FinishIdentity, FinishGenerate, FinishRound, FinishDelta
<1>2. c.h = h /\ c.s \in Session /\ GoodTurn(c.st)
      /\ TurnsGood /\ late \subseteq Session /\ active \subseteq Session /\ InvocationsGood
  BY <1>1, InvocationKnown DEF SaveAnd, Ready, IInv
<1>3. PICK saved \in BOOLEAN :
        /\ Save(c.s, c.st, saved)
        /\ call2sess' = IF saved THEN Without(call2sess, calls) ELSE call2sess
        /\ UNCHANGED active
        /\ (Continue(w, next) /\ next # "return") \/ Return(w)
  BY <1>1, Zenon DEF SaveAnd, Outcome
<1>4. TurnsGood' /\ late' \subseteq Session
  BY <1>2, <1>3, SaveGood
<1>5. InvocationsGood'
  BY <1>1, <1>2, <1>3, ContinueGood, ReturnGood
<1>6. call2sess' \in [CallId -> Session \cup {None}]
  BY <1>3 DEF IInv, KeysTyped, Without
<1> QED
  BY <1>1, <1>2, <1>3, <1>4, <1>5, <1>6
     DEF IInv, SaveAnd, KeysTyped, OutsideTyped, CountersTyped, outside, ghosts

\* A result that leaves others outstanding.
LEMMA RecordFinishGood ==
  ASSUME IInv, NEW w \in Worker, FinishRecord(w)
  PROVE  IInv'
<1> DEFINE c == invocation[w]
<1>1. c.s \in Session /\ GoodTurn(c.st) /\ c.st \in Turn /\ TurnsGood
  BY InvocationKnown DEF FinishRecord, Ready
<1>2. turn' \in {turn, [turn EXCEPT ![c.s] = c.st]}
  BY DEF FinishRecord
<1> HIDE DEF c
<1>3. TurnsGood'
  BY <1>1, <1>2 DEF TurnsGood
<1>4. InvocationsGood'
  BY ReturnGood DEF FinishRecord, IInv
<1> QED
  BY <1>3, <1>4 DEF IInv, FinishRecord, KeysTyped, OutsideTyped, CountersTyped, outside, ghosts

\* Going Idle: the list, the turn and its timestamp.
LEMMA SaveIdleGood ==
  ASSUME IInv, NEW c, c.s \in Session, c.list \subseteq Session,
         NEW st, GoodTurn(st), NEW ok \in BOOLEAN, SaveIdle(c, st, ok)
  PROVE  TurnsGood' /\ late' \subseteq Session /\ active' \subseteq Session
  BY SaveGood, ListGood DEF SaveIdle, IInv, KeysTyped

\* A turn that merely goes Idle stays a good one.
LEMMA IdledGood ==
  ASSUME NEW st, GoodTurn(st)
  PROVE  GoodTurn([st EXCEPT !.phase = "Idle"])
  BY DEF GoodTurn, PromptMatches, Turn, Phase

\* The endings that report, clean up and reset.
LEMMA AbortGood ==
  ASSUME IInv, NEW w \in Worker, FinishAbort(w) \/ FinishCancel(w) \/ NoModel(w)
  PROVE  IInv'
<1> DEFINE c == invocation[w]
<1>1. PICK told \in BOOLEAN : Abort(w, told)
  BY DEF FinishAbort, FinishCancel, NoModel, Outcome
<1>2. c.s \in Session /\ c.st \in Turn /\ c.list \subseteq Session /\ finals \in [Id -> 0 .. 2]
  BY InvocationKnown DEF FinishAbort, FinishCancel, NoModel, Ready
<1>3. PICK saved \in BOOLEAN : SaveIdle(c, FreshTurn, saved)
  BY <1>1 DEF Abort, Outcome
<1>4. TurnsGood' /\ late' \subseteq Session /\ active' \subseteq Session
  BY <1>2, <1>3, SaveIdleGood, FreshTurnGood
<1>5. finals' \in [Id -> 0 .. 2]
  BY <1>1, <1>2, FinalGood DEF Abort
<1>6. req2sess' \in [Id -> Session \cup {None}] /\ call2sess' \in [CallId -> Session \cup {None}]
  BY <1>1, CleanupGood DEF Abort, IInv
<1>7. InvocationsGood'
  BY <1>1, ReturnGood DEF Abort, IInv
<1> QED
  BY <1>1, <1>4, <1>5, <1>6, <1>7 DEF IInv, Abort, KeysTyped, OutsideTyped, CountersTyped, outside

\* Asking the prompt builder, asking the model.
LEMMA RequestGood ==
  ASSUME IInv, NEW w \in Worker, FinishAssemble(w) \/ FinishAsk(w)
  PROVE  IInv'
<1> DEFINE c == invocation[w]
           m == [kind |-> "prompt", s |-> c.s, id |-> c.st.req, retry |-> 0]
<1>1. c.s \in Session /\ GoodTurn(c.st) /\ c.st.phase # "Idle"
  BY InvocationKnown DEF FinishAssemble, FinishAsk, Ready, GoodInvocation
<1>2. InvocationsGood'
  BY ReturnGood DEF FinishAssemble, FinishAsk, IInv
<1>3. CASE FinishAssemble(w)
  <2>1. m \in Reply
    BY <1>1, ConstantsAssumption DEF Reply, GoodTurn
  <2>2. replies' \in {replies, replies \cup {m}}
    BY <1>3 DEF FinishAssemble
  <2> HIDE DEF m
  <2>3. replies' \subseteq Reply
    BY <2>1, <2>2 DEF IInv, OutsideTyped
  <2> QED
    BY <1>2, <1>3, <2>3
       DEF IInv, FinishAssemble, TurnsGood, KeysTyped, OutsideTyped, CountersTyped, kv, ghosts
<1>4. CASE FinishAsk(w)
  <2>1. \E v \in {c.s, None} : req2sess' = [req2sess EXCEPT ![c.st.req] = v]
    BY <1>4 DEF FinishAsk
  <2>2. req2sess' \in [Id -> Session \cup {None}]
    BY <1>1, <2>1 DEF IInv, KeysTyped
  <2> QED
    BY <1>2, <1>4, <2>2
       DEF IInv, FinishAsk, TurnsGood, KeysTyped, OutsideTyped, CountersTyped, ghosts
<1> QED
  BY <1>3, <1>4

\* The jobs of a turn in progress are jobs.
LEMMA JobsTyped ==
  ASSUME NEW st \in Turn, NEW n \in 0 .. Len(st.pending)
  PROVE  JobsOf(st, n) \subseteq Job
<1>1. st.pending \in Seq(CallId) /\ st.req \in IdOr0
  BY DEF Turn
<1>2. Len(st.pending) \in Nat
  BY <1>1, LenProperties
<1>3. \A k \in 1 .. n : st.pending[k] \in CallId
  BY <1>1, <1>2, ElementOfSeq
<1> QED
  BY <1>1, <1>3 DEF JobsOf, Job

\* Dispatching the tool calls of a finished stream, in whole or in part.
LEMMA DispatchFinishGood ==
  ASSUME IInv, NEW w \in Worker, FinishDispatch(w)
  PROVE  IInv'
<1> DEFINE c   == invocation[w]
           n   == Len(c.st.pending)
           ids == {c.st.pending[k] : k \in 1 .. n}
<1>1. c.s \in Session /\ GoodTurn(c.st) /\ c.st \in Turn /\ c.st.phase = "Streaming"
      /\ c.list \subseteq Session /\ TurnsGood /\ late \subseteq Session
      /\ active \subseteq Session /\ finals \in [Id -> 0 .. 2]
  BY InvocationKnown DEF FinishDispatch, Ready, GoodInvocation
<1>2. GoodTurn(Dispatch(c.st)) /\ Dispatch(c.st) \in Turn
  BY <1>1, DispatchGood DEF GoodTurn
<1>3. \A saved \in BOOLEAN :
        GoodTurn([Dispatch(c.st) EXCEPT !.phase = IF saved THEN "Idle" ELSE @])
  BY <1>1, AbortedDispatchGood
<1>4. n \in Nat /\ \A k \in 0 .. n : JobsOf(c.st, k) \subseteq Job
  BY <1>1, LenProperties, JobsTyped DEF Turn
<1>5. call2sess \in [CallId -> Session \cup {None}] /\ jobs \subseteq Job
  BY DEF IInv, KeysTyped, OutsideTyped
<1>6. \A K : /\ Mapped(c.s, K) \in [CallId -> Session \cup {None}]
             /\ Without(call2sess, K) \in [CallId -> Session \cup {None}]
  BY <1>1, <1>5 DEF Mapped, Without
<1>7. InvocationsGood'
  BY ReturnGood DEF FinishDispatch, IInv
<1>8. /\ TurnsGood' /\ late' \subseteq Session /\ active' \subseteq Session
      /\ jobs' \subseteq Job /\ finals' \in [Id -> 0 .. 2]
      /\ call2sess' \in [CallId -> Session \cup {None}]
  <2>1. CASE /\ call2sess' = Mapped(c.s, ids)
             /\ Save(c.s, Dispatch(c.st), TRUE)
             /\ jobs' = jobs \cup JobsOf(c.st, n)
             /\ UNCHANGED <<active, finals>>
    <3>1. TurnsGood' /\ late' \subseteq Session
      BY <1>1, <1>2, <2>1, SaveGood
    <3>2. jobs' \subseteq Job
      BY <1>4, <1>5, <2>1
    <3> QED
      BY <1>1, <1>6, <2>1, <3>1, <3>2
  <2>2. CASE /\ "publish" \in Faults
             /\ \E k \in 0 .. n - 1, sent \in BOOLEAN, saved \in Outcome("kv") :
                  /\ jobs' = jobs \cup JobsOf(c.st, k)
                  /\ Final(c.st, sent)
                  /\ Unregister(c)
                  /\ turn' = [turn EXCEPT ![c.s] =
                       [Dispatch(c.st) EXCEPT !.phase = IF saved THEN "Idle" ELSE @]]
                  /\ late' = late \ {c.s}
             /\ call2sess' = Without(call2sess, ids)
    <3>1. PICK k \in 0 .. n - 1, sent \in BOOLEAN, saved \in BOOLEAN :
            /\ jobs' = jobs \cup JobsOf(c.st, k)
            /\ Final(c.st, sent)
            /\ Unregister(c)
            /\ turn' = [turn EXCEPT ![c.s] =
                 [Dispatch(c.st) EXCEPT !.phase = IF saved THEN "Idle" ELSE @]]
            /\ late' = late \ {c.s}
      BY <2>2 DEF Outcome
    <3> DEFINE st == [Dispatch(c.st) EXCEPT !.phase = IF saved THEN "Idle" ELSE @]
    <3>2. GoodTurn(st) /\ turn' = [turn EXCEPT ![c.s] = st]
      BY <1>3, <3>1
    <3> HIDE DEF st
    <3>3. TurnsGood'
      BY <1>1, <3>2 DEF TurnsGood, GoodTurn
    <3>4. active' \subseteq Session /\ late' \subseteq Session
      BY <1>1, <3>1, ListGood
    <3>5. finals' \in [Id -> 0 .. 2]
      BY <1>1, <3>1, FinalGood
    <3>6. jobs' \subseteq Job
      BY <1>4, <1>5, <3>1
    <3> QED
      BY <1>6, <2>2, <3>3, <3>4, <3>5, <3>6
  <2>3. CASE /\ \E K : call2sess' = Without(call2sess, K) \/ call2sess' = Mapped(c.s, K)
             /\ UNCHANGED <<turn, late, active, jobs, finals>>
    BY <1>1, <1>5, <1>6, <2>3 DEF TurnsGood
  <2> QED
    BY <2>1, <2>2, <2>3 DEF FinishDispatch
<1> QED
  BY <1>7, <1>8 DEF IInv, FinishDispatch, KeysTyped, OutsideTyped, CountersTyped

\* The endings that publish a terminal response or none and go Idle.
LEMMA EndingGood ==
  ASSUME IInv, NEW w \in Worker,
         FinishAnswer(w) \/ FinishEmpty(w) \/ FinishCap(w) \/ FinishExpire(w)
  PROVE  IInv'
<1> DEFINE c == invocation[w]
<1>1. c.s \in Session /\ c.st \in Turn /\ GoodTurn(c.st) /\ c.list \subseteq Session
      /\ TurnsGood /\ late \subseteq Session /\ active \subseteq Session
      /\ finals \in [Id -> 0 .. 2] /\ c.calls \subseteq CallId
  BY InvocationKnown DEF FinishAnswer, FinishEmpty, FinishCap, FinishExpire, Ready
<1>2. \/ \E st \in {FreshTurn, [c.st EXCEPT !.phase = "Idle"]}, saved \in BOOLEAN :
            SaveIdle(c, st, saved)
      \/ UNCHANGED <<turn, late, active>>
  BY DEF FinishAnswer, FinishEmpty, FinishCap, FinishExpire, Outcome
<1>3. TurnsGood' /\ late' \subseteq Session /\ active' \subseteq Session
  <2>1. GoodTurn(FreshTurn) /\ GoodTurn([c.st EXCEPT !.phase = "Idle"])
    BY <1>1, FreshTurnGood, IdledGood
  <2>2. CASE UNCHANGED <<turn, late, active>>
    BY <1>1, <2>2 DEF TurnsGood
  <2>3. CASE \E st \in {FreshTurn, [c.st EXCEPT !.phase = "Idle"]}, saved \in BOOLEAN :
               SaveIdle(c, st, saved)
    BY <1>1, <2>1, <2>3, SaveIdleGood
  <2> QED
    BY <1>2, <2>2, <2>3
<1>4. finals' = finals \/ \E sent \in BOOLEAN : Final(c.st, sent)
  BY DEF FinishAnswer, FinishEmpty, FinishCap, FinishExpire, Outcome, ghosts
<1>5. finals' \in [Id -> 0 .. 2]
  BY <1>1, <1>4, FinalGood
<1>6. /\ req2sess' = req2sess \/ Cleanup(c.st)
      /\ call2sess' = call2sess \/ Cleanup(c.st) \/ call2sess' = Without(call2sess, c.calls)
  BY DEF FinishAnswer, FinishEmpty, FinishCap, FinishExpire
<1>7. req2sess' \in [Id -> Session \cup {None}] /\ call2sess' \in [CallId -> Session \cup {None}]
  BY <1>6, CleanupGood DEF IInv, KeysTyped, Without
<1>8. InvocationsGood'
  BY ReturnGood DEF FinishAnswer, FinishEmpty, FinishCap, FinishExpire, IInv
<1> QED
  BY <1>3, <1>5, <1>7, <1>8
     DEF IInv, FinishAnswer, FinishEmpty, FinishCap, FinishExpire, KeysTyped, OutsideTyped,
         CountersTyped, outside, ghosts

\* Clearing a session.
LEMMA ClearGood ==
  ASSUME IInv, NEW w \in Worker, FinishClear(w)
  PROVE  IInv'
<1> DEFINE c == invocation[w]
<1>1. c.s \in Session /\ c.list \subseteq Session /\ active \subseteq Session /\ TurnsGood
  BY InvocationKnown DEF FinishClear, Ready
<1>2. active' \subseteq Session
  BY <1>1, ListGood DEF FinishClear
<1>3. TurnsGood'
  BY <1>1, FreshTurnGood DEF TurnsGood, FinishClear, GoodTurn
<1>4. InvocationsGood'
  BY ReturnGood DEF FinishClear, IInv
<1> QED
  BY <1>2, <1>3, <1>4
     DEF IInv, FinishClear, KeysTyped, OutsideTyped, CountersTyped, outside, ghosts

\* Every step preserves the invariant.
LEMMA NextGood == IInv /\ [Next]_vars => IInv'
<1> SUFFICES ASSUME IInv, [Next]_vars PROVE IInv'
  OBVIOUS
<1>1. ASSUME NEW w \in Worker, Start(w) PROVE IInv'
  <2>1. ASSUME NEW s \in Session, NEW i \in Id,
               \/ StreamTooLate(w, s, i) \/ TextDelta(w, s, i)
               \/ StreamDone(w, s, i) \/ StreamError(w, s, i)
               \/ \E c \in CallId : ToolCallStart(w, s, i, c)
        PROVE  IInv'
    BY <2>1, StartedByStreamGood
  <2>2. ASSUME NEW s \in Session, NEW j \in jobs, ResultTooLate(w, s, j) \/ ToolResult(w, s, j)
        PROVE  IInv'
    BY <2>2, StartedByResultGood
  <2>3. ASSUME NEW m \in replies,
               \/ ReplyTooLate(w, m) \/ Redrive(w, m) \/ DropReply(w, m)
               \/ IdentityResponse(w, m) \/ PromptResponse(w, m)
        PROVE  IInv'
    BY <2>3, StartedByReplyGood
  <2>4. ASSUME NEW s \in Session,
               \/ UserPrompt(w, s) \/ CancelTurn(w, s) \/ SessionClear(w, s)
               \/ WatchdogTick(w, s) \/ BusLag(w, s)
        PROVE  IInv'
    BY <2>4, StartedByEventGood
  <2>5. CASE LifecycleRestart(w)
    BY <2>5, RestartGood
  <2> QED
    BY <1>1, <2>1, <2>2, <2>3, <2>4, <2>5, Zenon DEF Start
<1>2. ASSUME NEW w \in Worker, Resume(w) PROVE IInv'
  BY <1>2, SessionAnswerGood, PromptFinishGood, SaveAndGood, RequestGood, AbortGood,
     DispatchFinishGood, EndingGood, RecordFinishGood, ClearGood DEF Resume
<1>3. CASE (\E s \in Session : Age(s)) \/ Reload \/ Lose
  BY <1>3, SurroundingsGood
<1>4. CASE UNCHANGED vars
  BY <1>4 DEF IInv, TurnsGood, InvocationsGood, KeysTyped, OutsideTyped, CountersTyped,
              vars, kv, outside, ghosts
<1> QED
  BY <1>1, <1>2, <1>3, <1>4 DEF Next

\* The invariant holds of every reachable state, whatever fails, is repeated
\* or interleaves.
THEOREM Invariance == Spec => []IInv
  BY InitGood, NextGood, PTL DEF Spec

\* Every variable keeps its type; in particular no reply is bounced beyond
\* its retry budget, and a turn that is open has a request.
THEOREM TypeCorrect == Spec => []TypeOK
<1>1. IInv => TypeOK
  BY DEF IInv, TurnsGood, InvocationsGood, KeysTyped, OutsideTyped, CountersTyped, TypeOK
<1> QED
  BY <1>1, Invariance, PTL

\* A turn runs on the system prompt assembled for that very turn, with any
\* number of pooled instances, repeated or late replies and failed writes:
\* the correlation check of orchestration_reply_is_stale is enough.
THEOREM PromptIsOwn == Spec => []OwnPrompt
<1>1. IInv => OwnPrompt
  BY DEF IInv, TurnsGood, GoodTurn, PromptMatches, OwnPrompt
<1> QED
  BY <1>1, Invariance, PTL

-----------------------------------------------------------------------------
(* The watchdog.  The active list is read, changed and written back, so    *)
(* the theorem is about a capsule whose interceptors are serialized, and   *)
(* whose KV writes do not fail.                                            *)

Serialized == \A v, w \in Worker : v = w

\* The busy worker's copy of the list is the list, and a session it found in
\* a turn is still on it.
ListCurrent ==
  \A w \in Worker : invocation[w].h # "free" =>
    /\ invocation[w].list = active
    /\ invocation[w].h \notin {"prompt", "clear"} => invocation[w].s \in active

WInv == IInv /\ WatchdogCoversTurns /\ ListCurrent

\* An interceptor that starts reads the list as it is.
LEMMA BeginCovered ==
  ASSUME WInv, Serialized, NEW w \in Worker, NEW h, NEW s \in Session, NEW st, NEW io,
         NEW fresh, NEW calls, Begin(w, h, s, st, io, fresh, calls),
         h \notin {"prompt", "clear"} => InTurn(s), UNCHANGED <<turn, active>>
  PROVE  WatchdogCoversTurns' /\ ListCurrent'
<1>1. WatchdogCoversTurns'
  BY DEF WInv, WatchdogCoversTurns, InTurn
<1>2. invocation'[w].list = active /\ invocation'[w].s = s /\ invocation'[w].h = h
  BY DEF WInv, IInv, InvocationsGood, Begin
<1>3. h \notin {"prompt", "clear"} => s \in active
  BY DEF WInv, WatchdogCoversTurns
<1> QED
  BY <1>1, <1>2, <1>3 DEF ListCurrent, Serialized

\* No worker is busy once the only one has returned.
LEMMA ReturnCovered ==
  ASSUME WInv, Serialized, NEW w \in Worker, Return(w)
  PROVE  ListCurrent'
<1>1. invocation'[w] = Free
  BY DEF WInv, IInv, InvocationsGood, Return
<1> QED
  BY <1>1 DEF ListCurrent, Serialized, Free

\* The busy worker's session, list and turn.
LEMMA BusyKnown ==
  ASSUME WInv, NEW w \in Worker, NEW c, c = invocation[w], c.h # "free"
  PROVE  /\ c.s \in Session /\ c.list = active /\ turn \in [Session -> Turn]
         /\ \A s \in Session : InTurn(s) => s \in active
         /\ c.h \notin {"prompt", "clear"} => c.s \in active
  BY InvocationKnown DEF WInv, ListCurrent, WatchdogCoversTurns, TurnsGood

\* Going Idle takes the session off the list as its turn ends.
LEMMA SaveIdleCovered ==
  ASSUME WInv, "kv" \notin Faults, NEW w \in Worker, NEW c, c = invocation[w], c.h # "free",
         NEW st, st.phase = "Idle", NEW saved \in Outcome("kv"), SaveIdle(c, st, saved)
  PROVE  WatchdogCoversTurns'
<1>1. saved = TRUE /\ active' = active \ {c.s}
  BY BusyKnown DEF Outcome, SaveIdle, Unregister, Written
<1>2. turn' = [turn EXCEPT ![c.s] = st]
  BY <1>1 DEF SaveIdle, Save
<1>3. c.s \in Session /\ turn \in [Session -> Turn] /\ \A s \in Session : InTurn(s) => s \in active
  BY BusyKnown
<1> QED
  BY <1>1, <1>2, <1>3 DEF WatchdogCoversTurns, InTurn

\* The interceptors' first parts.
LEMMA StartCovered ==
  ASSUME WInv, Serialized, NEW w \in Worker, Start(w)
  PROVE  WatchdogCoversTurns' /\ ListCurrent'
<1>1. ASSUME UNCHANGED <<turn, active, invocation>> PROVE WatchdogCoversTurns' /\ ListCurrent'
  BY <1>1 DEF WInv, WatchdogCoversTurns, ListCurrent, InTurn
<1>2. ASSUME NEW s \in Session,
             \/ UserPrompt(w, s) \/ CancelTurn(w, s) \/ SessionClear(w, s)
             \/ WatchdogTick(w, s) \/ BusLag(w, s)
      PROVE  WatchdogCoversTurns' /\ ListCurrent'
  <2>1. UNCHANGED <<turn, active>>
    BY <1>2 DEF UserPrompt, CancelTurn, SessionClear, WatchdogTick, BusLag, kv
  <2>2. \E h, st, io, fresh : /\ Begin(w, h, s, st, io, fresh, {})
                              /\ h \notin {"prompt", "clear"} => InTurn(s)
    BY <1>2 DEF UserPrompt, CancelTurn, SessionClear, WatchdogTick, BusLag, InTurn
  <2> QED
    BY <2>1, <2>2, BeginCovered
<1>3. ASSUME NEW s \in Session, NEW i \in Id,
             \/ StreamTooLate(w, s, i) \/ TextDelta(w, s, i)
             \/ StreamDone(w, s, i) \/ StreamError(w, s, i)
             \/ \E c \in CallId : ToolCallStart(w, s, i, c)
      PROVE  WatchdogCoversTurns' /\ ListCurrent'
  <2>1. UNCHANGED <<turn, active>>
    BY <1>3 DEF StreamTooLate, TextDelta, StreamDone, StreamError, ToolCallStart, kv
  <2>2. InTurn(s)
    BY <1>3 DEF StreamTooLate, TextDelta, StreamDone, StreamError, ToolCallStart, StreamOf, InTurn
  <2>3. \E h, st, io : Begin(w, h, s, st, io, 0, {})
    BY <1>3 DEF StreamTooLate, TextDelta, StreamDone, StreamError, ToolCallStart
  <2> QED
    BY <2>1, <2>2, <2>3, BeginCovered
<1>4. ASSUME NEW s \in Session, NEW j \in jobs, ResultTooLate(w, s, j) \/ ToolResult(w, s, j)
      PROVE  WatchdogCoversTurns' /\ ListCurrent'
  <2>1. UNCHANGED <<turn, active>> /\ InTurn(s)
    BY <1>4 DEF ResultTooLate, ToolResult, kv, InTurn
  <2>2. \E h, st, io, calls : Begin(w, h, s, st, io, 0, calls)
    BY <1>4 DEF ResultTooLate, ToolResult
  <2> QED
    BY <2>1, <2>2, BeginCovered
<1>5. ASSUME NEW m \in replies,
             \/ ReplyTooLate(w, m) \/ Redrive(w, m) \/ DropReply(w, m)
             \/ IdentityResponse(w, m) \/ PromptResponse(w, m)
      PROVE  WatchdogCoversTurns' /\ ListCurrent'
  <2>1. m.s \in Session
    BY DEF WInv, IInv, OutsideTyped, Reply
  <2>2. CASE Redrive(w, m) \/ DropReply(w, m)
    BY <1>1, <2>2 DEF Redrive, DropReply, kv
  <2>3. CASE ReplyTooLate(w, m) \/ IdentityResponse(w, m) \/ PromptResponse(w, m)
    <3>1. UNCHANGED <<turn, active>> /\ InTurn(m.s)
      BY <2>3 DEF ReplyTooLate, IdentityResponse, PromptResponse, kv
    <3>2. \E h, st, io : Begin(w, h, m.s, st, io, 0, {})
      BY <2>3 DEF ReplyTooLate, IdentityResponse, PromptResponse
    <3> QED
      BY <2>1, <3>1, <3>2, BeginCovered
  <2> QED
    BY <1>5, <2>2, <2>3
<1>6. CASE LifecycleRestart(w)
  <2>1. WatchdogCoversTurns'
    BY <1>6 DEF LifecycleRestart, WatchdogCoversTurns, InTurn, FreshTurn
  <2>2. invocation'[w].h = "free"
    BY <1>6 DEF LifecycleRestart, Free
  <2> QED
    BY <2>1, <2>2 DEF ListCurrent, Serialized
<1> QED
  BY <1>2, <1>3, <1>4, <1>5, <1>6, Zenon DEF Start

\* Saving, and going on or returning.
LEMMA SaveAndCovered ==
  ASSUME WInv, Serialized, "kv" \notin Faults, NEW w \in Worker,
         FinishIdentity(w) \/ FinishGenerate(w) \/ FinishRound(w) \/ FinishDelta(w)
  PROVE  WatchdogCoversTurns' /\ ListCurrent'
<1> DEFINE c == invocation[w]
<1>1. PICK h \in {"identity", "generate", "round", "delta"},
           next \in {"assemble", "ask", "return"} : \E calls : SaveAnd(w, h, next, calls)
  BY DEF FinishIdentity, FinishGenerate, FinishRound, FinishDelta
<1>2. c.h = h
  BY <1>1 DEF SaveAnd, Ready
<1>3. c.s \in Session /\ c.s \in active /\ turn \in [Session -> Turn]
      /\ \A s \in Session : InTurn(s) => s \in active
  BY <1>2, BusyKnown
<1>4. /\ turn' = [turn EXCEPT ![c.s] = c.st]
      /\ active' = active
      /\ Continue(w, next) \/ Return(w)
  BY <1>1 DEF SaveAnd, Outcome, Save
<1>5. WatchdogCoversTurns'
  BY <1>3, <1>4 DEF WatchdogCoversTurns, InTurn
<1>6. CASE Return(w)
  BY <1>5, <1>6, ReturnCovered
<1>7. CASE Continue(w, next)
  <2>1. invocation'[w].list = active' /\ invocation'[w].s = c.s
    BY <1>7 DEF Continue, WInv, IInv, InvocationsGood, Invocation
  <2> QED
    BY <1>3, <1>4, <1>5, <2>1 DEF ListCurrent, Serialized
<1> QED
  BY <1>4, <1>6, <1>7

\* The last parts that end the turn or leave it alone.
LEMMA EndingCovered ==
  ASSUME WInv, Serialized, "kv" \notin Faults, NEW w \in Worker,
         FinishAnswer(w) \/ FinishEmpty(w) \/ FinishCap(w) \/ FinishExpire(w)
         \/ FinishAbort(w) \/ FinishCancel(w) \/ NoModel(w)
  PROVE  WatchdogCoversTurns' /\ ListCurrent'
<1> DEFINE c == invocation[w]
<1>1. c.h # "free" /\ Return(w)
  BY DEF FinishAnswer, FinishEmpty, FinishCap, FinishExpire, FinishAbort, FinishCancel,
         NoModel, Abort, Ready
<1>2. \/ \E st \in {FreshTurn, [c.st EXCEPT !.phase = "Idle"]}, saved \in Outcome("kv") :
            SaveIdle(c, st, saved)
      \/ UNCHANGED <<turn, late, active>>
  BY DEF FinishAnswer, FinishEmpty, FinishCap, FinishExpire, FinishAbort, FinishCancel,
         NoModel, Abort
<1>3. FreshTurn.phase = "Idle" /\ [c.st EXCEPT !.phase = "Idle"].phase = "Idle"
  BY InvocationKnown DEF FreshTurn, Turn, WInv
<1>4. ASSUME UNCHANGED <<turn, late, active>> PROVE WatchdogCoversTurns'
  BY <1>4 DEF WInv, WatchdogCoversTurns, InTurn
<1>5. ASSUME NEW st \in {FreshTurn, [c.st EXCEPT !.phase = "Idle"]}, NEW saved \in Outcome("kv"),
             SaveIdle(c, st, saved)
      PROVE  WatchdogCoversTurns'
  BY <1>1, <1>3, <1>5, SaveIdleCovered
<1> QED
  BY <1>1, <1>2, <1>4, <1>5, ReturnCovered

\* Opening a turn puts its session on the list.
LEMMA PromptFinishCovered ==
  ASSUME WInv, Serialized, "kv" \notin Faults, NEW w \in Worker, FinishPrompt(w)
  PROVE  WatchdogCoversTurns' /\ ListCurrent'
<1> DEFINE c == invocation[w]
<1>1. c.s \in Session /\ c.list = active /\ turn \in [Session -> Turn]
      /\ \A s \in Session : InTurn(s) => s \in active
  BY BusyKnown DEF FinishPrompt, Ready
<1>2. active' = active \cup {c.s}
  BY <1>1 DEF FinishPrompt, Register, Written
<1>3. \E st : turn' = [turn EXCEPT ![c.s] = st]
  BY DEF FinishPrompt, Outcome, Save
<1>4. WatchdogCoversTurns'
  BY <1>1, <1>2, <1>3 DEF WatchdogCoversTurns, InTurn
<1> QED
  BY <1>4, ReturnCovered DEF FinishPrompt

\* Every part of a handler after its first.
LEMMA ResumeCovered ==
  ASSUME WInv, Serialized, "kv" \notin Faults, NEW w \in Worker, Resume(w)
  PROVE  WatchdogCoversTurns' /\ ListCurrent'
<1> DEFINE c == invocation[w]
<1>1. ASSUME UNCHANGED <<turn, active>> PROVE WatchdogCoversTurns'
  BY <1>1 DEF WInv, WatchdogCoversTurns, InTurn
<1>2. CASE SessionReply(w)
  <2>1. UNCHANGED <<turn, active>>
    BY <1>2 DEF SessionReply, kv
  <2>2. /\ invocation'[w].list = active /\ invocation'[w].h = c.h /\ invocation'[w].s = c.s
    BY <1>2 DEF SessionReply, WInv, IInv, InvocationsGood, Invocation
  <2> QED
    BY <1>1, <2>1, <2>2 DEF ListCurrent, Serialized, WInv
<1>3. CASE SessionFailed(w) \/ FinishAssemble(w) \/ FinishAsk(w) \/ FinishRecord(w)
  <2>1. Return(w) /\ active' = active
    BY <1>3 DEF SessionFailed, FinishAssemble, FinishAsk, FinishRecord, kv
  <2>2. CASE turn' = turn
    BY <1>1, <2>1, <2>2, ReturnCovered
  <2>3. CASE turn' # turn
    <3>1. FinishRecord(w)
      BY <1>3, <2>3 DEF SessionFailed, FinishAssemble, FinishAsk, kv
    <3>2. c.h = "record" /\ turn' = [turn EXCEPT ![c.s] = c.st]
      BY <2>3, <3>1 DEF FinishRecord, Ready
    <3>3. c.s \in Session /\ c.s \in active /\ turn \in [Session -> Turn]
          /\ \A s \in Session : InTurn(s) => s \in active
      BY <3>2, BusyKnown
    <3>4. WatchdogCoversTurns'
      BY <2>1, <3>2, <3>3 DEF WatchdogCoversTurns, InTurn
    <3> QED
      BY <2>1, <3>4, ReturnCovered
  <2> QED
    BY <2>2, <2>3
<1>4. CASE FinishDispatch(w)
  <2>1. c.h = "dispatch" /\ Return(w)
    BY <1>4 DEF FinishDispatch, Ready
  <2>2. c.s \in Session /\ c.s \in active /\ c.list = active /\ turn \in [Session -> Turn]
        /\ \A s \in Session : InTurn(s) => s \in active
    BY <2>1, BusyKnown
  <2>3. Dispatch(c.st) \in Turn
    BY <2>1, InvocationKnown, DispatchGood DEF WInv, GoodInvocation, GoodTurn
  <2>4. \/ active' = active /\ \E st : turn' = [turn EXCEPT ![c.s] = st]
        \/ /\ active' = active \ {c.s}
           /\ turn' = [turn EXCEPT ![c.s] = [Dispatch(c.st) EXCEPT !.phase = "Idle"]]
    BY <1>4, <2>2 DEF FinishDispatch, Save, Outcome, Unregister, Written
  <2>5. CASE active' = active /\ \E st : turn' = [turn EXCEPT ![c.s] = st]
    <3>1. PICK st : turn' = [turn EXCEPT ![c.s] = st]
      BY <2>5
    <3>2. \A s \in Session : s # c.s => turn'[s] = turn[s]
      BY <2>2, <3>1
    <3>3. WatchdogCoversTurns'
      BY <2>2, <2>5, <3>2 DEF WatchdogCoversTurns, InTurn
    <3> QED
      BY <2>1, <3>3, ReturnCovered
  <2>6. CASE /\ active' = active \ {c.s}
             /\ turn' = [turn EXCEPT ![c.s] = [Dispatch(c.st) EXCEPT !.phase = "Idle"]]
    <3> DEFINE st == [Dispatch(c.st) EXCEPT !.phase = "Idle"]
    <3>1. st.phase = "Idle"
      BY <2>3 DEF Turn
    <3> HIDE DEF st
    <3>2. turn' = [turn EXCEPT ![c.s] = st]
      BY <2>6 DEF st
    <3>3. turn'[c.s] = st /\ \A s \in Session : s # c.s => turn'[s] = turn[s]
      BY <2>2, <3>2
    <3>4. WatchdogCoversTurns'
      BY <2>2, <2>6, <3>1, <3>3 DEF WatchdogCoversTurns, InTurn
    <3> QED
      BY <2>1, <3>4, ReturnCovered
  <2> QED
    BY <2>4, <2>5, <2>6
<1>5. CASE FinishClear(w)
  <2>1. Return(w) /\ c.h # "free"
    BY <1>5 DEF FinishClear, Ready
  <2>2. c.s \in Session /\ c.list = active /\ turn \in [Session -> Turn]
        /\ \A s \in Session : InTurn(s) => s \in active
    BY <2>1, BusyKnown
  <2>3. active' = active \ {c.s} /\ turn' = [turn EXCEPT ![c.s] = FreshTurn]
    BY <1>5, <2>2 DEF FinishClear, Unregister, Written
  <2>4. WatchdogCoversTurns'
    BY <2>2, <2>3 DEF WatchdogCoversTurns, InTurn, FreshTurn
  <2> QED
    BY <2>1, <2>4, ReturnCovered
<1> QED
  BY <1>2, <1>3, <1>4, <1>5, SaveAndCovered, EndingCovered, PromptFinishCovered DEF Resume

\* Initially no session is in a turn.
LEMMA InitCovered == Init => WInv
<1>1. Init => WatchdogCoversTurns /\ ListCurrent
  BY DEF Init, WatchdogCoversTurns, ListCurrent, InTurn, FreshTurn, Free
<1> QED
  BY <1>1, InitGood DEF WInv

\* Every step keeps the open turns on the watchdog's list.
LEMMA NextCovered ==
  ASSUME Serialized, "kv" \notin Faults
  PROVE  WInv /\ [Next]_vars => WInv'
<1> SUFFICES ASSUME WInv, [Next]_vars PROVE WatchdogCoversTurns' /\ ListCurrent'
  BY NextGood DEF WInv
<1>1. ASSUME NEW w \in Worker, Start(w) \/ Resume(w) PROVE WatchdogCoversTurns' /\ ListCurrent'
  BY <1>1, StartCovered, ResumeCovered
<1>2. CASE (\E s \in Session : Age(s)) \/ Lose \/ UNCHANGED vars
  BY <1>2 DEF Age, Lose, vars, kv, WInv, WatchdogCoversTurns, ListCurrent, InTurn
<1>3. CASE Reload
  BY <1>3 DEF Reload, kv, WInv, WatchdogCoversTurns, ListCurrent, InTurn, Free
<1> QED
  BY <1>1, <1>2, <1>3 DEF Next

\* On a serialized capsule whose KV writes do not fail, a session in a turn
\* is always on the list the watchdog walks, whatever is lost, late,
\* interrupted or reloaded: no turn is left without its timeout.
THEOREM WatchdogMissesNoTurn ==
  ASSUME Serialized, "kv" \notin Faults
  PROVE  Spec => []WatchdogCoversTurns
<1>1. WInv /\ [Next]_vars => WInv'
  BY NextCovered
<1>2. WInv => WatchdogCoversTurns
  BY DEF WInv
<1> QED
  BY InitCovered, <1>1, <1>2, PTL DEF Spec

-----------------------------------------------------------------------------
(* The turn lifecycle: the coordinator implements AgentTurn.  The theorem  *)
(* is about a serialized capsule whose KV writes do not fail, with any     *)
(* sessions, calls, losses, repetitions, clears and reloads: two           *)
(* interceptors of one session could each publish its terminal response,   *)
(* and so could two in a row if the first one's reset is not saved.        *)

\* The turn a session is in is a turn that this session opened.
TurnsOwned == \A s \in Session : InTurn(s) => turn[s].comp \in Id /\ owner[turn[s].comp] = s

\* Only uuids that were drawn name turns.
OwnersDrawn == \A i \in Id : owner[i] # None => i < nextId

\* A terminal response was published only for a turn that is closed, and once.
FinalsGood == \A i \in Id : finals[i] <= 1 /\ (Status(i) # "closed" => finals[i] = 0)

Unsaved  == {"identity", "generate", "delta", "round", "record", "cap"}
Reading  == {"cancel", "lag", "expire", "abort", "dispatch", "answer", "empty", "assemble", "ask"}

\* What interceptor c holds fits what is stored: its session is still in the
\* turn it found, and its copy of that turn is the stored one or the one it
\* makes of it.  A prompt's new turn has no owner yet.
Current(c) ==
  /\ c.h = "prompt" => c.st = turn[c.s] /\ c.fresh < nextId /\ owner[c.fresh] = None
  /\ c.h \in Reading => c.st = turn[c.s]
  /\ c.h \in Reading \cup Unsaved => InTurn(c.s) /\ c.st.comp = turn[c.s].comp
  /\ c.h \in {"dispatch", "answer", "empty", "ask"} => turn[c.s].phase = "Streaming"
  /\ c.h = "identity" => turn[c.s].phase = "AwaitingIdentity" /\ c.st.phase = "AwaitingPromptBuild"
  /\ c.h = "generate" => turn[c.s].phase = "AwaitingPromptBuild" /\ c.st.phase = "Streaming"
  /\ c.h = "delta" =>
       turn[c.s].phase = "Streaming" /\ c.st.phase = "Streaming" /\ c.st.req = turn[c.s].req
  /\ c.h = "record" =>
       turn[c.s].phase = "AwaitingTools" /\ c.st.phase = "AwaitingTools" /\ Calls(c.st) = Calls(turn[c.s])
  /\ c.h \in {"cap", "round"} => turn[c.s].phase = "AwaitingTools" /\ c.calls = Calls(turn[c.s])
  /\ c.h = "round" => c.st.phase = "Streaming"

BusyCurrent == \A w \in Worker : Current(invocation[w])

BInv == IInv /\ OwnersDrawn /\ BusyCurrent
LInv == BInv /\ TurnsOwned /\ FinalsGood

\* What a step must show of turns, owners and terminal responses.
Follows ==
  TurnsOwned' /\ OwnersDrawn' /\ FinalsGood' /\ [Lifecycle!Next]_(Lifecycle!vars)

\* The parts of the invariant that the lemmas below start from.
LEMMA Turning ==
  ASSUME LInv
  PROVE  /\ turn \in [Session -> Turn] /\ nextId \in 1 .. MaxId + 1 /\ MaxId \in Nat \ {0}
         /\ invocation \in [Worker -> Invocation]
         /\ owner \in [Id -> Session \cup {None}] /\ finals \in [Id -> 0 .. 2]
         /\ TurnsOwned /\ OwnersDrawn /\ FinalsGood /\ BusyCurrent
BY ConstantsAssumption DEF LInv, BInv, IInv, TurnsGood, InvocationsGood, CountersTyped

LEMMA Busying ==
  ASSUME BInv
  PROVE  /\ turn \in [Session -> Turn] /\ nextId \in 1 .. MaxId + 1 /\ MaxId \in Nat \ {0}
         /\ invocation \in [Worker -> Invocation]
         /\ owner \in [Id -> Session \cup {None}]
         /\ history \in [Session -> Seq(Entry)] /\ req2sess \in [Id -> Session \cup {None}]
         /\ OwnersDrawn /\ BusyCurrent
BY ConstantsAssumption DEF BInv, IInv, TurnsGood, InvocationsGood, CountersTyped, KeysTyped, OutsideTyped

\* A step that keeps every session in its turn, or out of one.
LEMMA QuietFollows ==
  ASSUME LInv, UNCHANGED <<owner, finals>>, nextId' \in {nextId, nextId + 1},
         \A s \in Session : /\ turn'[s].phase # "Idle" <=> turn[s].phase # "Idle"
                            /\ turn[s].phase # "Idle" => turn'[s].comp = turn[s].comp
  PROVE  Follows
<1>1. \A i \in Id : Status(i)' = Status(i)
  BY Turning DEF Status, InTurn
<1>2. TurnsOwned'
  BY Turning DEF TurnsOwned, InTurn
<1>3. OwnersDrawn'
  <2> SUFFICES ASSUME NEW i \in Id, owner[i] # None PROVE i < nextId'
    BY DEF OwnersDrawn
  <2>1. i < nextId /\ i \in Nat /\ nextId \in Nat
    BY Turning DEF OwnersDrawn, Id
  <2> QED
    BY <2>1
<1>4. FinalsGood'
  BY <1>1, Turning DEF FinalsGood
<1>5. UNCHANGED Lifecycle!vars
  BY <1>1 DEF Lifecycle!vars
<1> QED
  BY <1>2, <1>3, <1>4, <1>5 DEF Follows

\* A step that ends the turn of one session and publishes its terminal
\* response, or does not.
LEMMA EndFollows ==
  ASSUME LInv, NEW s \in Session, InTurn(s), NEW st, st.phase = "Idle",
         turn' = [turn EXCEPT ![s] = st], UNCHANGED <<owner, nextId>>,
         NEW sent \in BOOLEAN, Final(turn[s], sent)
  PROVE  Follows
<1>0. PICK t \in Id : t = turn[s].comp
  BY Turning DEF TurnsOwned
<1>1. t \in Id /\ t # 0 /\ owner[t] = s /\ Status(t) = "open" /\ finals[t] = 0
  BY <1>0, Turning, ConstantsAssumption DEF TurnsOwned, FinalsGood, Status, InTurn, Id
<1>2. turn'[s] = st /\ \A r \in Session \ {s} : turn'[r] = turn[r]
  BY Turning
<1>3. Status(t)' = "closed"
  BY <1>1, <1>2, ConstantsAssumption DEF Status, InTurn
<1>4. \A i \in Id \ {t} : Status(i)' = Status(i)
  <2> SUFFICES ASSUME NEW i \in Id \ {t} PROVE Status(i)' = Status(i)
    OBVIOUS
  <2>1. CASE owner[i] = s
    BY <1>0, <1>2, <2>1 DEF Status, InTurn
  <2>2. CASE owner[i] \in Session \ {s}
    BY <1>2, <2>2 DEF Status, InTurn
  <2>3. CASE owner[i] = None
    BY <2>3 DEF Status
  <2> QED
    BY <2>1, <2>2, <2>3, Turning
<1>5. finals' = finals \/ finals' = [finals EXCEPT ![t] = 1]
  BY <1>0, <1>1 DEF Final
<1>6. TurnsOwned'
  <2> SUFFICES ASSUME NEW r \in Session, turn'[r].phase # "Idle"
               PROVE  turn'[r].comp \in Id /\ owner[turn'[r].comp] = r
    BY DEF TurnsOwned, InTurn
  <2>1. r # s
    BY <1>2
  <2> QED
    BY <1>2, <2>1, Turning DEF TurnsOwned, InTurn
<1>7. OwnersDrawn'
  BY Turning DEF OwnersDrawn
<1>8. FinalsGood'
  <2> SUFFICES ASSUME NEW i \in Id
               PROVE  finals'[i] <= 1 /\ (Status(i)' # "closed" => finals'[i] = 0)
    BY DEF FinalsGood
  <2>1. CASE i = t
    BY <1>1, <1>3, <1>5, <2>1, Turning
  <2>2. CASE i # t
    <3>1. finals'[i] = finals[i]
      BY <1>5, <2>2, Turning
    <3> QED
      BY <1>4, <2>2, <3>1, Turning DEF FinalsGood
  <2> QED
    BY <2>1, <2>2
<1>9. Lifecycle!Close({t})
  <2> DEFINE status == [i \in Id |-> Status(i)]
  <2>1. \A u \in {t} : status[u] = "open"
    BY <1>1
  <2>2. [i \in Id |-> Status(i)'] = [u \in Id |-> IF u \in {t} THEN "closed" ELSE status[u]]
    BY <1>3, <1>4
  <2> QED
    BY <1>5, <2>1, <2>2 DEF Lifecycle!Close
<1>10. {t} \in SUBSET Id
  BY <1>1
<1> QED
  BY <1>6, <1>7, <1>8, <1>9, <1>10 DEF Follows, Lifecycle!Next

\* A prompt opens the turn it drew a uuid for, over the one of its session.
LEMMA OpenFollows ==
  ASSUME LInv, NEW w \in Worker, "kv" \notin Faults, FinishPrompt(w)
  PROVE  Follows
<1>0. PICK s \in Session, t \in Id, st \in Turn :
        /\ s = invocation[w].s /\ t = invocation[w].fresh
        /\ st.phase = "AwaitingIdentity" /\ st.comp = t
        /\ turn' = [turn EXCEPT ![s] = st]
        /\ owner' = [owner EXCEPT ![t] = s]
  <2>1. invocation[w].s \in Session /\ invocation[w].fresh \in Id
    BY InvocationKnown DEF FinishPrompt, Ready, LInv, BInv, GoodInvocation
  <2> DEFINE o == [FreshTurn EXCEPT !.phase = "AwaitingIdentity", !.req = invocation[w].fresh,
                                    !.comp = invocation[w].fresh]
  <2>2. o \in Turn
    BY <2>1, OpenedTurnGood DEF GoodTurn
  <2>3. o.phase = "AwaitingIdentity" /\ o.comp = invocation[w].fresh
    BY DEF FreshTurn
  <2>4. turn' = [turn EXCEPT ![invocation[w].s] = o]
        /\ owner' = [owner EXCEPT ![invocation[w].fresh] = invocation[w].s]
    BY DEF FinishPrompt, Outcome, Save
  <2> QED
    BY <2>1, <2>2, <2>3, <2>4
<1>1. owner[t] = None /\ t < nextId /\ Status(t) = "none" /\ UNCHANGED <<nextId, finals>>
  <2>1. Current(invocation[w]) /\ invocation[w].h = "prompt"
    BY DEF FinishPrompt, Ready, LInv, BInv, BusyCurrent
  <2> QED
    BY <1>0, <2>1 DEF Current, Status, FinishPrompt
<1>2. /\ turn'[s] = st /\ \A r \in Session \ {s} : turn'[r] = turn[r]
      /\ owner'[t] = s /\ \A i \in Id \ {t} : owner'[i] = owner[i]
      /\ s # None
  BY <1>0, Turning, ConstantsAssumption
<1>3. Status(t)' = "open"
  BY <1>0, <1>2 DEF Status, InTurn
<1>4. \A i \in Id \ {t} : Status(i)' = IF Status(i) = "open" /\ owner[i] = s THEN "closed" ELSE Status(i)
  <2> SUFFICES ASSUME NEW i \in Id \ {t}
               PROVE  Status(i)' = IF Status(i) = "open" /\ owner[i] = s THEN "closed" ELSE Status(i)
    OBVIOUS
  <2>1. CASE owner[i] = s
    BY <1>0, <1>2, <2>1 DEF Status, InTurn
  <2>2. CASE owner[i] \in Session \ {s}
    BY <1>2, <2>2 DEF Status, InTurn
  <2>3. CASE owner[i] = None
    BY <1>2, <2>3 DEF Status
  <2> QED
    BY <2>1, <2>2, <2>3, Turning
<1>5. TurnsOwned'
  <2> SUFFICES ASSUME NEW r \in Session, turn'[r].phase # "Idle"
               PROVE  turn'[r].comp \in Id /\ owner'[turn'[r].comp] = r
    BY DEF TurnsOwned, InTurn
  <2>1. CASE r = s
    BY <1>0, <1>2, <2>1
  <2>2. CASE r # s
    <3>1. turn[r].comp \in Id /\ owner[turn[r].comp] = r /\ turn'[r] = turn[r]
      BY <1>2, <2>2, Turning DEF TurnsOwned, InTurn
    <3>2. turn[r].comp # t
      BY <1>1, <3>1, ConstantsAssumption
    <3> QED
      BY <1>2, <3>1, <3>2
  <2> QED
    BY <2>1, <2>2
<1>6. OwnersDrawn'
  BY <1>1, <1>2, Turning DEF OwnersDrawn
<1>7. FinalsGood'
  BY <1>1, <1>3, <1>4, Turning DEF FinalsGood
<1>8. Lifecycle!Open(s, t)
  <2> DEFINE status == [i \in Id |-> Status(i)]
  <2>1. status[t] = "none"
    BY <1>1
  <2>2. \A u \in Id : u \in Lifecycle!OpenIn(s) <=> Status(u) = "open" /\ owner[u] = s
    BY DEF Lifecycle!OpenIn
  <2>3. [i \in Id |-> Status(i)'] =
          [u \in Id |-> IF u = t THEN "open"
                        ELSE IF u \in Lifecycle!OpenIn(s) THEN "closed" ELSE status[u]]
    BY <1>3, <1>4, <2>2
  <2> QED
    BY <1>0, <1>1, <2>1, <2>3 DEF Lifecycle!Open
<1> QED
  BY <1>5, <1>6, <1>7, <1>8 DEF Follows, Lifecycle!Next

\* The restart after a reload closes every turn, without a terminal response.
LEMMA RestartFollows ==
  ASSUME LInv, NEW w \in Worker, LifecycleRestart(w)
  PROVE  Follows
<1> DEFINE T == {i \in Id : Status(i) = "open"}
<1>1. turn' = [s \in Session |-> FreshTurn] /\ UNCHANGED <<owner, finals, nextId>>
  BY DEF LifecycleRestart, ghosts
<1>2. \A s \in Session : turn'[s].phase = "Idle"
  BY <1>1 DEF FreshTurn
<1>3. \A i \in Id : Status(i)' = IF Status(i) = "open" THEN "closed" ELSE Status(i)
  BY <1>1, <1>2, Turning DEF Status, InTurn
<1>4. TurnsOwned' /\ OwnersDrawn'
  BY <1>1, <1>2, Turning DEF TurnsOwned, OwnersDrawn, InTurn
<1>5. FinalsGood'
  BY <1>1, <1>3, Turning DEF FinalsGood
<1>6. CASE T = {}
  <2>1. [i \in Id |-> Status(i)'] = [i \in Id |-> Status(i)]
    BY <1>3, <1>6
  <2> QED
    BY <1>1, <1>4, <1>5, <2>1 DEF Follows, Lifecycle!vars
<1>7. CASE T # {}
  <2> DEFINE status == [i \in Id |-> Status(i)]
  <2>1. \A u \in T : status[u] = "open"
    OBVIOUS
  <2>2. [i \in Id |-> Status(i)'] = [u \in Id |-> IF u \in T THEN "closed" ELSE status[u]]
    BY <1>3
  <2>3. Lifecycle!Close(T)
    BY <1>1, <1>7, <2>1, <2>2 DEF Lifecycle!Close
  <2>4. T \in SUBSET Id
    OBVIOUS
  <2> QED
    BY <1>4, <1>5, <2>3, <2>4 DEF Follows, Lifecycle!Next
<1> QED
  BY <1>6, <1>7

\* An interceptor's first part changes no turn, owner or response.
LEMMA StartFollows ==
  ASSUME LInv, NEW w \in Worker, Start(w)
  PROVE  Follows
<1>1. CASE LifecycleRestart(w)
  BY <1>1, RestartFollows
<1>2. ASSUME UNCHANGED <<turn, owner, finals>>, nextId' \in {nextId, nextId + 1} PROVE Follows
  BY <1>2, QuietFollows
<1>3. ASSUME NEW s \in Session,
             \/ UserPrompt(w, s) \/ CancelTurn(w, s) \/ SessionClear(w, s)
             \/ WatchdogTick(w, s) \/ BusLag(w, s)
      PROVE  Follows
  BY <1>2, <1>3 DEF UserPrompt, CancelTurn, SessionClear, WatchdogTick, BusLag, kv, ghosts
<1>4. ASSUME NEW s \in Session, NEW i \in Id,
             \/ StreamTooLate(w, s, i) \/ TextDelta(w, s, i)
             \/ StreamDone(w, s, i) \/ StreamError(w, s, i)
             \/ \E c \in CallId : ToolCallStart(w, s, i, c)
      PROVE  Follows
  BY <1>2, <1>4 DEF StreamTooLate, TextDelta, StreamDone, StreamError, ToolCallStart, kv, ghosts
<1>5. ASSUME NEW s \in Session, NEW j \in jobs, ResultTooLate(w, s, j) \/ ToolResult(w, s, j)
      PROVE  Follows
  BY <1>2, <1>5 DEF ResultTooLate, ToolResult, kv, ghosts
<1>6. ASSUME NEW m \in replies,
             \/ ReplyTooLate(w, m) \/ Redrive(w, m) \/ DropReply(w, m)
             \/ IdentityResponse(w, m) \/ PromptResponse(w, m)
      PROVE  Follows
  BY <1>2, <1>6 DEF ReplyTooLate, Redrive, DropReply, IdentityResponse, PromptResponse, kv, ghosts
<1> QED
  BY <1>1, <1>3, <1>4, <1>5, <1>6, Zenon DEF Start

\* The busy worker's session is in the turn it works on.
LEMMA BusyTurn ==
  ASSUME BInv, NEW w \in Worker, NEW c, c = invocation[w], c.h \in Reading \cup Unsaved
  PROVE  /\ c.s \in Session /\ InTurn(c.s) /\ c.st.comp = turn[c.s].comp
         /\ c.st \in Turn /\ c.st.phase # "Idle" /\ Current(c)
<1>1. c.s \in Session /\ c.st \in Turn /\ c.st.phase # "Idle"
  BY InvocationKnown DEF BInv, GoodInvocation, GoodTurn, Reading, Unsaved
<1>2. Current(c)
  BY DEF BInv, BusyCurrent
<1> QED
  BY <1>1, <1>2 DEF Current

\* Saving a turn that goes on.
LEMMA KeepFollows ==
  ASSUME LInv, NEW s \in Session, InTurn(s), NEW st, st.phase # "Idle", st.comp = turn[s].comp,
         turn' = [turn EXCEPT ![s] = st], UNCHANGED <<owner, finals, nextId>>
  PROVE  Follows
<1>1. \A r \in Session : turn'[r] = IF r = s THEN st ELSE turn[r]
  BY Turning
<1> QED
  BY <1>1, QuietFollows DEF InTurn

\* Going Idle ends the turn.
LEMMA IdleFollows ==
  ASSUME LInv, "kv" \notin Faults, NEW w \in Worker, NEW c, c = invocation[w],
         c.h \in Reading \cup Unsaved, NEW st, st.phase = "Idle",
         NEW saved \in Outcome("kv"), SaveIdle(c, st, saved),
         NEW sent \in BOOLEAN, Final(c.st, sent), UNCHANGED <<owner, nextId>>
  PROVE  Follows
<1>1. turn' = [turn EXCEPT ![c.s] = st]
  BY DEF Outcome, SaveIdle, Save
<1>2. c.s \in Session /\ InTurn(c.s) /\ c.st.comp = turn[c.s].comp
  BY BusyTurn DEF LInv
<1>3. Final(turn[c.s], sent)
  BY <1>2 DEF Final
<1> QED
  BY <1>1, <1>2, <1>3, EndFollows

\* The parts that save and go on.
LEMMA SaveAndFollows ==
  ASSUME LInv, "kv" \notin Faults, NEW w \in Worker,
         \/ FinishIdentity(w) \/ FinishGenerate(w) \/ FinishRound(w) \/ FinishDelta(w)
         \/ FinishRecord(w)
  PROVE  Follows
<1>1. PICK c : c = invocation[w]
  OBVIOUS
<1>2. c.h \in Unsaved
  BY <1>1 DEF FinishIdentity, FinishGenerate, FinishRound, FinishDelta, FinishRecord, SaveAnd, Ready, Unsaved
<1>3. turn' = [turn EXCEPT ![c.s] = c.st] /\ UNCHANGED <<owner, finals, nextId>>
  BY <1>1 DEF FinishIdentity, FinishGenerate, FinishRound, FinishDelta, FinishRecord, SaveAnd,
     Outcome, Save, ghosts
<1> QED
  BY <1>1, <1>2, <1>3, BusyTurn, KeepFollows DEF LInv

\* The parts that end the turn.
LEMMA EndingFollows ==
  ASSUME LInv, "kv" \notin Faults, NEW w \in Worker,
         \/ FinishAnswer(w) \/ FinishEmpty(w) \/ FinishCap(w) \/ FinishExpire(w)
         \/ FinishAbort(w) \/ FinishCancel(w) \/ NoModel(w)
  PROVE  Follows
<1>1. PICK c : c = invocation[w]
  OBVIOUS
<1>2. c.h \in Reading \cup Unsaved /\ UNCHANGED <<owner, nextId>>
  BY <1>1 DEF FinishAnswer, FinishEmpty, FinishCap, FinishExpire, FinishAbort, FinishCancel,
     NoModel, Abort, Ready, Reading, Unsaved, ghosts
<1>3. c.st \in Turn
  BY <1>1, <1>2, BusyTurn DEF LInv
<1>4. FreshTurn.phase = "Idle" /\ [c.st EXCEPT !.phase = "Idle"].phase = "Idle"
  BY <1>3 DEF FreshTurn, Turn
<1>5. \A f : Outcome(f) \subseteq BOOLEAN
  BY DEF Outcome
<1>6. CASE FinishAnswer(w) \/ FinishEmpty(w)
  <2> DEFINE st == [c.st EXCEPT !.phase = "Idle"]
  <2>1. \/ UNCHANGED <<turn, finals>>
        \/ \E sent \in BOOLEAN, saved \in Outcome("kv") : Final(c.st, sent) /\ SaveIdle(c, st, saved)
    BY <1>1, <1>5, <1>6 DEF FinishAnswer, FinishEmpty, Final, ghosts
  <2>2. CASE UNCHANGED <<turn, finals>>
    BY <1>2, <2>2, QuietFollows
  <2> HIDE DEF st
  <2>3. st.phase = "Idle"
    BY <1>4 DEF st
  <2> QED
    BY <1>1, <1>2, <2>1, <2>2, <2>3, IdleFollows
<1>7. CASE FinishCap(w) \/ FinishExpire(w) \/ FinishAbort(w) \/ FinishCancel(w) \/ NoModel(w)
  <2>1. \E sent \in BOOLEAN, saved \in Outcome("kv") : Final(c.st, sent) /\ SaveIdle(c, FreshTurn, saved)
    BY <1>1, <1>5, <1>7 DEF FinishCap, FinishExpire, FinishAbort, FinishCancel, NoModel, Abort
  <2> QED
    BY <1>1, <1>2, <1>4, <2>1, IdleFollows
<1> QED
  BY <1>6, <1>7

\* A dispatch goes on to the tools or ends the turn.
LEMMA DispatchFollows ==
  ASSUME LInv, "kv" \notin Faults, NEW w \in Worker, FinishDispatch(w)
  PROVE  Follows
<1>1. PICK c : c = invocation[w]
  OBVIOUS
<1>2. c.h \in Reading /\ UNCHANGED <<owner, nextId>> /\ c.h = "dispatch"
  BY <1>1 DEF FinishDispatch, Ready, Reading
<1>3. c.s \in Session /\ InTurn(c.s) /\ c.st.comp = turn[c.s].comp /\ c.st \in Turn
  BY <1>1, <1>2, BusyTurn DEF LInv
<1>4. Dispatch(c.st).phase = "AwaitingTools" /\ Dispatch(c.st).comp = c.st.comp
      /\ [Dispatch(c.st) EXCEPT !.phase = "Idle"].phase = "Idle"
  BY <1>3 DEF Dispatch, Turn
<1>5. \/ turn' = [turn EXCEPT ![c.s] = Dispatch(c.st)] /\ finals' = finals
      \/ \E sent \in BOOLEAN : /\ turn' = [turn EXCEPT ![c.s] = [Dispatch(c.st) EXCEPT !.phase = "Idle"]]
                               /\ Final(c.st, sent)
  BY <1>1 DEF FinishDispatch, Save, Outcome
<1>6. CASE turn' = [turn EXCEPT ![c.s] = Dispatch(c.st)] /\ finals' = finals
  BY <1>2, <1>3, <1>4, <1>6, KeepFollows
<1>7. ASSUME NEW sent \in BOOLEAN, Final(c.st, sent),
             turn' = [turn EXCEPT ![c.s] = [Dispatch(c.st) EXCEPT !.phase = "Idle"]]
      PROVE  Follows
  <2>1. Final(turn[c.s], sent)
    BY <1>3, <1>7 DEF Final
  <2> QED
    BY <1>2, <1>3, <1>4, <1>7, <2>1, EndFollows
<1> QED
  BY <1>5, <1>6, <1>7

\* Clearing a session ends its turn silently, if it is in one.
LEMMA ClearFollows ==
  ASSUME LInv, NEW w \in Worker, FinishClear(w)
  PROVE  Follows
<1>1. PICK s \in Session : s = invocation[w].s
  BY InvocationKnown DEF FinishClear, Ready, LInv, BInv
<1>2. turn' = [turn EXCEPT ![s] = FreshTurn] /\ UNCHANGED <<owner, finals, nextId>>
  BY <1>1 DEF FinishClear, ghosts
<1>3. FreshTurn.phase = "Idle"
  BY DEF FreshTurn
<1>4. CASE InTurn(s)
  <2>1. Final(turn[s], FALSE)
    BY <1>2 DEF Final
  <2> QED
    BY <1>2, <1>3, <1>4, <2>1, EndFollows
<1>5. CASE ~InTurn(s)
  <2>1. \A r \in Session : turn'[r] = IF r = s THEN FreshTurn ELSE turn[r]
    BY <1>2, Turning
  <2> QED
    BY <1>2, <1>3, <1>5, <2>1, QuietFollows DEF InTurn
<1> QED
  BY <1>4, <1>5

\* Every part after an interceptor's first.
LEMMA ResumeFollows ==
  ASSUME LInv, "kv" \notin Faults, NEW w \in Worker, Resume(w)
  PROVE  Follows
<1>1. CASE SessionReply(w) \/ SessionFailed(w) \/ FinishAssemble(w) \/ FinishAsk(w)
  <2>1. UNCHANGED <<turn, owner, finals, nextId>>
    BY <1>1 DEF SessionReply, SessionFailed, FinishAssemble, FinishAsk, kv, ghosts
  <2> QED
    BY <2>1, QuietFollows
<1> QED
  BY <1>1, OpenFollows, SaveAndFollows, EndingFollows, DispatchFollows, ClearFollows DEF Resume

\* With one worker, what it holds is all there is to look at.
LEMMA OnlyOne ==
  ASSUME BInv, Serialized, NEW w \in Worker, Current(invocation[w])'
  PROVE  BusyCurrent'
BY DEF BusyCurrent, Serialized

\* No worker is busy once the only one has returned.
LEMMA ReturnedCurrent ==
  ASSUME BInv, Serialized, NEW w \in Worker, Return(w)
  PROVE  BusyCurrent'
<1>1. invocation'[w].h = "free"
  BY Busying DEF Return, Free
<1>2. Current(invocation[w])'
  BY <1>1 DEF Current, Reading, Unsaved
<1> QED
  BY <1>2, OnlyOne

\* Recording a result keeps the turn's name and its calls.
LEMMA RecordedSame ==
  ASSUME NEW st \in Turn, NEW j \in Job
  PROVE  /\ Recorded(st, j).comp = st.comp /\ Recorded(st, j).phase = st.phase
         /\ Recorded(st, j).req = st.req /\ Recorded(st, j).iter = st.iter
         /\ Calls(Recorded(st, j)) = Calls(st)
<1> DEFINE k == First(Matching(st, j))
           d == [st.dispatched EXCEPT ![k].from = j.id]
<1>1. st.dispatched \in Seq(Dispatched)
  BY DEF Turn
<1>2. DOMAIN d = DOMAIN st.dispatched /\ \A i \in DOMAIN st.dispatched : st.dispatched[i] \in Dispatched
  BY <1>1, LenProperties, ElementOfSeq
<1>3. \A i \in DOMAIN st.dispatched : d[i].call = st.dispatched[i].call
  BY <1>2 DEF Dispatched
<1> HIDE DEF d
<1>4. CASE Matching(st, j) = {}
  BY <1>4 DEF Recorded
<1>5. CASE Matching(st, j) # {}
  <2>1. Recorded(st, j) = [st EXCEPT !.dispatched = d]
    BY <1>5 DEF Recorded, d, Turn
  <2>2. Recorded(st, j).dispatched = d
    BY <2>1 DEF Turn
  <2>3. Calls(Recorded(st, j)) = Calls(st)
    BY <1>2, <1>3, <2>2 DEF Calls
  <2> QED
    BY <2>1, <2>3 DEF Turn
<1> QED
  BY <1>4, <1>5

\* What an interceptor finds is what it holds.
LEMMA StartCurrent ==
  ASSUME BInv, Serialized, NEW w \in Worker, Start(w)
  PROVE  BusyCurrent'
<1>1. ASSUME UNCHANGED <<turn, owner, nextId, invocation>> PROVE BusyCurrent'
  BY <1>1 DEF BInv, BusyCurrent, Current, InTurn
<1>2. ASSUME NEW s \in Session,
             \/ UserPrompt(w, s) \/ CancelTurn(w, s) \/ SessionClear(w, s)
             \/ WatchdogTick(w, s) \/ BusLag(w, s)
      PROVE  BusyCurrent'
  <2>1. UNCHANGED <<turn, owner>>
    BY <1>2 DEF UserPrompt, CancelTurn, SessionClear, WatchdogTick, BusLag, kv, ghosts
  <2>2. CASE UserPrompt(w, s)
    <3>1. /\ invocation'[w].h = "prompt" /\ invocation'[w].s = s /\ invocation'[w].st = turn[s]
          /\ invocation'[w].fresh = nextId /\ nextId' = nextId + 1
      BY <2>2, Busying DEF UserPrompt, Begin
    <3>2. nextId < nextId' /\ owner[nextId] = None
      <4>1. nextId \in Id
        BY <2>2, Busying DEF UserPrompt, Id
      <4> QED
        BY <3>1, <4>1, Busying DEF OwnersDrawn, Id
    <3> QED
      BY <2>1, <3>1, <3>2, OnlyOne DEF Current, Reading, Unsaved
  <2>3. CASE SessionClear(w, s)
    <3>1. invocation'[w].h = "clear"
      BY <2>3, Busying DEF SessionClear, Begin
    <3> QED
      BY <3>1, OnlyOne DEF Current, Reading, Unsaved
  <2>4. CASE CancelTurn(w, s) \/ WatchdogTick(w, s) \/ BusLag(w, s)
    <3>1. /\ invocation'[w].h \in {"cancel", "expire", "lag"} /\ InTurn(s)
          /\ invocation'[w].s = s /\ invocation'[w].st = turn[s]
      BY <2>4, Busying DEF CancelTurn, WatchdogTick, BusLag, Begin, InTurn
    <3> QED
      BY <2>1, <3>1, OnlyOne DEF Current, Reading, Unsaved, InTurn
  <2> QED
    BY <1>2, <2>2, <2>3, <2>4
<1>3. ASSUME NEW s \in Session, NEW i \in Id,
             \/ StreamTooLate(w, s, i) \/ TextDelta(w, s, i)
             \/ StreamDone(w, s, i) \/ StreamError(w, s, i)
             \/ \E c \in CallId : ToolCallStart(w, s, i, c)
      PROVE  BusyCurrent'
  <2>1. UNCHANGED <<turn, owner>>
    BY <1>3 DEF StreamTooLate, TextDelta, StreamDone, StreamError, ToolCallStart, kv, ghosts
  <2>2. turn[s] \in Turn
    BY Busying
  <2>3. CASE TextDelta(w, s, i) \/ \E c \in CallId : ToolCallStart(w, s, i, c)
    <3>1. /\ invocation'[w].h = "delta" /\ invocation'[w].s = s /\ turn[s].phase = "Streaming"
          /\ invocation'[w].st.comp = turn[s].comp /\ invocation'[w].st.phase = "Streaming"
          /\ invocation'[w].st.req = turn[s].req
      BY <2>2, <2>3, Busying DEF TextDelta, ToolCallStart, StreamOf, Begin, Turn
    <3> QED
      BY <2>1, <3>1, OnlyOne DEF Current, Reading, Unsaved, InTurn
  <2>4. CASE StreamTooLate(w, s, i) \/ StreamError(w, s, i)
    <3>1. /\ invocation'[w].h \in {"expire", "abort"} /\ InTurn(s)
          /\ invocation'[w].s = s /\ invocation'[w].st = turn[s]
      BY <2>4, Busying DEF StreamTooLate, StreamError, StreamOf, Begin, InTurn
    <3> QED
      BY <2>1, <3>1, OnlyOne DEF Current, Reading, Unsaved, InTurn
  <2>5. CASE StreamDone(w, s, i)
    <3>1. /\ invocation'[w].h \in {"dispatch", "answer", "empty"} /\ turn[s].phase = "Streaming"
          /\ invocation'[w].s = s /\ invocation'[w].st = turn[s]
      BY <2>5, Busying DEF StreamDone, StreamOf, Begin
    <3> QED
      BY <2>1, <3>1, OnlyOne DEF Current, Reading, Unsaved, InTurn
  <2> QED
    BY <1>3, <2>3, <2>4, <2>5
<1>4. ASSUME NEW s \in Session, NEW j \in jobs, ResultTooLate(w, s, j) \/ ToolResult(w, s, j)
      PROVE  BusyCurrent'
  <2>1. UNCHANGED <<turn, owner>>
    BY <1>4 DEF ResultTooLate, ToolResult, kv, ghosts
  <2>2. CASE ResultTooLate(w, s, j)
    <3>1. /\ invocation'[w].h = "expire" /\ InTurn(s)
          /\ invocation'[w].s = s /\ invocation'[w].st = turn[s]
      BY <2>2, Busying DEF ResultTooLate, Begin
    <3> QED
      BY <2>1, <3>1, OnlyOne DEF Current, Reading, Unsaved, InTurn
  <2>3. CASE ToolResult(w, s, j)
    <3>1. PICK st \in Turn : /\ st = Recorded(turn[s], j)
                             /\ st.comp = turn[s].comp /\ st.phase = turn[s].phase
                             /\ Calls(st) = Calls(turn[s])
      <4>1. j \in Job /\ turn[s] \in Turn /\ GoodTurn(turn[s])
        BY Busying DEF BInv, IInv, OutsideTyped, TurnsGood
      <4>2. Recorded(turn[s], j) \in Turn
        BY <4>1, RecordedGood DEF GoodTurn
      <4> QED
        BY <4>1, <4>2, RecordedSame
    <3>2. turn[s].phase = "AwaitingTools" /\ invocation'[w].s = s
      BY <2>3, Busying DEF ToolResult, Begin
    <3>3. \/ invocation'[w].h = "record" /\ invocation'[w].st = st
          \/ invocation'[w].h = "cap" /\ invocation'[w].st = st /\ invocation'[w].calls = Calls(st)
          \/ /\ invocation'[w].h = "round" /\ invocation'[w].calls = Calls(st)
             /\ invocation'[w].st.phase = "Streaming" /\ invocation'[w].st.comp = st.comp
      <4> DEFINE next == [st EXCEPT !.phase = "Streaming", !.req = nextId, !.text = FALSE,
                                    !.pending = <<>>, !.dispatched = <<>>, !.iter = @ + 1]
      <4>1. next.phase = "Streaming" /\ next.comp = st.comp
        BY DEF Turn
      <4>2. \/ Begin(w, "record", s, st, "none", 0, {})
            \/ Begin(w, "cap", s, st, "none", 0, Calls(st))
            \/ Begin(w, "round", s, next, "wait", 0, Calls(st))
        BY <2>3, <3>1 DEF ToolResult
      <4> HIDE DEF next
      <4> QED
        BY <4>1, <4>2, Busying DEF Begin
    <3> QED
      BY <2>1, <3>1, <3>2, <3>3, OnlyOne DEF Current, Reading, Unsaved, InTurn
  <2> QED
    BY <1>4, <2>2, <2>3
<1>5. ASSUME NEW m \in replies,
             \/ ReplyTooLate(w, m) \/ Redrive(w, m) \/ DropReply(w, m)
             \/ IdentityResponse(w, m) \/ PromptResponse(w, m)
      PROVE  BusyCurrent'
  <2>1. UNCHANGED <<turn, owner, nextId>>
    BY <1>5 DEF ReplyTooLate, Redrive, DropReply, IdentityResponse, PromptResponse, kv, ghosts
  <2>2. m.s \in Session /\ turn[m.s] \in Turn
    BY Busying DEF BInv, IInv, OutsideTyped, Reply
  <2>3. CASE Redrive(w, m) \/ DropReply(w, m)
    BY <1>1, <2>1, <2>3 DEF Redrive, DropReply
  <2>4. CASE ReplyTooLate(w, m)
    <3>1. /\ invocation'[w].h = "expire" /\ InTurn(m.s)
          /\ invocation'[w].s = m.s /\ invocation'[w].st = turn[m.s]
      BY <2>4, Busying DEF ReplyTooLate, Begin
    <3> QED
      BY <2>1, <3>1, OnlyOne DEF Current, Reading, Unsaved, InTurn
  <2>5. CASE IdentityResponse(w, m)
    <3>1. /\ invocation'[w].h = "identity" /\ invocation'[w].s = m.s
          /\ turn[m.s].phase = "AwaitingIdentity"
          /\ invocation'[w].st.phase = "AwaitingPromptBuild"
          /\ invocation'[w].st.comp = turn[m.s].comp
      BY <2>2, <2>5, Busying DEF IdentityResponse, Expected, Begin, Turn
    <3> QED
      BY <2>1, <3>1, OnlyOne DEF Current, Reading, Unsaved, InTurn
  <2>6. CASE PromptResponse(w, m)
    <3>1. /\ invocation'[w].h = "generate" /\ invocation'[w].s = m.s
          /\ turn[m.s].phase = "AwaitingPromptBuild"
          /\ invocation'[w].st.phase = "Streaming"
          /\ invocation'[w].st.comp = turn[m.s].comp
      BY <2>2, <2>6, Busying DEF PromptResponse, Expected, Begin, Turn
    <3> QED
      BY <2>1, <3>1, OnlyOne DEF Current, Reading, Unsaved, InTurn
  <2> QED
    BY <1>5, <2>3, <2>4, <2>5, <2>6
<1>6. CASE LifecycleRestart(w)
  <2>1. invocation'[w].h = "free"
    BY <1>6 DEF LifecycleRestart, Free
  <2> QED
    BY <2>1, OnlyOne DEF Current, Reading, Unsaved
<1> QED
  BY <1>2, <1>3, <1>4, <1>5, <1>6, Zenon DEF Start

\* An interceptor that goes on holds what it just saved.
LEMMA SaveAndCurrent ==
  ASSUME BInv, Serialized, NEW w \in Worker,
         FinishIdentity(w) \/ FinishGenerate(w) \/ FinishRound(w) \/ FinishDelta(w)
  PROVE  BusyCurrent'
<1>1. PICK c : c = invocation[w]
  OBVIOUS
<1>2. c.h \in Unsaved /\ c.h \in {"identity", "generate", "round", "delta"}
  BY <1>1 DEF FinishIdentity, FinishGenerate, FinishRound, FinishDelta, SaveAnd, Ready, Unsaved
<1>3. c.s \in Session /\ Current(c) /\ c \in Invocation
  BY <1>1, <1>2, BusyTurn, Busying
<1>5. \/ Return(w)
      \/ /\ turn' = [turn EXCEPT ![c.s] = c.st]
         /\ \/ c.h = "identity" /\ Continue(w, "assemble")
            \/ c.h \in {"generate", "round"} /\ Continue(w, "ask")
  BY <1>1, <1>2 DEF FinishIdentity, FinishGenerate, FinishRound, FinishDelta, SaveAnd, Ready, Outcome, Save
<1>6. CASE Return(w)
  BY <1>6, ReturnedCurrent
<1>7. ASSUME NEW h \in {"assemble", "ask"}, Continue(w, h), turn' = [turn EXCEPT ![c.s] = c.st],
             h = "assemble" => c.h = "identity", h = "ask" => c.h \in {"generate", "round"}
      PROVE  BusyCurrent'
  <2>0. turn'[c.s] = c.st
    BY <1>3, <1>7, Busying
  <2>1. invocation'[w].h = h /\ invocation'[w].s = c.s /\ invocation'[w].st = c.st
    BY <1>1, <1>3, <1>7, Busying DEF Continue, Invocation
  <2>2. c.st.phase # "Idle" /\ (h = "ask" => c.st.phase = "Streaming")
    BY <1>3, <1>7 DEF Current
  <2> QED
    BY <2>0, <2>1, <2>2, OnlyOne DEF Current, Reading, Unsaved, InTurn
<1> QED
  BY <1>5, <1>6, <1>7

\* ... and every other part after the first returns, or gets its answer.
LEMMA ResumeCurrent ==
  ASSUME BInv, Serialized, NEW w \in Worker, Resume(w)
  PROVE  BusyCurrent'
<1>1. CASE SessionReply(w)
  <2>1. /\ invocation'[w].h = invocation[w].h /\ invocation'[w].s = invocation[w].s
        /\ invocation'[w].st = invocation[w].st /\ invocation'[w].fresh = invocation[w].fresh
        /\ invocation'[w].calls = invocation[w].calls
        /\ UNCHANGED <<turn, owner, nextId>>
    BY <1>1, Busying DEF SessionReply, Invocation, kv, ghosts
  <2>2. Current(invocation[w])
    BY DEF BInv, BusyCurrent
  <2> QED
    BY <2>1, <2>2, OnlyOne DEF Current, InTurn
<1>2. CASE \/ SessionFailed(w) \/ FinishPrompt(w) \/ FinishAssemble(w) \/ FinishAsk(w)
           \/ NoModel(w) \/ FinishDispatch(w) \/ FinishAnswer(w) \/ FinishEmpty(w)
           \/ FinishAbort(w) \/ FinishCancel(w) \/ FinishExpire(w) \/ FinishRecord(w)
           \/ FinishCap(w) \/ FinishClear(w)
  <2>1. Return(w)
    BY <1>2 DEF SessionFailed, FinishPrompt, FinishAssemble, FinishAsk, NoModel, FinishDispatch,
       FinishAnswer, FinishEmpty, FinishAbort, FinishCancel, FinishExpire, FinishRecord,
       FinishCap, FinishClear, Abort
  <2> QED
    BY <2>1, ReturnedCurrent
<1> QED
  BY <1>1, <1>2, SaveAndCurrent DEF Resume

\* Before the first event there is no turn.
LEMMA InitLifecycle == Init => LInv /\ Lifecycle!Init
<1> SUFFICES ASSUME Init PROVE LInv /\ Lifecycle!Init
  OBVIOUS
<1>1. \A i \in Id : Status(i) = "none" /\ owner[i] = None /\ finals[i] = 0
  BY DEF Init, Status
<1>2. TurnsOwned /\ OwnersDrawn /\ FinalsGood
  BY <1>1 DEF Init, TurnsOwned, OwnersDrawn, FinalsGood, InTurn, FreshTurn
<1>3. BusyCurrent
  BY DEF Init, BusyCurrent, Current, Free, Reading, Unsaved
<1>4. Lifecycle!Init
  BY <1>1 DEF Init, Lifecycle!Init
<1> QED
  BY <1>2, <1>3, <1>4, InitGood DEF LInv, BInv

\* Every step keeps the invariant and is a step of AgentTurn, or changes
\* nothing that AgentTurn speaks of.
LEMMA NextLifecycle ==
  ASSUME Serialized, "kv" \notin Faults
  PROVE  LInv /\ [Next]_vars => LInv' /\ [Lifecycle!Next]_(Lifecycle!vars)
<1> SUFFICES ASSUME LInv, [Next]_vars PROVE Follows /\ BusyCurrent'
  BY NextGood DEF LInv, BInv, Follows
<1>1. ASSUME NEW w \in Worker, Start(w) \/ Resume(w) PROVE Follows /\ BusyCurrent'
  BY <1>1, StartFollows, StartCurrent, ResumeFollows, ResumeCurrent DEF LInv
<1>2. ASSUME UNCHANGED <<turn, owner, finals, nextId>> PROVE Follows
  BY <1>2, QuietFollows
<1>3. CASE (\E s \in Session : Age(s)) \/ Lose \/ UNCHANGED vars
  <2>1. UNCHANGED <<turn, owner, finals, nextId, invocation>>
    BY <1>3 DEF Age, Lose, vars, kv, ghosts
  <2> QED
    BY <1>2, <2>1 DEF LInv, BInv, BusyCurrent, Current, InTurn
<1>4. CASE Reload
  <2>1. UNCHANGED <<turn, owner, finals, nextId>> /\ invocation' = [w \in Worker |-> Free]
    BY <1>4 DEF Reload, kv, ghosts
  <2> QED
    BY <1>2, <2>1 DEF BusyCurrent, Current, Free, Reading, Unsaved
<1> QED
  BY <1>1, <1>3, <1>4 DEF Next

\* The coordinator implements the turn lifecycle's safety part: a session is
\* in one turn at most, a turn closes once, and its terminal response is
\* published, if at all, as it closes.
THEOREM Refinement ==
  ASSUME Serialized, "kv" \notin Faults
  PROVE  Spec => ImplementsLifecycle
<1>1. LInv /\ [Next]_vars => LInv' /\ [Lifecycle!Next]_(Lifecycle!vars)
  BY NextLifecycle
<1> QED
  BY InitLifecycle, <1>1, PTL DEF Spec, ImplementsLifecycle, Lifecycle!Spec

\* A frontend sees at most one terminal response of a turn, whatever was
\* late, lost, delivered twice, cleared, cancelled or reloaded.
THEOREM OneFinalAtMost ==
  ASSUME Serialized, "kv" \notin Faults
  PROVE  Spec => []AtMostOneFinal
<1>1. LInv /\ [Next]_vars => LInv'
  BY NextLifecycle
<1>2. LInv => AtMostOneFinal
  BY DEF LInv, BInv, FinalsGood, AtMostOneFinal
<1> QED
  BY InitLifecycle, <1>1, <1>2, PTL DEF Spec

-----------------------------------------------------------------------------
(* Correlation keys.                                                       *)

\* A generation that is done has given up its request's mapping.
DoneUnmapped ==
  \A w \in Worker : invocation[w].h \in {"dispatch", "answer", "empty"} =>
    req2sess[invocation[w].st.req] = None

\* Nobody clears a session.
NoClear == \A w \in Worker : invocation[w].h # "clear"

MInv == LInv /\ MappingsOwned /\ DoneUnmapped /\ NoClear

\* MappingsOwned, without the quantifier's nesting: what each mapping that
\* is left after a step must show.
LEMMA OwnedBy ==
  ASSUME \A i \in Id : req2sess'[i] # None =>
           turn'[req2sess'[i]].phase = "Streaming" /\ turn'[req2sess'[i]].req = i,
         \A c \in CallId : call2sess'[c] # None =>
           turn'[call2sess'[c]].phase = "AwaitingTools" /\ c \in Calls(turn'[call2sess'[c]])
  PROVE  MappingsOwned'
BY DEF MappingsOwned, Calls

\* The mappings' part of the invariant.
LEMMA Mapping ==
  ASSUME MInv
  PROVE  /\ req2sess \in [Id -> Session \cup {None}]
         /\ call2sess \in [CallId -> Session \cup {None}]
         /\ turn \in [Session -> Turn] /\ None \notin Session
         /\ \A i \in Id : req2sess[i] # None =>
              /\ req2sess[i] \in Session
              /\ turn[req2sess[i]].phase = "Streaming" /\ turn[req2sess[i]].req = i
         /\ \A c \in CallId : call2sess[c] # None =>
              /\ call2sess[c] \in Session
              /\ turn[call2sess[c]].phase = "AwaitingTools" /\ c \in Calls(turn[call2sess[c]])
         /\ LInv /\ BInv /\ DoneUnmapped /\ NoClear
BY ConstantsAssumption DEF MInv, LInv, BInv, IInv, KeysTyped, TurnsGood, MappingsOwned

\* Forgetting mappings disturbs nothing.
LEMMA ForgetOwned ==
  ASSUME MInv, UNCHANGED turn,
         \A i \in Id : req2sess'[i] \in {req2sess[i], None},
         \A c \in CallId : call2sess'[c] \in {call2sess[c], None}
  PROVE  MappingsOwned'
BY Mapping, OwnedBy

\* A turn whose mappings are all gone may become any turn.
LEMMA ReplaceOwned ==
  ASSUME MInv, NEW s \in Session, NEW st, turn' = [turn EXCEPT ![s] = st],
         \A i \in Id : req2sess'[i] \in {req2sess[i], None} /\ req2sess'[i] # s,
         \A c \in CallId : call2sess'[c] \in {call2sess[c], None} /\ call2sess'[c] # s
  PROVE  MappingsOwned'
<1>1. \A r \in Session \ {s} : turn'[r] = turn[r]
  BY Mapping
<1> QED
  BY <1>1, Mapping, OwnedBy

\* cleanup_inflight_mappings takes all of a stored turn's mappings.
LEMMA CleanupComplete ==
  ASSUME MInv, NEW s \in Session, Cleanup(turn[s])
  PROVE  /\ \A i \in Id : req2sess'[i] \in {req2sess[i], None} /\ req2sess'[i] # s
         /\ \A c \in CallId : call2sess'[c] \in {call2sess[c], None} /\ call2sess'[c] # s
BY Mapping DEF Cleanup, Without

\* No mapping leads to a session that awaits neither a generation nor
\* results, nor to one whose generation is done.
LEMMA NoneMapped ==
  ASSUME MInv, NEW s \in Session
  PROVE  /\ turn[s].phase # "Streaming" => \A i \in Id : req2sess[i] # s
         /\ turn[s].phase # "AwaitingTools" => \A c \in CallId : call2sess[c] # s
         /\ req2sess[turn[s].req] = None => \A i \in Id : req2sess[i] # s
BY Mapping

\* What an interceptor that starts forgets.
LEMMA StartMapped ==
  ASSUME MInv, Serialized, "clear" \notin Interrupts, NEW w \in Worker, Start(w)
  PROVE  MappingsOwned' /\ DoneUnmapped' /\ NoClear'
<1>1. ASSUME UNCHANGED <<turn, req2sess, call2sess>>,
             invocation'[w].h \notin {"dispatch", "answer", "empty", "clear"}
      PROVE  MappingsOwned' /\ DoneUnmapped' /\ NoClear'
  BY <1>1, ForgetOwned DEF DoneUnmapped, NoClear, Serialized
<1>2. ASSUME NEW s \in Session,
             \/ UserPrompt(w, s) \/ CancelTurn(w, s) \/ SessionClear(w, s)
             \/ WatchdogTick(w, s) \/ BusLag(w, s)
      PROVE  MappingsOwned' /\ DoneUnmapped' /\ NoClear'
  <2>1. UNCHANGED <<turn, req2sess, call2sess>>
    BY <1>2 DEF UserPrompt, CancelTurn, SessionClear, WatchdogTick, BusLag, kv
  <2>2. invocation'[w].h \in {"prompt", "cancel", "expire", "lag"}
    BY <1>2, Mapping, Turning DEF UserPrompt, CancelTurn, SessionClear, WatchdogTick, BusLag, Begin
  <2> QED
    BY <1>1, <2>1, <2>2
<1>3. ASSUME NEW s \in Session, NEW i \in Id,
             \/ StreamTooLate(w, s, i) \/ TextDelta(w, s, i)
             \/ StreamDone(w, s, i) \/ StreamError(w, s, i)
             \/ \E c \in CallId : ToolCallStart(w, s, i, c)
      PROVE  MappingsOwned' /\ DoneUnmapped' /\ NoClear'
  <2>1. CASE StreamDone(w, s, i)
    <3>1. req2sess' = Without(req2sess, {i}) /\ UNCHANGED <<turn, call2sess>>
      BY <2>1 DEF StreamDone
    <3>2. MappingsOwned'
      BY <3>1, Mapping, ForgetOwned DEF Without
    <3>3. /\ invocation'[w].h \in {"dispatch", "answer", "empty"}
          /\ invocation'[w].st = turn[s] /\ turn[s].req = i
      BY <2>1, Mapping, Turning DEF StreamDone, StreamOf, Begin
    <3>4. req2sess'[i] = None
      BY <3>1, Mapping DEF Without
    <3> QED
      BY <3>2, <3>3, <3>4 DEF DoneUnmapped, NoClear, Serialized
  <2>2. CASE ~StreamDone(w, s, i)
    <3>1. UNCHANGED <<turn, req2sess, call2sess>>
      BY <1>3, <2>2 DEF StreamTooLate, TextDelta, StreamError, ToolCallStart, kv
    <3>2. invocation'[w].h \in {"expire", "delta", "abort"}
      BY <1>3, <2>2, Mapping, Turning DEF StreamTooLate, TextDelta, StreamError, ToolCallStart, Begin
    <3> QED
      BY <1>1, <3>1, <3>2
  <2> QED
    BY <2>1, <2>2
<1>4. ASSUME NEW s \in Session, NEW j \in jobs, ResultTooLate(w, s, j) \/ ToolResult(w, s, j)
      PROVE  MappingsOwned' /\ DoneUnmapped' /\ NoClear'
  <2>1. UNCHANGED <<turn, req2sess, call2sess>>
    BY <1>4 DEF ResultTooLate, ToolResult, kv
  <2>2. invocation'[w].h \in {"expire", "record", "cap", "round"}
    BY <1>4, Mapping, Turning DEF ResultTooLate, ToolResult, Begin
  <2> QED
    BY <1>1, <2>1, <2>2
<1>5. ASSUME NEW m \in replies,
             \/ ReplyTooLate(w, m) \/ Redrive(w, m) \/ DropReply(w, m)
             \/ IdentityResponse(w, m) \/ PromptResponse(w, m)
      PROVE  MappingsOwned' /\ DoneUnmapped' /\ NoClear'
  <2>1. UNCHANGED <<turn, req2sess, call2sess>>
    BY <1>5 DEF ReplyTooLate, Redrive, DropReply, IdentityResponse, PromptResponse, kv
  <2>2. invocation'[w].h \in {"expire", "identity", "generate", "free"}
    BY <1>5, Mapping, Turning
    DEF ReplyTooLate, Redrive, DropReply, IdentityResponse, PromptResponse, Begin, Free
  <2> QED
    BY <1>1, <2>1, <2>2
<1>6. CASE LifecycleRestart(w)
  <2>1. MappingsOwned'
    BY <1>6, OwnedBy DEF LifecycleRestart
  <2>2. invocation'[w].h = "free"
    BY <1>6 DEF LifecycleRestart, Free
  <2> QED
    BY <2>1, <2>2 DEF DoneUnmapped, NoClear, Serialized
<1> QED
  BY <1>2, <1>3, <1>4, <1>5, <1>6, Zenon DEF Start

\* A dispatch maps the calls of the turn it saves, and no others.
LEMMA DispatchMapped ==
  ASSUME MInv, "kv" \notin Faults, NEW w \in Worker, FinishDispatch(w)
  PROVE  MappingsOwned'
<1>1. PICK c : c = invocation[w]
  OBVIOUS
<1>2. c.h = "dispatch" /\ c.h \in Reading /\ req2sess[c.st.req] = None
  BY <1>1, Mapping DEF FinishDispatch, Ready, Reading, DoneUnmapped
<1>3. PICK s \in Session : /\ s = c.s /\ c.st = turn[s] /\ turn[s].phase = "Streaming"
                           /\ turn[s] \in Turn
  BY <1>1, <1>2, Mapping, BusyTurn DEF Current
<1>4. /\ \A i \in Id : req2sess[i] # s
      /\ \A k \in CallId : call2sess[k] # s
      /\ req2sess' = req2sess
  BY <1>2, <1>3, NoneMapped DEF FinishDispatch
<1> DEFINE ids == {c.st.pending[k] : k \in 1 .. Len(c.st.pending)}
<1>5. \/ call2sess' = Mapped(s, ids) /\ turn' = [turn EXCEPT ![s] = Dispatch(c.st)]
      \/ /\ call2sess' = Without(call2sess, ids)
         /\ \E st : turn' = [turn EXCEPT ![s] = st]
  <2> DEFINE d    == invocation[w]
             sent == {d.st.pending[k] : k \in 1 .. Len(d.st.pending)}
  <2>1. \/ call2sess' = Mapped(d.s, sent) /\ Save(d.s, Dispatch(d.st), TRUE)
        \/ /\ call2sess' = Without(call2sess, sent)
           /\ \E st : turn' = [turn EXCEPT ![d.s] = st]
    BY Zenon DEF FinishDispatch
  <2>2. sent = ids /\ d.s = s /\ d.st = c.st
    BY <1>1, <1>3
  <2> HIDE DEF d, sent, ids
  <2> QED
    BY <2>1, <2>2 DEF Save
<1>6. CASE call2sess' = Mapped(s, ids) /\ turn' = [turn EXCEPT ![s] = Dispatch(c.st)]
  <2>1. c.st.pending \in Seq(CallId) /\ DOMAIN c.st.pending = 1 .. Len(c.st.pending)
    BY <1>3, LenProperties DEF Turn
  <2>2. Dispatch(c.st).phase = "AwaitingTools"
    BY <1>3 DEF Dispatch, Turn
  <2>3. Calls(Dispatch(c.st)) = ids
    <3>1. Dispatch(c.st).dispatched = [k \in DOMAIN c.st.pending |->
                                         [call |-> c.st.pending[k], rid |-> c.st.req, from |-> 0]]
      BY <1>3 DEF Dispatch, Turn
    <3>2. /\ DOMAIN Dispatch(c.st).dispatched = 1 .. Len(c.st.pending)
          /\ \A k \in 1 .. Len(c.st.pending) : Dispatch(c.st).dispatched[k].call = c.st.pending[k]
      BY <2>1, <3>1
    <3> QED
      BY <3>2, Zenon DEF Calls
  <2> HIDE DEF ids
  <2>4. turn'[s] = Dispatch(c.st) /\ \A r \in Session \ {s} : turn'[r] = turn[r]
    BY <1>6, Mapping
  <2>5. \A i \in Id : req2sess'[i] # None =>
          turn'[req2sess'[i]].phase = "Streaming" /\ turn'[req2sess'[i]].req = i
    BY <1>4, <2>4, Mapping
  <2>6. ASSUME NEW k \in CallId, call2sess'[k] # None
        PROVE  turn'[call2sess'[k]].phase = "AwaitingTools" /\ k \in Calls(turn'[call2sess'[k]])
    <3>1. CASE k \in ids
      BY <1>6, <2>2, <2>3, <2>4, <3>1 DEF Mapped
    <3>2. CASE k \notin ids
      <4>1. call2sess'[k] = call2sess[k]
        BY <1>6, <3>2 DEF Mapped
      <4>2. call2sess[k] \in Session \ {s}
        BY <1>4, <2>6, <4>1, Mapping
      <4> QED
        BY <2>4, <4>1, <4>2, Mapping
    <3> QED
      BY <3>1, <3>2
  <2> QED
    BY <2>5, <2>6, OwnedBy
<1>7. ASSUME NEW st, turn' = [turn EXCEPT ![s] = st], call2sess' = Without(call2sess, ids)
      PROVE  MappingsOwned'
  <2> HIDE DEF ids
  <2>1. \A i \in Id : req2sess'[i] \in {req2sess[i], None} /\ req2sess'[i] # s
    BY <1>4
  <2>2. \A k \in CallId : call2sess'[k] \in {call2sess[k], None} /\ call2sess'[k] # s
    BY <1>4, <1>7, Mapping DEF Without
  <2> QED
    BY <1>7, <2>1, <2>2, ReplaceOwned
<1> QED
  BY <1>5, <1>6, <1>7

\* Saving a turn takes the mappings it no longer awaits.
LEMMA SaveAndMapped ==
  ASSUME MInv, "kv" \notin Faults, NEW w \in Worker,
         \/ FinishIdentity(w) \/ FinishGenerate(w) \/ FinishRound(w) \/ FinishDelta(w)
         \/ FinishRecord(w)
  PROVE  MappingsOwned'
<1>1. PICK c : c = invocation[w]
  OBVIOUS
<1>2. /\ c.h \in Unsaved /\ req2sess' = req2sess
      /\ \/ c.h \in {"identity", "generate", "delta"} /\ call2sess' = Without(call2sess, {})
         \/ c.h = "round" /\ call2sess' = Without(call2sess, c.calls)
         \/ c.h = "record" /\ call2sess' = call2sess
  BY <1>1 DEF FinishIdentity, FinishGenerate, FinishRound, FinishDelta, FinishRecord, SaveAnd, Ready,
     Unsaved, Outcome
<1>3. turn' = [turn EXCEPT ![c.s] = c.st]
  BY <1>1 DEF FinishIdentity, FinishGenerate, FinishRound, FinishDelta, FinishRecord, SaveAnd, Outcome, Save
<1>4. c.s \in Session /\ Current(c)
  BY <1>1, <1>2, Mapping, BusyTurn
<1>5. CASE c.h \in {"identity", "generate", "round"}
  <2>1. \A k \in CallId : call2sess'[k] \in {call2sess[k], None} /\ call2sess'[k] # c.s
    BY <1>2, <1>4, <1>5, Mapping, NoneMapped DEF Current, Without
  <2>2. \A i \in Id : req2sess'[i] \in {req2sess[i], None} /\ req2sess'[i] # c.s
    BY <1>2, <1>4, <1>5, Mapping, NoneMapped DEF Current
  <2> QED
    BY <1>3, <1>4, <2>1, <2>2, ReplaceOwned
<1>6. CASE c.h \in {"delta", "record"}
  <2>1. turn'[c.s] = c.st /\ \A r \in Session \ {c.s} : turn'[r] = turn[r]
    BY <1>3, <1>4, Mapping
  <2>2. \A k \in CallId : call2sess'[k] = call2sess[k]
    BY <1>2, <1>6, Mapping DEF Without
  <2>3. /\ c.st.phase = turn[c.s].phase
        /\ c.st.phase = "Streaming" => c.st.req = turn[c.s].req
        /\ c.st.phase = "AwaitingTools" => Calls(c.st) = Calls(turn[c.s])
    BY <1>4, <1>6 DEF Current
  <2>4. \A i \in Id : req2sess'[i] # None =>
          turn'[req2sess'[i]].phase = "Streaming" /\ turn'[req2sess'[i]].req = i
    BY <1>2, <2>1, <2>3, Mapping
  <2>5. ASSUME NEW k \in CallId, call2sess'[k] # None
        PROVE  turn'[call2sess'[k]].phase = "AwaitingTools" /\ k \in Calls(turn'[call2sess'[k]])
    <3>1. call2sess[k] \in Session /\ turn[call2sess[k]].phase = "AwaitingTools"
          /\ k \in Calls(turn[call2sess[k]])
      BY <2>2, <2>5, Mapping
    <3>2. CASE call2sess[k] = c.s
      BY <2>1, <2>2, <2>3, <3>1, <3>2
    <3>3. CASE call2sess[k] # c.s
      BY <2>1, <2>2, <3>1, <3>3
    <3> QED
      BY <3>2, <3>3
  <2> QED
    BY <2>4, <2>5, OwnedBy
<1> QED
  BY <1>2, <1>5, <1>6

\* The parts that end the turn take its mappings, or did.
LEMMA EndingMapped ==
  ASSUME MInv, "kv" \notin Faults, NEW w \in Worker,
         \/ FinishAnswer(w) \/ FinishEmpty(w) \/ FinishCap(w) \/ FinishExpire(w)
         \/ FinishAbort(w) \/ FinishCancel(w) \/ NoModel(w)
  PROVE  MappingsOwned'
<1>1. PICK c : c = invocation[w]
  OBVIOUS
<1>2. c.h \in Reading \cup Unsaved
  BY <1>1 DEF FinishAnswer, FinishEmpty, FinishCap, FinishExpire, FinishAbort, FinishCancel,
     NoModel, Abort, Ready, Reading, Unsaved
<1>3. c.s \in Session /\ Current(c) /\ LInv
  BY <1>1, <1>2, Mapping, BusyTurn
<1>4. CASE FinishAnswer(w) \/ FinishEmpty(w)
  <2>1. c.h \in {"answer", "empty"} /\ UNCHANGED <<req2sess, call2sess>>
        /\ (turn' = turn \/ \E st : turn' = [turn EXCEPT ![c.s] = st])
    BY <1>1, <1>4 DEF FinishAnswer, FinishEmpty, Ready, SaveIdle, Save
  <2>2. c.st = turn[c.s] /\ turn[c.s].phase = "Streaming" /\ req2sess[turn[c.s].req] = None
    BY <1>1, <1>3, <2>1, Mapping DEF Current, Reading, DoneUnmapped
  <2>3. \A i \in Id : req2sess'[i] # c.s
    BY <1>3, <2>1, <2>2, NoneMapped
  <2>4. \A k \in CallId : call2sess'[k] # c.s
    BY <1>3, <2>1, <2>2, NoneMapped
  <2> QED
    BY <1>3, <2>1, <2>3, <2>4, ForgetOwned, ReplaceOwned
<1>5. CASE FinishCap(w)
  <2>1. c.h = "cap" /\ req2sess' = req2sess /\ call2sess' = Without(call2sess, c.calls)
        /\ \E st : turn' = [turn EXCEPT ![c.s] = st]
    BY <1>1, <1>5 DEF FinishCap, Ready, Outcome, SaveIdle, Save
  <2>2. turn[c.s].phase = "AwaitingTools" /\ c.calls = Calls(turn[c.s])
    BY <1>3, <2>1 DEF Current
  <2>3. \A i \in Id : req2sess'[i] # c.s
    BY <1>3, <2>1, <2>2, NoneMapped
  <2>4. \A k \in CallId : call2sess'[k] \in {call2sess[k], None} /\ call2sess'[k] # c.s
    BY <1>3, <2>1, <2>2, Mapping DEF Without
  <2> QED
    BY <1>3, <2>1, <2>3, <2>4, ReplaceOwned
<1>6. CASE FinishExpire(w) \/ FinishAbort(w) \/ FinishCancel(w) \/ NoModel(w)
  <2>1. c.h \in Reading /\ Cleanup(c.st) /\ \E st : turn' = [turn EXCEPT ![c.s] = st]
    BY <1>1, <1>6 DEF FinishExpire, FinishAbort, FinishCancel, NoModel, Abort, Ready, Reading,
       Outcome, SaveIdle, Save
  <2>2. Cleanup(turn[c.s])
    BY <1>3, <2>1 DEF Current
  <2>3. /\ \A i \in Id : req2sess'[i] \in {req2sess[i], None} /\ req2sess'[i] # c.s
        /\ \A k \in CallId : call2sess'[k] \in {call2sess[k], None} /\ call2sess'[k] # c.s
    BY <1>3, <2>2, CleanupComplete
  <2> QED
    BY <1>3, <2>1, <2>3, ReplaceOwned
<1> QED
  BY <1>4, <1>5, <1>6

\* A prompt takes the mappings of the turn it supersedes.
LEMMA PromptMapped ==
  ASSUME MInv, "kv" \notin Faults, NEW w \in Worker, FinishPrompt(w)
  PROVE  MappingsOwned'
<1>1. PICK c : c = invocation[w]
  OBVIOUS
<1>2. c.h = "prompt" /\ Current(c) /\ LInv
  BY <1>1, Mapping DEF FinishPrompt, Ready, LInv, BInv, BusyCurrent
<1>3. c.s \in Session /\ c.st = turn[c.s]
  BY <1>1, <1>2, InvocationKnown DEF Current, LInv, BInv
<1>4. \E st : turn' = [turn EXCEPT ![c.s] = st]
  BY <1>1 DEF FinishPrompt, Outcome, Save
<1>5. CASE c.st.phase = "Idle"
  <2>1. UNCHANGED <<req2sess, call2sess>>
    BY <1>1, <1>5 DEF FinishPrompt
  <2>2. \A i \in Id : req2sess'[i] # c.s
    BY <1>3, <1>5, <2>1, NoneMapped
  <2>3. \A k \in CallId : call2sess'[k] # c.s
    BY <1>3, <1>5, <2>1, NoneMapped
  <2> QED
    BY <1>3, <1>4, <2>1, <2>2, <2>3, ReplaceOwned
<1>6. CASE c.st.phase # "Idle"
  <2>1. Cleanup(turn[c.s])
    BY <1>1, <1>3, <1>6 DEF FinishPrompt
  <2>2. /\ \A i \in Id : req2sess'[i] \in {req2sess[i], None} /\ req2sess'[i] # c.s
        /\ \A k \in CallId : call2sess'[k] \in {call2sess[k], None} /\ call2sess'[k] # c.s
    BY <1>3, <2>1, CleanupComplete
  <2> QED
    BY <1>3, <1>4, <2>2, ReplaceOwned
<1> QED
  BY <1>5, <1>6

\* The request that is published is mapped to the turn that streams it.
LEMMA AskMapped ==
  ASSUME MInv, NEW w \in Worker, FinishAsk(w)
  PROVE  MappingsOwned'
<1>1. PICK c : c = invocation[w]
  OBVIOUS
<1>2. c.h = "ask" /\ c.h \in Reading
  BY <1>1 DEF FinishAsk, Ready, Reading
<1>3. c.s \in Session /\ Current(c)
  BY <1>1, <1>2, Mapping, BusyTurn
<1>4. c.st = turn[c.s] /\ turn[c.s].phase = "Streaming"
  BY <1>2, <1>3 DEF Current
<1>5. UNCHANGED <<turn, call2sess>>
      /\ \E v \in {c.s, None} : req2sess' = [req2sess EXCEPT ![c.st.req] = v]
  BY <1>1 DEF FinishAsk
<1>6. \A i \in Id : req2sess'[i] = req2sess[i] \/ req2sess'[i] = None
                    \/ (i = turn[c.s].req /\ req2sess'[i] = c.s)
  BY <1>4, <1>5, Mapping
<1> QED
  BY <1>3, <1>4, <1>5, <1>6, Mapping, OwnedBy

\* Every part after the first.
LEMMA ResumeMapped ==
  ASSUME MInv, Serialized, "kv" \notin Faults, NEW w \in Worker, Resume(w)
  PROVE  MappingsOwned' /\ DoneUnmapped' /\ NoClear'
<1>1. CASE SessionReply(w)
  <2>1. /\ invocation'[w].h = invocation[w].h /\ invocation'[w].st = invocation[w].st
        /\ UNCHANGED <<turn, req2sess, call2sess>>
    BY <1>1, Mapping, Turning DEF SessionReply, Invocation, kv
  <2>2. MappingsOwned'
    BY <2>1, ForgetOwned
  <2> QED
    BY <2>1, <2>2, Mapping DEF DoneUnmapped, NoClear, Serialized
<1>2. CASE ~SessionReply(w)
  <2>1. ~FinishClear(w)
    BY Mapping DEF FinishClear, Ready, NoClear
  <2>2. SessionFailed(w) \/ FinishAssemble(w) => UNCHANGED <<turn, req2sess, call2sess>>
    BY DEF SessionFailed, FinishAssemble, kv
  <2>3. MappingsOwned'
    BY <1>2, <2>1, <2>2, ForgetOwned, DispatchMapped, SaveAndMapped, EndingMapped, PromptMapped,
       AskMapped DEF Resume
  <2>4. Return(w) \/ \E h \in {"assemble", "ask"} : Continue(w, h)
    BY <1>2, <2>1 DEF Resume, SessionFailed, FinishPrompt, FinishAssemble, FinishAsk, NoModel,
       FinishDispatch, FinishAnswer, FinishEmpty, FinishAbort, FinishCancel, FinishExpire,
       FinishRecord, FinishCap, FinishIdentity, FinishGenerate, FinishRound, FinishDelta, SaveAnd,
       Abort
  <2>5. invocation'[w].h \in {"free", "assemble", "ask"}
    BY <2>4, Mapping, Turning DEF Return, Continue, Free, Invocation
  <2> QED
    BY <2>3, <2>5 DEF DoneUnmapped, NoClear, Serialized
<1> QED
  BY <1>1, <1>2

\* Every step keeps the mappings with their turns.
LEMMA NextMapped ==
  ASSUME Serialized, "kv" \notin Faults, "clear" \notin Interrupts
  PROVE  MInv /\ [Next]_vars => MInv'
<1> SUFFICES ASSUME MInv, [Next]_vars PROVE MappingsOwned' /\ DoneUnmapped' /\ NoClear'
  BY NextLifecycle DEF MInv
<1>1. ASSUME NEW w \in Worker, Start(w) \/ Resume(w)
      PROVE  MappingsOwned' /\ DoneUnmapped' /\ NoClear'
  BY <1>1, StartMapped, ResumeMapped
<1>2. CASE (\E s \in Session : Age(s)) \/ Lose \/ UNCHANGED vars
  <2>1. UNCHANGED <<turn, req2sess, call2sess, invocation>>
    BY <1>2 DEF Age, Lose, vars, kv
  <2> QED
    BY <2>1, ForgetOwned DEF MInv, DoneUnmapped, NoClear
<1>3. CASE Reload
  <2>1. UNCHANGED <<turn, req2sess, call2sess>> /\ invocation' = [w \in Worker |-> Free]
    BY <1>3 DEF Reload, kv
  <2> QED
    BY <2>1, ForgetOwned DEF DoneUnmapped, NoClear, Free
<1> QED
  BY <1>1, <1>2, <1>3 DEF Next

\* No correlation key outlives what it correlates: a request's mapping is
\* gone with its generation, a call's with its result, whatever is lost,
\* repeated, reused by the LLM or reloaded.  A session.clear, which resets
\* a turn without cleanup_inflight_mappings, and a dispatch that fails to
\* store its second mapping do leave some, hence the hypotheses.
THEOREM MappingsAreOwned ==
  ASSUME Serialized, "kv" \notin Faults, "clear" \notin Interrupts
  PROVE  Spec => []MappingsOwned
<1>1. MInv /\ [Next]_vars => MInv'
  BY NextMapped
<1>2. Init => MInv
  BY InitLifecycle DEF Init, MInv, MappingsOwned, DoneUnmapped, NoClear, Free
<1>3. MInv => MappingsOwned
  BY DEF MInv
<1> QED
  BY <1>1, <1>2, <1>3, PTL DEF Spec

-----------------------------------------------------------------------------
(* The transcripts.  The theorem is about a serialized capsule; anything   *)
(* may fail, get lost or come twice, and calls may be named again.         *)

\* A well-formed transcript, own telling which turns were admitted.
WellFormed(h, own) ==
  LET admitted == {k \in DOMAIN h : own[h[k].turn] # None}
  IN  /\ \A k, l \in admitted : k < l =>
           \/ h[k].turn < h[l].turn
           \/ /\ h[k].turn = h[l].turn /\ h[k].round <= h[l].round
              /\ h[k].kind # "answer" /\ h[l].kind # "user"
      /\ \A l \in admitted :
           /\ h[l].round < MaxIterations
           /\ \E k \in 1 .. l : h[k] = UserMessage(h[l].turn)
           /\ \A n \in 1 .. h[l].round : \E k \in 1 .. l : h[k] = RoundMessage(h[l].turn, n)

\* No message of a session names a uuid that was not drawn.
MessagesDrawn ==
  \A s \in Session : \A k \in DOMAIN history[s] :
    history[s][k].turn \in Id /\ history[s][k].turn < nextId

Unanswered(h, i) == \A k \in DOMAIN h : h[k].turn = i => h[k].kind # "answer"

\* What the transcript h of a session s in turn t has of that turn: its user
\* message and every round, perhaps one more whose reply was lost, and an
\* answer only if the stream is done.
TurnTold(s, t, h, own, keys) ==
  t.phase # "Idle" =>
    /\ t.comp \in Id /\ t.iter < MaxIterations
    /\ \A k \in DOMAIN h : own[h[k].turn] # None => h[k].turn <= t.comp
    /\ \E k \in DOMAIN h : h[k] = UserMessage(t.comp)
    /\ \A n \in 1 .. t.iter : \E k \in DOMAIN h : h[k] = RoundMessage(t.comp, n)
    /\ \A k \in DOMAIN h : h[k].turn = t.comp =>
         h[k].round <= t.iter \/ (t.phase = "AwaitingTools" /\ h[k].round = t.iter + 1)
    /\ Unanswered(h, t.comp) \/ (t.phase = "Streaming" /\ keys[t.req] # s)

TurnsTold == \A s \in Session : TurnTold(s, turn[s], history[s], owner, req2sess)

\* ... and of what an interceptor is about to append to it or to save.
Told(c) ==
  LET h == history[c.s]
  IN  /\ c.h \in {"prompt", "round", "answer"} => c.io # "none"
      /\ c.h = "prompt" =>
           /\ \A s \in Session : \A k \in DOMAIN history[s] :
                \/ history[s][k].turn < c.fresh
                \/ s = c.s /\ c.io = "ok" /\ k = Len(h) /\ h[k] = UserMessage(c.fresh)
           /\ c.io = "ok" => Len(h) \in DOMAIN h /\ h[Len(h)] = UserMessage(c.fresh)
      /\ c.h \in {"identity", "generate", "delta", "record"} => c.st.iter = turn[c.s].iter
      /\ c.h = "round" =>
           /\ c.st.iter = turn[c.s].iter + 1 /\ c.st.iter < MaxIterations
           /\ c.io = "ok" => \E k \in DOMAIN h : h[k] = RoundMessage(c.st.comp, c.st.iter)
      /\ c.h \in {"delta", "dispatch", "ask"} => Unanswered(h, c.st.comp)
      /\ c.h = "answer" =>
           /\ req2sess[c.st.req] # c.s
           /\ c.io = "wait" => Unanswered(h, c.st.comp)

BusyTold == \A w \in Worker : Told(invocation[w])

\* What a step must show of the transcripts.
Tells == TranscriptWellFormed /\ MessagesDrawn /\ TurnsTold

HInv == BInv /\ Tells /\ BusyTold

LEMMA TranscriptsWellFormed ==
  TranscriptWellFormed <=> \A s \in Session : WellFormed(history[s], owner)
BY DEF TranscriptWellFormed, WellFormed

\* A transcript and one message more.
LEMMA OneMore ==
  ASSUME NEW h \in Seq(Entry), NEW e \in Entry
  PROVE  /\ h \o <<e>> \in Seq(Entry)
         /\ Len(h) \in Nat /\ DOMAIN h = 1 .. Len(h)
         /\ Len(h \o <<e>>) = Len(h) + 1 /\ DOMAIN (h \o <<e>>) = 1 .. Len(h) + 1
         /\ \A k \in DOMAIN h : (h \o <<e>>)[k] = h[k]
         /\ (h \o <<e>>)[Len(h) + 1] = e
<1>1. <<e>> \in Seq(Entry) /\ Len(<<e>>) = 1 /\ <<e>>[1] = e
  OBVIOUS
<1>2. PICK g : g = <<e>>
  OBVIOUS
<1>3. /\ h \o g \in Seq(Entry) /\ Len(h \o g) = Len(h) + Len(g)
      /\ \A i \in 1 .. Len(h) + Len(g) : (h \o g)[i] = IF i <= Len(h) THEN h[i] ELSE g[i - Len(h)]
  BY <1>1, <1>2, ConcatProperties
<1>4. Len(h) \in Nat /\ DOMAIN h = 1 .. Len(h) /\ Len(g) = 1 /\ g[1] = e
  BY <1>1, <1>2
<1>5. Len(h \o g) = Len(h) + 1 /\ DOMAIN (h \o g) = 1 .. Len(h) + 1
  BY <1>3, <1>4
<1>6. \A k \in DOMAIN h : (h \o g)[k] = h[k]
  BY <1>3, <1>4
<1>7. (h \o g)[Len(h) + 1] = e
  <2>1. Len(h) + 1 \in 1 .. Len(h) + Len(g) /\ ~(Len(h) + 1 <= Len(h)) /\ Len(h) + 1 - Len(h) = 1
    BY <1>4
  <2> QED
    BY <1>3, <1>4, <2>1
<1> QED
  BY <1>2, <1>3, <1>4, <1>5, <1>6, <1>7

LEMMA AppendWellFormed ==
  ASSUME NEW h \in Seq(Entry), NEW own, NEW e \in Entry, WellFormed(h, own),
         own[e.turn] # None =>
           /\ \A k \in DOMAIN h : own[h[k].turn] # None =>
                \/ h[k].turn < e.turn
                \/ /\ h[k].turn = e.turn /\ h[k].round <= e.round
                   /\ h[k].kind # "answer" /\ e.kind # "user"
           /\ e.round < MaxIterations
           /\ e = UserMessage(e.turn) \/ \E k \in DOMAIN h : h[k] = UserMessage(e.turn)
           /\ \A n \in 1 .. e.round :
                e = RoundMessage(e.turn, n) \/ \E k \in DOMAIN h : h[k] = RoundMessage(e.turn, n)
  PROVE  WellFormed(h \o <<e>>, own)
<1>1. PICK g : g = h \o <<e>>
  OBVIOUS
<1>2. /\ Len(h) \in Nat /\ DOMAIN h = 1 .. Len(h) /\ DOMAIN g = 1 .. Len(h) + 1
      /\ \A k \in DOMAIN h : g[k] = h[k]
      /\ g[Len(h) + 1] = e
  BY <1>1, OneMore
<1>3. ASSUME NEW k \in DOMAIN g, NEW l \in DOMAIN g, k < l,
             own[g[k].turn] # None, own[g[l].turn] # None
      PROVE  \/ g[k].turn < g[l].turn
             \/ /\ g[k].turn = g[l].turn /\ g[k].round <= g[l].round
                /\ g[k].kind # "answer" /\ g[l].kind # "user"
  <2>1. k \in DOMAIN h /\ g[k] = h[k]
    BY <1>2, <1>3
  <2>2. CASE l = Len(h) + 1
    BY <1>2, <1>3, <2>1, <2>2
  <2>3. CASE l # Len(h) + 1
    <3>1. l \in DOMAIN h /\ g[l] = h[l]
      BY <1>2, <2>3
    <3> QED
      BY <1>3, <2>1, <3>1 DEF WellFormed
  <2> QED
    BY <2>2, <2>3
<1>4. ASSUME NEW l \in DOMAIN g, own[g[l].turn] # None
      PROVE  /\ g[l].round < MaxIterations
             /\ \E k \in 1 .. l : g[k] = UserMessage(g[l].turn)
             /\ \A n \in 1 .. g[l].round : \E k \in 1 .. l : g[k] = RoundMessage(g[l].turn, n)
  <2>1. CASE l = Len(h) + 1
    <3>1. g[l] = e /\ \A k \in DOMAIN h : k \in 1 .. l
      BY <1>2, <2>1
    <3>2. l \in 1 .. l
      BY <1>2
    <3> QED
      BY <1>2, <1>4, <3>1, <3>2
  <2>2. CASE l # Len(h) + 1
    <3>1. l \in DOMAIN h /\ g[l] = h[l] /\ \A k \in 1 .. l : g[k] = h[k]
      BY <1>2, <2>2
    <3>2. /\ h[l].round < MaxIterations
          /\ \E k \in 1 .. l : h[k] = UserMessage(h[l].turn)
          /\ \A n \in 1 .. h[l].round : \E k \in 1 .. l : h[k] = RoundMessage(h[l].turn, n)
      BY <1>4, <3>1 DEF WellFormed
    <3> QED
      BY <3>1, <3>2
  <2> QED
    BY <2>1, <2>2
<1>5. WellFormed(g, own)
  BY <1>3, <1>4 DEF WellFormed
<1> QED
  BY <1>1, <1>5

LEMMA AppendTold ==
  ASSUME NEW h \in Seq(Entry), NEW own, NEW e \in Entry, NEW s, NEW t, NEW keys,
         TurnTold(s, t, h, own, keys),
         t.phase # "Idle" /\ own[e.turn] # None => e.turn <= t.comp,
         t.phase # "Idle" /\ e.turn = t.comp =>
           /\ e.round <= t.iter \/ (t.phase = "AwaitingTools" /\ e.round = t.iter + 1)
           /\ e.kind # "answer" \/ (t.phase = "Streaming" /\ keys[t.req] # s)
  PROVE  TurnTold(s, t, h \o <<e>>, own, keys)
<1> SUFFICES ASSUME t.phase # "Idle" PROVE TurnTold(s, t, h \o <<e>>, own, keys)
  BY DEF TurnTold
<1>1. PICK g : g = h \o <<e>>
  OBVIOUS
<1>2. /\ Len(h) \in Nat /\ DOMAIN h = 1 .. Len(h) /\ DOMAIN g = 1 .. Len(h) + 1
      /\ \A k \in DOMAIN h : g[k] = h[k]
      /\ g[Len(h) + 1] = e
  BY <1>1, OneMore
<1>3. \A k \in DOMAIN g : k \in DOMAIN h \/ g[k] = e
  BY <1>2
<1>4. \A k \in DOMAIN h : k \in DOMAIN g
  BY <1>2
<1>5. /\ \A k \in DOMAIN g : own[g[k].turn] # None => g[k].turn <= t.comp
      /\ \E k \in DOMAIN g : g[k] = UserMessage(t.comp)
      /\ \A n \in 1 .. t.iter : \E k \in DOMAIN g : g[k] = RoundMessage(t.comp, n)
  BY <1>2, <1>3, <1>4 DEF TurnTold
<1>6. \A k \in DOMAIN g : g[k].turn = t.comp =>
        g[k].round <= t.iter \/ (t.phase = "AwaitingTools" /\ g[k].round = t.iter + 1)
  BY <1>2, <1>3 DEF TurnTold
<1>7. Unanswered(g, t.comp) \/ (t.phase = "Streaming" /\ keys[t.req] # s)
  BY <1>2, <1>3 DEF TurnTold, Unanswered
<1>8. TurnTold(s, t, g, own, keys)
  BY <1>5, <1>6, <1>7 DEF TurnTold
<1> QED
  BY <1>1, <1>8

\* The parts of the invariant that the lemmas below start from.
LEMMA Telling ==
  ASSUME HInv
  PROVE  /\ BInv /\ TranscriptWellFormed /\ MessagesDrawn /\ TurnsTold /\ BusyTold
         /\ \A s \in Session : WellFormed(history[s], owner)
         /\ \A s \in Session : /\ turn[s] \in Turn
                               /\ turn[s].phase # "Idle" => turn[s].req \in Id
         /\ \A w \in Worker : GoodInvocation(invocation[w])
         /\ None \notin Session /\ MaxIterations \in Nat \ {0}
<1>1. BInv /\ TranscriptWellFormed /\ MessagesDrawn /\ TurnsTold /\ BusyTold
  BY DEF HInv, Tells
<1>2. \A s \in Session : WellFormed(history[s], owner)
  BY <1>1, TranscriptsWellFormed
<1> QED
  BY <1>1, <1>2, ConstantsAssumption DEF BInv, IInv, TurnsGood, InvocationsGood, GoodTurn

\* A step that appends nothing and at most ends turns and forgets mappings.
LEMMA QuietTold ==
  ASSUME HInv, UNCHANGED <<history, owner>>, nextId' \in {nextId, nextId + 1},
         \A s \in Session : turn'[s].phase = "Idle" \/ turn'[s] = turn[s],
         \A i \in Id : req2sess'[i] \in {req2sess[i], None}
  PROVE  Tells'
<1>1. TranscriptWellFormed'
  BY Telling DEF TranscriptWellFormed, UserMessage, RoundMessage
<1>2. MessagesDrawn'
  <2> SUFFICES ASSUME NEW s \in Session, NEW k \in DOMAIN history[s]
               PROVE  history[s][k].turn \in Id /\ history[s][k].turn < nextId'
    BY DEF MessagesDrawn
  <2>1. history[s][k].turn \in Id /\ history[s][k].turn < nextId
    BY Telling DEF MessagesDrawn
  <2>2. history[s][k].turn \in Nat /\ nextId \in Nat
    BY <2>1, Telling, Busying DEF Id
  <2> QED
    BY <2>1, <2>2
<1>3. TurnsTold'
  <2> SUFFICES ASSUME NEW s \in Session, turn'[s].phase # "Idle"
               PROVE  TurnTold(s, turn'[s], history[s], owner, req2sess')
    BY DEF TurnsTold, TurnTold
  <2>1. turn'[s] = turn[s] /\ turn[s].req \in Id /\ None # s
    BY Telling
  <2>2. TurnTold(s, turn[s], history[s], owner, req2sess)
    BY Telling DEF TurnsTold
  <2>3. req2sess[turn[s].req] # s => req2sess'[turn[s].req] # s
    BY <2>1
  <2> QED
    BY <2>1, <2>2, <2>3 DEF TurnTold
<1> QED
  BY <1>1, <1>2, <1>3 DEF Tells

\* A step that saves a turn that goes on.
LEMMA SavedTold ==
  ASSUME HInv, UNCHANGED <<history, owner, nextId, req2sess>>, NEW s \in Session, NEW st \in Turn,
         turn' = [turn EXCEPT ![s] = st], InTurn(s), st.comp = turn[s].comp,
         Unanswered(history[s], st.comp),
         \/ st.iter = turn[s].iter /\ (turn[s].phase # "AwaitingTools" \/ st.phase = "AwaitingTools")
         \/ /\ st.iter = turn[s].iter + 1 /\ st.iter < MaxIterations
            /\ \E k \in DOMAIN history[s] : history[s][k] = RoundMessage(st.comp, st.iter)
  PROVE  Tells'
<1> DEFINE h == history[s]
<1>1. TranscriptWellFormed' /\ MessagesDrawn'
  BY Telling DEF TranscriptWellFormed, UserMessage, RoundMessage, MessagesDrawn
<1>2. \A r \in Session : turn'[r] = IF r = s THEN st ELSE turn[r]
  BY Telling, Busying
<1>3. TurnTold(s, turn[s], h, owner, req2sess) /\ turn[s] \in Turn /\ turn[s].phase # "Idle"
  BY Telling DEF TurnsTold, InTurn
<1>4. /\ st.comp \in Id /\ st.iter < MaxIterations
      /\ \A k \in DOMAIN h : owner[h[k].turn] # None => h[k].turn <= st.comp
      /\ \E k \in DOMAIN h : h[k] = UserMessage(st.comp)
  BY <1>3 DEF TurnTold
<1>5. \A n \in 1 .. st.iter : \E k \in DOMAIN h : h[k] = RoundMessage(st.comp, n)
  <2> SUFFICES ASSUME NEW n \in 1 .. st.iter
               PROVE  \E k \in DOMAIN h : h[k] = RoundMessage(st.comp, n)
    OBVIOUS
  <2>1. n \in 1 .. turn[s].iter \/ (n = st.iter /\ \E k \in DOMAIN h : h[k] = RoundMessage(st.comp, st.iter))
    BY <1>3 DEF Turn
  <2> QED
    BY <1>3, <2>1 DEF TurnTold
<1>6. ASSUME NEW k \in DOMAIN h, h[k].turn = st.comp
      PROVE  h[k].round <= st.iter \/ (st.phase = "AwaitingTools" /\ h[k].round = st.iter + 1)
  <2>1. h[k].round <= turn[s].iter \/ (turn[s].phase = "AwaitingTools" /\ h[k].round = turn[s].iter + 1)
    BY <1>3, <1>6 DEF TurnTold
  <2>2. h[k].round \in Nat /\ turn[s].iter \in Nat
    <3>1. h \in Seq(Entry)
      BY Telling, Busying
    <3>2. h[k] \in Entry
      <4> HIDE DEF h
      <4> QED
        BY <1>6, <3>1
    <3> QED
      BY <1>3, <3>2 DEF Entry, Turn
  <2> QED
    BY <2>1, <2>2
<1>7. TurnTold(s, st, h, owner, req2sess)
  BY <1>4, <1>5, <1>6 DEF TurnTold
<1>8. TurnsTold'
  <2> SUFFICES ASSUME NEW r \in Session PROVE TurnTold(r, turn'[r], history[r], owner, req2sess)
    BY DEF TurnsTold
  <2> QED
    BY <1>2, <1>7, Telling DEF TurnsTold
<1> QED
  BY <1>1, <1>8 DEF Tells

\* With one worker, what it is about to do is all there is to look at.
LEMMA OnlyTold ==
  ASSUME Serialized, NEW w \in Worker, Told(invocation[w])'
  PROVE  BusyTold'
BY DEF BusyTold, Serialized

LEMMA FreeTold ==
  ASSUME Serialized, NEW w \in Worker, invocation'[w].h \in {"free", "clear", "cancel", "expire", "lag",
           "abort", "empty", "cap", "assemble"}
  PROVE  BusyTold'
<1>1. Told(invocation[w])'
  BY DEF Told
<1> QED
  BY <1>1, OnlyTold

LEMMA ReturnedTold ==
  ASSUME HInv, Serialized, NEW w \in Worker, Return(w)
  PROVE  BusyTold'
<1>1. invocation'[w].h = "free"
  BY Telling, Busying DEF Return, Free
<1> QED
  BY <1>1, FreeTold

\* The interceptors' first parts append nothing.
LEMMA StartTold ==
  ASSUME HInv, Serialized, NEW w \in Worker, Start(w)
  PROVE  Tells' /\ BusyTold'
<1>1. ASSUME NEW s \in Session, UserPrompt(w, s)
      PROVE  Tells' /\ BusyTold'
  <2>1. /\ invocation'[w].h = "prompt" /\ invocation'[w].io = "wait" /\ invocation'[w].s = s
        /\ invocation'[w].fresh = nextId /\ UNCHANGED <<history, owner, turn, req2sess>>
        /\ nextId' = nextId + 1
    BY <1>1, Telling, Busying DEF UserPrompt, Begin, outside, ghosts, kv
  <2>2. \A r \in Session : \A k \in DOMAIN history[r] : history[r][k].turn < nextId
    BY Telling DEF MessagesDrawn
  <2>3. Told(invocation[w])'
    BY <2>1, <2>2 DEF Told
  <2> QED
    BY <2>1, <2>3, QuietTold, OnlyTold
<1>2. ASSUME NEW s \in Session,
             CancelTurn(w, s) \/ SessionClear(w, s) \/ WatchdogTick(w, s) \/ BusLag(w, s)
      PROVE  Tells' /\ BusyTold'
  <2>1. /\ invocation'[w].h \in {"cancel", "clear", "expire", "lag"}
        /\ UNCHANGED <<history, owner, turn, req2sess, nextId>>
    BY <1>2, Telling, Busying DEF CancelTurn, SessionClear, WatchdogTick, BusLag, Begin, outside, ghosts, kv
  <2> QED
    BY <2>1, QuietTold, FreeTold
<1>3. ASSUME NEW s \in Session, NEW i \in Id, StreamTooLate(w, s, i) \/ StreamError(w, s, i)
      PROVE  Tells' /\ BusyTold'
  <2>1. /\ invocation'[w].h \in {"expire", "abort"}
        /\ UNCHANGED <<history, owner, turn, req2sess, nextId>>
    BY <1>3, Telling, Busying DEF StreamTooLate, StreamError, Begin, outside, ghosts, kv
  <2> QED
    BY <2>1, QuietTold, FreeTold
<1>4. ASSUME NEW s \in Session, NEW i \in Id, StreamOf(s, i)
      PROVE  Unanswered(history[s], turn[s].comp)
  <2>1. TurnTold(s, turn[s], history[s], owner, req2sess)
    BY Telling DEF TurnsTold
  <2> QED
    BY <1>4, <2>1 DEF StreamOf, TurnTold
<1>5. ASSUME NEW s \in Session, NEW i \in Id, TextDelta(w, s, i) \/ \E c \in CallId : ToolCallStart(w, s, i, c)
      PROVE  Tells' /\ BusyTold'
  <2>1. turn[s] \in Turn
    BY Telling
  <2>2. /\ invocation'[w].h = "delta" /\ invocation'[w].s = s
        /\ invocation'[w].st.comp = turn[s].comp /\ invocation'[w].st.iter = turn[s].iter
        /\ UNCHANGED <<history, owner, turn, req2sess, nextId>>
    BY <1>5, <2>1, Telling, Busying DEF TextDelta, ToolCallStart, Begin, Turn, outside, ghosts, kv
  <2>3. Unanswered(history[s], turn[s].comp)
    BY <1>4, <1>5 DEF TextDelta, ToolCallStart
  <2>4. Told(invocation[w])'
    BY <2>2, <2>3 DEF Told, Unanswered
  <2> QED
    BY <2>2, <2>4, QuietTold, OnlyTold
<1>6. ASSUME NEW s \in Session, NEW i \in Id, StreamDone(w, s, i)
      PROVE  Tells' /\ BusyTold'
  <2>1. turn[s].req = i /\ turn[s] \in Turn
    BY <1>6, Telling DEF StreamDone, StreamOf
  <2>2. /\ invocation'[w].h \in {"dispatch", "answer", "empty"} /\ invocation'[w].s = s
        /\ invocation'[w].h = "answer" => invocation'[w].io = "wait"
        /\ invocation'[w].st = turn[s]
        /\ UNCHANGED <<history, owner, turn, nextId>> /\ req2sess' = Without(req2sess, {i})
    BY <1>6, Telling, Busying DEF StreamDone, Begin, ghosts
  <2>3. /\ \A k \in Id : req2sess'[k] \in {req2sess[k], None}
        /\ req2sess'[i] = None
    BY <2>2, Telling, Busying DEF Without
  <2>4. Unanswered(history[s], turn[s].comp)
    BY <1>4, <1>6 DEF StreamDone
  <2>5. req2sess'[turn[s].req] # s
    BY <2>1, <2>3, Telling
  <2>6. Told(invocation[w])'
    BY <2>2, <2>4, <2>5 DEF Told, Unanswered
  <2> QED
    BY <2>2, <2>3, <2>6, QuietTold, OnlyTold
<1>7. ASSUME NEW s \in Session, NEW j \in jobs, ResultTooLate(w, s, j)
      PROVE  Tells' /\ BusyTold'
  <2>1. invocation'[w].h = "expire" /\ UNCHANGED <<history, owner, turn, req2sess, nextId>>
    BY <1>7, Telling, Busying DEF ResultTooLate, Begin, ghosts, kv
  <2> QED
    BY <2>1, QuietTold, FreeTold
<1>8. ASSUME NEW s \in Session, NEW j \in jobs, ToolResult(w, s, j)
      PROVE  Tells' /\ BusyTold'
  <2>1. PICK st \in Turn : /\ st = Recorded(turn[s], j)
                           /\ st.comp = turn[s].comp /\ st.phase = turn[s].phase
                           /\ st.iter = turn[s].iter
    <3>1. j \in Job /\ turn[s] \in Turn /\ GoodTurn(turn[s])
      BY Telling DEF BInv, IInv, OutsideTyped, TurnsGood
    <3>2. Recorded(turn[s], j) \in Turn
      BY <3>1, RecordedGood DEF GoodTurn
    <3> QED
      BY <3>1, <3>2, RecordedSame
  <2> DEFINE next == [st EXCEPT !.phase = "Streaming", !.req = nextId, !.text = FALSE,
                                !.pending = <<>>, !.dispatched = <<>>, !.iter = @ + 1]
  <2>2. next.iter = st.iter + 1
    BY DEF Turn
  <2>3. \/ Begin(w, "record", s, st, "none", 0, {})
        \/ Begin(w, "cap", s, st, "none", 0, Calls(st))
        \/ Begin(w, "round", s, next, "wait", 0, Calls(st)) /\ ~AtLimit(st)
    BY <1>8, <2>1 DEF ToolResult
  <2>4. /\ UNCHANGED <<history, owner, turn, req2sess>> /\ nextId' \in {nextId, nextId + 1}
    BY <1>8 DEF ToolResult, ghosts, kv
  <2> HIDE DEF next
  <2>5. CASE Begin(w, "record", s, st, "none", 0, {})
    <3>1. invocation'[w].h = "record" /\ invocation'[w].s = s /\ invocation'[w].st = st
      BY <2>5, Telling, Busying DEF Begin
    <3>2. Told(invocation[w])'
      BY <2>1, <2>4, <3>1 DEF Told
    <3> QED
      BY <2>4, <3>2, QuietTold, OnlyTold
  <2>6. CASE Begin(w, "cap", s, st, "none", 0, Calls(st))
    <3>1. invocation'[w].h = "cap"
      BY <2>6, Telling, Busying DEF Begin
    <3> QED
      BY <2>4, <3>1, QuietTold, FreeTold
  <2>7. CASE Begin(w, "round", s, next, "wait", 0, Calls(st)) /\ ~AtLimit(st)
    <3>1. /\ invocation'[w].h = "round" /\ invocation'[w].s = s /\ invocation'[w].st = next
          /\ invocation'[w].io = "wait"
      BY <2>7, Telling, Busying DEF Begin
    <3>2. next.iter < MaxIterations
      BY <2>1, <2>2, <2>7, Telling DEF AtLimit, Turn
    <3>3. Told(invocation[w])'
      BY <2>1, <2>2, <2>4, <3>1, <3>2 DEF Told
    <3> QED
      BY <2>4, <3>3, QuietTold, OnlyTold
  <2> QED
    BY <2>3, <2>5, <2>6, <2>7
<1>9. ASSUME NEW m \in replies,
             \/ ReplyTooLate(w, m) \/ Redrive(w, m) \/ DropReply(w, m)
             \/ IdentityResponse(w, m) \/ PromptResponse(w, m)
      PROVE  Tells' /\ BusyTold'
  <2>1. UNCHANGED <<history, owner, turn, req2sess, nextId>>
    BY <1>9 DEF ReplyTooLate, Redrive, DropReply, IdentityResponse, PromptResponse, kv, ghosts
  <2>2. m.s \in Session /\ turn[m.s] \in Turn
    BY Telling DEF BInv, IInv, OutsideTyped, Reply
  <2>3. CASE Redrive(w, m) \/ DropReply(w, m)
    <3>1. UNCHANGED invocation
      BY <2>3 DEF Redrive, DropReply
    <3>2. BusyTold'
      BY <2>1, <3>1, Telling DEF BusyTold, Told, Unanswered, UserMessage, RoundMessage
    <3> QED
      BY <2>1, <3>2, QuietTold
  <2>4. CASE ReplyTooLate(w, m)
    <3>1. invocation'[w].h = "expire"
      BY <2>4, Telling, Busying DEF ReplyTooLate, Begin
    <3> QED
      BY <2>1, <3>1, QuietTold, FreeTold
  <2>5. CASE IdentityResponse(w, m) \/ PromptResponse(w, m)
    <3>1. /\ invocation'[w].h \in {"identity", "generate"} /\ invocation'[w].s = m.s
          /\ invocation'[w].st.iter = turn[m.s].iter
      <4> DEFINE st(p) == [turn[m.s] EXCEPT !.phase = p, !.sys = m.id]
      <4>1. \A p : st(p).iter = turn[m.s].iter
        BY <2>2 DEF Turn
      <4>2. \/ Begin(w, "identity", m.s, st("AwaitingPromptBuild"), "wait", 0, {})
            \/ Begin(w, "generate", m.s, st("Streaming"), "none", 0, {})
        BY <2>5 DEF IdentityResponse, PromptResponse
      <4> HIDE DEF st
      <4> QED
        BY <4>1, <4>2, Telling, Busying DEF Begin
    <3>2. Told(invocation[w])'
      BY <2>1, <3>1 DEF Told
    <3> QED
      BY <2>1, <3>2, QuietTold, OnlyTold
  <2> QED
    BY <1>9, <2>3, <2>4, <2>5
<1>10. CASE LifecycleRestart(w)
  <2>1. /\ UNCHANGED <<history, owner, nextId, invocation>> /\ invocation[w].h = "free"
        /\ \A s \in Session : turn'[s].phase = "Idle"
        /\ \A i \in Id : req2sess'[i] = None
    BY <1>10 DEF LifecycleRestart, outside, ghosts, FreshTurn, Free
  <2> QED
    BY <2>1, QuietTold, FreeTold
<1> QED
  BY <1>1, <1>2, <1>3, <1>5, <1>6, <1>7, <1>8, <1>9, <1>10, Zenon DEF Start

\* What interceptor c has appended, hs being the transcripts it left.
Landed(c, hs) ==
  /\ c.h = "prompt" =>
       /\ Len(hs[c.s]) \in DOMAIN hs[c.s]
       /\ hs[c.s][Len(hs[c.s])] = UserMessage(c.fresh)
       /\ \A s \in Session : \A k \in DOMAIN hs[s] :
            hs[s][k].turn < c.fresh \/ (s = c.s /\ k = Len(hs[c.s]))
  /\ c.h = "round" =>
       \E k \in DOMAIN hs[c.s] : hs[c.s][k] = RoundMessage(c.st.comp, c.st.iter)

\* What is appended to a transcript is well placed there, whether the reply
\* of the append comes or not.
LEMMA AppendsTold ==
  ASSUME HInv, NEW w \in Worker, NEW c, c = invocation[w], c.io = "wait",
         history' = [history EXCEPT ![c.s] = @ \o Appended(c)],
         UNCHANGED <<turn, owner, nextId, req2sess>>
  PROVE  /\ Tells' /\ Landed(c, history')
         /\ c.h \notin {"prompt", "round", "answer"} => history' = history
<1>1. Told(c) /\ Current(c) /\ GoodInvocation(c) /\ c \in Invocation
  BY Telling, Busying DEF BusyTold, BusyCurrent, GoodInvocation
<1>2. CASE c.h \notin {"prompt", "round", "answer"}
  <2>1. Appended(c) = <<>>
    BY <1>2 DEF Appended
  <2>2. history' = history
    <3>1. \A h \in Seq(Entry) : h \o <<>> = h
      BY ConcatEmptySeq
    <3>2. \A s \in Session : history'[s] = history[s]
      BY <2>1, <3>1, Busying, Telling
    <3> QED
      BY <3>2, Busying, Telling
  <2>3. Landed(c, history')
    BY <1>2 DEF Landed
  <2> QED
    BY <1>2, <2>2, <2>3, QuietTold, Telling
<1>3. CASE c.h \in {"prompt", "round", "answer"}
  <2>0. PICK h \in Seq(Entry) : h = history[c.s] /\ c.s \in Session
    BY <1>1, <1>3, Telling, Busying DEF GoodInvocation
  <2> DEFINE t == turn[c.s]
  <2>1. PICK e \in Entry :
          /\ Appended(c) = <<e>> /\ e.turn \in Id /\ e.turn < nextId
          /\ c.h = "prompt" => e = UserMessage(c.fresh)
          /\ c.h = "round"  => e = RoundMessage(c.st.comp, c.st.iter)
          /\ c.h = "answer" => e = [kind |-> "answer", turn |-> c.st.comp, round |-> c.st.iter]
    <3>1. CASE c.h = "prompt"
      <4>1. c.fresh \in Id /\ c.fresh < nextId /\ Appended(c) = <<UserMessage(c.fresh)>>
        BY <1>1, <3>1 DEF GoodInvocation, Current, Appended
      <4>2. UserMessage(c.fresh) \in Entry /\ UserMessage(c.fresh).turn = c.fresh
        BY <1>1 DEF UserMessage, Entry, Invocation
      <4> QED
        BY <3>1, <4>1, <4>2
    <3>2. CASE c.h \in {"round", "answer"}
      <4>1. c.st.comp = t.comp /\ t.phase # "Idle" /\ c.st \in Turn
        BY <1>1, <3>2 DEF Current, Reading, Unsaved, InTurn, Invocation
      <4>2. TurnTold(c.s, t, h, owner, req2sess)
        BY <2>0, Telling DEF TurnsTold
      <4>3. PICK k \in DOMAIN h : h[k] = UserMessage(t.comp)
        BY <4>1, <4>2 DEF TurnTold
      <4>4. t.comp \in Id /\ t.comp < nextId
        BY <2>0, <4>3, Telling DEF MessagesDrawn, UserMessage
      <4>5. /\ RoundMessage(c.st.comp, c.st.iter) \in Entry
            /\ [kind |-> "answer", turn |-> c.st.comp, round |-> c.st.iter] \in Entry
        BY <4>1 DEF RoundMessage, Entry, Turn
      <4> QED
        BY <3>2, <4>1, <4>4, <4>5 DEF Appended, RoundMessage
    <3> QED
      BY <1>3, <3>1, <3>2
  <2>2. PICK g : g = h \o <<e>>
    OBVIOUS
  <2>3. /\ Len(h) \in Nat /\ DOMAIN h = 1 .. Len(h) /\ DOMAIN g = 1 .. Len(h) + 1
        /\ Len(g) = Len(h) + 1 /\ g[Len(h) + 1] = e
        /\ \A k \in DOMAIN h : g[k] = h[k]
    BY <2>2, OneMore
  <2>4. \A s \in Session : history'[s] = IF s = c.s THEN g ELSE history[s]
    BY <2>0, <2>1, <2>2, Busying, Telling
  <2>41. history'[c.s] = g /\ \A k \in DOMAIN g : (k \in DOMAIN h /\ g[k] = h[k]) \/ (k = Len(g) /\ g[k] = e)
    <3>1. history'[c.s] = g
      BY <2>0, <2>4
    <3>2. ASSUME NEW k \in DOMAIN g, k # Len(g) PROVE k \in DOMAIN h /\ g[k] = h[k]
      BY <2>3, <3>2
    <3> QED
      BY <2>3, <3>1, <3>2
  <2>5. MessagesDrawn'
    <3> SUFFICES ASSUME NEW s \in Session, NEW k \in DOMAIN history'[s]
                 PROVE  history'[s][k].turn \in Id /\ history'[s][k].turn < nextId
      BY DEF MessagesDrawn
    <3>1. CASE s # c.s
      BY <2>4, <3>1, Telling DEF MessagesDrawn
    <3>2. CASE s = c.s
      <4>1. (k \in DOMAIN h /\ g[k] = h[k]) \/ g[k] = e
        BY <2>41, <3>2
      <4>2. \A l \in DOMAIN h : h[l].turn \in Id /\ h[l].turn < nextId
        BY <2>0, Telling DEF MessagesDrawn
      <4> QED
        BY <2>1, <2>41, <3>2, <4>1, <4>2
    <3> QED
      BY <3>1, <3>2
  <2>6. WellFormed(h, owner) /\ TurnTold(c.s, t, h, owner, req2sess) /\ t \in Turn
    BY <2>0, Telling DEF TurnsTold
  <2>7. CASE c.h = "prompt"
    <3>1. e = UserMessage(c.fresh) /\ e.turn = c.fresh /\ owner[c.fresh] = None /\ e.kind = "user"
      BY <1>1, <2>1, <2>7 DEF Current, UserMessage
    <3>2. WellFormed(g, owner)
      BY <2>2, <2>6, <3>1, AppendWellFormed
    <3>3. t.phase # "Idle" => e.turn # t.comp
      <4> SUFFICES ASSUME t.phase # "Idle" PROVE e.turn # t.comp
        OBVIOUS
      <4>1. PICK k \in DOMAIN h : h[k] = UserMessage(t.comp)
        BY <2>6 DEF TurnTold
      <4>2. h[k].turn < c.fresh /\ h[k].turn = t.comp
        BY <1>1, <2>0, <2>7, <4>1 DEF Told, UserMessage
      <4>3. c.fresh \in Nat
        BY <1>1 DEF Invocation, IdOr0
      <4> QED
        BY <3>1, <4>2, <4>3
    <3>4. TurnTold(c.s, t, g, owner, req2sess)
      BY <2>2, <2>6, <3>1, <3>3, AppendTold
    <3>5. \A s \in Session : \A k \in DOMAIN history'[s] :
            history'[s][k].turn < c.fresh \/ (s = c.s /\ k = Len(history'[c.s]))
      <4> SUFFICES ASSUME NEW s \in Session, NEW k \in DOMAIN history'[s]
                   PROVE  history'[s][k].turn < c.fresh \/ (s = c.s /\ k = Len(history'[c.s]))
        OBVIOUS
      <4>1. \A r \in Session : \A l \in DOMAIN history[r] : history[r][l].turn < c.fresh
        BY <1>1, <2>7 DEF Told
      <4>2. CASE s # c.s
        BY <2>4, <4>1, <4>2
      <4>3. CASE s = c.s
        <5>1. (k \in DOMAIN h /\ g[k] = h[k]) \/ k = Len(g)
          BY <2>41, <4>3
        <5>2. \A l \in DOMAIN h : h[l].turn < c.fresh
          BY <2>0, <4>1
        <5> QED
          BY <2>41, <4>3, <5>1, <5>2
      <4> QED
        BY <4>2, <4>3
    <3>6. TranscriptWellFormed' /\ TurnsTold'
      <4>1. \A s \in Session : WellFormed(history'[s], owner')
        BY <2>4, <3>2, Telling
      <4>2. \A s \in Session : TurnTold(s, turn'[s], history'[s], owner', req2sess')
        BY <2>4, <3>4, Telling DEF TurnsTold
      <4>3. TranscriptWellFormed'
        BY <4>1 DEF TranscriptWellFormed, WellFormed, UserMessage, RoundMessage
      <4> QED
        BY <4>2, <4>3 DEF TurnsTold
    <3>7. /\ Len(history'[c.s]) \in DOMAIN history'[c.s]
          /\ history'[c.s][Len(history'[c.s])] = UserMessage(c.fresh)
      <4>1. history'[c.s] = g
        BY <2>41
      <4>2. Len(g) \in DOMAIN g /\ g[Len(g)] = UserMessage(c.fresh)
        BY <2>3, <3>1
      <4> QED
        BY <4>1, <4>2
    <3> QED
      BY <2>5, <2>7, <3>5, <3>6, <3>7 DEF Tells, Landed
  <2>8. CASE c.h \in {"round", "answer"}
    <3>1. /\ c.st.comp = t.comp /\ t.phase # "Idle" /\ c.st \in Turn
          /\ c.h = "round" => t.phase = "AwaitingTools"
          /\ c.h = "answer" => t.phase = "Streaming" /\ c.st = t
      BY <1>1, <2>8 DEF Current, Reading, Unsaved, InTurn, Invocation
    <3>2. /\ c.h = "round" => c.st.iter = t.iter + 1 /\ c.st.iter < MaxIterations
          /\ c.h = "answer" => req2sess[t.req] # c.s
      BY <1>1, <2>8, <3>1 DEF Told
    <3>3. e.turn = t.comp /\ e.round = c.st.iter /\ e.kind \in {"tools", "answer"}
          /\ (e.kind = "answer" <=> c.h = "answer")
      BY <2>1, <2>8, <3>1 DEF RoundMessage
    <3>4. Unanswered(h, t.comp)
      BY <1>1, <2>0, <2>6, <2>8, <3>1 DEF Told, TurnTold
    <3>5. /\ t.comp \in Id /\ t.iter \in Nat /\ t.iter < MaxIterations
          /\ \A k \in DOMAIN h : owner[h[k].turn] # None => h[k].turn <= t.comp
          /\ \E k \in DOMAIN h : h[k] = UserMessage(t.comp)
          /\ \A n \in 1 .. t.iter : \E k \in DOMAIN h : h[k] = RoundMessage(t.comp, n)
          /\ \A k \in DOMAIN h : h[k].turn = t.comp =>
               h[k].round <= t.iter \/ (t.phase = "AwaitingTools" /\ h[k].round = t.iter + 1)
      BY <2>6, <3>1 DEF TurnTold, Turn
    <3>6. \A k \in DOMAIN h : h[k].round \in Nat /\ h[k].turn \in Nat
      <4> SUFFICES ASSUME NEW k \in DOMAIN h PROVE h[k] \in Entry
        BY DEF Entry, IdOr0
      <4> QED
        BY <2>0
    <3>7. /\ \A k \in DOMAIN h : owner[h[k].turn] # None =>
               \/ h[k].turn < e.turn
               \/ /\ h[k].turn = e.turn /\ h[k].round <= e.round
                  /\ h[k].kind # "answer" /\ e.kind # "user"
          /\ e.round < MaxIterations
      <4>1. e.round < MaxIterations
        BY <2>8, <3>1, <3>2, <3>3, <3>5
      <4> SUFFICES ASSUME NEW k \in DOMAIN h, owner[h[k].turn] # None, h[k].turn = t.comp
                   PROVE  h[k].round <= e.round /\ h[k].kind # "answer" /\ e.kind # "user"
        BY <3>3, <3>5, <3>6, <4>1 DEF Id
      <4>2. h[k].round <= e.round
        BY <2>8, <3>1, <3>2, <3>3, <3>5, <3>6
      <4> QED
        BY <3>3, <3>4, <4>2 DEF Unanswered
    <3>8. \A n \in 1 .. e.round :
            e = RoundMessage(e.turn, n) \/ \E k \in DOMAIN h : h[k] = RoundMessage(e.turn, n)
      <4> SUFFICES ASSUME NEW n \in 1 .. e.round
                   PROVE  e = RoundMessage(e.turn, n) \/ \E k \in DOMAIN h : h[k] = RoundMessage(e.turn, n)
        OBVIOUS
      <4>1. n \in 1 .. t.iter \/ (c.h = "round" /\ n = e.round)
        <5>1. CASE c.h = "round"
          <6>1. e.round = t.iter + 1
            BY <3>2, <3>3, <5>1
          <6> QED
            BY <3>5, <5>1, <6>1
        <5>2. CASE c.h = "answer"
          BY <3>1, <3>3, <5>2
        <5> QED
          BY <2>8, <5>1, <5>2
      <4> QED
        BY <2>1, <3>1, <3>3, <3>5, <4>1
    <3>9. WellFormed(g, owner)
      BY <2>2, <2>6, <3>3, <3>5, <3>7, <3>8, AppendWellFormed
    <3>10. TurnTold(c.s, t, g, owner, req2sess)
      <4>1. e.turn <= t.comp
        BY <3>3, <3>5 DEF Id
      <4>2. e.round <= t.iter \/ (t.phase = "AwaitingTools" /\ e.round = t.iter + 1)
        BY <2>8, <3>1, <3>2, <3>3, <3>5
      <4>3. e.kind # "answer" \/ (t.phase = "Streaming" /\ req2sess[t.req] # c.s)
        BY <2>8, <3>1, <3>2, <3>3
      <4> QED
        BY <2>2, <2>6, <4>1, <4>2, <4>3, AppendTold
    <3>11. TranscriptWellFormed' /\ TurnsTold'
      <4>1. \A s \in Session : WellFormed(history'[s], owner')
        BY <2>4, <3>9, Telling
      <4>2. \A s \in Session : TurnTold(s, turn'[s], history'[s], owner', req2sess')
        BY <2>4, <3>10, Telling DEF TurnsTold
      <4>3. TranscriptWellFormed'
        BY <4>1 DEF TranscriptWellFormed, WellFormed, UserMessage, RoundMessage
      <4> QED
        BY <4>2, <4>3 DEF TurnsTold
    <3>12. c.h = "round" =>
             \E k \in DOMAIN history'[c.s] : history'[c.s][k] = RoundMessage(c.st.comp, c.st.iter)
      <4>1. Len(h) + 1 \in DOMAIN g
        BY <2>3
      <4> QED
        BY <2>1, <2>3, <2>41, <4>1
    <3> QED
      BY <2>5, <2>8, <3>11, <3>12 DEF Tells, Landed
  <2> QED
    BY <1>3, <2>7, <2>8
<1> QED
  BY <1>2, <1>3

\* A prompt that is saved admits its turn, whose only message is the last one.
LEMMA PromptTold ==
  ASSUME HInv, NEW w \in Worker, FinishPrompt(w)
  PROVE  Tells'
<1>1. PICK c : c = invocation[w]
  OBVIOUS
<1>2. PICK st : st = [FreshTurn EXCEPT !.phase = "AwaitingIdentity", !.req = c.fresh, !.comp = c.fresh]
  OBVIOUS
<1>3. /\ c.h = "prompt" /\ c.io = "ok" /\ Told(c) /\ c.s \in Session /\ c.fresh \in Id
      /\ UNCHANGED <<history, nextId>>
  <2>1. Ready(w, "prompt") /\ UNCHANGED <<history, nextId>>
    BY DEF FinishPrompt
  <2> QED
    BY <1>1, <2>1, Telling DEF Ready, BusyTold, Told, GoodInvocation
<1>4. \A i \in Id : req2sess'[i] \in {req2sess[i], None}
  BY Telling, Busying DEF FinishPrompt, Cleanup, Without
<1>5. \/ UNCHANGED <<turn, owner>>
      \/ turn' = [turn EXCEPT ![c.s] = st] /\ owner' = [owner EXCEPT ![c.fresh] = c.s]
  BY <1>1, <1>2 DEF FinishPrompt, Save
<1>6. CASE UNCHANGED <<turn, owner>>
  BY <1>3, <1>4, <1>6, QuietTold
<1>7. CASE turn' = [turn EXCEPT ![c.s] = st] /\ owner' = [owner EXCEPT ![c.fresh] = c.s]
  <2>1. PICK h \in Seq(Entry) : h = history[c.s]
    BY <1>3, Telling, Busying
  <2>2. /\ Len(h) \in DOMAIN h /\ h[Len(h)] = UserMessage(c.fresh)
        /\ \A k \in DOMAIN h : h[k].turn < c.fresh \/ k = Len(h)
        /\ \A s \in Session : s # c.s => \A k \in DOMAIN history[s] : history[s][k].turn < c.fresh
    BY <1>3, <2>1 DEF Told
  <2>3. /\ st.phase # "Idle" /\ st.comp = c.fresh /\ st.iter = 0
        /\ h[Len(h)].turn = c.fresh /\ h[Len(h)].round = 0 /\ h[Len(h)].kind = "user"
    BY <1>2, <2>2 DEF FreshTurn, UserMessage
  <2>4. /\ \A s \in Session : turn'[s] = IF s = c.s THEN st ELSE turn[s]
        /\ \A i \in Id : i # c.fresh => owner'[i] = owner[i]
    BY <1>3, <1>7, Telling, Busying
  <2>5. /\ \A k \in DOMAIN h : h[k].turn \in Id /\ h[k].round \in Nat
        /\ \A s \in Session : \A k \in DOMAIN history[s] : history[s][k].turn \in Id
        /\ Len(h) \in Nat /\ DOMAIN h = 1 .. Len(h) /\ c.fresh \in Nat
    <3>1. \A k \in DOMAIN h : h[k].round \in Nat
      <4> SUFFICES ASSUME NEW k \in DOMAIN h PROVE h[k] \in Entry
        BY DEF Entry
      <4> QED
        BY <2>1
    <3> QED
      BY <1>3, <2>1, <3>1, Telling DEF MessagesDrawn, Id
  <2>6. ASSUME NEW s \in Session, s # c.s
        PROVE  WellFormed(history[s], owner') /\ TurnTold(s, turn[s], history[s], owner', req2sess')
    <3>1. \A k \in DOMAIN history[s] : owner'[history[s][k].turn] = owner[history[s][k].turn]
      <4> SUFFICES ASSUME NEW k \in DOMAIN history[s] PROVE history[s][k].turn # c.fresh
        BY <2>4, <2>5
      <4> QED
        BY <2>2, <2>5, <2>6 DEF Id
    <3>2. WellFormed(history[s], owner) /\ TurnTold(s, turn[s], history[s], owner, req2sess)
      BY Telling DEF TurnsTold
    <3>3. WellFormed(history[s], owner')
      BY <3>1, <3>2 DEF WellFormed
    <3>4. turn[s].phase # "Idle" => (req2sess[turn[s].req] # s => req2sess'[turn[s].req] # s)
      BY <1>4, Telling
    <3> QED
      BY <3>1, <3>2, <3>3, <3>4 DEF TurnTold
  <2>7. WellFormed(h, owner')
    <3>1. WellFormed(h, owner)
      BY <1>3, <2>1, Telling
    <3>2. \A k \in DOMAIN h : k # Len(h) => owner'[h[k].turn] = owner[h[k].turn] /\ h[k].turn < c.fresh
      <4> SUFFICES ASSUME NEW k \in DOMAIN h, k # Len(h)
                   PROVE  h[k].turn # c.fresh /\ h[k].turn < c.fresh
        BY <2>4, <2>5
      <4> QED
        BY <2>2, <2>5 DEF Id
    <3>3. ASSUME NEW k \in DOMAIN h, NEW l \in DOMAIN h, k < l,
                 owner'[h[k].turn] # None, owner'[h[l].turn] # None
          PROVE  \/ h[k].turn < h[l].turn
                 \/ /\ h[k].turn = h[l].turn /\ h[k].round <= h[l].round
                    /\ h[k].kind # "answer" /\ h[l].kind # "user"
      <4>1. k # Len(h)
        BY <2>5, <3>3
      <4>2. CASE l = Len(h)
        BY <2>3, <3>2, <4>1, <4>2
      <4>3. CASE l # Len(h)
        BY <3>1, <3>2, <3>3, <4>1, <4>3 DEF WellFormed
      <4> QED
        BY <4>2, <4>3
    <3>4. ASSUME NEW l \in DOMAIN h, owner'[h[l].turn] # None
          PROVE  /\ h[l].round < MaxIterations
                 /\ \E k \in 1 .. l : h[k] = UserMessage(h[l].turn)
                 /\ \A n \in 1 .. h[l].round : \E k \in 1 .. l : h[k] = RoundMessage(h[l].turn, n)
      <4>1. CASE l = Len(h)
        <5>1. l \in 1 .. l
          BY <2>5
        <5> QED
          BY <2>2, <2>3, <4>1, <5>1, Telling
      <4>2. CASE l # Len(h)
        BY <3>1, <3>2, <3>4, <4>2 DEF WellFormed
      <4> QED
        BY <4>1, <4>2
    <3> QED
      BY <3>3, <3>4 DEF WellFormed
  <2>8. TurnTold(c.s, st, h, owner', req2sess')
    <3>1. \A k \in DOMAIN h : h[k].turn <= c.fresh /\ (h[k].turn = c.fresh => k = Len(h))
      BY <2>2, <2>3, <2>5 DEF Id
    <3>2. st.comp \in Id /\ st.iter < MaxIterations /\ 1 .. st.iter = {}
      BY <1>3, <2>3, Telling
    <3>3. \A k \in DOMAIN h : h[k].turn = st.comp => h[k].round <= st.iter /\ h[k].kind # "answer"
      BY <2>3, <3>1
    <3> QED
      BY <2>2, <2>3, <3>1, <3>2, <3>3 DEF TurnTold, Unanswered
  <2>9. TranscriptWellFormed'
    <3>1. \A s \in Session : WellFormed(history'[s], owner')
      BY <1>3, <2>1, <2>6, <2>7
    <3> QED
      BY <3>1 DEF TranscriptWellFormed, WellFormed, UserMessage, RoundMessage
  <2>10. TurnsTold'
    <3>1. \A s \in Session : TurnTold(s, turn'[s], history'[s], owner', req2sess')
      BY <1>3, <2>1, <2>4, <2>6, <2>8
    <3> QED
      BY <3>1 DEF TurnsTold
  <2>11. MessagesDrawn'
    BY <1>3, Telling DEF MessagesDrawn
  <2> QED
    BY <2>9, <2>10, <2>11 DEF Tells
<1> QED
  BY <1>5, <1>6, <1>7

\* Parts that save a turn that goes on.
LEMMA SaveAndTold ==
  ASSUME HInv, Serialized, NEW w \in Worker,
         FinishIdentity(w) \/ FinishGenerate(w) \/ FinishRound(w) \/ FinishDelta(w) \/ FinishRecord(w)
  PROVE  Tells' /\ BusyTold'
<1>1. PICK c : c = invocation[w]
  OBVIOUS
<1>2. /\ c.h \in {"identity", "generate", "round", "delta", "record"}
      /\ c.h = "round" => c.io = "none" \/ c.io = "ok"
  BY <1>1 DEF FinishIdentity, FinishGenerate, FinishRound, FinishDelta, FinishRecord, SaveAnd, Ready
<1>3. /\ c.s \in Session /\ InTurn(c.s) /\ c.st.comp = turn[c.s].comp /\ c.st \in Turn
      /\ Current(c) /\ c \in Invocation /\ Told(c)
  BY <1>1, <1>2, BusyTurn, Busying, Telling DEF Unsaved, BusyTold
<1>4. /\ UNCHANGED <<history, owner, nextId, req2sess>>
      /\ turn' = turn \/ turn' = [turn EXCEPT ![c.s] = c.st]
  BY <1>1 DEF FinishIdentity, FinishGenerate, FinishRound, FinishDelta, FinishRecord, SaveAnd,
     Save, outside, ghosts
<1>5. PICK h : h = history[c.s]
  OBVIOUS
<1>6. Unanswered(h, c.st.comp)
  <2>1. TurnTold(c.s, turn[c.s], h, owner, req2sess)
    BY <1>3, <1>5, Telling DEF TurnsTold
  <2>2. CASE c.h = "delta"
    BY <1>3, <1>5, <2>2 DEF Told
  <2>3. CASE c.h # "delta"
    BY <1>2, <1>3, <2>1, <2>3 DEF Current, TurnTold, InTurn
  <2> QED
    BY <2>2, <2>3
<1>7. \/ c.st.iter = turn[c.s].iter /\ (turn[c.s].phase # "AwaitingTools" \/ c.st.phase = "AwaitingTools")
      \/ /\ c.st.iter = turn[c.s].iter + 1 /\ c.st.iter < MaxIterations
         /\ \E k \in DOMAIN h : h[k] = RoundMessage(c.st.comp, c.st.iter)
  BY <1>2, <1>3, <1>5 DEF Current, Told
<1>8. Tells'
  <2>1. CASE turn' = turn
    BY <1>4, <2>1, QuietTold
  <2>2. CASE turn' = [turn EXCEPT ![c.s] = c.st]
    BY <1>3, <1>4, <1>5, <1>6, <1>7, <2>2, SavedTold
  <2> QED
    BY <1>4, <2>1, <2>2
<1>9. Return(w) \/ Continue(w, "assemble") \/ Continue(w, "ask")
  BY DEF FinishIdentity, FinishGenerate, FinishRound, FinishDelta, FinishRecord, SaveAnd
<1>10. CASE Return(w)
  BY <1>8, <1>10, ReturnedTold
<1>11. CASE Continue(w, "assemble")
  <2>1. invocation'[w].h = "assemble"
    BY <1>11, Telling, Busying DEF Continue, Invocation
  <2> QED
    BY <1>8, <2>1, FreeTold
<1>12. CASE Continue(w, "ask")
  <2>1. invocation'[w].h = "ask" /\ invocation'[w].s = c.s /\ invocation'[w].st = c.st
    BY <1>1, <1>3, <1>12, Telling, Busying DEF Continue, Invocation
  <2>2. Told(invocation[w])'
    BY <1>4, <1>5, <1>6, <2>1 DEF Told, Unanswered
  <2> QED
    BY <1>8, <2>2, OnlyTold
<1> QED
  BY <1>9, <1>8, <1>10, <1>11, <1>12

\* Dispatching calls: the turn waits for them, or it ends.
LEMMA DispatchTold ==
  ASSUME HInv, NEW w \in Worker, FinishDispatch(w)
  PROVE  Tells'
<1>1. PICK c : c = invocation[w]
  OBVIOUS
<1>2. c.h = "dispatch" /\ UNCHANGED <<history, owner, nextId, req2sess>>
  BY <1>1 DEF FinishDispatch, Ready
<1>3. /\ c.s \in Session /\ InTurn(c.s) /\ c.st = turn[c.s] /\ c.st \in Turn
      /\ c.st.phase = "Streaming" /\ GoodTurn(c.st) /\ Unanswered(history[c.s], c.st.comp)
  BY <1>1, <1>2, BusyTurn, Telling DEF Reading, Current, BusyTold, Told, GoodInvocation
<1>4. PICK d \in Turn : /\ d = Dispatch(c.st) /\ d.comp = c.st.comp /\ d.iter = c.st.iter
                        /\ d.phase = "AwaitingTools"
  <2>1. Dispatch(c.st) \in Turn
    BY <1>3, DispatchGood DEF GoodTurn
  <2> QED
    BY <1>3, <2>1 DEF Dispatch, Turn
<1>5. \/ turn' = turn
      \/ turn' = [turn EXCEPT ![c.s] = d]
      \/ turn' = [turn EXCEPT ![c.s] = [d EXCEPT !.phase = "Idle"]]
  <2>1. [d EXCEPT !.phase = @] = d
    BY <1>4 DEF Turn
  <2>2. \/ turn' = turn
        \/ turn' = [turn EXCEPT ![c.s] = d]
        \/ \E saved \in BOOLEAN :
             turn' = [turn EXCEPT ![c.s] = [d EXCEPT !.phase = IF saved THEN "Idle" ELSE @]]
    BY <1>1, <1>4 DEF FinishDispatch, Save, Outcome
  <2> QED
    BY <2>1, <2>2
<1>6. CASE turn' = turn
  BY <1>2, <1>6, QuietTold
<1>7. CASE turn' = [turn EXCEPT ![c.s] = d]
  BY <1>2, <1>3, <1>4, <1>7, SavedTold
<1>8. CASE turn' = [turn EXCEPT ![c.s] = [d EXCEPT !.phase = "Idle"]]
  <2>1. [d EXCEPT !.phase = "Idle"].phase = "Idle"
    BY <1>4 DEF Turn
  <2>2. \A s \in Session : turn'[s].phase = "Idle" \/ turn'[s] = turn[s]
    BY <1>3, <1>8, <2>1, Telling, Busying
  <2> QED
    BY <1>2, <2>2, QuietTold
<1> QED
  BY <1>5, <1>6, <1>7, <1>8

\* Mapping the request of a new generation: no session has its answer yet.
LEMMA AskTold ==
  ASSUME HInv, NEW w \in Worker, FinishAsk(w)
  PROVE  Tells'
<1>1. PICK c : c = invocation[w]
  OBVIOUS
<1>2. c.h = "ask" /\ UNCHANGED <<history, owner, nextId, turn>>
  BY <1>1 DEF FinishAsk, Ready, ghosts
<1>3. /\ c.s \in Session /\ InTurn(c.s) /\ c.st = turn[c.s]
      /\ Unanswered(history[c.s], c.st.comp)
  BY <1>1, <1>2, BusyTurn, Telling DEF Reading, Current, BusyTold, Told
<1>4. \A i \in Id : req2sess'[i] \in {req2sess[i], None, c.s}
  BY <1>1, Telling, Busying DEF FinishAsk
<1>5. TranscriptWellFormed' /\ MessagesDrawn'
  BY <1>2, Telling DEF TranscriptWellFormed, UserMessage, RoundMessage, MessagesDrawn
<1>6. TurnsTold'
  <2> SUFFICES ASSUME NEW s \in Session, turn[s].phase # "Idle"
               PROVE  TurnTold(s, turn[s], history[s], owner, req2sess')
    BY <1>2 DEF TurnsTold, TurnTold
  <2>1. TurnTold(s, turn[s], history[s], owner, req2sess) /\ turn[s].req \in Id /\ None # s
    BY Telling DEF TurnsTold
  <2>2. \/ Unanswered(history[s], turn[s].comp)
        \/ turn[s].phase = "Streaming" /\ req2sess'[turn[s].req] # s
    <3>1. CASE s = c.s
      BY <1>3, <3>1
    <3>2. CASE s # c.s
      BY <1>4, <2>1, <3>2 DEF TurnTold
    <3> QED
      BY <3>1, <3>2
  <2> QED
    BY <2>1, <2>2 DEF TurnTold
<1> QED
  BY <1>5, <1>6 DEF Tells

\* A turn that ends, or is left as it is.
LEMMA EndingTold ==
  ASSUME HInv, NEW w \in Worker,
         \/ FinishAssemble(w) \/ NoModel(w) \/ FinishAnswer(w) \/ FinishEmpty(w) \/ FinishAbort(w)
         \/ FinishCancel(w) \/ FinishExpire(w) \/ FinishCap(w) \/ FinishClear(w)
  PROVE  Tells'
<1>1. PICK c : c = invocation[w]
  OBVIOUS
<1>2. UNCHANGED <<history, owner, nextId>>
  BY DEF FinishAssemble, NoModel, FinishAnswer, FinishEmpty, FinishAbort, FinishCancel,
     FinishExpire, FinishCap, FinishClear, Abort, outside, ghosts
<1>3. \A i \in Id : req2sess'[i] \in {req2sess[i], None}
  <2>1. UNCHANGED req2sess \/ Cleanup(c.st)
    BY <1>1 DEF FinishAssemble, NoModel, FinishAnswer, FinishEmpty, FinishAbort, FinishCancel,
       FinishExpire, FinishCap, FinishClear, Abort, kv
  <2> QED
    BY <2>1, Telling, Busying DEF Cleanup, Without
<1>4. \/ turn' = turn
      \/ \E st : st.phase = "Idle" /\ turn' = [turn EXCEPT ![c.s] = st]
  <2>1. FreshTurn.phase = "Idle"
    BY DEF FreshTurn
  <2>2. CASE FinishAssemble(w)
    BY <2>2 DEF FinishAssemble, kv
  <2>3. CASE \/ NoModel(w) \/ FinishAbort(w) \/ FinishCancel(w) \/ FinishExpire(w)
             \/ FinishCap(w) \/ FinishClear(w)
    <3>1. turn' = turn \/ turn' = [turn EXCEPT ![c.s] = FreshTurn]
      BY <1>1, <2>3 DEF NoModel, FinishAbort, FinishCancel,
         FinishExpire, FinishCap, FinishClear, Abort, SaveIdle, Save
    <3> QED
      BY <2>1, <3>1
  <2>4. CASE FinishAnswer(w) \/ FinishEmpty(w)
    <3>1. c.st \in Turn
      BY <1>1, Telling DEF GoodInvocation, GoodTurn
    <3>2. [c.st EXCEPT !.phase = "Idle"].phase = "Idle"
      BY <3>1 DEF Turn
    <3>3. turn' = turn \/ turn' = [turn EXCEPT ![c.s] = [c.st EXCEPT !.phase = "Idle"]]
      BY <1>1, <2>4 DEF FinishAnswer, FinishEmpty, SaveIdle, Save
    <3> QED
      BY <3>2, <3>3
  <2> QED
    BY <2>2, <2>3, <2>4
<1>5. \A s \in Session : turn'[s].phase = "Idle" \/ turn'[s] = turn[s]
  BY <1>4, Telling, Busying
<1> QED
  BY <1>2, <1>3, <1>5, QuietTold

\* The session capsule's answer, or the error that takes its place.
LEMMA SessionTold ==
  ASSUME HInv, Serialized, NEW w \in Worker, SessionReply(w) \/ SessionFailed(w)
  PROVE  Tells' /\ BusyTold'
<1>1. PICK c : c = invocation[w]
  OBVIOUS
<1>2. c.io = "wait" /\ UNCHANGED <<turn, owner, nextId, req2sess>>
  BY <1>1 DEF SessionReply, SessionFailed, kv, ghosts
<1>3. CASE SessionFailed(w)
  <2>1. Return(w)
    BY <1>3 DEF SessionFailed
  <2>2. history' = history \/ history' = [history EXCEPT ![c.s] = @ \o Appended(c)]
    BY <1>1, <1>3 DEF SessionFailed
  <2>3. CASE history' = history
    BY <1>2, <2>1, <2>3, QuietTold, ReturnedTold
  <2>4. CASE history' = [history EXCEPT ![c.s] = @ \o Appended(c)]
    BY <1>1, <1>2, <2>1, <2>4, AppendsTold, ReturnedTold
  <2> QED
    BY <2>2, <2>3, <2>4
<1>4. CASE SessionReply(w)
  <2>1. history' = [history EXCEPT ![c.s] = @ \o Appended(c)]
    BY <1>1, <1>4 DEF SessionReply
  <2>2. Tells' /\ Landed(c, history')
    BY <1>1, <1>2, <2>1, AppendsTold
  <2>3. Told(c) /\ c \in Invocation
    BY <1>1, Telling, Busying DEF BusyTold
  <2>4. /\ invocation'[w].h = c.h /\ invocation'[w].s = c.s /\ invocation'[w].st = c.st
        /\ invocation'[w].fresh = c.fresh /\ invocation'[w].io = "ok"
    BY <1>1, <1>4, <2>3, Telling, Busying DEF SessionReply, Invocation
  <2>5. ASSUME c.h = "prompt" PROVE Told(invocation[w])'
    BY <2>2, <2>4, <2>5 DEF Told, Landed
  <2>6. ASSUME c.h = "round" PROVE Told(invocation[w])'
    BY <1>2, <2>2, <2>3, <2>4, <2>6 DEF Told, Landed
  <2>7. ASSUME c.h = "answer" PROVE Told(invocation[w])'
    BY <1>2, <2>3, <2>4, <2>7 DEF Told
  <2>8. ASSUME c.h \notin {"prompt", "round", "answer"} PROVE Told(invocation[w])'
    <3>1. history' = history
      BY <1>1, <1>2, <2>1, <2>8, AppendsTold
    <3> QED
      BY <1>2, <2>3, <2>4, <2>8, <3>1 DEF Told, Unanswered
  <2>9. Told(invocation[w])'
    BY <2>5, <2>6, <2>7, <2>8
  <2> QED
    BY <2>2, <2>9, OnlyTold
<1> QED
  BY <1>3, <1>4

\* Before the first event there is no message and no turn.
LEMMA InitTold == Init => HInv
<1> SUFFICES ASSUME Init PROVE HInv
  OBVIOUS
<1>1. BInv
  BY InitLifecycle DEF LInv
<1>2. \A s \in Session : history[s] = <<>> /\ turn[s].phase = "Idle"
  BY DEF Init, FreshTurn
<1>3. TranscriptWellFormed
  BY <1>2 DEF TranscriptWellFormed
<1>4. MessagesDrawn /\ TurnsTold
  BY <1>2 DEF MessagesDrawn, TurnsTold, TurnTold
<1>5. BusyTold
  BY DEF Init, Free, BusyTold, Told
<1> QED
  BY <1>1, <1>3, <1>4, <1>5 DEF HInv, Tells

\* A turn is admitted under a uuid that was drawn for it.
LEMMA NextDrawn == BInv /\ [Next]_vars => OwnersDrawn'
<1> SUFFICES ASSUME BInv, [Next]_vars PROVE OwnersDrawn'
  OBVIOUS
<1>1. nextId' \in {nextId, nextId + 1} /\ nextId \in Nat
  <2>1. nextId \in Nat
    BY Busying
  <2>2. ASSUME NEW w \in Worker, Start(w) PROVE nextId' \in {nextId, nextId + 1}
    <3>1. CASE \E s \in Session : \/ UserPrompt(w, s) \/ CancelTurn(w, s) \/ SessionClear(w, s)
                                  \/ WatchdogTick(w, s) \/ BusLag(w, s)
      BY <3>1 DEF UserPrompt, CancelTurn, SessionClear, WatchdogTick, BusLag
    <3>2. CASE \E s \in Session, i \in Id :
                 \/ StreamTooLate(w, s, i) \/ TextDelta(w, s, i) \/ StreamDone(w, s, i)
                 \/ StreamError(w, s, i) \/ \E k \in CallId : ToolCallStart(w, s, i, k)
      BY <3>2 DEF StreamTooLate, TextDelta, StreamDone, StreamError, ToolCallStart
    <3>3. CASE \E s \in Session, j \in jobs : ResultTooLate(w, s, j) \/ ToolResult(w, s, j)
      BY <3>3 DEF ResultTooLate, ToolResult
    <3>4. CASE \E m \in replies :
                 \/ ReplyTooLate(w, m) \/ Redrive(w, m) \/ DropReply(w, m)
                 \/ IdentityResponse(w, m) \/ PromptResponse(w, m)
      BY <3>4 DEF ReplyTooLate, Redrive, DropReply, IdentityResponse, PromptResponse
    <3>5. CASE LifecycleRestart(w)
      BY <3>5 DEF LifecycleRestart
    <3> QED
      BY <2>2, <3>1, <3>2, <3>3, <3>4, <3>5, Zenon DEF Start
  <2>3. ASSUME NEW w \in Worker, Resume(w) PROVE UNCHANGED nextId
    BY <2>3 DEF Resume, SessionReply, SessionFailed, FinishPrompt, FinishIdentity, FinishAssemble,
       FinishGenerate, FinishAsk, NoModel, FinishDelta, FinishDispatch, FinishAnswer, FinishEmpty,
       FinishAbort, FinishCancel, FinishExpire, FinishRecord, FinishCap, FinishRound, FinishClear,
       SaveAnd, Abort
  <2>4. CASE (\E s \in Session : Age(s)) \/ Reload \/ Lose \/ UNCHANGED vars
    BY <2>1, <2>4 DEF Age, Reload, Lose, vars
  <2> QED
    BY <2>1, <2>2, <2>3, <2>4 DEF Next
<1>2. \/ UNCHANGED owner
      \/ \E w \in Worker : FinishPrompt(w)
  <2>1. ASSUME NEW w \in Worker, Start(w) PROVE UNCHANGED owner
    <3>1. CASE \E s \in Session : \/ UserPrompt(w, s) \/ CancelTurn(w, s) \/ SessionClear(w, s)
                                  \/ WatchdogTick(w, s) \/ BusLag(w, s)
      BY <3>1 DEF UserPrompt, CancelTurn, SessionClear, WatchdogTick, BusLag, ghosts
    <3>2. CASE \E s \in Session, i \in Id :
                 \/ StreamTooLate(w, s, i) \/ TextDelta(w, s, i) \/ StreamDone(w, s, i)
                 \/ StreamError(w, s, i) \/ \E k \in CallId : ToolCallStart(w, s, i, k)
      BY <3>2 DEF StreamTooLate, TextDelta, StreamDone, StreamError, ToolCallStart, ghosts
    <3>3. CASE \E s \in Session, j \in jobs : ResultTooLate(w, s, j) \/ ToolResult(w, s, j)
      BY <3>3 DEF ResultTooLate, ToolResult, ghosts
    <3>4. CASE \E m \in replies :
                 \/ ReplyTooLate(w, m) \/ Redrive(w, m) \/ DropReply(w, m)
                 \/ IdentityResponse(w, m) \/ PromptResponse(w, m)
      BY <3>4 DEF ReplyTooLate, Redrive, DropReply, IdentityResponse, PromptResponse, ghosts
    <3>5. CASE LifecycleRestart(w)
      BY <3>5 DEF LifecycleRestart, ghosts
    <3> QED
      BY <2>1, <3>1, <3>2, <3>3, <3>4, <3>5, Zenon DEF Start
  <2>2. ASSUME NEW w \in Worker, Resume(w) PROVE UNCHANGED owner \/ FinishPrompt(w)
    BY <2>2 DEF Resume, SessionReply, SessionFailed, FinishIdentity, FinishAssemble,
       FinishGenerate, FinishAsk, NoModel, FinishDelta, FinishDispatch, FinishAnswer, FinishEmpty,
       FinishAbort, FinishCancel, FinishExpire, FinishRecord, FinishCap, FinishRound, FinishClear,
       SaveAnd, Abort, ghosts
  <2>3. CASE (\E s \in Session : Age(s)) \/ Reload \/ Lose \/ UNCHANGED vars
    BY <2>3 DEF Age, Reload, Lose, vars, ghosts
  <2> QED
    BY <2>1, <2>2, <2>3 DEF Next
<1>3. CASE UNCHANGED owner
  <2> SUFFICES ASSUME NEW i \in Id, owner[i] # None PROVE i < nextId'
    BY <1>3 DEF OwnersDrawn
  <2>1. i < nextId /\ i \in Nat
    BY Busying DEF OwnersDrawn, Id
  <2> QED
    BY <1>1, <2>1
<1>4. ASSUME NEW w \in Worker, FinishPrompt(w) PROVE OwnersDrawn'
  <2>1. PICK c : c = invocation[w]
    OBVIOUS
  <2>2. UNCHANGED nextId /\ (owner' = owner \/ owner' = [owner EXCEPT ![c.fresh] = c.s])
    BY <1>4, <2>1 DEF FinishPrompt
  <2>3. c.fresh < nextId
    BY <1>4, <2>1, Busying DEF FinishPrompt, Ready, BusyCurrent, Current
  <2>4. \A i \in Id : owner'[i] # owner[i] => i = c.fresh
    BY <2>2, Busying
  <2> QED
    BY <2>2, <2>3, <2>4, Busying DEF OwnersDrawn
<1> QED
  BY <1>2, <1>3, <1>4

LEMMA NextTold ==
  ASSUME Serialized
  PROVE  HInv /\ [Next]_vars => HInv'
<1> SUFFICES ASSUME HInv, [Next]_vars PROVE HInv'
  OBVIOUS
<1>1. BInv
  BY DEF HInv
<1>2. IInv' /\ OwnersDrawn'
  BY <1>1, NextGood, NextDrawn DEF BInv
<1>3. ASSUME NEW w \in Worker, Start(w) PROVE BusyCurrent' /\ Tells' /\ BusyTold'
  BY <1>1, <1>3, StartCurrent, StartTold
<1>4. ASSUME NEW w \in Worker, Resume(w) PROVE BusyCurrent' /\ Tells' /\ BusyTold'
  <2>1. BusyCurrent'
    BY <1>1, <1>4, ResumeCurrent
  <2>2. CASE SessionReply(w) \/ SessionFailed(w)
    BY <2>1, <2>2, SessionTold
  <2>3. CASE FinishIdentity(w) \/ FinishGenerate(w) \/ FinishRound(w) \/ FinishDelta(w) \/ FinishRecord(w)
    BY <2>1, <2>3, SaveAndTold
  <2>4. CASE \/ FinishPrompt(w) \/ FinishDispatch(w) \/ FinishAsk(w)
             \/ FinishAssemble(w) \/ NoModel(w) \/ FinishAnswer(w) \/ FinishEmpty(w) \/ FinishAbort(w)
             \/ FinishCancel(w) \/ FinishExpire(w) \/ FinishCap(w) \/ FinishClear(w)
    <3>1. Tells'
      BY <2>4, PromptTold, DispatchTold, AskTold, EndingTold
    <3>2. Return(w)
      BY <2>4 DEF FinishPrompt, FinishDispatch, FinishAsk, FinishAssemble, NoModel, FinishAnswer,
         FinishEmpty, FinishAbort, FinishCancel, FinishExpire, FinishCap, FinishClear, Abort
    <3> QED
      BY <2>1, <3>1, <3>2, ReturnedTold
  <2> QED
    BY <1>4, <2>2, <2>3, <2>4 DEF Resume
<1>5. CASE (\E s \in Session : Age(s)) \/ Lose \/ UNCHANGED vars
  <2>1. UNCHANGED <<history, owner, turn, req2sess, nextId, invocation>>
    BY <1>5 DEF Age, Lose, vars, kv, outside, ghosts
  <2>2. BusyCurrent'
    BY <1>1, <2>1 DEF BInv, BusyCurrent, Current, InTurn
  <2>3. BusyTold'
    BY <2>1, Telling DEF BusyTold, Told, Unanswered, UserMessage, RoundMessage
  <2> QED
    BY <1>2, <2>1, <2>2, <2>3, QuietTold DEF HInv, BInv
<1>6. CASE Reload
  <2>1. /\ UNCHANGED <<history, owner, turn, req2sess, nextId>>
        /\ invocation' = [w \in Worker |-> Free]
    BY <1>6 DEF Reload, kv, outside, ghosts
  <2>2. BusyCurrent' /\ BusyTold'
    BY <2>1 DEF BusyCurrent, Current, BusyTold, Told, Free, Reading, Unsaved
  <2> QED
    BY <1>2, <2>1, <2>2, QuietTold DEF HInv, BInv
<1> QED
  BY <1>2, <1>3, <1>4, <1>5, <1>6 DEF Next, HInv, BInv

\* A transcript the coordinator writes stays in the order the model was asked
\* in: whatever fails, is lost, comes twice or cuts a turn short, the message
\* of an admitted turn never lands behind a later turn's, its user message and
\* its rounds of tool calls are all there, fewer than MaxIterations, and
\* nothing follows its answer (handle_user_prompt, handle_tool_result,
\* handle_stream_done).  Two interceptors at once could append out of order.
THEOREM TranscriptsAreWellFormed ==
  ASSUME Serialized
  PROVE  Spec => []TranscriptWellFormed
<1>1. HInv /\ [Next]_vars => HInv'
  BY NextTold
<1>2. HInv => TranscriptWellFormed
  BY DEF HInv, Tells
<1> QED
  BY InitTold, <1>1, <1>2, PTL DEF Spec
=============================================================================
