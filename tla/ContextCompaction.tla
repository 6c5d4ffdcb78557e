------------------------- MODULE ContextCompaction -------------------------
(***************************************************************************)
(* A transcript is cut to the model's context window before each request   *)
(* to the provider: the ReAct coordinator asks the context engine and      *)
(* waits (compact_messages, publish_llm_request in                         *)
(* capsules/capsule-react/src/lib.rs); the engine, one loop that serves    *)
(* one request after another, asks its plugins first (src/lib.rs and       *)
(* src/strategy.rs of capsules/capsule-context-engine).                    *)
(*                                                                         *)
(* The reply topic is static and a reply names no request: whoever waits   *)
(* takes it.  Time is counted in ticks, and passes only in waits; what     *)
(* happens between them takes none.  The plugins are external.             *)
(***************************************************************************)
EXTENDS Naturals, Sequences, FiniteSets, SequencesExt

CONSTANTS
  Instance,       \* instances of the coordinator: one if it is serialized
  Session,
  Nothing,
  Size,           \* bound: tokens of a message
  MaxMessages,    \* bound: messages of a transcript
  Target,         \* 90 % of the windows there are, in tokens
  KeepRecent,     \* keep_recent
  FirstResponse,  \* hook_first_response_ms
  IdleGrace,      \* hook_idle_grace_ms
  HookTimeout,    \* hook_timeout_ms
  MaxResponses,   \* MAX_HOOK_RESPONSES
  PollInterval,   \* HOOK_POLL_INTERVAL_MS
  CompactTimeout  \* DEFAULT_COMPACT_TIMEOUT_MS

ASSUME CompactionAssumption ==
  /\ Size \subseteq Nat /\ Target \subseteq Nat
  /\ {MaxMessages, KeepRecent, FirstResponse, IdleGrace, HookTimeout,
      MaxResponses, PollInterval, CompactTimeout} \subseteq Nat

Message == [of : Session, n : Nat, size : Size]
Reply   == [messages : Seq(Message), pinned : SUBSET Nat,
            strategy : {"none", "skipped", "summarize_and_truncate"}]
Wait    == [session : Session, asked : Seq(Message), target : Target, left : Nat,
            reply : Reply \cup {Nothing}]
Request == [asked : Seq(Message), target : Nat, reply : Reply]

ASSUME NothingIsApart == Nothing \notin Reply \cup Wait \cup Request

VARIABLES
  transcript,  \* external: the messages of each session: its place, which a
               \* plugin may pin, and its tokens
  react,       \* what each instance waits for, or Nothing
  queue,       \* compaction requests the engine has not taken yet
  engine,      \* where the engine's loop is
  request      \* the last request of each instance to a provider, or Nothing

compactionVars == <<transcript, react, queue, engine, request>>

Listening(at) == [at |-> at, left |-> PollInterval]

CompactionInit ==
  /\ transcript = [s \in Session |-> <<>>]
  /\ react = [i \in Instance |-> Nothing]
  /\ queue = <<>>
  /\ engine = Listening("compact")
  /\ request = [i \in Instance |-> Nothing]

-----------------------------------------------------------------------------
(* strategy.rs.                                                            *)

\* estimate_total_tokens.
Tokens(messages) ==
  LET sum[k \in 0 .. Len(messages)] == IF k = 0 THEN 0 ELSE sum[k - 1] + messages[k].size
  IN  sum[Len(messages)]

\* The messages at other places than these.
Without(messages, gone) ==
  LET kept[k \in 0 .. Len(messages)] ==
        IF k = 0 THEN <<>>
        ELSE IF k \in gone THEN kept[k - 1] ELSE Append(kept[k - 1], messages[k])
  IN  kept[Len(messages)]

Removable(messages, pinned) ==
  {k \in 1 .. Len(messages) : k + KeepRecent <= Len(messages) /\ k \notin pinned}

WithinBudgetOnly(tokens, target) == tokens < target
WithinBudget(tokens, target) == tokens <= target

\* summarize_and_truncate: the oldest that may go, until the rest fits.  The
\* estimate is kept up to date, not made again.
Truncated(messages, target, pinned) ==
  LET removed[k \in 0 .. Len(messages)] ==
        IF k = 0 THEN [gone |-> {}, tokens |-> Tokens(messages)]
        ELSE LET before == removed[k - 1]
             IN  IF k \in Removable(messages, pinned) /\ ~WithinBudget(before.tokens, target)
                   THEN [gone   |-> before.gone \cup {k},
                         tokens |-> before.tokens - messages[k].size]
                   ELSE before
  IN  Without(messages, removed[Len(messages)].gone)

-----------------------------------------------------------------------------
(* The coordinator.                                                        *)

\* The sessions whose turn is waiting.
Compacting == {react[i].session : i \in {j \in Instance : react[j] # Nothing}}

\* A turn appends to its session.
Say(s, size) ==
  /\ Len(transcript[s]) < MaxMessages
  /\ s \notin Compacting
  /\ transcript' = [transcript EXCEPT ![s] =
                      Append(@, [of |-> s, n |-> Len(@) + 1, size |-> size])]
  /\ UNCHANGED <<react, queue, engine, request>>

\* What publish_llm_request publishes, and how it came by it.
Publishes(i, asked, target, reply) ==
  request' = [request EXCEPT ![i] = [asked |-> asked, target |-> target, reply |-> reply]]

Unchanged(messages) == [messages |-> messages, strategy |-> "none", pinned |-> {}]

\* The limits are not known, or the engine cannot be asked.
SendUncut(i, s) ==
  /\ react[i] = Nothing
  /\ Publishes(i, transcript[s], 0, Unchanged(transcript[s]))
  /\ UNCHANGED <<transcript, react, queue, engine>>

\* compact_messages, up to its wait.
Compact(i, s, target) ==
  /\ react[i] = Nothing
  /\ s \notin Compacting
  /\ react' = [react EXCEPT ![i] = [session |-> s, asked |-> transcript[s], target |-> target,
                                    left |-> CompactTimeout, reply |-> Nothing]]
  /\ queue' = Append(queue, [messages |-> transcript[s], target |-> target])
  /\ request' = [request EXCEPT ![i] = Nothing]
  /\ UNCHANGED <<transcript, engine>>

\* A reply, any reply, ends the wait; without one the transcript goes as it is.
Send(i) ==
  /\ react[i] # Nothing
  /\ \/ /\ react[i].reply # Nothing
        /\ Publishes(i, react[i].asked, react[i].target, react[i].reply)
     \/ /\ react[i].reply = Nothing /\ react[i].left = 0
        /\ Publishes(i, react[i].asked, react[i].target, Unchanged(react[i].asked))
  /\ react' = [react EXCEPT ![i] = Nothing]
  /\ UNCHANGED <<transcript, queue, engine>>

-----------------------------------------------------------------------------
(* The engine.                                                             *)

Least(a, b) == IF a < b THEN a ELSE b

\* hook_recv_timeout and the loop around it: how long to wait for the next
\* reply of a plugin, 0 if no longer.
RecvTimeoutUncapped(count, elapsed) ==
  IF count >= MaxResponses THEN 0
  ELSE IF count > 0 THEN IdleGrace
  ELSE IF elapsed >= FirstResponse THEN 0 ELSE FirstResponse - elapsed
RecvTimeout(count, elapsed) ==
  IF elapsed >= HookTimeout \/ count >= MaxResponses THEN 0
  ELSE IF count > 0 THEN Least(IdleGrace, HookTimeout - elapsed)
  ELSE IF elapsed >= FirstResponse THEN 0
  ELSE Least(FirstResponse - elapsed, HookTimeout - elapsed)

\* fire_before_compaction, up to its wait, for the first of a batch.
FanOut(batch) ==
  IF batch = <<>> THEN Listening("estimate")
  ELSE [at |-> "hooks", left |-> RecvTimeout(0, 0), elapsed |-> 0, batch |-> batch,
        count |-> 0, skip |-> FALSE, pinned |-> {}]

\* All that is queued is taken at once and handled in turn.
TakeBatch ==
  /\ engine.at = "compact" /\ queue # <<>>
  /\ engine' = FanOut(queue) /\ queue' = <<>>
  /\ UNCHANGED <<transcript, react, request>>

\* No request came in time, and after an estimate or the time for one it is
\* the turn of the others again.
PollEnds ==
  /\ \/ /\ engine.at = "compact" /\ engine.left = 0 /\ queue = <<>>
        /\ engine' = Listening("estimate")
     \/ /\ engine.at = "estimate"
        /\ engine' = Listening("compact")
  /\ UNCHANGED <<transcript, react, queue, request>>

\* A plugin replies, perhaps more than once; a reply without any field is
\* none, and moves no window.
PluginReplies(skip, pinned) ==
  /\ engine.at = "hooks" /\ engine.left > 0
  /\ LET fields == skip \/ pinned # {}
         count  == engine.count + (IF fields THEN 1 ELSE 0)
     IN  engine' = [engine EXCEPT !.count = count, !.skip = @ \/ skip, !.pinned = @ \cup pinned,
                                  !.left = RecvTimeout(count, engine.elapsed)]
  /\ UNCHANGED <<transcript, react, queue, request>>

\* merge_before_compaction_responses and the rest of handle_compact.
Compacted ==
  LET req == Head(engine.batch)
  IN  IF engine.skip
      THEN [messages |-> req.messages, strategy |-> "skipped", pinned |-> engine.pinned]
      ELSE [messages |-> Truncated(req.messages, req.target, engine.pinned),
            strategy |-> "summarize_and_truncate", pinned |-> engine.pinned]

\* The plugins have been quiet, or it failed to ask them or to listen.  The
\* reply may be lost; it is the first that reaches an instance that counts.
Answer ==
  /\ engine.at = "hooks"
  /\ \/ UNCHANGED react
     \/ react' = [i \in Instance |-> IF react[i] # Nothing /\ react[i].reply = Nothing
                                       THEN [react[i] EXCEPT !.reply = Compacted] ELSE react[i]]
  /\ engine' = FanOut(Tail(engine.batch))
  /\ UNCHANGED <<transcript, queue, request>>

-----------------------------------------------------------------------------

\* Time passes while everybody waits.
Tick ==
  /\ engine.left > 0
  /\ engine.at = "compact" => queue = <<>>
  /\ \A i \in Instance : react[i] # Nothing => react[i].reply = Nothing /\ react[i].left > 0
  /\ engine' = IF engine.at = "hooks"
                 THEN [engine EXCEPT !.left = @ - 1, !.elapsed = @ + 1]
                 ELSE [engine EXCEPT !.left = @ - 1]
  /\ react' = [i \in Instance |-> IF react[i] = Nothing THEN Nothing
                                  ELSE [react[i] EXCEPT !.left = @ - 1]]
  /\ UNCHANGED <<transcript, queue, request>>

CompactionNext ==
  \/ \E s \in Session, size \in Size : Say(s, size)
  \/ \E i \in Instance, s \in Session :
       SendUncut(i, s) \/ \E target \in Target : Compact(i, s, target)
  \/ \E i \in Instance : Send(i)
  \/ \E skip \in BOOLEAN, pinned \in SUBSET (1 .. MaxMessages) : PluginReplies(skip, pinned)
  \/ TakeBatch \/ PollEnds \/ Answer \/ Tick

CompactionSpec == CompactionInit /\ [][CompactionNext]_compactionVars

-----------------------------------------------------------------------------

\* Messages of a transcript, the recent ones among them.
Carries(messages, asked) ==
  /\ ToSet(messages) \subseteq ToSet(asked)
  /\ \A k \in DOMAIN asked : k + KeepRecent > Len(asked) => Contains(messages, asked[k])

\* The request of a turn carries that turn's messages, the recent ones whole,
\* although replies name no request: the engine is never so late that one
\* comes after its wait (compact_messages; keep_recent).
OwnTranscript ==
  \A i \in Instance : request[i] # Nothing => Carries(request[i].reply.messages, request[i].asked)

\* What is left of a transcript is in order, what is recent or pinned is left,
\* the oldest of the others are gone, as many as it takes and none more.
LeastCut(cut, asked, pinned, target) ==
  LET gone == {m \in ToSet(asked) : ~Contains(cut, m)}
      may  == {m \in ToSet(asked) : m.n + KeepRecent <= Len(asked) /\ m.n \notin pinned}
  IN  /\ IsInjective(cut) /\ \A j, k \in DOMAIN cut : j < k => cut[j].n < cut[k].n
      /\ gone \subseteq may
      /\ \A m \in may, g \in gone : m.n < g.n => m \in gone
      /\ Tokens(cut) <= target \/ gone = may
      /\ \A g \in gone : (\A h \in gone : h.n <= g.n) => Tokens(cut) + g.size > target

\* A cut takes what the target asks for, and takes the oldest
\* (summarize_and_truncate).
CutToFit ==
  \A i \in Instance :
    LET r == request[i]
    IN  r # Nothing /\ r.reply.strategy = "summarize_and_truncate" =>
          LeastCut(r.reply.messages, r.asked, r.reply.pinned, r.target)
=============================================================================
