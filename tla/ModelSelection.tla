--------------------------- MODULE ModelSelection ---------------------------
(***************************************************************************)
(* Which model a request goes to.  The registry,                           *)
(* capsules/capsule-registry, finds out what models there are, keeps the   *)
(* one selected and announces changes; the coordinator,                    *)
(* capsules/capsule-react, routes requests by a copy of the selection that *)
(* it keeps in several keys and fills from announcements and replies.      *)
(*                                                                         *)
(* The registry is one loop and its handlers run one after another, each a *)
(* single step here.  The coordinator's interceptors run on leased         *)
(* instances (Worker), key by key.  One principal is modelled.             *)
(***************************************************************************)
EXTENDS Naturals, Sequences, FiniteSets, SequencesExt

CONSTANTS
  Capsule,   \* provider capsules
  Model,     \* canonical ids, "<capsule>:<model>"
  Offer,     \* the models each capsule reports, its default first
  Name,      \* the bare name of each model
  Limits,    \* the context window reported for each model, None if none is
  Worker,    \* coordinator instances the kernel may lease
  None,
  MaxEvents  \* bound: announcements on their way

Names == {Name[m] : m \in Model}

ASSUME ConstantsAssumption ==
  /\ IsFiniteSet(Capsule) /\ IsFiniteSet(Model)
  /\ Offer \in [Capsule -> Seq(Model)]
  /\ \A m \in Model : Cardinality({c \in Capsule : m \in Range(Offer[c])}) = 1
  /\ DOMAIN Name = Model /\ DOMAIN Limits = Model
  /\ None \notin Model \cup Capsule \cup Names
  /\ MaxEvents \in Nat

VARIABLES
  store,    \* registry_state: the models known and the one selected
  events,   \* astrid announcements, registry.v1.active_model_changed
  cache,    \* the coordinator's copy, key by key
  worker,   \* what each instance is in the middle of
  sent,     \* the last request that went to a provider
  chosen,   \* history: the model the operator selected, None if none
  missed    \* history: has a discovery since found others, but not that one?

vars == <<store, events, cache, worker, sent, chosen, missed>>

\* The capsule whose route a model has.
Topic(m) == CHOOSE c \in Capsule : m \in Range(Offer[c])

Key   == {"topic", "model", "limits"}
Idle  == [at |-> "idle"]

\* A selection stored by an older version is the bare name of a capsule.
Init ==
  /\ store \in [providers : {<<>>}, active : {None} \cup Model \cup Capsule]
  /\ events = <<>>
  /\ cache = [k \in Key |-> None]
  /\ worker = [w \in Worker |-> Idle]
  /\ sent = None
  /\ chosen = (IF store.active \in Model THEN store.active ELSE None) /\ missed = FALSE

-----------------------------------------------------------------------------
(* Selection, selection.rs.  A handler maps a state to a state and to what  *)
(* it announces on the way.                                                *)

\* Discovery hears, within its window, from any of the capsules in any order.
Found == {FlattenSeq([i \in DOMAIN answers |-> Offer[answers[i]]]) :
            answers \in UNION {SetToSeqs(who) : who \in SUBSET Capsule}}

Handling(s) == [state |-> s, out |-> <<>>]

\* A new list replaces the one kept, unless it is empty.
Refreshed(h, found) ==
  IF found = <<>> THEN h ELSE [h EXCEPT !.state.providers = found]

Chosen(h, m) == [state |-> [h.state EXCEPT !.active = m], out |-> Append(h.out, m)]

\* reconcile_active_model.
ReconciledAtOnce(h) ==
  LET known == h.state.providers
      id    == h.state.active
  IN  IF id = None \/ id \in Range(known) THEN h ELSE Chosen(h, None)

Reconciled(h) ==
  LET known  == h.state.providers
      id     == h.state.active
      routed == {i \in DOMAIN known : Topic(known[i]) = id}
  IN  IF id = None \/ known = <<>> \/ id \in Range(known) THEN h
      ELSE Chosen(h, IF routed = {} THEN None ELSE known[Min(routed)])

\* auto_select_defaults.
Defaulted(h) ==
  IF h.state.active # None \/ h.state.providers = <<>> THEN h
  ELSE Chosen(h, h.state.providers[1])

\* resolve_selection: a canonical id, or a bare name only one model has.
Resolved(input, known) ==
  IF input \in Range(known) THEN {input}
  ELSE LET named == {m \in Range(known) : Name[m] = input}
       IN  IF Cardinality(named) = 1 THEN named ELSE {}

-----------------------------------------------------------------------------
(* The registry.                                                           *)

\* What a handler leaves behind.
Done(h) ==
  /\ store' = h.state
  /\ events' = events \o h.out /\ Len(events') <= MaxEvents

\* A discovery that finds models but not the one chosen.
Seen(found, m) ==
  missed' = (missed \/ (m # None /\ found # <<>> /\ m \notin Range(found)))

\* run: as it starts, and when capsules were loaded.
Startup ==
  \E found \in Found :
    /\ Done(Defaulted(Reconciled(Refreshed(Handling(store), found))))
    /\ Seen(found, chosen)
    /\ UNCHANGED <<cache, worker, sent, chosen>>

CapsulesLoaded ==
  \E found \in Found \ {<<>>} :
    /\ Done(Defaulted(Reconciled(Refreshed(Handling(store), found))))
    /\ Seen(found, chosen)
    /\ UNCHANGED <<cache, worker, sent, chosen>>

\* handle_get_providers, emit_model_selection: the selection is not looked at.
GetProviders ==
  \E found \in Found :
    /\ Done(Refreshed(Handling(store), found))
    /\ Seen(found, chosen)
    /\ UNCHANGED <<cache, worker, sent, chosen>>

\* The list, which is discovered only if there is none.
Known(h) ==
  {Refreshed(h, found) : found \in IF h.state.providers = <<>> THEN Found ELSE {<<>>}}

\* handle_get_active_model: its answer reaches every instance that waits for
\* one, whoever asked.
GetActiveModel ==
  \E known \in Known(Handling(store)) :
    LET h     == Defaulted(Reconciled(known))
        reply == IF h.state.active \in Range(h.state.providers) THEN h.state.active ELSE None
    IN  /\ Done(h)
        /\ Seen(known.state.providers, chosen)
        /\ worker' = [w \in Worker |->
             IF worker[w].at = "fetch" /\ worker[w].reply = <<>>
               THEN [worker[w] EXCEPT !.reply = <<reply>>] ELSE worker[w]]
        /\ UNCHANGED <<cache, sent, chosen>>

\* set_active_model_by_id, with the id stored in its canonical form.
Stored(input, m) == m
SetActiveModel(input) ==
  \E known \in Known(Handling(store)), m \in Model :
    /\ m \in Resolved(input, known.state.providers)
    /\ LET h == Chosen(known, m)
       IN  Done([h EXCEPT !.state.active = Stored(input, m)])
    /\ chosen' = m /\ missed' = FALSE
    /\ UNCHANGED <<cache, worker, sent>>

\* dispatch_cli_run_messages: the stored selection is healed before the
\* command, list, current, set or unset, is run.
CliShow ==
  \E known \in Known(Handling(store)) :
    /\ Done(Reconciled(known))
    /\ Seen(known.state.providers, chosen)
    /\ UNCHANGED <<cache, worker, sent, chosen>>

CliSet(input) ==
  \E known \in Known(Handling(store)), m \in Model :
    /\ m \in Resolved(input, known.state.providers)
    /\ Done(Chosen(Reconciled(known), m))
    /\ chosen' = m /\ missed' = FALSE
    /\ UNCHANGED <<cache, worker, sent>>

ClearedSilently(h) == [h EXCEPT !.state.active = None]
Cleared(h) == IF h.state.active = None THEN h ELSE Chosen(h, None)
CliUnset ==
  /\ Done(Cleared(Reconciled(Handling(store))))
  /\ chosen' = None /\ missed' = FALSE
  /\ UNCHANGED <<cache, worker, sent>>

Registry ==
  \/ Startup \/ CapsulesLoaded \/ GetProviders \/ GetActiveModel
  \/ (\E input \in Model \cup Names : SetActiveModel(input) \/ CliSet(input))
  \/ CliShow \/ CliUnset

-----------------------------------------------------------------------------
(* The coordinator.                                                        *)

At(w, what) == worker[w].at = what
Go(w, what) == worker' = [worker EXCEPT ![w] = what]

Put(key, val) == [key |-> key, val |-> val]

\* What is written, key by key and in this order, the window and the output
\* limit as one: of an announcement ...
ForgottenButLimits == <<Put("topic", None), Put("model", None)>>
Forgotten == <<Put("topic", None), Put("model", None), Put("limits", None)>>
Announced(m) == <<Put("topic", Topic(m)), Put("model", m), Put("limits", Limits[m])>>

\* ... and of a reply, whose limits are kept only if there are any.
Fetched(m) ==
  <<Put("topic", Topic(m)), Put("model", m)>>
    \o (IF Limits[m] = None THEN <<>> ELSE <<Put("limits", Limits[m])>>)

\* handle_model_changed.
ModelChanged(w) ==
  /\ At(w, "idle") /\ events # <<>>
  /\ events' = Tail(events)
  /\ Go(w, [at |-> "write", then |-> Idle,
            todo |-> IF Head(events) = None THEN Forgotten ELSE Announced(Head(events))])
  /\ UNCHANGED <<store, cache, sent, chosen, missed>>

Write(w) ==
  /\ At(w, "write")
  /\ LET put == Head(worker[w].todo)
     IN  cache' = [cache EXCEPT ![put.key] = put.val]
  /\ Go(w, IF Len(worker[w].todo) = 1 THEN worker[w].then
           ELSE [worker[w] EXCEPT !.todo = Tail(@)])
  /\ UNCHANGED <<store, events, sent, chosen, missed>>

\* active_llm: the topic is read, and asked for if it is not there, ...
ActiveLlm(w) ==
  /\ At(w, "idle")
  /\ Go(w, IF cache.topic # None THEN [at |-> "read", topic |-> cache.topic]
           ELSE [at |-> "fetch", reply |-> <<>>])
  /\ UNCHANGED <<store, events, cache, sent, chosen, missed>>

\* ... then the model, without which the turn is refused.
ReadModel(w) ==
  /\ At(w, "read")
  /\ Go(w, IF cache.model = None THEN Idle
           ELSE [at |-> "send", topic |-> worker[w].topic, model |-> cache.model])
  /\ UNCHANGED <<store, events, cache, sent, chosen, missed>>

\* fetch_active_llm_topic_from_registry: the first answer, or none in time.
FetchEnds(w) ==
  /\ At(w, "fetch")
  /\ Go(w, IF worker[w].reply \in {<<>>, <<None>>} THEN Idle
           ELSE LET m == worker[w].reply[1]
                IN  [at |-> "write", todo |-> Fetched(m),
                     then |-> [at |-> "send", topic |-> Topic(m), model |-> m]])
  /\ UNCHANGED <<store, events, cache, sent, chosen, missed>>

\* publish_llm_request: the transcript is cut down to the limits, and sent.
PublishLlmRequest(w) ==
  /\ At(w, "send")
  /\ sent' = [topic |-> worker[w].topic, model |-> worker[w].model, limits |-> cache.limits]
  /\ Go(w, Idle)
  /\ UNCHANGED <<store, events, cache, chosen, missed>>

Step(w) == Write(w) \/ ReadModel(w) \/ FetchEnds(w) \/ PublishLlmRequest(w)

Next ==
  \/ Registry
  \/ \E w \in Worker : ModelChanged(w) \/ ActiveLlm(w) \/ Step(w)

Spec == Init /\ [][Next]_vars

\* Interceptors run to their end and announcements are delivered; no one need
\* use a model or select one.
FairSpec == Spec /\ \A w \in Worker : WF_vars(Step(w)) /\ SF_vars(ModelChanged(w))

-----------------------------------------------------------------------------

\* A request names a model of the provider it goes to, and was cut down to that
\* model's context window or to none (cached_model_action, cleared_cache_keys).
RequestsFit ==
  sent # None => /\ Topic(sent.model) = sent.topic
                 /\ sent.limits \in {None, Limits[sent.model]}

\* What the operator selected stays selected until a discovery finds other
\* models and not that one (reconcile_active_model_in_place).
ChoiceKept == chosen # None /\ ~missed => store.active = chosen

\* The coordinator's copy, if there is one, becomes the registry's selection
\* (publish_model_changed, publish_model_cleared).
Follows ==
  cache.topic # None => /\ cache.model = store.active
                        /\ cache.model # None => cache.topic = Topic(cache.model)
CacheFollows == <>[][FALSE]_store => <>[]Follows
=============================================================================
