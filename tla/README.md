# A TLA+ development for AOS CE

The repository is a distribution of WASM *capsules* that run on the Astrid
kernel (an external program: it hosts the capsules, carries their events, gives
every principal a key-value store and ticks their timers), together with the
host program that installs and migrates the kernel (`unicity-aos-bootstrap`),
the MCP broker between an agent host and the capsules (`aos-mcp-broker`), two
front ends and the release tooling.

This directory holds the specifications of its core logic, the TLC
configurations that check them on small instances, and the proofs TLAPS checks
for every value of the constants.

    cd tla
    tlc -workers 2 -config ReactSerial.cfg MCReactLoop     # one run
    tlapm ReactLoopProofs.tla                              # the proofs

Contents: 1 Inventory, 2 Plan, 3 ReAct coordinator, 4 Runtime migration,
5 Native consent, 6 MCP broker, 7 Session store, 8 Model registry, 9 Workspace
recipes, 10 Users and context compaction, 11 Where the code and its documents
disagree, 12 What is proved, what is only model-checked, what is not modelled.

## 1. Inventory

Paths are below `src/`, the repository. The status is that of this development.

| part | source | state it keeps | what is hard | status |
|---|---|---|---|---|
| ReAct coordinator | `capsules/capsule-react` | KV: a `TurnState` per session, the list of sessions in a turn, request-to-session and call-to-session mappings | handlers that wait in the middle, pooled instances, replies that are late, repeated, lost or of a superseded turn, a publish or write that fails half way, timeouts, restart | modelled, section 3 |
| Runtime migration | `crates/unicity-aos-bootstrap/src/migration.rs` | directories and a receipt on disk | a crash between any two renames, or inside a copy or removal | modelled, section 4 |
| Native consent | `crates/unicity-aos-bootstrap/src/mcp` | the table of pending approvals | a worker thread, the host, the human, the runtime and the clock race for one entry; the table at its limit | partly, section 5 |
| MCP broker | `crates/aos-mcp-broker` | KV: ingress trust, grant decisions and markers, routes of pending results; a descriptor cache | a signal that belongs to another call, expiry racing an answer, eviction at the bound | partly, section 6 |
| Session store | `capsules/capsule-session` | KV: one transcript per session, with a parent link | compare-and-swap retry, append racing delete, a schema newer than the code, bounded listing and search | modelled, section 7 |
| Model registry | `capsules/capsule-registry`, and the copy in `capsule-react` | KV: providers and the selected model; the coordinator's copy, key by key | reconcile racing selection, a copy in three keys filled from announcements and replies | modelled, section 8 |
| Workspace recipes | `capsules/capsule-workspace-recipes` | objects, revisions, a current pointer and a journal of patches | failure or death between the writes of a commit, recovery on open | partly, section 9 |
| Surface model | `capsules/capsule-surface-model` | in memory, a chain of revisions and the patches that made it | optimistic concurrency, repeated patches, narrow merge, rollback, replay | partly, section 9 |
| Users | `capsules/capsule-users` | KV: user records, name index, links, context overlays | several keys written one after the other without a transaction | modelled, section 10 |
| Identity | `capsules/capsule-identity` | KV: the identity text | one record, written after an approval | not planned |
| Prompt builder | `capsules/capsule-prompt-builder` | KV: tool schema cache; the hook replies of one call | fan-out to hooks under three deadlines, last writer of the system prompt wins | plan 4 |
| Context engine | `capsules/capsule-context-engine`, and its caller in `capsule-react` | requests and plugin replies of one loop | replies of unknown number before three deadlines, a reply that names no request | modelled, section 10 |
| Hook bridge | `capsules/capsule-hook-bridge` | none between calls | collecting replies of unknown number before a deadline, fail-closed merge | plan 4 |
| Console lease, health, status, updates, init | `crates/unicity-aos-bootstrap/src` | a socket lease, resume state, update oracle | stale lock files, interrupted initialisation | plan 4 |
| Providers, router, CLI, HTTP, fs, shell, system, memory, agents, skills, forge, rhai, mcp, meta-harness, surface catalog, hook adapter | `capsules/*` | none, or a cache | mostly translation between formats | not planned |
| Adaptive shell, tray | `apps/*` | UI state | clients of the above | not planned |
| Release tooling | `scripts/*`, `install.sh` | files and published channels | a channel transaction interrupted half way | candidate |

### Operations and interactions

*ReAct coordinator.* Interceptors for the front end's prompt, cancel and
session-clear events; for the replies of the identity and the prompt-builder
capsules; for the provider's stream (text, tool-call start, arguments, usage,
done, error); for tool results; for the kernel's watchdog tick, bus-lag notice
and restart event. It asks the session capsule (append, load) and the registry
(active model) in the middle of an interceptor, asks identity, then the prompt
builder, then the provider by publishing, dispatches tools by publishing, and
publishes the response the front end waits for. Correct when a session's turn
always ends and is answered at most once, when a turn uses only what was
assembled for it, when the transcript keeps its order, and when nothing a turn
left behind is taken for a part of another.

*Runtime migration.* One command: recover what an earlier import left, validate
source and target, copy into a staging home, write a staged receipt, rename the
target to a backup and the staging home to the target, rename the receipt into
place, remove the backup. It meets the source's own runtime through a lock it
holds, and the product's runtime through nothing but the check that the target
is empty. Correct when a receipt tells the truth, when there is a way back
until there is a receipt, and when a retry converges.

*Native consent.* For a host that has no means of its own to ask a human, the
bridge accepts the tool call at once, keeps a table of calls, presents every
`input_required` round to the human through a socket and a worker thread,
resumes the call with the decision, and lets the host read the status with a
tool of its own. It talks to the host (stdin and stdout), to the runtime (a child
process), to the console or tray (a socket per presentation) and to the clock
(a tick every 50 ms). Correct when every host request gets one answer and it is
its own, when a decision resumes what it was given for once and never after the
host was told otherwise, when outcomes survive until they are read, and when
the threads stay bounded.

*MCP broker.* Lists and calls capsule tools for an agent host: publishes the
call, drains the result topic and the approval topic, returns an
`input_required` result when an approval signal comes first, keeps a route for
the pending result (128 at most, 120 s) and a marker for a pending grant.
Correct when a signal, an answer and a result go to the call they belong to.

*Session store.* Load, append, replace, list, search, clear (which chains a
successor to the old session), delete. Updates retry on a failed
compare-and-swap. Correct when no append is lost or repeated, when a deleted
transcript stays deleted, and when a search page neither skips nor repeats.

*Model registry.* Providers register and vanish, the user selects a model, a
reconcile step repairs a selection whose provider is gone, changes are
announced to the coordinator's cache. Correct when what is announced is what is
stored.

*Users, identity.* Create, rename, link, unlink, delete over a record, a name
index, platform links and context overlays. Correct when these agree whatever
was interrupted.

*Surface model, workspace recipes.* Commit a patch on a base revision, merge it
narrowly when the base is behind, roll back, replay, hand a recipe to another
owner. Correct when the pointer, the revisions and the journal agree after any
interruption, and when a repeated patch is applied once.

*Prompt builder, hook bridge, context engine.* Publish to hooks whose number is
not known, collect until quiet or a deadline, merge. Correct when a veto or an
incomplete batch is never read as consent.

## 2. Plan

Done, in this order:

1. `ReactLoop`, the coordinator, detailed; `AgentTurn`, the abstract turn
   lifecycle it implements; `ReactLoopProofs`.
2. `RuntimeMigration` and `RuntimeMigrationProofs`; `PendingApprovals` and
   `PendingApprovalsProofs`.
3. `BrokerConsent`; `SessionStore` and the abstract `ThreadStore` it implements;
   `ModelSelection`; `RecipeLedger` and the abstract `RecipeHistory` it implements;
   `UserDirectory`; `ContextCompaction`.

Left:

4. The prompt builder with its tool schema cache, and the hook bridge. The console's socket lease, the resumption
   of an interrupted first start, and the channel transaction of the release
   scripts.
5. `BrokerConsent` composed with `PendingApprovals`, whose runtime sends anything
   at present; failing key-value calls in `BrokerConsent` and `ModelSelection`;
   activities and retained conflicts in `RecipeLedger`.

Every safety invariant and action property the runs check is proved as well, and
so is the safety of the refinements; section 12 says from what. What is only
model-checked is liveness.

## 3. ReAct coordinator

Modules: `ReactLoop` (the capsule, `capsules/capsule-react/src/lib.rs`),
`AgentTurn` (what it promises), `MCReactLoop` (symmetry for TLC),
`ReactLoopProofs`.

### State and actions

| model | code |
|---|---|
| `turn` | `react.turn.<session>`, the saved `TurnState`; a missing key reads as `FreshTurn` |
| `late` | sessions whose `phase_started_at` is past the timeout of its phase |
| `active`, `req2sess`, `call2sess` | `react.active_sessions`, `react.req2sess.*`, `react.call2sess.*` |
| `invocation` | what an interceptor holds in memory while it waits, per leased instance |
| `replies`, `jobs` | identity and prompt-builder replies in flight; tool executions still to answer |
| `history` | the transcript in the session capsule |
| `owner`, `finals` | history variables: who opened a turn, how many terminal responses it got |

An interceptor of the code is one action up to its first wait (`UserPrompt`,
`IdentityResponse`, `StreamDone`, `ToolResult`, ...) and one after it
(`Finish...`). `SessionReply` and `SessionFailed` are the session capsule's
answer, or its failure or the deadline, in which case the append may or may not
have taken effect. With one `Worker` the interceptors run one after another,
with two they interleave at the waits; the code's comments describe both.

Abstractions. A uuid is a number, 0 for the nil uuid and for uuids no message
carries; a new turn's request id and completion id are one number. Texts are
the turn they belong to. Stream events may come for any mapped request, in any
order; argument and usage events only refresh the timer, as text does.
A provider names any call id it has not used, or any at all
(`ReuseCalls`, in two of the runs).
Watchdog and lag handlers, which loop over the list, are one action per
session. A KV read sees the last write. The model's name, which the registry
gives or does not, is a free choice. The clock is available. A reload falls
between the parts of an interceptor, not inside one part; a write or publish
inside a part fails by itself (`Faults`). `handle_session_clear` writes the
successor's key with the value a missing key reads as, so nothing is written.

### Runs

| run | asks | bounds | result |
|---|---|---|---|
| `react_serial` | `TypeOK`, `WatchdogCoversTurns`, `AtMostOneFinal`, `OwnPrompt`, `MappingsOwned`, with failing publishes and session requests, lost messages, and replies and results delivered repeatedly | 1 session, 3 ids, 1 tool per round | holds, 2.1 million states |
| `react_faults` | `TranscriptWellFormed`, with failing KV writes, publishes and session requests, results delivered again, clears, reloads, and a provider that uses call ids again | 1 session, 3 ids | holds, 3.9 million states |
| `react_live` | `EveryTurnEnds`, `ImplementsLifecycle`, `RepliesSettle`, with failing publishes and session requests, clears, reloads, and call ids used again | 1 session, 2 ids, 2 tools per round | holds, 79 thousand states |

Three ids are enough for what the properties need most: a turn that is
superseded, the turn that supersedes it, and one more round or turn in either.
`MaxIterations` 2 lets the cap be met by the second round. `MaxRetry` 1
(20 in the code) lets a reply be bounced, and given up. One
session is enough where sessions share nothing; the list they share is covered,
for any number of sessions, by the theorem `WatchdogMissesNoTurn`. Deadlock is
not checked: a system with no turn in progress and all ids spent may stop.

What the properties add to reading the code: `WatchdogCoversTurns` relates two
keys written apart; `AtMostOneFinal` spans five handlers that may end a turn;
`MappingsOwned` says that no correlation key survives what it stands for;
`TranscriptWellFormed` relates the transcript of another capsule to the turns
of this one: no message after one of a later turn, an answer ends a turn, fewer
than `MaxIterations` rounds precede it, in order and none missing. It speaks of
admitted turns only: a prompt whose append took effect although its reply was
lost leaves a user message without a turn. A round may be there twice, as the
comment at `lib.rs:1215` expects: if the reply of its append is lost, the turn
waits for its results as before, and the next result appends the round again.
A turn, two rounds and the repetition need four ids; three show only that
nothing else goes wrong, and the theorem `TranscriptsAreWellFormed` covers any
number.

`ImplementsLifecycle` is a refinement: the states of `ReactLoop` map to those of
`AgentTurn`, where a session is in one turn at most, a closed turn stays closed,
and a terminal response is published as a turn closes. It is checked in a run
whose publishes and session requests fail, with clears and reloads; it does not
hold when KV writes fail, because a turn answered and not saved may be answered
again. The theorem `Refinement` says the same of any number of sessions.

Fairness. An interceptor that was started goes on to its end (its waits have
deadlines); the kernel ticks the watchdog again and again, delivers the replies
it queued and, after a reload, the restart event; time passes. Users, providers,
tools and the other capsules need never act: their messages may all be lost.
The watchdog, the queued replies and the restart event get strong fairness,
because other interceptors may take the worker in between. `EveryTurnEnds` also
assumes `FiniteStreams`: every text delta restarts the timer, so a provider that
streams for ever keeps its turn for ever.

## 4. Runtime migration

Modules: `RuntimeMigration` (`crates/unicity-aos-bootstrap/src/migration.rs`),
`MCRuntimeMigration`, `RuntimeMigrationProofs`.

A home is the set of files it holds, each an imported piece (source, version,
file) or `Local`, written by the product's runtime. `target`, `backup`,
`failed`, `staging`, `staged` and `receipt` are the paths of the transaction,
`pc` is the step the running import is at, so that a crash falls between two
steps; copies and recursive removals take several. `outcome` is what the command
returned. The steps follow `migrate_runtime`, `recover_interrupted_transaction`,
`rollback_target`, `replace_target` and `finalize_receipt`; with `IoErrors` each
file operation may fail and take its error path.

One import runs at a time (the importer's lock; a second one changes nothing),
and its source does not change while it runs (the source's lock). Each rename
and removal is flushed before the next. A rename onto an existing directory
works only if that is empty. The target is there and empty before the first
import, as the installer leaves it. Which files are copied, hashes, and path
checks are abstracted to the set `File`; the copy of activation state is part of
the staging.

| run | asks | bounds | result |
|---|---|---|---|
| `migration_safe` | `TransactionInv`, `ReceiptTruthful`, `PreImportKept`, `NoResidue`, `ImportIsCurrent`, `CompletedHomeStays` | 2 sources, 2 files, 2 versions, 2 crashes, failing file operations, the product's runtime at any time | holds, 141 thousand states |
| `migration_retry` | `RetrySucceeds` | 1 source, 2 versions, 3 crashes | holds, 1.4 thousand states |

Two files make a copy or removal cut in the middle different from a finished
one; two sources and two versions make an outdated or foreign staging home
possible; two crashes kill an import and its recovery.

Fairness of `migration_retry`: a process that is not killed goes on. That the
user retries, that one import at most is killed and that files can be written
are premises of `RetrySucceeds`, not fairness.

## 5. Native consent

Modules: `PendingApprovals` (`crates/unicity-aos-bootstrap/src/mcp/pending.rs`,
the rounds of `mrtr.rs`, the tick of `mod.rs`), `MCPendingApprovals`,
`PendingApprovalsProofs`.

| model | code |
|---|---|
| `entries` | the table of `Pending` by private id: host id, whether the host was told to wait (`deferred`), state, the rounds settled (`context`), `waiting`, `observed`, `worker`; `late` stands for a deadline that has passed |
| `workers`, `decided` | presenter threads, and the decisions in the channel |
| `open` | the host's input is open |
| `answers`, `cancelled`, `told`, `resumes` | history variables |

Actions: `Call`, `CallRefused`, `Cancel`, `AskStatus`, `CloseUpstream` are the
host's messages; `Present`, `PresentFails`, `RejectRound`, `Complete` the
runtime's; `Decide` a presenter that returns; `Elapse` the clock; `Tick` the
event loop taking decisions and expiring entries, in the code's order.

The runtime is not trusted: it sends any message for any private id at any
time, again and again. A round may be rejected for any reason the code has (no
form, settled before, too many), so `RejectRound` is always possible for a call
that runs. The code evicts the retirable entry with the earliest deadline; the
model, which has no order of deadlines, any retirable one. A malformed
call refused before eviction changes nothing. Cancelling an answered request is
passed on and changes nothing here. `Decide` always ends in a resume, because
the error arm needs a context the thread itself holds. A presenter that panics
behaves as one that never returns. Not modelled: `tools/list` and the reserved
ids, framing, the child process, the blocking mode of `mrtr.rs`, and a tick held
up by a full pipe.

| run | asks | bounds | result |
|---|---|---|---|
| `pending` | `ApprovalInv`, `OneAnswer`, `RequestsServed`, `PresentersBounded`, `ResumedOnce`, `FinalStays`, `ResultsAreRead`, `AwaitingEnds` | a table of one place, 3 calls, 2 host ids, 3 rounds, 2 resumes | holds, 975 thousand states |

Three calls exceed the table, so entries are evicted; three rounds exceed
two resumes, so the limit on rounds is met; two host ids over three calls are
used again. A table of two places with three calls and two rounds (3.9 million
states) was checked beside it, with the same result. Fairness: the event loop, a `select` with a 50 ms tick, gets to its
tick, and time passes. Humans, presenters, the host and the runtime need never
act. `AwaitingEnds` holds while the host's input is open; the tick stops with it
(`mod.rs:604`). Deadlock is not checked: with the host gone, or its calls spent,
the bridge may stop.

## 6. MCP broker

Modules: `BrokerConsent` (`crates/aos-mcp-broker`: `execute.rs`, `approval.rs`,
`approval/result.rs`, `broker.rs`, `grant_decision.rs`), `MCBrokerConsent`,
`BrokerConsentProofs`.

| model | code |
|---|---|
| `trusted`, `ingress` | `mcp.ingress.trust.<source>`, `mcp.ingress.pending.<source>` |
| `decision`, `marker` | `mcp.grant.decision.<capsule>`, `mcp.grant.pending.<capsule>`, with whether it is younger than its lifetime |
| `routes` | the stored map of pending result routes, oldest first, without those that are too old: no reader takes one of those for a route, and every writer drops them |
| `broker` | the dispatch or the resumed drain the broker is in, with the signals and the result on its topics |
| `tool`, `waiter`, `granted` | external: calls that were sent, who waits for an answer, what the kernel lets through |
| `prompts`, `mail` | external: prompts before the human, answers on their way |

`ToolCall` is a host's call up to its dispatch, `ApprovalRequired`,
`GrantRequired` and `DispatchEnds` the three ways a drain ends,
`IngressRespond`, `GrantRespond` and `ApprovalRespond` the answers. The broker
handles one request at a time, as its instance's lock has it; tools, the kernel,
the host and the human move at any moment. Identifiers are used again when
nothing refers to them, which keeps the behaviours infinite and the states
finite, so that `NeverWedged` can be about agents that call for ever.

| run | asks | bounds | result |
|---|---|---|---|
| `broker_consent` | `Consent`, `OnePrompt`, `AnswersKept`, `NeverWedged` | 2 calls and 2 requests at a time, 1 capsule, a table of 1 route | holds, 61 thousand states |

A table of one route (128 in the code) is full with the first pending
approval, so every second one evicts; two requests let a marker or route of one
meet the answer of another. One answer at a time is in the mail.

`Consent`: nothing is granted or recorded that the human did not allow while the
prompt still counted. `AnswersKept`: a parked tool hears what the human said to
its own request, or the denial of an eviction. `OnePrompt`: one live prompt per
capsule however often the call is refused. `NeverWedged`: expiry of markers,
routes and waiters brings the prompt back. Fairness: the kernel delivers, within
the drain, infinitely many of the calls it is sent; what has a lifetime expires;
tools end; the shim answers a prompt nobody looks at; the agent keeps calling.

Not modelled: the descriptor cache, discovery, the policy, the hook gate, and
failing key-value calls.

## 7. Session store

Modules: `SessionStore` (`capsules/capsule-session/src/lib.rs`), `ThreadStore`
(what it promises), `MCSessionStore`, `SessionStoreProofs`.

`store` is the KV key of each thread, a blob with its schema version; `client`
is what each invocation is in the middle of: its operation, the bytes it loaded
and the swaps it may still try. Each call of the store is a step of its own:
`Load`, `Heal` (the write-back of a migrated blob), `Write` (the
compare-and-swap, retried), `Check` and `Erase` of a delete, `Create` of the
successor of a clear. `walk` is a device that pages through a search or a
listing while all this goes on: `FetchPage` gets keys after a cursor,
`ScanThread` loads one of them.

| run | asks | bounds | result |
|---|---|---|---|
| `session_safe` | `TypeOK`, `WalkIsComplete`, `ImplementsThreadStore` | 2 clients and 2 calls on 2 threads, a third thread beside them, 2 tries of a swap, pages of 2 keys, 1 result per call, a budget of 2 keys, failing reads and writes, old and current schemas | holds, 727 thousand states |

`ImplementsThreadStore` is the refinement: every call takes effect at one
instant between its request and its reply. It carries what a list of smaller
properties would say: no append is lost to another writer or made twice, an
update never creates a thread, a deleted thread is gone as a whole, a healed
blob changes nothing. Two clients and two tries make a swap lose and give up.
`WalkIsComplete`: threads that matched all the way through a walk are shown,
once each, although pages are cut by result limit, key page and scan budget.
Fairness is not needed; a client may stop.

The refinement maps a blob of an unknown schema to the fresh thread that `load`
makes of it; section 11 says what becomes of it. Not modelled: titles, meta
documents, timestamps, previews, lifecycle events, and a read that fails in the
middle of a walk.

## 8. Model registry

Modules: `ModelSelection` (`capsules/capsule-registry/src/lib.rs` and
`selection.rs`; `active_llm`, `handle_active_model_changed` and the cache in
`capsules/capsule-react/src/lib.rs`), `MCModelSelection`, `ProviderRequestProofs`.

`store` is the registry's state, `events` its announcements on their way,
`cache` the coordinator's copy of the provider topic, the model and its limits,
each key changed by a step of its own, `worker` what an interceptor of the
coordinator is in the middle of, `sent` the last request to a provider. The
registry's handlers (discovery, reload, selection, the CLI's commands) run to
their end one after another; a discovery hears from any subset of the
providers.

| run | asks | bounds | result |
|---|---|---|---|
| `model_selection` | `RequestsFit`, `ChoiceKept`, `CacheFollows` | 2 providers, 3 models, two of which share a bare name, 2 announcements on their way, 1 coordinator instance | holds, 40 thousand states |

`RequestsFit`: a request's topic, model and limits are those of one model,
although they are kept apart. `ChoiceKept`: an operator's choice is not lost to
an empty or partial discovery. `CacheFollows`: when selections stop, the copy
becomes the selection. Fairness: interceptors run to their end and announcements
are delivered. With two coordinator instances `RequestsFit` fails: one reads the
topic while the other is between two of its writes, which the comment at
`capsule-react/src/lib.rs:1437` ("they must therefore move as a unit") asks not
to happen. Not modelled: more than one principal, the override by environment
or by request, failing key-value calls, lost announcements.

## 9. Workspace recipes

Modules: `RecipeLedger` (`capsules/capsule-workspace-recipes/src/service.rs`,
`backend.rs`, and the store it keeps in memory,
`capsules/capsule-surface-model/src/store.rs`), `RecipeHistory` (what it promises),
`MCRecipeLedger`, `RecipeLedgerProofs`.

`disk` is the backend: objects, revisions, current pointers and the journal of
patches. `store` is what the service holds in memory, each recipe as the chain
of its contents and the patches that made it; a digest covers content, number
and parent digest, so the chain stands for it. `CreateRecipe`, `ApplyPatch`,
`ApplyMerged` and `Rollback` decide what to commit; `PutObject`, `PutRevision`,
`CasCurrent`, `PutJournal` and `Finish` are the commit, write by write. `Kill`
ends the process anywhere; `Fail` reports an error after any write and leaves
the process running; `Collides` is the refusal of a key that holds something
else; `Open` validates, replays, completes the journal and quarantines orphans.

| run | asks | bounds | result |
|---|---|---|---|
| `recipes_safe` | `Recoverable`, `VisibleIsCommitted`, `KeepsHistory` | 2 recipes, 3 patch ids for one and 1 for the other, 2 fields, 3 revisions, 2 deaths or failures, 6 objects | holds, 657 thousand states |

Two failures cut off a commit and its repetition, or a commit and the recovery's
successor; three patch ids are a patch, one that conflicts with it and their
merge. `Recoverable`: whatever was cut off, `open` accepts what is left.
`VisibleIsCommitted`: what the service shows is a committed prefix, and each of
its patches is in the journal that recognises repetitions. `KeepsHistory` is the
refinement of `RecipeHistory`: a recipe is a history of revisions that only grows,
each made at one instant by a patch of the revision before it whose id no other
revision has, and clients are told of nothing else; so a patch a client was told
of is never quarantined, which `AckedStays` states by itself (section 12). The
mapping takes the revisions up to the pointer, and so the instant of a commit is
`CasCurrent`; the three other writes, deaths, errors and recoveries are
stutters, and a commit that is repeated after an error behind the pointer is one
too.

The service is, in its own words, a fixture and not yet a runtime entry point;
the backend stands for a KV. It alone writes, so its compare-and-swap cannot
fail. Ids are distinct between recipes; with shared ids see section 11. Left
out: operations other than field sets and restores (they merge no more than a
restore does), activities, retained conflicts, owners and grants.

## 10. Users and context compaction

Modules: `UserDirectory` (`capsules/capsule-users/src/store.rs`),
`MCUserDirectory`, `UserDirectoryProofs`.

`kv` is the capsule's keys: user records, the name index, links and context
overlays. An operation reads and then has a `job`, the list of its writes in the
order of the code; `Write` makes the next one, `CutOff` ends the operation with
the rest unmade, as a failing KV call or the end of the capsule does.

| run | asks | bounds | result |
|---|---|---|---|
| `users` | `ReferencesHold` | 2 users, 2 accounts, 2 contexts, 2 names, 2 operations cut off | holds, 1.5 million states |

`ReferencesHold` relates all four kinds of keys at every point where an
operation may end: a linked account resolves to a user, the index leads to a
user of that name, and only the deletion of a user leaves overlays of accounts
that are no longer linked. Two users contend for a name and an account; two
cuts interrupt a deletion and its repetition. Requests are handled one after
the other: with two instances at once, a link racing a deletion would be left
dangling, and `set_public_key` racing one would bring the user back. Lists and
pages only read and are left out, as are blank names, which are not indexed.

### Context compaction

Modules: `ContextCompaction` (`compact_messages` and `publish_llm_request` in
`capsules/capsule-react/src/lib.rs`; `src/lib.rs` and `src/strategy.rs` of
`capsules/capsule-context-engine`), `MCContextCompaction`,
`ProviderRequestProofs`.

`react` is what the coordinator waits for, `queue` the requests the engine has
not taken, `engine` where its loop is: waiting for a request, handling a batch
(the plugins' replies so far, the time since they were asked, the time left to
listen), or waiting for an estimate. `request` is the last one of each instance to
the provider.
Time is counted in ticks, `Tick` passes one while everybody waits; computing and
delivery take none, so that what is shown holds up to the slack the deadlines
leave, two seconds with the code's values. Plugins reply at any time, repeatedly,
with or without fields; a reply of the engine may be lost.

| run | asks | bounds | result |
|---|---|---|---|
| `compaction` | `OwnTranscript`, `CutToFit` | 2 sessions, 1 coordinator instance, transcripts of 3 messages of 1 or 2 tokens, targets of 2 and 3, windows of 2, 2, 4, 2 and 7 ticks, 5 replies | holds, 1.1 million states |

`OwnTranscript`: the request of a turn is made of that turn's messages, the
recent ones among them, although no reply says what it is a reply to. This rests
on arithmetic that no line of the code states: the poll for estimates (1 s) and
the plugins' outer deadline (2 s) end before the coordinator's wait (5 s); the
bounds keep that order, and let five replies, each within the grace of the one
before, outlast the wait if the outer deadline did not end them. `CutToFit`
compares the loop of `summarize_and_truncate` with what it is for: the oldest
that may go, no more than needed, and all of them if that is not enough; the rest
stays in order. The loop is written as a recursive function that keeps the
running estimate, as the code does, so that it can be proved about. No
fairness is assumed. Not modelled: the token heuristic, and estimate requests,
which only end a wait early.

## 11. Where the code and its documents disagree

Noted while modelling; no run depends on them. Where a change of a constant shows
the matter, it is named.

In the coordinator:

* `handle_bus_lag` takes the session off the watchdog's list before it saves the
  Idle state; if that save fails, nothing looks at the session any more. The
  comment at `capsule-react/src/lib.rs:675` says the watchdog is the backstop for
  just this case. (`ReactLoop` with `Faults = {"kv"}`.)
* A late result of an earlier turn is recorded for a call of the present turn
  that has the same id. The comment at `lib.rs:1134` says the comparison of
  request ids rejects it, but it compares two ids of the present turn.
  (`ReuseCalls = TRUE`; the runs with it show that turns end and transcripts
  stay in order all the same.)
* Two instances that open turns of two sessions at once overwrite each other's
  addition to the list of active sessions. The comment at `lib.rs:53` says that
  interceptors are serialized; those at 65 and 785 say that they run on
  concurrent stores. (Two `Worker`s violate `WatchdogCoversTurns`.)
* `handle_session_clear` (`lib.rs:553`) does not forget the mappings of the turn
  it interrupts, contrary to `lib.rs:1644`; `MappingsOwned` fails as soon as
  `Interrupts` of `ReactSerial.cfg` holds `"clear"`.
* A round is appended twice when a result is delivered again after its save
  failed, or after the append's reply was lost (`lib.rs:1217`); the code knows.

In compaction and prompts:

* Two coordinator instances that wait for the context engine at once both take
  its first reply: the request of one session then carries the transcript of the
  other. The reply topic is static (`capsule-react/src/lib.rs:2030`) and nothing
  in a reply is compared with the request. (Two `Instance`s violate
  `OwnTranscript`; so does a `hook_timeout_ms` near the coordinator's five
  seconds, with one instance.)
* `keep_recent` counts messages, while `capsule-context-engine/README.md` and
  `src/lib.rs:154` speak of turns; a cut may separate a tool's result from the
  call it answers.
* An assembly that collects tool schemas while a capsule is loaded writes the
  list of before over the invalidation, and a capsule that answers after the two
  seconds is left out of the cached list; `capsule-prompt-builder/src/lib.rs:821`
  says
  that new tools reach the next prompt.

In the host program:

* An import killed after its swap leaves the swapped home in place; if the
  product's runtime runs there before the retry, the retry deletes what it wrote.
  `docs/runtime-migration.md:80` says the importer refuses when the target holds
  user state. (`ProductRuns = "between imports"`.)
* Three killed imports, after the swap, within the rollback and after the next
  swap, leave a `runtime.failed-migration` that makes every further import
  refuse (outcome `"manual"` of the model), while
  `docs/runtime-migration.md:69` promises recovery by the next import.
* `docs/runtime-migration.md:71` says a receipt whose files no longer match is
  rejected; `validate_completed_target` (`migration.rs:651`) does not look at
  the files.
* An approval read while awaited counts as observed (`mcp/pending.rs:325`); if a
  later round cannot be presented, the "unavailable" nobody has read may be
  evicted. `docs/native-consent.md:32` says unread outcomes are not evicted.

In the broker:

* The approval topic carries no call id, so a signal raised by an older tool
  while a dispatch drains it is shown as this call's. The comment at
  `execute.rs:314` rules it out. The answer goes to the right request.
* A second approval asked by a resumed tool is not surfaced: the resumed drain
  looks at the result only. An answer that comes twice, or late, publishes a
  denial.

In the session store:

* A thread of an unknown schema loads as a fresh one and the next append writes
  it over (`lib.rs:518`); the capsule's `README.md:16` says that history is never
  silently truncated. (`Schemas = {"unknown"}`.)
* `get_messages` answers with an empty history after a failed read; `get_meta`
  racing a delete reports an empty thread; a listing may show a deleted thread
  as an empty one; two deletes at once both report success; an append after a
  delete makes the thread anew, without its parent. Lifecycle events may be
  published in another order than their effects.
* `do_search` may return a cursor with the very last key; its doc (`lib.rs:744`)
  promises one only if keys remain.

In model selection:

* The comment at `capsule-react/src/lib.rs:1890` says that the registry announces
  its selection once at startup; `run` does so only if something changed.
* A provider that is slow at a reload costs the operator's choice, and an unset
  is undone by the next `get_active_model`, which selects by itself.
* A lost announcement does not "just leave the cache cold": a warm copy stays on
  the old model. A copy with a topic and no model, as older versions left it,
  refuses turns until the next announcement.

In recipes:

* A patch of an old revision is merged if it is disjoint from the patch that
  made the current one (`store.rs:411`); a field that a revision in between set
  is overwritten. The test `conflict_merges_only_disjoint_fields`
  (`capsule-surface-model/tests/model.rs:176`) has one revision in between only.
* After a commit that failed within the running process, only the same patch
  can be committed next; any other collides with the revision left behind,
  until the service is opened again. If the failure came after the pointer was
  written and the id of that patch is then used for another recipe, `open`
  refuses for ever with a conflict of patch ids.

In users:

* A deletion cut off after its links leaves overlays that its repetition no
  longer finds; an account linked again later has its old nicknames back.
* When two users bear one name, the index leads to the later; once that one is
  renamed the earlier is not found by it. The index is written only.
* A page of zero entries is not handled: `list_users_paginated` takes the key
  before the first one.

## 12. What is proved, what is only checked, what is left out

Proved by TLAPS, for all values of the constants under each module's
`ConstantsAssumption` (`CompactionAssumption`): any number of sessions, instances, calls, sources, files
and crashes; the bounds only have to be finite numbers. Five modules also have
`NoneIsApart` (`NothingIsApart`): `None`, the model's word for what the code has as `Option::None`
or a missing key, is none of the values that may stand in its place.

Each proof is in three parts, initial states, steps (one lemma per action or
group of actions), and the temporal conclusion.

*`ReactLoopProofs`.* `TypeCorrect` (`TypeOK`) and `PromptIsOwn` (`OwnPrompt`)
follow from `IInv`. `OwnPrompt` is not inductive: it speaks of saved turns, and a
worker holds a copy that it saves later. `IInv` therefore demands of every saved
turn and of every copy that its prompt is the one made for the turn it names,
that an open turn has a request, and that a handler is in the phase that started
it. It holds with pooled instances, faults, duplicates and reloads. The other
theorems add to it and take premises, as narrow as the runs and section 11 show
them to be needed:

| theorem | premises | added to `IInv` |
|---|---|---|
| `WatchdogMissesNoTurn` | `Serialized` (no two workers), KV writes do not fail | `ListCurrent`: the copy of the list a busy interceptor holds is the list |
| `Refinement` (`ImplementsLifecycle`), `OneFinalAtMost` | the same | `LInv`: the copy a busy interceptor holds is the turn that is saved, and owners and responses counted agree with it |
| `MappingsAreOwned` | the same, and no session is cleared under a turn | `MInv`: a generation that is done has given up its request's key before the turn is saved |
| `TranscriptsAreWellFormed` | `Serialized` only | `HInv`: what the transcript holds of the present turn, as a function of its phase and iteration, and what a handler in the middle of an append may still add |

*`RuntimeMigrationProofs`.* `TransactionInv` is itself inductive: `HomesGood`
says what homes may hold when no import runs, `StepGood` what the import has
established at its next step. `ReceiptVouches`, `WayBack`,
`CompletedHomeIsFinal` and `ImportsAreCurrent` follow from it. `SuccessIsClean`
(`NoResidue`) adds `ResidueGood`: which paths are gone at each step.

*`PendingApprovalsProofs`.* `Inv`, that is `ApprovalInv` with `OneAnswer` and
`RequestsServed`, is inductive: an entry agrees with its presenter thread, with
the channel and with what the host was answered, and the two properties of the
host's requests need each other (an unanswered request has an entry, and an
entry that was not answered has a request). `TableInStep`, `AnswersOnce`,
`RequestsKeepEntries` and `FinalIsFinal` follow. `PresentersAreBounded` adds
`RoomGood` (the table is within its limit; threads are counted through their
entries), `ResultsStayUntilRead` adds `ReadGood` (an entry observed is one the
host was told about), `RoundsResumeOnce` adds `RoundsGood` (the rounds resumed
are those settled, each once).

*`BrokerConsentProofs`.* `ConsentInv` says whose request ids may be alike: a
marker that counts is about one prompt for its capsule, a prompt about the one
who waits for its answer, a signal about a request nobody was asked about yet.
`ConsentHolds` and `OnePromptCounts` follow. `AnswersAreKept` adds `RoutesGood`:
a prompt whose tool still waits has its route, or is one the full table forgot;
a refused call is gone, so a parked tool waits for an approval; and nothing is
asked for a source that is not trusted.

*`SessionStoreProofs`.* `Inv` says that the bytes a client holds agree with the
step it is at, and where a walk is: everything shown is behind its cursor, and
every thread that was there throughout is shown or ahead. `TypeCorrect` and
`WalksAreComplete` follow. `Refinement` is the safety of
`ImplementsThreadStore`: a swap that succeeds is the instant of its call, every
other step is a stutter or a reply.

*`ProviderRequestProofs`.* `SelectionInv` relates the selection to the providers
known and to what the operator chose; `ChoicesKept` follows, with any number of
coordinator instances. `RequestsFitTheirModels` takes one instance
(`OneInstance`; with two, TLC has a counterexample) and adds `CopyGood`: which
keys of the copy agree at each step of the interceptor that writes or reads them.

For the transcript that goes with it, `RequestsCarryTheirTranscripts`
(`OwnTranscript`) and `CutsAreLeast` (`CutToFit`) follow from `CompactionInv`. A
reply fits the request it answers (`ReplyFits`), whatever the plugins pin; what is
left to show is that nobody takes another's. That is `InTime`: while a coordinator
waits, its request is the only one, in the queue or with the plugins, and what the
wait has left is more than the engine may still need (the rest of its look for
estimates and the plugins' outer deadline); while nobody waits the engine has
nothing to answer. Premises: `OneCoordinator` (with two instances TLC has a
counterexample) and `Timely`, that the two together are shorter than the
coordinator's wait, 1 s and 2 s against 5 s by default. The poll and the wait are
constants of the code, the deadline is a setting that no code bounds; any other
number may be anything.

`Tokens`, `Without` and `Truncated` are recursive functions over a transcript of
any length. `RecursionExists` shows that such a function is there, by induction on
its domain (`Climb`), and the lemmas after it what each computes, by the same
induction: a cut removes a set of removable messages, each while the rest was too
large, so the set is an initial part of them, its last member was needed, and the
running estimate is the tokens of what is left.

*`RecipeLedgerProofs`.* `LedgerInv` says what is on disk whatever was cut off
(every revision whole and the only one of its number, committed or not; those
up to the pointer made by patches of different ids), and that memory is the
committed chain or one revision behind it.
`AlwaysRecoverable`, `AcknowledgedStays` (`AckedStays`, which `KeepsHistory`
implies and no run repeats) and `VisibleIsInJournal` follow, if clients of two
recipes do not use the same patch id (`IdsApart`); section 11 says what happens
otherwise. `HistoryIsKept` (`KeepsHistory`) is the refinement: the histories
stay while pointers and committed revisions do (`HistoriesStay`), a client is
told of a patch that has a revision (`Tells`), and when the pointer moves, to a
revision it did not have yet, the patch is one that no history has (`Commits`).

*`UserDirectoryProofs`.* `DirectoryInv` adds to the references what the writes
still to be made are, form by form, since an operation may be cut off before any
of them. `References` (`ReferencesHold`) follows.

Only model-checked:

* liveness: `EveryTurnEnds`, `RepliesSettle`, `RetrySucceeds`, `AwaitingEnds`,
  `NeverWedged` and `CacheFollows`. They rest on fairness and on `ENABLED`, which
  the prover does not reason about.

Induction over numbers is by the least number that is not in a set (`SetInduction`),
as the library's induction theorems take operators, which the prover cannot
instantiate.

Not modelled: the parts the inventory marks so. The prompt builder and the hook bridge keep nothing
between calls but a cache; providers, router,
tool capsules and front ends are clients or translators, and appear in the
models as environments that may send anything; the rest is pure functions over
data, or packaging. Of the modelled parts, wording,
JSON, hashing, file contents and logging. No module
speaks about the kernel beyond how the code uses it.

Some definitions stand next to the one they vary (`RegisterForgotten` beside
`Register`, `RetirableBlocked` beside `Retirable`, `UndoInReverse` beside
`UndoReceipt`, and others). No specification uses them: each is its neighbour
with a plausible mistake, and put in its place it makes the property it is
paired with in `PROJECT.json` fail, which shows that the property depends on
the code.
