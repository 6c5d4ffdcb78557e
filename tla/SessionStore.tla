---------------------------- MODULE SessionStore ----------------------------
(***************************************************************************)
(* The session capsule, capsules/capsule-session/src/lib.rs: conversation  *)
(* threads in the KV store, one key each, changed by read, modify and      *)
(* compare-and-swap.  Several invocations of the capsule run at once; each *)
(* call of the store is one step.  A device pages through the threads      *)
(* while they change.                                                      *)
(*                                                                         *)
(* A message is the number of the call that appends it, and keys are       *)
(* numbers in key order.  Title, meta, timestamps and previews stand and   *)
(* fall with the archived flag and are left out.                           *)
(***************************************************************************)
EXTENDS Naturals, Sequences, FiniteSets

CONSTANTS
  Session,   \* thread ids
  Key,       \* bound: the threads that requests name; the others are there from the start
  Client,    \* invocations that may run at once
  None,
  Retries,   \* CAS_RETRY_LIMIT
  Limit,     \* results in one page
  PageSize,  \* MAX_LIST_LIMIT
  Budget,    \* SEARCH_KEY_SCAN_BUDGET
  MaxCalls,  \* bound: calls
  Ops,       \* which operations are called
  Schemas,   \* schema versions found in the store at the start
  Faults     \* calls of the store that may fail: "read", "write"

ASSUME ConstantsAssumption ==
  /\ Session \subseteq Nat \ {0} /\ IsFiniteSet(Session) /\ Key \subseteq Session
  /\ Retries \in Nat \ {0} /\ Limit \in Nat \ {0} /\ Budget \in Nat \ {0} /\ PageSize \in Nat \ {0}
  /\ MaxCalls \in Nat
  /\ Ops \subseteq {"append", "fetch", "meta", "update", "delete", "clear"}
  /\ Schemas \subseteq {"old", "current", "unknown"}
  /\ Faults \subseteq {"read", "write"}
  /\ None \notin Nat

VARIABLES
  store,   \* KV session.data.<id>: None, or a thread and its schema version
  client,  \* what each invocation is in the middle of
  issued,  \* calls so far
  walk,    \* the device's walk through the pages of a search or a listing
  steady   \* history: threads that matched at every moment of the walk

vars == <<store, client, issued, walk, steady>>

Thread == [log : Seq(0 .. MaxCalls), parent : {None} \cup Session, archived : BOOLEAN]
Blob   == [schema : {"old", "current", "unknown"}, thread : Thread]

Replies ==
  ({"log"} \X Seq(0 .. MaxCalls)) \cup ({"thread"} \X Thread) \cup ({"new"} \X Session)
  \cup {<<"absent">>, <<"ok">>, <<"error">>}

\* What an invocation shows its caller.
CallOf == [op : {"append", "fetch", "meta", "update", "delete", "clear"}, key : Session,
           arg : 0 .. MaxCalls, reply : {None} \cup Replies]

\* The value for "nothing here" is none of the values that may be there.
ASSUME NoneIsApart == None \notin Thread \cup Blob \cup Replies \cup CallOf

Fresh == [log |-> <<>>, parent |-> None, archived |-> FALSE]
\* A thread found in the store holds message 0.
Stored(schema) == [schema |-> schema, thread |-> [Fresh EXCEPT !.log = <<0>>]]
Blank == [schema |-> "current", thread |-> Fresh]

\* `seen' is what load read, the value a swap expects; `left' how many swaps
\* may still be tried.
Idle == [pc |-> "idle", op |-> None, key |-> None, arg |-> 0,
         seen |-> None, left |-> 0, reply |-> None]

NoWalk == [on |-> FALSE, search |-> FALSE, cursor |-> 0, page |-> {}, next |-> None,
           scanned |-> 0, found |-> 0, hits |-> {}, twice |-> FALSE]

Init ==
  /\ \E found \in [Key -> {None} \cup {Stored(v) : v \in Schemas}] :
       store = [s \in Session |-> IF s \in Key THEN found[s] ELSE Stored("current")]
  /\ client = [c \in Client |-> Idle]
  /\ issued = 0
  /\ walk = NoWalk
  /\ steady = {}

Exists(s) == store[s] # None
Old(s) == Exists(s) /\ store[s].schema = "old"

TypeOK ==
  /\ store \in [Session -> {None} \cup Blob]
  /\ \A c \in Client :
       /\ client[c].pc \in {"idle", "check", "load", "heal", "write", "erase", "create", "reply"}
       /\ client[c].left \in 0 .. Retries
       /\ client[c].seen \in {None} \cup Blob
       /\ client[c].pc = "idle" <=> client[c] = Idle
  /\ issued \in 0 .. MaxCalls
  /\ walk.page \subseteq Session /\ walk.hits \subseteq Session
  /\ walk.search => walk.found < Limit /\ walk.scanned < Budget
  /\ steady \subseteq Session

-----------------------------------------------------------------------------
(* Calls of the store.                                                     *)

Outcome == {"swapped", "lost", "failed"}

\* kv::cas: the swap takes effect if the key holds what is expected.
Swap(s, expected, new, outcome) ==
  \/ /\ outcome = "swapped" /\ store[s] = expected
     /\ store' = [store EXCEPT ![s] = new]
  \/ /\ outcome = "lost" /\ store[s] # expected
     /\ UNCHANGED store
  \/ /\ outcome = "failed" /\ "write" \in Faults
     /\ \/ UNCHANGED store
        \/ /\ store[s] = expected
           /\ store' = [store EXCEPT ![s] = new]

\* SessionData::migrate: older blobs are stamped, an unknown one reads as a
\* fresh thread.
Migrated(blob) ==
  IF blob = None \/ blob.schema = "unknown" THEN Blank
  ELSE [blob EXCEPT !.schema = "current"]

Thread0(blob) == Migrated(blob).thread

Goto(c, pc) == client' = [client EXCEPT ![c].pc = pc]
Reply(c, value) ==
  client' = [client EXCEPT ![c].pc = "reply", ![c].reply = value,
                           ![c].seen = None, ![c].left = 0]

\* What an invocation does once it has loaded its thread.
Loaded(c, blob) ==
  LET k == client[c]
  IN  CASE k.op = "fetch"                    -> Reply(c, <<"log", Thread0(blob).log>>)
        [] k.op = "meta"                     -> Reply(c, <<"thread", Thread0(blob)>>)
        [] k.op = "update" /\ blob = None    -> Reply(c, <<"absent">>)
        [] OTHER -> client' = [client EXCEPT ![c].pc = "write", ![c].seen = blob]

-----------------------------------------------------------------------------
(* The operations.                                                         *)

\* A request arrives.  Whatever checks the key first (do_get_meta, do_delete)
\* does so before anything else.
Begin(c, op, s, arg) ==
  /\ client[c] = Idle /\ issued < MaxCalls
  /\ issued' = issued + 1
  /\ client' = [client EXCEPT ![c] =
       [pc |-> IF op \in {"meta", "delete"} THEN "check" ELSE IF op = "clear" THEN "create" ELSE "load",
        op |-> op, key |-> s, arg |-> arg,
        seen |-> None, left |-> Retries, reply |-> None]]
  /\ UNCHANGED <<store, walk>>

Arg(op) == CASE op = "append" -> {issued + 1} [] op = "update" -> {0, 1} [] OTHER -> {0}

\* handle_append, handle_get_messages, ... and the commands and tools that
\* share their operations.
Request(c) == \E op \in Ops, s \in Key : \E arg \in Arg(op) : Begin(c, op, s, arg)

\* do_get_meta, do_delete: is there such a thread?
Check(c) ==
  /\ client[c].pc = "check"
  /\ \/ Exists(client[c].key) /\ Goto(c, IF client[c].op = "meta" THEN "load" ELSE "erase")
     \/ ~Exists(client[c].key) /\ Reply(c, <<"absent">>)
     \/ "read" \in Faults /\ Reply(c, <<"error">>)
  /\ UNCHANGED <<store, issued, walk>>

\* do_delete, when there was one.
Erase(c) ==
  /\ client[c].pc = "erase"
  /\ \/ store' = [store EXCEPT ![client[c].key] = None] /\ Reply(c, <<"ok">>)
     \/ /\ "write" \in Faults /\ Reply(c, <<"error">>)
        /\ store' \in {store, [store EXCEPT ![client[c].key] = None]}
  /\ UNCHANGED <<issued, walk>>

\* SessionData::load, up to its own swap: a blob of an older version is saved
\* again as one of this version, which may lose its race or fail.  What cannot
\* be read is taken for a key that is not there.
Load(c) ==
  /\ client[c].pc = "load"
  /\ \/ LET blob == store[client[c].key]
        IN  IF Old(client[c].key)
              THEN client' = [client EXCEPT ![c].pc = "heal", ![c].seen = blob]
              ELSE Loaded(c, blob)
     \/ "read" \in Faults /\ Loaded(c, None)
  /\ UNCHANGED <<store, issued, walk>>

Heal(c) ==
  LET k == client[c]
  IN  /\ k.pc = "heal"
      /\ \E outcome \in Outcome :
           /\ Swap(k.key, k.seen, Migrated(k.seen), outcome)
           /\ Loaded(c, IF outcome = "swapped" THEN Migrated(k.seen) ELSE k.seen)
      /\ UNCHANGED <<issued, walk>>

\* The thread an append or an update writes.
Changed(k) ==
  LET blob == Migrated(k.seen)
  IN  IF k.op = "append" THEN [blob EXCEPT !.thread.log = Append(@, k.arg)]
                         ELSE [blob EXCEPT !.thread.archived = (k.arg # 0)]

Acknowledged(k) == IF k.op = "append" THEN <<"log", Changed(k).thread.log>> ELSE <<"ok">>

\* modify_atomic, modify_existing: the swap, tried Retries times in all.
WriteBlind(c) ==
  LET k == client[c]
  IN  /\ k.pc = "write"
      /\ store' = [store EXCEPT ![k.key] = Changed(k)]
      /\ Reply(c, Acknowledged(k))
      /\ UNCHANGED <<issued, walk>>
Write(c) ==
  LET k == client[c]
  IN  /\ k.pc = "write"
      /\ \E outcome \in Outcome :
           /\ Swap(k.key, k.seen, Changed(k), outcome)
           /\ CASE outcome = "swapped" -> Reply(c, Acknowledged(k))
                [] outcome = "failed" \/ k.left = 1 -> Reply(c, <<"error">>)
                [] OTHER -> client' = [client EXCEPT ![c].pc = "load", ![c].seen = None, ![c].left = @ - 1]
      /\ UNCHANGED <<issued, walk>>

\* handle_clear: a new uuid, created if absent; a uuid that is taken is refused.
Create(c) ==
  LET k == client[c]
  IN  /\ k.pc = "create"
      /\ \E s \in Session, outcome \in Outcome :
           /\ Swap(s, None, [Blank EXCEPT !.thread.parent = k.key], outcome)
           /\ Reply(c, IF outcome = "swapped" THEN <<"new", s>> ELSE <<"error">>)
      /\ UNCHANGED <<issued, walk>>

\* The reply goes out.
Finish(c) ==
  /\ client[c].pc = "reply"
  /\ client' = [client EXCEPT ![c] = Idle]
  /\ UNCHANGED <<store, issued, walk>>

-----------------------------------------------------------------------------
(* do_list and do_search: a walk through the keys in key order, the page   *)
(* after a cursor at a time, each thread of it loaded by itself.           *)

\* Whether a thread, as it is loaded now, is one to show: a search for the word
\* that every message holds.  Of a key that is gone, load makes an empty thread.
Visible(s) == ~Thread0(store[s]).archived
Hit(s) == Visible(s) /\ (walk.search => Thread0(store[s]).log # <<>>)
Matching == {s \in Session : Exists(s) /\ Hit(s)}

\* kv::list_keys_page: up to n keys after the cursor, and the last of them as
\* the next cursor if there are more.
KeysAfter(cursor) == {s \in Session : Exists(s) /\ s > cursor}
FirstOf(keys, n) == {s \in keys : Cardinality({t \in keys : t < s}) < n}
LastOf(keys) == CHOOSE s \in keys : \A t \in keys : t <= s

WalkBegins(search) ==
  /\ ~walk.on
  /\ walk' = [NoWalk EXCEPT !.on = TRUE, !.search = search]
  /\ UNCHANGED <<store, client, issued>>

\* A page is fetched: the next one of this call, or the first of a new call.
FetchPage ==
  /\ walk.on /\ walk.page = {} /\ walk.cursor # None
  /\ LET keys == KeysAfter(walk.cursor)
         page == FirstOf(keys, IF walk.search THEN PageSize ELSE Limit)
     IN  walk' = IF page = {} THEN [walk EXCEPT !.cursor = None]
                 ELSE [walk EXCEPT !.page = page,
                                   !.next = IF page = keys THEN None ELSE LastOf(page)]
  /\ UNCHANGED <<store, client, issued>>

\* A call of the walk ends with the cursor for the next one, or with none.
CallEnds(w, cursor) ==
  [w EXCEPT !.cursor = cursor, !.page = {}, !.next = None, !.scanned = 0, !.found = 0]

\* Where a call goes on after it showed or skipped s: a search stops at its
\* limit of results or at its budget of keys; a page that is used up is followed
\* by the next one, of the same search or of the listing's next call.
AfterUnbudgeted(w, s) ==
  IF w.search /\ w.found = Limit THEN CallEnds(w, s)
  ELSE IF w.page # {} THEN w
  ELSE IF w.search /\ w.next # None THEN [w EXCEPT !.cursor = w.next, !.next = None]
  ELSE CallEnds(w, w.next)
CursorAtPageEnd(w, s) ==
  IF w.search /\ (w.found = Limit \/ w.scanned = Budget) THEN CallEnds(w, w.next)
  ELSE IF w.page # {} THEN w
  ELSE IF w.search /\ w.next # None THEN [w EXCEPT !.cursor = w.next, !.next = None]
  ELSE CallEnds(w, w.next)
After(w, s) ==
  IF w.search /\ (w.found = Limit \/ w.scanned = Budget) THEN CallEnds(w, s)
  ELSE IF w.page # {} THEN w
  ELSE IF w.search /\ w.next # None THEN [w EXCEPT !.cursor = w.next, !.next = None]
  ELSE CallEnds(w, w.next)

\* The next thread of the page is loaded, as it is by now, and healed if no one
\* else is quicker.
ScanThread ==
  /\ walk.page # {}
  /\ LET s   == CHOOSE k \in walk.page : \A t \in walk.page : k <= t
         hit == Hit(s)
         w   == [walk EXCEPT !.page    = @ \ {s},
                             !.scanned = @ + 1,
                             !.found   = IF hit THEN @ + 1 ELSE @,
                             !.hits    = IF hit THEN @ \cup {s} ELSE @,
                             !.twice   = @ \/ (hit /\ s \in walk.hits)]
     IN  /\ walk' = After(w, s)
         /\ store' \in {store} \cup IF Old(s) THEN {[store EXCEPT ![s] = Migrated(@)]} ELSE {}
  /\ UNCHANGED <<client, issued>>

WalkEnds ==
  /\ walk.on /\ walk.cursor = None
  /\ walk' = NoWalk
  /\ UNCHANGED <<store, client, issued>>

-----------------------------------------------------------------------------

Step(c) ==
  \/ Check(c) \/ Erase(c) \/ Load(c) \/ Heal(c) \/ Write(c) \/ Create(c) \/ Finish(c)

\* What a walk must not miss: the threads that match all the way through it.
Watched ==
  steady' = IF walk'.on THEN (IF walk.on THEN steady ELSE Session) \cap Matching'
            ELSE {}

Next ==
  /\ \/ \E c \in Client : Request(c) \/ Step(c)
     \/ \E search \in BOOLEAN : WalkBegins(search)
     \/ FetchPage \/ ScanThread \/ WalkEnds
  /\ Watched

Spec == Init /\ [][Next]_vars

-----------------------------------------------------------------------------

\* A read takes effect where its thread is loaded, even if load then heals it.
Answered(k) ==
  IF k.pc # "heal" \/ k.op \notin {"fetch", "meta"} THEN k.reply
  ELSE IF k.op = "fetch" THEN <<"log", k.seen.thread.log>> ELSE <<"thread", k.seen.thread>>

ContentOf(blob) == IF blob = None THEN None ELSE Thread0(blob)
ShownOf(k) ==
  IF k = Idle THEN None
  ELSE [op |-> k.op, key |-> k.key, arg |-> k.arg, reply |-> Answered(k)]

Contents == [s \in Session |-> ContentOf(store[s])]
Shown    == [c \in Client |-> ShownOf(client[c])]

Threads == INSTANCE ThreadStore WITH threads <- Contents, calls <- Shown

\* The capsule keeps the promise of ThreadStore: whatever other invocations,
\* migrations and failing writes come in between, every call takes effect once,
\* at one instant between its request and its reply, and no append is lost to
\* another writer (load, modify_atomic, modify_existing, do_get_meta, do_delete,
\* handle_clear).
ImplementsThreadStore == Threads!Spec

\* A walk that reached its end has shown every thread that was there, not
\* archived, for all of it, and none of them twice, although every page is cut
\* where a limit or a budget says and threads come and go between the calls
\* (do_list, do_search).
WalkIsComplete ==
  /\ walk.on /\ walk.cursor = None => steady \subseteq walk.hits
  /\ ~walk.twice
=============================================================================
