------------------------- MODULE SessionStoreProofs -------------------------
(***************************************************************************)
(* Proofs about SessionStore, for any set of threads and invocations and   *)
(* any limits.                                                             *)
(*                                                                         *)
(* ClientsGood is what an invocation may hold at each point of its         *)
(* operation; it is inductive with the type of the store.  It is all that  *)
(* the refinement needs, for every answer is taken from the thread as it   *)
(* stood at the step that fixes it.  WalkGood, the loop invariant of a     *)
(* device's walk, says which threads a page, its next cursor and the       *)
(* results shown so far still leave to come.                               *)
(***************************************************************************)
EXTENDS SessionStore, FiniteSetTheorems, TLAPS

Calls == {"append", "fetch", "meta", "update", "delete", "clear"}
Held  ==
  [pc : {"idle", "check", "load", "heal", "write", "erase", "create", "reply"},
   op : {None} \cup Calls, key : {None} \cup Session, arg : 0 .. MaxCalls,
   seen : {None} \cup Blob, left : 0 .. Retries, reply : {None} \cup Replies]

\* Which operations come to which point, and what they hold there.
HeldWell(k) ==
  /\ k.pc = "idle" <=> k = Idle
  /\ k.pc # "idle" => k.op \in Calls /\ k.key \in Session
  /\ k.pc = "reply" <=> k.reply # None
  /\ k.pc \notin {"idle", "reply"} => k.left # 0
  /\ k.pc = "check"  => k.op \in {"meta", "delete"}
  /\ k.pc \in {"load", "heal"} => k.op \in {"append", "fetch", "meta", "update"}
  /\ k.pc = "heal"   => k.seen # None /\ k.seen.schema = "old"
  /\ k.pc = "write"  => \/ k.op = "append"
                        \/ k.op = "update" /\ k.seen # None
  /\ k.pc = "erase"  => k.op = "delete"
  /\ k.pc = "create" => k.op = "clear"

StoreGood == store \in [Session -> {None} \cup Blob]
ClientsGood ==
  /\ client \in [Client -> Held] /\ issued \in 0 .. MaxCalls
  /\ \A c \in Client : HeldWell(client[c])

Walks ==
  [on : BOOLEAN, search : BOOLEAN, cursor : {None} \cup Nat, page : SUBSET Session,
   next : {None} \cup Session, scanned : Nat, found : Nat, hits : SUBSET Session,
   twice : {FALSE}]

\* Where the walk is: everything shown is behind it, and every watched thread
\* that was not shown is ahead, in the page or past the end of the page.
Ahead(w, s) ==
  IF w.page = {} THEN w.cursor # None /\ s > w.cursor
  ELSE s \in w.page \/ (w.next # None /\ s > w.next)
Behind(w, s) ==
  IF w.page = {} THEN w.cursor # None => s <= w.cursor
  ELSE \A t \in w.page : s < t

WalkWell(w) ==
  /\ w.page # {} => w.cursor # None
  /\ w.page = {} => w.next = None
  /\ w.next # None => \A t \in w.page : t <= w.next
  /\ w.search => w.found < Limit /\ w.scanned < Budget
  /\ \A s \in w.hits : Behind(w, s)

WalkGood ==
  /\ walk \in Walks /\ WalkWell(walk)
  /\ steady \in SUBSET Session
  /\ walk.on => \A s \in steady : s \in Matching /\ (s \in walk.hits \/ Ahead(walk, s))

Inv == StoreGood /\ ClientsGood /\ WalkGood

-----------------------------------------------------------------------------
(* The values.                                                             *)

\* The value for "nothing here" is no thread, blob, reply or call.
LEMMA NoneApart ==
  /\ None \notin Thread /\ None \notin Blob /\ None \notin Replies /\ None \notin CallOf
  /\ None \notin Nat /\ None \notin Session
BY ConstantsAssumption, NoneIsApart

\* The blobs the capsule makes itself.
LEMMA BlankTyped ==
  /\ Fresh \in Thread
  /\ Blank \in Blob /\ Blank.thread = Fresh
  /\ \A v \in {"old", "current", "unknown"} : Stored(v) \in Blob
<1>1. Fresh \in Thread
  BY ConstantsAssumption DEF Fresh, Thread
<1>2. Blank \in Blob /\ Blank.thread = Fresh
  BY <1>1 DEF Blank, Blob
<1>3. ASSUME NEW v \in {"old", "current", "unknown"}
      PROVE  Stored(v) \in Blob
  <2>1. <<0>> \in Seq(0 .. MaxCalls)
    BY ConstantsAssumption
  <2>2. [Fresh EXCEPT !.log = <<0>>] \in Thread
    BY <2>1, <1>1 DEF Thread
  <2> QED
    BY <2>2 DEF Stored, Blob
<1> QED
  BY <1>1, <1>2, <1>3

\* Migrating keeps the thread of a blob it knows, and makes a fresh one of what
\* it does not know; either way there is a blob afterwards.
LEMMA MigratedTyped ==
  ASSUME NEW blob \in {None} \cup Blob
  PROVE  /\ Migrated(blob) \in Blob /\ Migrated(blob).schema = "current"
         /\ Thread0(blob) = Migrated(blob).thread /\ Thread0(blob) \in Thread
         /\ Migrated(blob) # None
<1>1. CASE blob = None \/ blob.schema = "unknown"
  BY <1>1, BlankTyped, NoneApart DEF Migrated, Thread0, Blank
<1>2. CASE ~(blob = None \/ blob.schema = "unknown")
  BY <1>2, NoneApart DEF Migrated, Thread0, Blob
<1> QED
  BY <1>1, <1>2

\* Migrating an older blob changes nothing a caller sees.
LEMMA HealingIsInvisible ==
  ASSUME NEW blob \in Blob, blob.schema = "old"
  PROVE  /\ Thread0(blob) = blob.thread
         /\ Thread0(Migrated(blob)) = blob.thread
         /\ ContentOf(Migrated(blob)) = ContentOf(blob)
<1>1. Thread0(blob) = blob.thread
  BY NoneApart DEF Migrated, Thread0, Blob
<1>2. Migrated(blob) \in Blob /\ Migrated(blob) # None /\ Migrated(blob).schema = "current"
      /\ Migrated(blob).thread = blob.thread
  BY <1>1, MigratedTyped
<1>3. Thread0(Migrated(blob)) = blob.thread
  BY <1>2 DEF Migrated, Thread0, Blob
<1> QED
  BY <1>1, <1>2, <1>3, NoneApart DEF ContentOf

\* A key holds a thread for the callers exactly if it holds a blob.
LEMMA ContentTyped ==
  ASSUME NEW blob \in {None} \cup Blob
  PROVE  /\ ContentOf(blob) \in {None} \cup Thread
         /\ ContentOf(blob) = None <=> blob = None
         /\ blob # None => ContentOf(blob) = Thread0(blob)
         /\ Thread0(blob) = IF ContentOf(blob) = None THEN Fresh ELSE ContentOf(blob)
<1>1. Thread0(blob) \in Thread
  BY MigratedTyped
<1>2. blob = None => Thread0(blob) = Fresh
  BY BlankTyped DEF Thread0, Migrated
<1> QED
  BY <1>1, <1>2, NoneApart DEF ContentOf

-----------------------------------------------------------------------------
(* One invocation and what its caller sees of it.                          *)

Replied(k, value) ==
  [k EXCEPT !.pc = "reply", !.reply = value, !.seen = None, !.left = 0]

\* What Goto, Reply and the retry of a swap do to one invocation.
LEMMA Updates ==
  ASSUME ClientsGood, NEW c \in Client
  PROVE  /\ \A value : Reply(c, value) <=> client' = [client EXCEPT ![c] = Replied(client[c], value)]
         /\ \A pc : Goto(c, pc) <=> client' = [client EXCEPT ![c] = [client[c] EXCEPT !.pc = pc]]
BY DEF Reply, Goto, Replied, ClientsGood, Held

\* An open call is shown with its request and with the answer it has by now.
LEMMA ShownIs ==
  ASSUME ClientsGood, NEW c \in Client, client[c].pc # "idle"
  PROVE  /\ Shown[c] = [op |-> client[c].op, key |-> client[c].key, arg |-> client[c].arg,
                        reply |-> Answered(client[c])]
         /\ Answered(client[c]) \in {None} \cup Replies
         /\ Shown[c] \in CallOf /\ Shown[c] # None
<1> DEFINE k == client[c]
<1>1. k \in Held /\ HeldWell(k) /\ k # Idle
  BY DEF ClientsGood, HeldWell
<1>2. k.op \in Calls /\ k.key \in Session /\ k.arg \in 0 .. MaxCalls
  BY <1>1 DEF HeldWell, Held
<1>3. Answered(k) \in {None} \cup Replies
  <2>1. CASE k.pc # "heal" \/ k.op \notin {"fetch", "meta"}
    BY <2>1, <1>1 DEF Answered, Held
  <2>2. CASE k.pc = "heal" /\ k.op \in {"fetch", "meta"}
    <3>1. k.seen.thread \in Thread /\ k.seen.thread.log \in Seq(0 .. MaxCalls)
      BY <2>2, <1>1, NoneApart DEF HeldWell, Held, Blob, Thread
    <3> QED
      BY <2>2, <3>1 DEF Answered, Replies
  <2> QED
    BY <2>1, <2>2
<1>4. Shown[c] = [op |-> k.op, key |-> k.key, arg |-> k.arg, reply |-> Answered(k)]
  BY <1>1 DEF Shown, ShownOf
<1>5. Shown[c] \in CallOf
  BY <1>2, <1>3, <1>4 DEF CallOf, Calls
<1> QED
  BY <1>3, <1>4, <1>5, NoneApart

\* An invocation that changes shows its caller the change and nothing else.
LEMMA ClientChanges ==
  ASSUME ClientsGood, NEW c \in Client, NEW k \in Held, HeldWell(k),
         client' = [client EXCEPT ![c] = k], issued' \in 0 .. MaxCalls
  PROVE  ClientsGood' /\ Shown' = [Shown EXCEPT ![c] = ShownOf(k)]
<1>1. ClientsGood'
  BY DEF ClientsGood
<1>2. Shown' = [Shown EXCEPT ![c] = ShownOf(k)]
  BY DEF Shown, ClientsGood
<1> QED
  BY <1>1, <1>2

\* A step that decides nothing yet is not seen.
LEMMA MoveIsSilent ==
  ASSUME ClientsGood, NEW c \in Client, NEW k \in Held, HeldWell(k),
         client' = [client EXCEPT ![c] = k], UNCHANGED issued,
         client[c].pc # "idle", k.pc # "idle",
         k.op = client[c].op, k.key = client[c].key, k.arg = client[c].arg,
         Answered(k) = Answered(client[c])
  PROVE  ClientsGood' /\ UNCHANGED Shown
<1>1. ClientsGood' /\ Shown' = [Shown EXCEPT ![c] = ShownOf(k)]
  BY ClientChanges DEF ClientsGood
<1>2. ShownOf(k) = Shown[c]
  BY ShownIs DEF ShownOf, HeldWell
<1> QED
  BY <1>1, <1>2 DEF Shown

\* A reply that had not been fixed before is the abstract answer; one that had
\* been fixed is only handed on.
LEMMA ReplyAnswers ==
  ASSUME ClientsGood, NEW c \in Client, client[c].pc \notin {"idle", "reply"},
         NEW value \in Replies, Reply(c, value), UNCHANGED issued
  PROVE  /\ ClientsGood' /\ Threads!Answer(c, value)
         /\ Answered(client[c]) = value => UNCHANGED Shown
<1> DEFINE k == client[c]
           r == Replied(k, value)
<1>1. k \in Held /\ HeldWell(k)
  BY DEF ClientsGood
<1>2. r \in Held
  <2>1. 0 \in 0 .. Retries
    BY ConstantsAssumption
  <2>2. r = [k EXCEPT !.pc = "reply", !.reply = value, !.seen = None, !.left = 0]
    BY DEF Replied
  <2> HIDE DEF r, k
  <2> QED
    BY <1>1, <2>1, <2>2 DEF Held
<1>3. r.pc = "reply" /\ r.reply = value /\ r.op = k.op /\ r.key = k.key /\ r.arg = k.arg
  BY <1>1 DEF Replied, Held
<1>4. HeldWell(r) /\ r # Idle
  BY <1>1, <1>3, NoneApart DEF HeldWell, Idle
<1>5. client' = [client EXCEPT ![c] = r] /\ issued' \in 0 .. MaxCalls
  BY Updates DEF ClientsGood
<1>6. ClientsGood' /\ Shown' = [Shown EXCEPT ![c] = ShownOf(r)]
  BY <1>2, <1>4, <1>5, ClientChanges
<1>7. ShownOf(r) = [op |-> k.op, key |-> k.key, arg |-> k.arg, reply |-> value]
  BY <1>3, <1>4 DEF ShownOf, Answered
<1>8. Shown[c] = [op |-> k.op, key |-> k.key, arg |-> k.arg, reply |-> Answered(k)]
  BY ShownIs
<1>9. ShownOf(r) = [Shown[c] EXCEPT !.reply = value]
  BY <1>7, <1>8
<1>10. Answered(k) = value => UNCHANGED Shown
  BY <1>6, <1>7, <1>8 DEF Shown
<1> QED
  BY <1>6, <1>9, <1>10 DEF Threads!Answer

\* A call that is under way and has no answer yet is pending.
LEMMA CallIsPending ==
  ASSUME ClientsGood, NEW c \in Client, client[c].pc \notin {"idle", "reply"},
         client[c].pc = "heal" => client[c].op \notin {"fetch", "meta"}
  PROVE  /\ Threads!Pending(c, client[c].op)
         /\ Shown[c].key = client[c].key /\ Shown[c].arg = client[c].arg
<1>1. HeldWell(client[c]) /\ Answered(client[c]) = None
  BY DEF ClientsGood, HeldWell, Answered
<1>2. /\ Shown[c] = [op |-> client[c].op, key |-> client[c].key, arg |-> client[c].arg,
                       reply |-> Answered(client[c])]
      /\ Shown[c] # None
  BY ShownIs
<1> QED
  BY <1>1, <1>2 DEF Threads!Pending

-----------------------------------------------------------------------------
(* The operations, each a step of ThreadStore or none of its steps.        *)

\* What every step is to be.
Implements == StoreGood' /\ ClientsGood' /\ [Threads!Next]_(Threads!vars)

\* The callers see a write of the store as a write of the thread.
LEMMA WriteShows ==
  ASSUME StoreGood, NEW s \in Session, NEW blob \in {None} \cup Blob,
         store' = [store EXCEPT ![s] = blob]
  PROVE  StoreGood' /\ Threads!Store(s, ContentOf(blob))
BY DEF StoreGood, Contents, Threads!Store

\* A swap writes only over what it expected, or does nothing.
LEMMA SwapShows ==
  ASSUME StoreGood, NEW s \in Session, NEW expected, NEW new \in Blob,
         NEW outcome \in Outcome, Swap(s, expected, new, outcome)
  PROVE  /\ StoreGood'
         /\ \/ UNCHANGED Contents /\ outcome # "swapped"
            \/ store[s] = expected /\ Threads!Store(s, ContentOf(new)) /\ outcome # "lost"
<1>1. CASE UNCHANGED store /\ outcome # "swapped"
  BY <1>1 DEF StoreGood, Contents
<1>2. CASE store[s] = expected /\ store' = [store EXCEPT ![s] = new] /\ outcome # "lost"
  BY <1>2, WriteShows
<1> QED
  BY <1>1, <1>2 DEF Swap, Outcome

LEMMA ContentsIs ==
  ASSUME StoreGood, NEW s \in Session
  PROVE  Contents[s] = ContentOf(store[s]) /\ store[s] \in {None} \cup Blob
BY DEF StoreGood, Contents

\* Nothing the callers see changes.
LEMMA Silent ==
  ASSUME StoreGood', ClientsGood', UNCHANGED <<Contents, Shown>>
  PROVE  Implements
BY DEF Implements, Threads!vars

\* A caller's call without an answer may be refused.
LEMMA Refused ==
  ASSUME ClientsGood, NEW c \in Client, Threads!Pending(c, client[c].op),
         Threads!Answer(c, <<"error">>), StoreGood', ClientsGood', UNCHANGED Contents
  PROVE  Implements
<1>1. Threads!Refuse(c)
  BY DEF Threads!Refuse, Threads!Pending
<1> QED
  BY <1>1 DEF Implements, Threads!Next

\* A request arrives with no answer.
LEMMA RequestImplements ==
  ASSUME StoreGood, ClientsGood, NEW c \in Client, Request(c)
  PROVE  Implements
<1>1. PICK op \in Ops, s \in Key : \E arg \in Arg(op) : Begin(c, op, s, arg)
  BY DEF Request
<1>2. PICK arg \in Arg(op) : Begin(c, op, s, arg)
  BY <1>1
<1> DEFINE pc == IF op \in {"meta", "delete"} THEN "check"
                 ELSE IF op = "clear" THEN "create" ELSE "load"
           k  == [pc |-> pc, op |-> op, key |-> s, arg |-> arg,
                  seen |-> None, left |-> Retries, reply |-> None]
<1>3. op \in Calls /\ s \in Session
  BY ConstantsAssumption DEF Calls
<1>4. issued \in 0 .. MaxCalls /\ issued < MaxCalls /\ MaxCalls \in Nat
  BY <1>2, ConstantsAssumption DEF Begin, ClientsGood
<1>5. arg \in 0 .. MaxCalls
  BY <1>4 DEF Arg
<1>6. k \in Held
  <2>1. Retries \in 0 .. Retries
    BY ConstantsAssumption
  <2> QED
    BY <2>1, <1>3, <1>5 DEF Held, Calls
<1>7. pc \in {"check", "create", "load"} /\ k # Idle
  BY DEF Idle
<1>8. HeldWell(k)
  BY <1>3, <1>7, ConstantsAssumption, NoneApart DEF HeldWell, Calls
<1>9. client' = [client EXCEPT ![c] = k] /\ issued' = issued + 1 /\ UNCHANGED store /\ client[c] = Idle
  BY <1>2 DEF Begin
<1>10. ClientsGood' /\ Shown' = [Shown EXCEPT ![c] = ShownOf(k)]
  <2>1. issued' \in 0 .. MaxCalls
    BY <1>4, <1>9
  <2> HIDE DEF k
  <2> QED
    BY <1>6, <1>8, <1>9, <2>1, ClientChanges
<1>11. ShownOf(k) = [op |-> op, key |-> s, arg |-> arg, reply |-> None]
  BY <1>7 DEF ShownOf, Answered
<1>12. ShownOf(k) \in Threads!Request
  BY <1>3, <1>5, <1>11 DEF Threads!Request, Threads!Op, Calls
<1>13. Shown[c] = None
  BY <1>9 DEF Shown, ShownOf
<1>14. StoreGood' /\ UNCHANGED Contents
  BY <1>9 DEF StoreGood, Contents
<1>15. Threads!Call(c)
  BY <1>10, <1>12, <1>13, <1>14 DEF Threads!Call
<1> QED
  BY <1>10, <1>14, <1>15 DEF Implements, Threads!Next

\* The reply goes out.
LEMMA FinishImplements ==
  ASSUME StoreGood, ClientsGood, NEW c \in Client, Finish(c)
  PROVE  Implements
<1>1. Idle \in Held /\ HeldWell(Idle)
  BY ConstantsAssumption, NoneApart DEF Idle, Held, HeldWell
<1>2. ClientsGood' /\ Shown' = [Shown EXCEPT ![c] = None]
  BY <1>1, ClientChanges DEF Finish, ShownOf, ClientsGood
<1>3. Shown[c] # None /\ Shown[c].reply # None
  <2>1. HeldWell(client[c]) /\ client[c].pc = "reply"
    BY DEF ClientsGood, Finish
  <2>2. Shown[c] # None /\ Shown[c] = [op |-> client[c].op, key |-> client[c].key,
           arg |-> client[c].arg, reply |-> Answered(client[c])]
    BY <2>1, ShownIs
  <2> QED
    BY <2>1, <2>2 DEF HeldWell, Answered
<1>4. StoreGood' /\ UNCHANGED Contents
  BY DEF Finish, StoreGood, Contents
<1>5. Threads!Return(c)
  BY <1>2, <1>3, <1>4 DEF Threads!Return
<1> QED
  BY <1>2, <1>4, <1>5 DEF Implements, Threads!Next

LEMMA ReplyTyped ==
  /\ <<"error">> \in Replies /\ <<"absent">> \in Replies /\ <<"ok">> \in Replies
  /\ \A log \in Seq(0 .. MaxCalls) : <<"log", log>> \in Replies
  /\ \A thread \in Thread : <<"thread", thread>> \in Replies
  /\ \A s \in Session : <<"new", s>> \in Replies
BY DEF Replies

\* A deletion and a summary look for the thread first.
LEMMA CheckImplements ==
  ASSUME StoreGood, ClientsGood, NEW c \in Client, Check(c)
  PROVE  Implements
<1> DEFINE k == client[c]
<1>1. k \in Held /\ HeldWell(k) /\ k.pc = "check" /\ k.key \in Session /\ k.op \in {"meta", "delete"}
  BY DEF Check, ClientsGood, HeldWell
<1>2. StoreGood' /\ UNCHANGED Contents /\ UNCHANGED issued
  BY DEF Check, StoreGood, Contents
<1>3. Threads!Pending(c, k.op) /\ Shown[c].key = k.key
  BY <1>1, CallIsPending
<1>4. CASE Exists(k.key) /\ Goto(c, IF k.op = "meta" THEN "load" ELSE "erase")
  <2> DEFINE r == [k EXCEPT !.pc = IF k.op = "meta" THEN "load" ELSE "erase"]
  <2>1. client' = [client EXCEPT ![c] = r]
    BY <1>4, Updates
  <2>2. r \in Held /\ HeldWell(r) /\ r.pc # "idle" /\ r.op = k.op /\ r.key = k.key /\ r.arg = k.arg
    BY <1>1, NoneApart DEF Held, HeldWell, Idle, Calls
  <2>3. Answered(r) = Answered(k)
    BY <1>1, <2>2 DEF Answered, Held
  <2>4. ClientsGood' /\ UNCHANGED Shown
    <3> HIDE DEF r
    <3> QED
      BY <1>1, <1>2, <2>1, <2>2, <2>3, MoveIsSilent
  <2> QED
    BY <1>2, <2>4, Silent
<1>5. CASE ~Exists(k.key) /\ Reply(c, <<"absent">>)
  <2>1. ClientsGood' /\ Threads!Answer(c, <<"absent">>)
    BY <1>1, <1>2, <1>5, ReplyAnswers, ReplyTyped
  <2>2. Contents[k.key] = None
    BY <1>1, <1>5, ContentsIs, ContentTyped DEF Exists
  <2>3. Threads!Meta(c) \/ Threads!Delete(c)
    BY <1>1, <1>2, <1>3, <2>1, <2>2 DEF Threads!Meta, Threads!Delete
  <2> QED
    BY <1>2, <2>1, <2>3 DEF Implements, Threads!Next
<1>6. CASE Reply(c, <<"error">>)
  <2>1. ClientsGood' /\ Threads!Answer(c, <<"error">>)
    BY <1>1, <1>2, <1>6, ReplyAnswers, ReplyTyped
  <2> QED
    BY <1>2, <1>3, <2>1, Refused DEF ClientsGood
<1> QED
  BY <1>4, <1>5, <1>6 DEF Check

\* A deletion takes effect where the key is erased.
LEMMA EraseImplements ==
  ASSUME StoreGood, ClientsGood, NEW c \in Client, Erase(c)
  PROVE  Implements
<1> DEFINE k == client[c]
<1>1. k \in Held /\ HeldWell(k) /\ k.pc = "erase" /\ k.key \in Session /\ k.op = "delete"
  BY DEF Erase, ClientsGood, HeldWell
<1>2. Threads!Pending(c, "delete") /\ Shown[c].key = k.key
  BY <1>1, CallIsPending
<1>3. PICK value \in {<<"ok">>, <<"error">>} : Reply(c, value)
  BY DEF Erase
<1>4. ClientsGood' /\ Threads!Answer(c, value)
  BY <1>1, <1>3, ReplyAnswers, ReplyTyped DEF Erase
<1>5. CASE store' = [store EXCEPT ![k.key] = None]
  <2>1. StoreGood' /\ Threads!Store(k.key, None)
    BY <1>1, <1>5, WriteShows DEF ContentOf
  <2>2. Threads!Delete(c)
    BY <1>2, <1>3, <1>4, <2>1 DEF Threads!Delete
  <2> QED
    BY <1>4, <2>1, <2>2 DEF Implements, Threads!Next
<1>6. CASE store' = store /\ Reply(c, <<"error">>)
  <2>1. StoreGood' /\ UNCHANGED Contents
    BY <1>6 DEF StoreGood, Contents
  <2>2. Threads!Answer(c, <<"error">>)
    BY <1>1, <1>6, ReplyAnswers, ReplyTyped DEF Erase
  <2> QED
    BY <1>1, <1>2, <1>4, <2>1, <2>2, Refused
<1> QED
  BY <1>5, <1>6 DEF Erase

\* Clearing takes effect where the new thread is created.
LEMMA CreateImplements ==
  ASSUME StoreGood, ClientsGood, NEW c \in Client, Create(c)
  PROVE  Implements
<1> DEFINE k == client[c]
           new == [Blank EXCEPT !.thread.parent = k.key]
<1>1. k \in Held /\ HeldWell(k) /\ k.pc = "create" /\ k.key \in Session /\ k.op = "clear"
  BY DEF Create, ClientsGood, HeldWell
<1>2. Threads!Pending(c, "clear") /\ Shown[c].key = k.key
  BY <1>1, CallIsPending
<1>3. new \in Blob /\ ContentOf(new) = [Threads!Fresh EXCEPT !.parent = k.key]
  <2>1. [Fresh EXCEPT !.parent = k.key] \in Thread
    BY <1>1, BlankTyped DEF Thread
  <2>2. new = [schema |-> "current", thread |-> [Fresh EXCEPT !.parent = k.key]]
    BY DEF Blank
  <2>3. new \in Blob
    BY <2>1, <2>2 DEF Blob
  <2>4. ContentOf(new) = [Fresh EXCEPT !.parent = k.key]
    BY <2>2, <2>3, NoneApart DEF ContentOf, Thread0, Migrated
  <2> QED
    BY <2>3, <2>4 DEF Fresh, Threads!Fresh
<1>4. PICK s \in Session, outcome \in Outcome :
        /\ Swap(s, None, new, outcome)
        /\ Reply(c, IF outcome = "swapped" THEN <<"new", s>> ELSE <<"error">>)
  BY DEF Create
<1> HIDE DEF new
<1>5. /\ StoreGood'
      /\ \/ UNCHANGED Contents /\ outcome # "swapped"
         \/ store[s] = None /\ Threads!Store(s, ContentOf(new)) /\ outcome # "lost"
  BY <1>3, <1>4, SwapShows
<1> DEFINE value == IF outcome = "swapped" THEN <<"new", s>> ELSE <<"error">>
<1>6. ClientsGood' /\ Threads!Answer(c, value)
  BY <1>1, <1>4, ReplyAnswers, ReplyTyped DEF Create
<1>7. CASE UNCHANGED Contents /\ outcome # "swapped"
  BY <1>1, <1>2, <1>5, <1>6, <1>7, Refused
<1>8. CASE store[s] = None /\ Threads!Store(s, ContentOf(new))
  <2>1. Contents[s] = None
    BY <1>8, ContentsIs, ContentTyped
  <2>2. Threads!Clear(c)
    BY <1>2, <1>3, <1>6, <1>8, <2>1 DEF Threads!Clear
  <2> QED
    BY <1>5, <1>6, <2>2 DEF Implements, Threads!Next
<1> QED
  BY <1>5, <1>7, <1>8

\* What an invocation does with its thread: a reader replies what it read, an
\* update of nothing replies so, and a writer goes on unseen.
LEMMA LoadedDoes ==
  ASSUME ClientsGood, NEW c \in Client, client[c].pc \in {"load", "heal"},
         NEW blob \in {None} \cup Blob, Loaded(c, blob), UNCHANGED issued
  PROVE  /\ client[c].op = "fetch" => Reply(c, <<"log", Thread0(blob).log>>)
         /\ client[c].op = "meta" => Reply(c, <<"thread", Thread0(blob)>>)
         /\ client[c].op = "update" /\ blob = None => Reply(c, <<"absent">>)
         /\ client[c].op = "append" \/ (client[c].op = "update" /\ blob # None)
              => ClientsGood' /\ UNCHANGED Shown
         /\ <<"log", Thread0(blob).log>> \in Replies /\ <<"thread", Thread0(blob)>> \in Replies
<1> DEFINE k == client[c]
           r == [k EXCEPT !.pc = "write", !.seen = blob]
<1>1. k \in Held /\ HeldWell(k) /\ k.op \in {"append", "fetch", "meta", "update"}
  BY DEF ClientsGood, HeldWell
<1>2. ASSUME k.op = "append" \/ (k.op = "update" /\ blob # None)
      PROVE  ClientsGood' /\ UNCHANGED Shown
  <2>1. client' = [client EXCEPT ![c] = r]
    BY <1>1, <1>2 DEF Loaded, ClientsGood, Held
  <2>2. r \in Held /\ r.pc = "write" /\ r.seen = blob /\ r.op = k.op /\ r.key = k.key
        /\ r.arg = k.arg /\ r.reply = k.reply /\ r.left = k.left
    BY <1>1 DEF Held
  <2>3. HeldWell(r)
    BY <1>1, <1>2, <2>2 DEF HeldWell, Idle, Calls
  <2>4. Answered(r) = Answered(k)
    BY <1>2, <2>2 DEF Answered
  <2> HIDE DEF r
  <2> QED
    BY <2>1, <2>2, <2>3, <2>4, MoveIsSilent
<1>3. Thread0(blob) \in Thread /\ Thread0(blob).log \in Seq(0 .. MaxCalls)
  BY MigratedTyped DEF Thread
<1> QED
  BY <1>1, <1>2, <1>3, ReplyTyped DEF Loaded

\* An older blob is taken up; a reader's answer is fixed by it.
LEMMA HealBegins ==
  ASSUME StoreGood, ClientsGood, NEW c \in Client, Load(c), Old(client[c].key),
         client' = [client EXCEPT ![c].pc = "heal", ![c].seen = store[client[c].key]]
  PROVE  Implements
<1> DEFINE k == client[c]
           blob == store[k.key]
           r == [k EXCEPT !.pc = "heal", !.seen = blob]
<1>1. k \in Held /\ HeldWell(k) /\ k.pc = "load" /\ k.key \in Session
  BY DEF Load, ClientsGood, HeldWell
<1>2. UNCHANGED issued /\ StoreGood' /\ UNCHANGED Contents
  BY DEF Load, StoreGood, Contents
<1>3. Threads!Pending(c, k.op) /\ Shown[c].key = k.key
  BY <1>1, CallIsPending
<1>4. blob \in Blob /\ blob # None /\ blob.schema = "old"
  BY <1>1, ContentsIs DEF Old, Exists
<1>5. client' = [client EXCEPT ![c] = r]
  BY <1>1 DEF ClientsGood, Held
<1>6. r \in Held /\ r.pc = "heal" /\ r.seen = blob /\ r.op = k.op /\ r.key = k.key
      /\ r.arg = k.arg /\ r.reply = k.reply /\ r.left = k.left
  BY <1>1, <1>4 DEF Held
<1>7. HeldWell(r) /\ r # Idle
  BY <1>1, <1>4, <1>6 DEF HeldWell, Idle, Calls
<1>8. ClientsGood' /\ Shown' = [Shown EXCEPT ![c] = ShownOf(r)]
  <2>1. issued' \in 0 .. MaxCalls
    BY <1>2 DEF ClientsGood
  <2> HIDE DEF r
  <2> QED
    BY <1>5, <1>6, <1>7, <2>1, ClientChanges
<1>9. Shown[c] = [op |-> k.op, key |-> k.key, arg |-> k.arg, reply |-> Answered(k)]
  BY <1>1, ShownIs
<1>10. ShownOf(r) = [Shown[c] EXCEPT !.reply = Answered(r)]
  BY <1>6, <1>7, <1>9 DEF ShownOf
<1>11. Threads!Answer(c, Answered(r))
  BY <1>8, <1>10 DEF Threads!Answer
<1>12. Contents[k.key] = blob.thread /\ Contents[k.key] # None
  BY <1>1, <1>4, ContentsIs, ContentTyped, HealingIsInvisible
<1>13. CASE k.op = "fetch"
  <2>1. Answered(r) = <<"log", Contents[k.key].log>>
    BY <1>6, <1>12, <1>13 DEF Answered
  <2>2. Threads!Fetch(c)
    BY <1>2, <1>3, <1>11, <1>12, <1>13, <2>1 DEF Threads!Fetch
  <2> QED
    BY <1>2, <1>8, <2>2 DEF Implements, Threads!Next
<1>14. CASE k.op = "meta"
  <2>1. Answered(r) = <<"thread", Contents[k.key]>>
    BY <1>6, <1>12, <1>14 DEF Answered
  <2>2. Threads!Meta(c)
    BY <1>2, <1>3, <1>11, <1>12, <1>14, <2>1 DEF Threads!Meta
  <2> QED
    BY <1>2, <1>8, <2>2 DEF Implements, Threads!Next
<1>15. CASE k.op \notin {"fetch", "meta"}
  <2>1. Answered(r) = Answered(k)
    BY <1>6, <1>15 DEF Answered
  <2>2. ShownOf(r) = Shown[c]
    BY <1>9, <1>10, <2>1
  <2>3. UNCHANGED Shown
    BY <1>8, <2>2 DEF Shown
  <2> QED
    BY <1>2, <1>8, <2>3, Silent
<1> QED
  BY <1>13, <1>14, <1>15

\* A read takes effect where the thread is loaded.
LEMMA LoadImplements ==
  ASSUME StoreGood, ClientsGood, NEW c \in Client, Load(c)
  PROVE  Implements
<1> DEFINE k == client[c]
<1>1. k \in Held /\ HeldWell(k) /\ k.pc = "load" /\ k.key \in Session
      /\ k.op \in {"append", "fetch", "meta", "update"}
  BY DEF Load, ClientsGood, HeldWell
<1>2. UNCHANGED issued /\ StoreGood' /\ UNCHANGED Contents
  BY DEF Load, StoreGood, Contents
<1>3. Threads!Pending(c, k.op) /\ Shown[c].key = k.key
  BY <1>1, CallIsPending
<1>4. ASSUME NEW blob \in {None} \cup Blob, Loaded(c, blob),
             blob = store[k.key] \/ blob = None
      PROVE  Implements
  <2>1. /\ k.op = "fetch" => Reply(c, <<"log", Thread0(blob).log>>)
        /\ k.op = "meta" => Reply(c, <<"thread", Thread0(blob)>>)
        /\ k.op = "update" /\ blob = None => Reply(c, <<"absent">>)
        /\ k.op = "append" \/ (k.op = "update" /\ blob # None) => ClientsGood' /\ UNCHANGED Shown
        /\ <<"log", Thread0(blob).log>> \in Replies /\ <<"thread", Thread0(blob)>> \in Replies
    BY <1>1, <1>2, <1>4, LoadedDoes
  <2>2. Thread0(None) = Fresh
    BY BlankTyped DEF Thread0, Migrated
  <2>3. blob # None => Thread0(blob) = IF Contents[k.key] = None THEN Fresh ELSE Contents[k.key]
    BY <1>1, <1>4, ContentsIs, ContentTyped
  <2>4. CASE k.op = "fetch"
    <3>1. ClientsGood' /\ Threads!Answer(c, <<"log", Thread0(blob).log>>)
      BY <1>1, <1>2, <2>1, <2>4, ReplyAnswers
    <3>2. Threads!Fetch(c) \/ Threads!ReadFails(c)
      BY <1>2, <1>3, <2>2, <2>3, <2>4, <3>1 DEF Threads!Fetch, Threads!ReadFails, Fresh
    <3> QED
      BY <1>2, <3>1, <3>2 DEF Implements, Threads!Next
  <2>5. CASE k.op = "meta"
    <3>1. ClientsGood' /\ Threads!Answer(c, <<"thread", Thread0(blob)>>)
      BY <1>1, <1>2, <2>1, <2>5, ReplyAnswers
    <3>2. Threads!Meta(c) \/ Threads!ReadFails(c)
      BY <1>2, <1>3, <2>2, <2>3, <2>5, <3>1
        DEF Threads!Meta, Threads!ReadFails, Fresh, Threads!Fresh
    <3> QED
      BY <1>2, <3>1, <3>2 DEF Implements, Threads!Next
  <2>6. CASE k.op = "update" /\ blob = None
    <3>1. ClientsGood' /\ Threads!Answer(c, <<"absent">>)
      BY <1>1, <1>2, <2>1, <2>6, ReplyAnswers, ReplyTyped
    <3>2. Threads!ReadFails(c)
      BY <1>2, <1>3, <2>6, <3>1 DEF Threads!ReadFails
    <3> QED
      BY <1>2, <3>1, <3>2 DEF Implements, Threads!Next
  <2>7. CASE k.op = "append" \/ (k.op = "update" /\ blob # None)
    BY <1>2, <2>1, <2>7, Silent
  <2> QED
    BY <1>1, <2>4, <2>5, <2>6, <2>7
<1>5. store[k.key] \in {None} \cup Blob
  BY <1>1, ContentsIs
<1> QED
  BY <1>4, <1>5, HealBegins DEF Load

\* Saving a migrated blob is not seen, whether the swap wins, loses or fails;
\* the reader's answer stays the one it had.
LEMMA HealImplements ==
  ASSUME StoreGood, ClientsGood, NEW c \in Client, Heal(c)
  PROVE  Implements
<1> DEFINE k == client[c]
<1>1. k \in Held /\ HeldWell(k) /\ k.pc = "heal" /\ k.key \in Session
      /\ k.op \in {"append", "fetch", "meta", "update"} /\ UNCHANGED issued
  BY DEF Heal, ClientsGood, HeldWell
<1>2. k.seen \in Blob /\ k.seen.schema = "old"
  BY <1>1 DEF HeldWell, Held
<1>3. /\ Thread0(k.seen) = k.seen.thread /\ Thread0(Migrated(k.seen)) = k.seen.thread
      /\ ContentOf(Migrated(k.seen)) = ContentOf(k.seen)
      /\ Migrated(k.seen) \in Blob
  BY <1>2, HealingIsInvisible, MigratedTyped
<1>4. PICK outcome \in Outcome :
        /\ Swap(k.key, k.seen, Migrated(k.seen), outcome)
        /\ Loaded(c, IF outcome = "swapped" THEN Migrated(k.seen) ELSE k.seen)
  BY DEF Heal
<1>5. /\ StoreGood'
      /\ \/ UNCHANGED Contents
         \/ store[k.key] = k.seen /\ Threads!Store(k.key, ContentOf(k.seen))
  BY <1>1, <1>3, <1>4, SwapShows
<1>6. UNCHANGED Contents
  <2>1. Contents[k.key] = ContentOf(store[k.key])
    BY <1>1, ContentsIs
  <2> QED
    BY <1>5, <2>1 DEF Threads!Store, Contents
<1> DEFINE blob == IF outcome = "swapped" THEN Migrated(k.seen) ELSE k.seen
<1>7. blob \in {None} \cup Blob /\ blob # None /\ Thread0(blob) = k.seen.thread /\ Loaded(c, blob)
  BY <1>2, <1>3, <1>4, NoneApart
<1> HIDE DEF blob
<1>8. /\ k.op = "fetch" => Reply(c, <<"log", k.seen.thread.log>>)
      /\ k.op = "meta" => Reply(c, <<"thread", k.seen.thread>>)
      /\ k.op \in {"append", "update"} => ClientsGood' /\ UNCHANGED Shown
      /\ <<"log", k.seen.thread.log>> \in Replies /\ <<"thread", k.seen.thread>> \in Replies
  BY <1>1, <1>7, LoadedDoes
<1>9. CASE k.op = "fetch"
  <2>1. Answered(k) = <<"log", k.seen.thread.log>>
    BY <1>1, <1>9 DEF Answered
  <2> QED
    BY <1>1, <1>5, <1>6, <1>8, <1>9, <2>1, ReplyAnswers, Silent
<1>10. CASE k.op = "meta"
  <2>1. Answered(k) = <<"thread", k.seen.thread>>
    BY <1>1, <1>10 DEF Answered
  <2> QED
    BY <1>1, <1>5, <1>6, <1>8, <1>10, <2>1, ReplyAnswers, Silent
<1>11. CASE k.op \in {"append", "update"}
  BY <1>5, <1>6, <1>8, <1>11, Silent
<1> QED
  BY <1>1, <1>9, <1>10, <1>11

\* What a writer writes is what the abstract operation makes of the thread.
LEMMA ChangedIs ==
  ASSUME NEW k \in Held, k.op \in {"append", "update"}
  PROVE  /\ Changed(k) \in Blob
         /\ ContentOf(Changed(k)) = Changed(k).thread
         /\ Changed(k).thread =
              IF k.op = "append"
                THEN [Thread0(k.seen) EXCEPT !.log = Append(@, k.arg)]
                ELSE [Thread0(k.seen) EXCEPT !.archived = (k.arg # 0)]
         /\ Acknowledged(k) \in Replies
         /\ Acknowledged(k) = IF k.op = "append" THEN <<"log", Changed(k).thread.log>> ELSE <<"ok">>
<1> DEFINE blob == Migrated(k.seen)
<1>1. blob \in Blob /\ blob.schema = "current" /\ Thread0(k.seen) = blob.thread /\ blob.thread \in Thread
  BY MigratedTyped DEF Held
<1>2. k.arg \in 0 .. MaxCalls
  BY DEF Held
<1> HIDE DEF blob
<1>3. CASE k.op = "append"
  <2> DEFINE new == [blob.thread EXCEPT !.log = Append(@, k.arg)]
  <2>1. new \in Thread /\ new.log \in Seq(0 .. MaxCalls)
    <3>1. \A log \in Seq(0 .. MaxCalls) : Append(log, k.arg) \in Seq(0 .. MaxCalls)
      BY <1>2
    <3>2. blob.thread.log \in Seq(0 .. MaxCalls)
      BY <1>1 DEF Thread
    <3>3. Append(blob.thread.log, k.arg) \in Seq(0 .. MaxCalls)
      BY <3>1, <3>2
    <3> QED
      BY <1>1, <3>3 DEF Thread
  <2>2. Changed(k) = [blob EXCEPT !.thread = new]
    BY <1>1, <1>3 DEF Changed, Blob, blob
  <2>3. Changed(k) \in Blob /\ Changed(k).thread = new
    BY <1>1, <2>1, <2>2 DEF Blob
  <2>4. ContentOf(Changed(k)) = new
    BY <1>1, <2>2, <2>3, NoneApart DEF Blob, ContentOf, Thread0, Migrated
  <2>5. Acknowledged(k) = <<"log", new.log>>
    BY <1>3, <2>3 DEF Acknowledged
  <2>6. <<"log", new.log>> \in Replies
    BY <2>1, ReplyTyped
  <2> QED
    BY <1>1, <1>3, <2>3, <2>4, <2>5, <2>6
<1>4. CASE k.op = "update"
  <2> DEFINE new == [blob.thread EXCEPT !.archived = (k.arg # 0)]
  <2>1. new \in Thread
    BY <1>1 DEF Thread
  <2>2. Changed(k) = [blob EXCEPT !.thread = new]
    BY <1>1, <1>4 DEF Changed, Blob, blob
  <2> QED
    BY <1>1, <1>4, <2>1, <2>2, NoneApart, ReplyTyped
      DEF Blob, Acknowledged, ContentOf, Thread0, Migrated
<1> QED
  BY <1>3, <1>4

\* The swap that wins is the operation: nobody changed the thread between the
\* load and the swap, or the swap would have lost.
LEMMA WriteImplements ==
  ASSUME StoreGood, ClientsGood, NEW c \in Client, Write(c)
  PROVE  Implements
<1> DEFINE k == client[c]
<1>1. k \in Held /\ HeldWell(k) /\ k.pc = "write" /\ k.key \in Session /\ UNCHANGED issued
      /\ k.op \in {"append", "update"} /\ (k.op = "update" => k.seen # None)
  BY DEF Write, ClientsGood, HeldWell
<1>2. Threads!Pending(c, k.op) /\ Shown[c].key = k.key /\ Shown[c].arg = k.arg
  BY <1>1, CallIsPending
<1>3. Changed(k) \in Blob /\ Acknowledged(k) \in Replies
  BY <1>1, ChangedIs
<1>4. PICK outcome \in Outcome :
        /\ Swap(k.key, k.seen, Changed(k), outcome)
        /\ CASE outcome = "swapped" -> Reply(c, Acknowledged(k))
             [] outcome = "failed" \/ k.left = 1 -> Reply(c, <<"error">>)
             [] OTHER -> client' = [client EXCEPT ![c].pc = "load", ![c].seen = None, ![c].left = @ - 1]
  BY DEF Write
<1>5. /\ StoreGood'
      /\ \/ UNCHANGED Contents /\ outcome # "swapped"
         \/ store[k.key] = k.seen /\ Threads!Store(k.key, ContentOf(Changed(k))) /\ outcome # "lost"
  BY <1>1, <1>3, <1>4, SwapShows
<1>6. CASE store[k.key] = k.seen /\ Threads!Store(k.key, ContentOf(Changed(k))) /\ outcome # "lost"
  <2>1. PICK value \in {Acknowledged(k), <<"error">>} : Reply(c, value)
    BY <1>4, <1>6 DEF Outcome
  <2>2. ClientsGood' /\ Threads!Answer(c, value)
    BY <1>1, <1>3, <2>1, ReplyAnswers, ReplyTyped
  <2>3. /\ Contents[k.key] = ContentOf(k.seen)
        /\ k.seen # None => Contents[k.key] # None
        /\ Thread0(k.seen) = IF Contents[k.key] = None THEN Fresh ELSE Contents[k.key]
    BY <1>1, <1>6, ContentsIs, ContentTyped
  <2>4. CASE k.op = "append"
    <3>1. /\ ContentOf(Changed(k)) = [Thread0(k.seen) EXCEPT !.log = Append(@, k.arg)]
          /\ Acknowledged(k) = <<"log", ContentOf(Changed(k)).log>>
      BY <1>1, <2>4, ChangedIs
    <3>2. Threads!Append1(c)
      BY <1>2, <1>6, <2>1, <2>2, <2>3, <2>4, <3>1 DEF Threads!Append1, Fresh, Threads!Fresh
    <3> QED
      BY <1>5, <2>2, <3>2 DEF Implements, Threads!Next
  <2>5. CASE k.op = "update"
    <3>1. /\ ContentOf(Changed(k)) = [Thread0(k.seen) EXCEPT !.archived = (k.arg # 0)]
          /\ Acknowledged(k) = <<"ok">>
      BY <1>1, <2>5, ChangedIs
    <3>2. Threads!Update(c)
      BY <1>1, <1>2, <1>6, <2>1, <2>2, <2>3, <2>5, <3>1 DEF Threads!Update
    <3> QED
      BY <1>5, <2>2, <3>2 DEF Implements, Threads!Next
  <2> QED
    BY <1>1, <2>4, <2>5
<1>7. CASE UNCHANGED Contents /\ Reply(c, <<"error">>)
  <2>1. ClientsGood' /\ Threads!Answer(c, <<"error">>)
    BY <1>1, <1>7, ReplyAnswers, ReplyTyped
  <2> QED
    BY <1>2, <1>5, <1>7, <2>1, Refused
<1>8. CASE /\ UNCHANGED Contents /\ k.left # 1
           /\ client' = [client EXCEPT ![c].pc = "load", ![c].seen = None, ![c].left = @ - 1]
  <2> DEFINE r == [k EXCEPT !.pc = "load", !.seen = None, !.left = @ - 1]
  <2>1. k.left \in 0 .. Retries /\ k.left # 0 /\ k.left - 1 \in 0 .. Retries /\ k.left - 1 # 0
    BY <1>1, <1>8, ConstantsAssumption DEF HeldWell, Held
  <2>2. client' = [client EXCEPT ![c] = r]
    BY <1>1, <1>8 DEF ClientsGood, Held
  <2>3. /\ r \in Held /\ r.pc = "load" /\ r.op = k.op /\ r.key = k.key /\ r.arg = k.arg
        /\ r.reply = k.reply /\ r.left = k.left - 1
    BY <1>1, <2>1 DEF Held
  <2>4. HeldWell(r) /\ Answered(r) = Answered(k)
    BY <1>1, <2>1, <2>3 DEF HeldWell, Idle, Calls, Answered
  <2>5. ClientsGood' /\ UNCHANGED Shown
    <3> HIDE DEF r
    <3> QED
      BY <1>1, <2>2, <2>3, <2>4, MoveIsSilent
  <2> QED
    BY <1>5, <1>8, <2>5, Silent
<1> QED
  BY <1>4, <1>5, <1>6, <1>7, <1>8

-----------------------------------------------------------------------------
(* The device's walk through the keys.                                     *)

LEMMA Bounds ==
  /\ Limit \in Nat \ {0} /\ Budget \in Nat \ {0} /\ PageSize \in Nat \ {0}
  /\ Session \subseteq Nat \ {0} /\ IsFiniteSet(Session) /\ None \notin Nat
BY ConstantsAssumption

\* Some threads have a first and a last one among them.
LEMMA FirstAndLast ==
  ASSUME NEW S \in SUBSET Session, S # {}
  PROVE  (\E x \in S : \A y \in S : x <= y) /\ (\E x \in S : \A y \in S : y <= x)
<1> DEFINE Below(x) == {y \in S : y < x}
           Above(x) == {y \in S : y > x}
           R == StrictSubsetOrdering(S)
<1>1. IsFiniteSet(S) /\ S \subseteq Nat
  BY Bounds, FS_Subset
<1>2. IsWellFoundedOn(R, SUBSET S)
  BY <1>1, FS_StrictSubsetOrderingWellFounded, FS_FiniteSubsetsOfFinite
<1>3. \E x \in S : \A y \in S : x <= y
  <2> DEFINE T == {Below(x) : x \in S}
  <2>1. T \subseteq SUBSET S /\ T # {}
    OBVIOUS
  <2>2. PICK u \in T : \A v \in T : <<v, u>> \notin R
    <3> HIDE DEF T, R
    <3> QED
      BY <1>2, <2>1, WFMin
  <2>3. PICK x \in S : u = Below(x)
    BY <2>2
  <2>4. ASSUME NEW y \in S, y < x PROVE FALSE
    <3>1. \A z \in S : z < y => z < x
      BY <1>1, <2>4
    <3>2. Below(y) \subseteq Below(x)
      BY <3>1, Zenon
    <3>3. y \in Below(x) /\ y \notin Below(y)
      BY <1>1, <2>4
    <3>4. Below(y) \in T /\ Below(y) \in SUBSET S /\ Below(x) \in SUBSET S
      OBVIOUS
    <3>5. Below(y) # Below(x)
      BY <3>3
    <3>6. <<Below(y), Below(x)>> \in R
      <4> HIDE DEF Below
      <4> QED
        BY <3>2, <3>4, <3>5 DEF StrictSubsetOrdering
    <3> QED
      BY <2>2, <2>3, <3>4, <3>6
  <2> QED
    BY <1>1, <2>4
<1>4. \E x \in S : \A y \in S : y <= x
  <2> DEFINE T == {Above(x) : x \in S}
  <2>1. T \subseteq SUBSET S /\ T # {}
    OBVIOUS
  <2>2. PICK u \in T : \A v \in T : <<v, u>> \notin R
    <3> HIDE DEF T, R
    <3> QED
      BY <1>2, <2>1, WFMin
  <2>3. PICK x \in S : u = Above(x)
    BY <2>2
  <2>4. ASSUME NEW y \in S, y > x PROVE FALSE
    <3>1. \A z \in S : z > y => z > x
      BY <1>1, <2>4
    <3>2. Above(y) \subseteq Above(x)
      BY <3>1, Zenon
    <3>3. y \in Above(x) /\ y \notin Above(y)
      BY <1>1, <2>4
    <3>4. Above(y) \in T /\ Above(y) \in SUBSET S /\ Above(x) \in SUBSET S
      OBVIOUS
    <3>5. Above(y) # Above(x)
      BY <3>3
    <3>6. <<Above(y), Above(x)>> \in R
      <4> HIDE DEF Above
      <4> QED
        BY <3>2, <3>4, <3>5 DEF StrictSubsetOrdering
    <3> QED
      BY <2>2, <2>3, <3>4, <3>6
  <2> QED
    BY <1>1, <2>4
<1> QED
  BY <1>3, <1>4

\* A page is the first keys: what it leaves out comes after all of it, and it
\* is empty only if there are none.
LEMMA PageIsFirst ==
  ASSUME NEW keys \in SUBSET Session, NEW n \in Nat \ {0}
  PROVE  /\ FirstOf(keys, n) \subseteq keys
         /\ keys # {} => FirstOf(keys, n) # {}
         /\ \A p \in FirstOf(keys, n), t \in keys \ FirstOf(keys, n) : p < t
<1> DEFINE Below(s) == {t \in keys : t < s}
<1>1. keys \subseteq Nat /\ IsFiniteSet(keys)
  BY Bounds, FS_Subset
<1>2. \A s \in keys : IsFiniteSet(Below(s)) /\ Cardinality(Below(s)) \in Nat
  <2> SUFFICES ASSUME NEW s \in keys
               PROVE  IsFiniteSet(Below(s)) /\ Cardinality(Below(s)) \in Nat
    OBVIOUS
  <2>1. Below(s) \in SUBSET keys
    OBVIOUS
  <2> QED
    BY <1>1, <2>1, FS_Subset, FS_CardinalityType
<1>3. \A s \in keys : s \in FirstOf(keys, n) <=> Cardinality(Below(s)) < n
  BY DEF FirstOf
<1>4. ASSUME keys # {} PROVE FirstOf(keys, n) # {}
  <2>1. PICK x \in keys : \A y \in keys : x <= y
    BY <1>4, FirstAndLast
  <2>2. \A y \in keys : ~(y < x)
    BY <1>1, <2>1
  <2>3. Below(x) = {}
    BY <2>2, Zenon
  <2>4. Cardinality(Below(x)) = 0
    BY <2>3, FS_EmptySet
  <2> QED
    BY <1>3, <2>4
<1>5. ASSUME NEW p \in FirstOf(keys, n), NEW t \in keys \ FirstOf(keys, n), ~(p < t)
      PROVE  FALSE
  <2>1. p \in keys /\ t < p
    BY <1>1, <1>5 DEF FirstOf
  <2>2. \A z \in keys : z < t => z < p
    BY <1>1, <2>1
  <2>3. Below(t) \in SUBSET Below(p)
    BY <2>2, Zenon
  <2> HIDE DEF Below
  <2>4. Cardinality(Below(t)) <= Cardinality(Below(p))
    BY <1>2, <2>1, <2>3, FS_Subset
  <2> QED
    BY <1>2, <1>3, <2>1, <2>4
<1> QED
  BY <1>4, <1>5 DEF FirstOf

LEMMA LastOfIs ==
  ASSUME NEW keys \in SUBSET Session, keys # {}
  PROVE  LastOf(keys) \in keys /\ \A t \in keys : t <= LastOf(keys)
BY FirstAndLast DEF LastOf

\* What a step may do to the watched threads.
LEMMA WatchedIs ==
  ASSUME WalkGood, Watched
  PROVE  /\ steady' \in SUBSET Session
         /\ walk'.on => \A s \in steady' : s \in Matching' /\ (walk.on => s \in steady /\ s \in Matching)
BY DEF Watched, WalkGood, Matching

\* The invocations do not touch the walk, only what it will find.
LEMMA ClientsKeepWalk ==
  ASSUME WalkGood, UNCHANGED walk, Watched
  PROVE  WalkGood'
BY WatchedIs DEF WalkGood

LEMMA WalkBeginsKeeps ==
  ASSUME WalkGood, NEW search \in BOOLEAN, WalkBegins(search), Watched
  PROVE  WalkGood'
<1>1. walk' = [on |-> TRUE, search |-> search, cursor |-> 0, page |-> {}, next |-> None,
               scanned |-> 0, found |-> 0, hits |-> {}, twice |-> FALSE]
  BY DEF WalkBegins, NoWalk
<1>2. walk'.on /\ walk'.cursor = 0 /\ walk'.page = {} /\ walk' \in Walks /\ WalkWell(walk')
  BY <1>1, Bounds DEF Walks, WalkWell, Behind
<1>3. \A s \in Session : Ahead(walk', s)
  BY <1>2, Bounds DEF Ahead
<1> QED
  BY <1>2, <1>3, WatchedIs DEF WalkGood

LEMMA WalkEndsKeeps ==
  ASSUME WalkGood, WalkEnds, Watched
  PROVE  WalkGood'
<1>1. walk' = NoWalk /\ walk' \in Walks /\ WalkWell(walk')
  BY Bounds DEF WalkEnds, NoWalk, Walks, WalkWell, Behind
<1> QED
  BY <1>1, WatchedIs DEF WalkGood, NoWalk

\* A page is fetched: no watched thread lies between the cursor and the page,
\* nor between the page and the next cursor.
LEMMA FetchPageKeeps ==
  ASSUME WalkGood, FetchPage, Watched
  PROVE  WalkGood'
<1> DEFINE keys == KeysAfter(walk.cursor)
           page == FirstOf(keys, IF walk.search THEN PageSize ELSE Limit)
<1>1. walk \in Walks /\ WalkWell(walk) /\ walk.on /\ walk.page = {} /\ walk.cursor # None /\ walk.cursor \in Nat
  BY DEF WalkGood, FetchPage, Walks
<1>2. keys \in SUBSET Session /\ \A s \in keys : s > walk.cursor
  BY DEF KeysAfter
<1>3. /\ page \subseteq keys /\ (keys # {} => page # {})
      /\ \A p \in page, t \in keys \ page : p < t
  <2>1. (IF walk.search THEN PageSize ELSE Limit) \in Nat \ {0}
    BY Bounds
  <2> HIDE DEF keys
  <2> QED
    BY <1>2, <2>1, PageIsFirst
<1>4. /\ steady' \in SUBSET Session
      /\ \A s \in steady' : s \in Matching' /\ (s \in walk.hits \/ s \in keys)
  <2>1. \A s \in steady' : s \in steady /\ s \in Matching /\ s \in Session
    BY <1>1, WatchedIs DEF Watched
  <2>2. \A s \in steady : s \in walk.hits \/ s > walk.cursor
    BY <1>1 DEF WalkGood, Ahead
  <2>3. walk'.on
    BY <1>1 DEF FetchPage, Walks
  <2> QED
    BY <2>1, <2>2, <2>3, WatchedIs DEF Matching, KeysAfter
<1> HIDE DEF keys, page
<1>5. CASE page = {}
  <2>1. walk' = [walk EXCEPT !.cursor = None]
    BY <1>5 DEF FetchPage, keys, page
  <2>2. /\ walk' \in Walks /\ walk'.cursor = None /\ walk'.page = {} /\ walk'.hits = walk.hits
        /\ walk'.next = walk.next /\ walk'.search = walk.search
        /\ walk'.found = walk.found /\ walk'.scanned = walk.scanned
    BY <1>1, <2>1 DEF Walks
  <2>3. WalkWell(walk')
    BY <1>1, <2>2 DEF WalkWell, Behind
  <2> QED
    BY <1>3, <1>4, <1>5, <2>2, <2>3 DEF WalkGood
<1>6. CASE page # {}
  <2> DEFINE next == IF page = keys THEN None ELSE LastOf(page)
  <2>1. walk' = [walk EXCEPT !.page = page, !.next = next]
    BY <1>6 DEF FetchPage, keys, page
  <2>2. LastOf(page) \in page /\ \A t \in page : t <= LastOf(page)
    BY <1>2, <1>3, <1>6, LastOfIs
  <2>3. next \in {None} \cup Session
    BY <1>2, <1>3, <2>2
  <2>4. /\ walk' \in Walks /\ walk'.cursor = walk.cursor /\ walk'.page = page /\ walk'.hits = walk.hits
        /\ walk'.next = next /\ walk'.search = walk.search
        /\ walk'.found = walk.found /\ walk'.scanned = walk.scanned
    BY <1>1, <1>2, <1>3, <2>1, <2>3 DEF Walks
  <2>5. \A s \in walk.hits : \A t \in page : s < t
    <3>1. \A s \in walk.hits : s <= walk.cursor /\ s \in Nat
      BY <1>1, Bounds DEF WalkWell, Behind, Walks
    <3>2. \A t \in page : t > walk.cursor /\ t \in Nat
      BY <1>2, <1>3, Bounds
    <3> QED
      BY <1>1, <3>1, <3>2
  <2>6. WalkWell(walk')
    BY <1>1, <1>6, <2>2, <2>4, <2>5 DEF WalkWell, Behind
  <2>7. \A s \in keys : s \in page \/ (next # None /\ s > next)
    BY <1>2, <1>3, <2>2, Bounds
  <2>8. \A s \in steady' : s \in walk'.hits \/ Ahead(walk', s)
    BY <1>4, <1>6, <2>4, <2>7 DEF Ahead
  <2> HIDE DEF next
  <2> QED
    BY <1>4, <2>4, <2>6, <2>8 DEF WalkGood
<1> QED
  BY <1>5, <1>6

\* Where a call goes on after a thread, nothing is passed over.
LEMMA AfterIsWell ==
  ASSUME NEW w \in Walks, NEW s \in Session,
         \A t \in w.page : s < t,
         w.next # None => s <= w.next /\ \A t \in w.page : t <= w.next,
         \A h \in w.hits : h <= s,
         w.search => w.found <= Limit /\ w.scanned <= Budget,
         w.cursor # None
  PROVE  /\ After(w, s) \in Walks /\ WalkWell(After(w, s))
         /\ After(w, s).on = w.on /\ After(w, s).hits = w.hits
         /\ \A t \in Session : t \in w.page \/ (w.next # None /\ t > w.next) => Ahead(After(w, s), t)
<1>1. s \in Nat /\ w.page \subseteq Nat /\ w.hits \subseteq Nat /\ (w.next # None => w.next \in Nat)
  BY Bounds DEF Walks
<1>2. \A cursor \in {None} \cup Session :
        /\ CallEnds(w, cursor) \in Walks /\ CallEnds(w, cursor).page = {}
        /\ CallEnds(w, cursor).next = None /\ CallEnds(w, cursor).cursor = cursor
        /\ CallEnds(w, cursor).on = w.on /\ CallEnds(w, cursor).hits = w.hits
        /\ CallEnds(w, cursor).found = 0 /\ CallEnds(w, cursor).scanned = 0
  BY Bounds DEF CallEnds, Walks
<1>3. CASE w.search /\ (w.found = Limit \/ w.scanned = Budget)
  <2>1. After(w, s) = CallEnds(w, s)
    BY <1>3 DEF After
  <2>2. WalkWell(CallEnds(w, s))
    BY <1>1, <1>2, Bounds DEF WalkWell, Behind
  <2>3. \A t \in Session : t \in w.page \/ (w.next # None /\ t > w.next) => Ahead(CallEnds(w, s), t)
    BY <1>1, <1>2, Bounds DEF Ahead
  <2> QED
    BY <1>2, <2>1, <2>2, <2>3
<1>4. CASE ~(w.search /\ (w.found = Limit \/ w.scanned = Budget)) /\ w.page # {}
  <2>1. After(w, s) = w
    BY <1>4 DEF After
  <2>2. \A h \in w.hits : \A t \in w.page : h < t
    BY <1>1
  <2>3. w.search => w.found < Limit /\ w.scanned < Budget
    BY <1>4, Bounds DEF Walks
  <2>4. WalkWell(w)
    BY <1>4, <2>2, <2>3 DEF WalkWell, Behind
  <2> QED
    BY <1>4, <2>1, <2>4 DEF Ahead
<1>5. CASE /\ ~(w.search /\ (w.found = Limit \/ w.scanned = Budget))
           /\ w.page = {} /\ w.search /\ w.next # None
  <2> DEFINE v == [w EXCEPT !.cursor = w.next, !.next = None]
  <2>1. After(w, s) = v
    BY <1>5 DEF After
  <2>2. v \in Walks /\ v.page = {} /\ v.next = None /\ v.cursor = w.next /\ v.on = w.on
        /\ v.hits = w.hits /\ v.found = w.found /\ v.scanned = w.scanned
    BY <1>1, <1>5 DEF Walks
  <2> HIDE DEF v
  <2>3. w.found < Limit /\ w.scanned < Budget
    BY <1>5, Bounds DEF Walks
  <2>4. \A h \in w.hits : h <= w.next
    BY <1>1, <1>5
  <2>5. WalkWell(v)
    BY <2>2, <2>3, <2>4 DEF WalkWell, Behind
  <2> QED
    BY <1>5, <2>1, <2>2, <2>5 DEF Ahead
<1>6. CASE /\ ~(w.search /\ (w.found = Limit \/ w.scanned = Budget))
           /\ w.page = {} /\ ~(w.search /\ w.next # None)
  <2>1. After(w, s) = CallEnds(w, w.next) /\ w.next \in {None} \cup Session
    BY <1>6 DEF After, Walks
  <2>2. \A h \in w.hits : w.next # None => h <= w.next
    BY <1>1
  <2>3. WalkWell(CallEnds(w, w.next))
    BY <1>2, <2>1, <2>2, Bounds DEF WalkWell, Behind
  <2>4. \A t \in Session : t \in w.page \/ (w.next # None /\ t > w.next) => Ahead(CallEnds(w, w.next), t)
    BY <1>2, <1>6, <2>1 DEF Ahead
  <2> QED
    BY <1>2, <2>1, <2>3, <2>4
<1> QED
  BY <1>3, <1>4, <1>5, <1>6

\* A watched thread that is loaded is shown: it matches at this moment too.
LEMMA ScanThreadKeeps ==
  ASSUME WalkGood, ScanThread, Watched
  PROVE  WalkGood'
<1> DEFINE s   == CHOOSE k \in walk.page : \A t \in walk.page : k <= t
           hit == Hit(s)
           w   == [walk EXCEPT !.page    = @ \ {s},
                               !.scanned = @ + 1,
                               !.found   = IF hit THEN @ + 1 ELSE @,
                               !.hits    = IF hit THEN @ \cup {s} ELSE @,
                               !.twice   = @ \/ (hit /\ s \in walk.hits)]
<1>1. walk \in Walks /\ WalkWell(walk) /\ walk.page # {} /\ walk.page \in SUBSET Session /\ walk.cursor # None
  BY DEF WalkGood, ScanThread, Walks, WalkWell
<1>2. s \in walk.page /\ s \in Session /\ \A t \in walk.page : s <= t
  BY <1>1, FirstAndLast
<1>3. walk' = After(w, s)
  BY DEF ScanThread
<1> HIDE DEF s
<1>4. \A h \in walk.hits : \A t \in walk.page : h < t
  BY <1>1 DEF WalkWell, Behind
<1>5. s \notin walk.hits
  <2>1. s \in Nat
    BY <1>2, Bounds
  <2> QED
    BY <1>2, <1>4, <2>1
<1>6. /\ w \in Walks /\ w.page = walk.page \ {s} /\ w.next = walk.next /\ w.cursor = walk.cursor
      /\ w.on = walk.on /\ w.search = walk.search
      /\ w.hits = (IF hit THEN walk.hits \cup {s} ELSE walk.hits)
      /\ w.scanned = walk.scanned + 1 /\ w.found \in {walk.found, walk.found + 1}
  <2> DEFINE found == IF hit THEN walk.found + 1 ELSE walk.found
             hits  == IF hit THEN walk.hits \cup {s} ELSE walk.hits
             twice == walk.twice \/ (hit /\ s \in walk.hits)
  <2>1. w = [walk EXCEPT !.page = walk.page \ {s}, !.scanned = walk.scanned + 1,
                         !.found = found, !.hits = hits, !.twice = twice]
    BY Zenon
  <2>2. twice = FALSE
    BY <1>1, <1>5 DEF Walks
  <2>3. found \in Nat /\ found \in {walk.found, walk.found + 1} /\ hits \in SUBSET Session
    BY <1>1, <1>2 DEF Walks
  <2>4. walk.page \ {s} \in SUBSET Session /\ walk.scanned + 1 \in Nat
    BY <1>1 DEF Walks
  <2> HIDE DEF w, found, hits, twice
  <2>5. w \in Walks /\ w.page = walk.page \ {s} /\ w.next = walk.next /\ w.cursor = walk.cursor
        /\ w.on = walk.on /\ w.search = walk.search /\ w.hits = hits
        /\ w.scanned = walk.scanned + 1 /\ w.found = found
    BY <1>1, <2>1, <2>2, <2>3, <2>4 DEF Walks
  <2> QED
    BY <2>3, <2>5 DEF hits
<1> HIDE DEF w
<1>7. \A t \in w.page : s < t
  <2>1. \A t \in walk.page : t \in Nat /\ s \in Nat
    BY <1>1, <1>2, Bounds
  <2> QED
    BY <1>2, <1>6, <2>1
<1>8. w.next # None => s <= w.next /\ \A t \in w.page : t <= w.next
  BY <1>1, <1>2, <1>6 DEF WalkWell
<1>9. \A h \in w.hits : h <= s
  BY <1>1, <1>2, <1>4, <1>6, Bounds DEF Walks
<1>10. w.search => w.found <= Limit /\ w.scanned <= Budget
  BY <1>1, <1>6, Bounds DEF WalkWell, Walks
<1>11. /\ walk' \in Walks /\ WalkWell(walk') /\ walk'.on = walk.on /\ walk'.hits = w.hits
       /\ \A t \in Session : t \in w.page \/ (w.next # None /\ t > w.next) => Ahead(walk', t)
  BY <1>1, <1>2, <1>3, <1>6, <1>7, <1>8, <1>9, <1>10, AfterIsWell
<1>12. ASSUME walk'.on, NEW u \in steady'
       PROVE  u \in Matching' /\ (u \in walk'.hits \/ Ahead(walk', u))
  <2>1. u \in Matching' /\ u \in Session /\ u \in steady /\ u \in Matching
    BY <1>11, <1>12, WatchedIs
  <2>2. u \in walk.hits \/ u \in walk.page \/ (walk.next # None /\ u > walk.next)
    BY <1>1, <1>11, <1>12, <2>1 DEF WalkGood, Ahead
  <2>3. u = s => hit
    BY <2>1 DEF Matching
  <2> HIDE DEF hit
  <2> QED
    BY <1>6, <1>11, <2>1, <2>2, <2>3
<1> QED
  BY <1>11, <1>12, WatchedIs DEF WalkGood

\* The walk heals what it loads, and the callers see nothing of it.
LEMMA ScanThreadImplements ==
  ASSUME StoreGood, ClientsGood, WalkGood, ScanThread
  PROVE  Implements
<1> DEFINE s == CHOOSE k \in walk.page : \A t \in walk.page : k <= t
<1>1. ClientsGood' /\ UNCHANGED Shown
  BY DEF ScanThread, ClientsGood, Shown
<1>2. s \in Session
  <2>1. walk.page \in SUBSET Session /\ walk.page # {}
    BY DEF WalkGood, Walks, ScanThread
  <2> QED
    BY <2>1, FirstAndLast
<1>3. store' = store \/ (Old(s) /\ store' = [store EXCEPT ![s] = Migrated(store[s])])
  BY DEF ScanThread, StoreGood
<1> HIDE DEF s
<1>4. CASE store' = store
  BY <1>1, <1>4, Silent DEF StoreGood, Contents
<1>5. CASE Old(s) /\ store' = [store EXCEPT ![s] = Migrated(store[s])]
  <2>1. store[s] \in Blob /\ store[s].schema = "old" /\ Contents[s] = ContentOf(store[s])
    BY <1>2, <1>5, ContentsIs DEF Old, Exists
  <2>2. Migrated(store[s]) \in Blob /\ ContentOf(Migrated(store[s])) = ContentOf(store[s])
    BY <2>1, MigratedTyped, HealingIsInvisible
  <2>3. StoreGood' /\ Threads!Store(s, Contents[s])
    BY <1>2, <1>5, <2>1, <2>2, WriteShows
  <2>4. UNCHANGED Contents
    BY <2>3 DEF Threads!Store, Contents
  <2> QED
    BY <1>1, <2>3, <2>4, Silent
<1> QED
  BY <1>3, <1>4, <1>5

-----------------------------------------------------------------------------
(* The theorems.                                                           *)

LEMMA InitInv == Init => Inv /\ Threads!Init
<1> SUFFICES ASSUME Init PROVE Inv /\ Threads!Init
  OBVIOUS
<1>1. PICK found \in [Key -> {None} \cup {Stored(v) : v \in Schemas}] :
        store = [s \in Session |-> IF s \in Key THEN found[s] ELSE Stored("current")]
  BY DEF Init
<1>2. StoreGood
  <2>1. \A s \in Session : store[s] \in {None} \cup Blob
    BY <1>1, ConstantsAssumption, BlankTyped
  <2> QED
    BY <1>1, <2>1 DEF StoreGood
<1>3. ClientsGood
  <2>1. Idle \in Held /\ HeldWell(Idle)
    BY ConstantsAssumption, NoneApart DEF Idle, Held, HeldWell
  <2> QED
    BY <2>1, ConstantsAssumption DEF Init, ClientsGood
<1>4. WalkGood
  BY Bounds DEF Init, WalkGood, NoWalk, Walks, WalkWell, Behind
<1>5. Contents \in [Session -> {None} \cup Threads!Thread]
  <2>1. \A s \in Session : Contents[s] \in {None} \cup Thread
    BY <1>2, ContentsIs, ContentTyped
  <2> QED
    BY <2>1 DEF Contents, Thread, Threads!Thread
<1>6. Shown = [c \in Client |-> None]
  BY DEF Init, Shown, ShownOf
<1> QED
  BY <1>2, <1>3, <1>4, <1>5, <1>6 DEF Inv, Threads!Init

\* Every step keeps the invariant and is a step of ThreadStore or none.
LEMMA StepKeeps == Inv /\ [Next]_vars => Inv' /\ Implements
<1> SUFFICES ASSUME Inv, [Next]_vars PROVE Inv' /\ Implements
  OBVIOUS
<1> USE DEF Inv
<1>1. ASSUME NEW c \in Client, Request(c) \/ Step(c), Watched
      PROVE  Inv' /\ Implements
  <2>1. Implements
    BY <1>1, RequestImplements, CheckImplements, EraseImplements, LoadImplements,
       HealImplements, WriteImplements, CreateImplements, FinishImplements DEF Step
  <2>2. UNCHANGED walk
    BY <1>1 DEF Request, Begin, Step, Check, Erase, Load, Heal, Write, Create, Finish
  <2> QED
    BY <1>1, <2>1, <2>2, ClientsKeepWalk DEF Implements
<1>2. ASSUME UNCHANGED <<store, client, issued>>
      PROVE  Implements
  BY <1>2, Silent DEF StoreGood, ClientsGood, Contents, Shown
<1>3. ASSUME NEW search \in BOOLEAN, WalkBegins(search), Watched
      PROVE  Inv' /\ Implements
  BY <1>2, <1>3, WalkBeginsKeeps DEF WalkBegins, Implements
<1>4. CASE FetchPage /\ Watched
  BY <1>2, <1>4, FetchPageKeeps DEF FetchPage, Implements
<1>5. CASE WalkEnds /\ Watched
  BY <1>2, <1>5, WalkEndsKeeps DEF WalkEnds, Implements
<1>6. CASE ScanThread /\ Watched
  BY <1>6, ScanThreadImplements, ScanThreadKeeps DEF Implements
<1>7. CASE UNCHANGED vars
  <2>1. WalkGood'
    BY <1>7 DEF vars, WalkGood, Matching, Hit, Visible, Exists
  <2> QED
    BY <1>2, <1>7, <2>1 DEF vars, Implements
<1> QED
  BY <1>1, <1>3, <1>4, <1>5, <1>6, <1>7 DEF Next

LEMMA Invariance == Spec => []Inv
<1>1. Inv /\ [Next]_vars => Inv'
  BY StepKeeps
<1> QED
  BY InitInv, <1>1, PTL DEF Spec

\* The store, the invocations and the walk keep their types: the capsule never
\* counts a swap it may no longer try, and a search never outruns its limit of
\* results or its budget of keys within a call (modify_atomic, do_search).
THEOREM TypeCorrect == Spec => []TypeOK
<1>1. Inv => TypeOK
  BY DEF Inv, StoreGood, ClientsGood, WalkGood, WalkWell, Walks, Held, HeldWell, TypeOK
<1> QED
  BY Invariance, <1>1, PTL

\* A walk through the pages misses no thread that was there and not archived
\* all the while, and shows none twice, for any limits, page sizes and budgets
\* and whatever is written between its calls (do_list, do_search).
THEOREM WalksAreComplete == Spec => []WalkIsComplete
<1>1. Inv => WalkIsComplete
  BY DEF Inv, WalkGood, WalkWell, Walks, Ahead, WalkIsComplete
<1> QED
  BY Invariance, <1>1, PTL

\* The capsule implements ThreadStore: for any threads, invocations, tries of a
\* swap and failures of the store, every call takes effect once, at one instant
\* between its request and its reply (load, modify_atomic, modify_existing,
\* do_get_meta, do_delete, handle_clear).
THEOREM Refinement == Spec => ImplementsThreadStore
<1>1. Init => Threads!Init
  BY InitInv
<1>2. Inv /\ [Next]_vars => [Threads!Next]_(Threads!vars)
  BY StepKeeps DEF Implements
<1> QED
  BY Invariance, <1>1, <1>2, PTL DEF Spec, ImplementsThreadStore, Threads!Spec
=============================================================================
