---------------------------- MODULE ThreadStore ----------------------------
(***************************************************************************)
(* What the session capsule promises its callers: a store of conversation  *)
(* threads in which every call takes effect at one instant between its     *)
(* request and its reply, and an append only ever adds to a thread.        *)
(***************************************************************************)
EXTENDS Naturals, Sequences

CONSTANTS Session, Client, MaxCalls, None

VARIABLES
  threads,  \* each thread: None, or what is stored of it
  calls     \* each caller: None, or its request and, once it has one, its reply

vars == <<threads, calls>>

Op    == {"append", "fetch", "meta", "update", "delete", "clear"}
Thread == [log : Seq(0 .. MaxCalls), parent : {None} \cup Session, archived : BOOLEAN]
Fresh  == [log |-> <<>>, parent |-> None, archived |-> FALSE]

\* `arg': the message of an append, the archived flag of an update.
Request == [op : Op, key : Session, arg : 0 .. MaxCalls, reply : {None}]

Init ==
  /\ threads \in [Session -> {None} \cup Thread]
  /\ calls = [c \in Client |-> None]

Call(c) ==
  /\ calls[c] = None
  /\ \E r \in Request : calls' = [calls EXCEPT ![c] = r]
  /\ UNCHANGED threads

Pending(c, op) == calls[c] # None /\ calls[c].op = op /\ calls[c].reply = None
Answer(c, value) == calls' = [calls EXCEPT ![c].reply = value]
Store(s, thread) == threads' = [threads EXCEPT ![s] = thread]

\* An append adds its message at the end, of a new thread if there was none;
\* the caller may not come to know it.
Append1(c) ==
  /\ Pending(c, "append")
  /\ LET s   == calls[c].key
         old == IF threads[s] = None THEN Fresh ELSE threads[s]
         new == [old EXCEPT !.log = Append(@, calls[c].arg)]
     IN  Store(s, new) /\ (Answer(c, <<"log", new.log>>) \/ Answer(c, <<"error">>))

\* A transcript is that of one instant.
Fetch(c) ==
  /\ Pending(c, "fetch")
  /\ Answer(c, <<"log", IF threads[calls[c].key] = None THEN <<>> ELSE threads[calls[c].key].log>>)
  /\ UNCHANGED threads

\* So is a summary; of a thread that is being deleted it may be an empty one.
Meta(c) ==
  /\ Pending(c, "meta")
  /\ LET t == threads[calls[c].key]
     IN  Answer(c, <<"thread", IF t = None THEN Fresh ELSE t>>) \/ (t = None /\ Answer(c, <<"absent">>))
  /\ UNCHANGED threads

\* What cannot be read may be reported as if it were not there.
ReadFails(c) ==
  /\ \/ Pending(c, "fetch") /\ Answer(c, <<"log", <<>>>>)
     \/ Pending(c, "meta") /\ Answer(c, <<"thread", Fresh>>)
     \/ Pending(c, "update") /\ Answer(c, <<"absent">>)
  /\ UNCHANGED threads

\* An update changes the flag of a thread there is, and creates none.
Update(c) ==
  /\ Pending(c, "update")
  /\ LET s == calls[c].key
     IN  \/ threads[s] = None /\ Answer(c, <<"absent">>) /\ UNCHANGED threads
         \/ /\ threads[s] # None
            /\ Store(s, [threads[s] EXCEPT !.archived = (calls[c].arg # 0)])
            /\ (Answer(c, <<"ok">>) \/ Answer(c, <<"error">>))

\* Of two deletes at once both may report that they deleted the thread.
Delete(c) ==
  /\ Pending(c, "delete")
  /\ \/ threads[calls[c].key] = None /\ Answer(c, <<"absent">>) /\ UNCHANGED threads
     \/ Store(calls[c].key, None) /\ (Answer(c, <<"ok">>) \/ Answer(c, <<"error">>))

\* Clearing makes a thread that points back to the old one, which stays.
Clear(c) ==
  /\ Pending(c, "clear")
  /\ \E s \in Session :
       /\ threads[s] = None
       /\ Store(s, [Fresh EXCEPT !.parent = calls[c].key])
       /\ (Answer(c, <<"new", s>>) \/ Answer(c, <<"error">>))

\* A call may fail and do nothing.
Refuse(c) ==
  /\ calls[c] # None /\ calls[c].reply = None
  /\ Answer(c, <<"error">>) /\ UNCHANGED threads

Return(c) ==
  /\ calls[c] # None /\ calls[c].reply # None
  /\ calls' = [calls EXCEPT ![c] = None]
  /\ UNCHANGED threads

Next == \E c \in Client :
  \/ Call(c) \/ Return(c) \/ Refuse(c) \/ ReadFails(c)
  \/ Append1(c) \/ Fetch(c) \/ Meta(c) \/ Update(c) \/ Delete(c) \/ Clear(c)

Spec == Init /\ [][Next]_vars
=============================================================================
