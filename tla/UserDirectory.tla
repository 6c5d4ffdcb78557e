---------------------------- MODULE UserDirectory ----------------------------
(***************************************************************************)
(* The directory of capsules/capsule-users: user records, the index of     *)
(* their names, the platform accounts linked to them and the nicknames     *)
(* these accounts have in contexts, each under a key of its own.           *)
(*                                                                         *)
(* An operation reads first and then makes its writes one by one.  A write *)
(* may fail, and the capsule may be stopped, between any two of them: the  *)
(* rest is then never made.  Requests are handled one after the other.     *)
(***************************************************************************)
EXTENDS Naturals, Sequences, FiniteSets, SequencesExt

CONSTANTS
  Handle,      \* platform accounts: platform, instance and platform_user_id
  Context,     \* contexts, such as rooms, an account has nicknames in
  Name,        \* display names of users, trimmed and not blank
  Nick,        \* names of accounts, in a link or in a context
  PublicKey,
  None,
  MaxUsers,    \* bound: users ever created
  MaxCuts      \* bound: operations cut off

ASSUME ConstantsAssumption ==
  /\ \A S \in {Handle, Context, Name, Nick, PublicKey} : IsFiniteSet(S) /\ None \notin S
  /\ MaxUsers \in Nat /\ MaxCuts \in Nat

\* None is neither a uuid nor a record of a user or of a link.
ASSUME NoneIsApart ==
  /\ None \notin 1..MaxUsers
  /\ \A n \in Name \cup {None}, k \in PublicKey \cup {None} : [name |-> n, key |-> k] # None
  /\ \A u \in 1..MaxUsers, n \in Nick \cup {None} : [user |-> u, name |-> n] # None

\* Uuids, in the order they are drawn.
User == 1..MaxUsers

UserKey    == {"user"} \X User
IndexKey   == {"name"} \X Name
LinkKey    == {"link"} \X Handle
ContextKey == {"context"} \X (Handle \X Context)
Key        == UserKey \cup IndexKey \cup LinkKey \cup ContextKey

VARIABLES
  kv,      \* the capsule's keys, None where there is nothing
  job,     \* the operation under way and the writes it has still to make
  drawn,   \* uuids drawn so far
  cuts,    \* operations cut off so far
  torn     \* history: accounts whose user's deletion was cut off after
           \* their link was removed

vars == <<kv, job, drawn, cuts, torn>>

Idle == [op |-> None, writes |-> <<>>]

Init ==
  /\ kv = [k \in Key |-> None]
  /\ job = Idle
  /\ drawn = 0 /\ cuts = 0 /\ torn = {}

AstridUser(u)    == kv[<<"user", u>>]
FrontendLink(h)  == kv[<<"link", h>>]
Named(n)         == kv[<<"name", n>>]
Overlay(h, c)    == kv[<<"context", <<h, c>>>>]

Put(key, value) == <<[key |-> key, value |-> value]>>
Delete(key)     == Put(key, None)
DeleteAll(keys) == {[i \in DOMAIN s |-> Delete(s[i])[1]] : s \in SetToSeqs(keys)}

Index(n, u) == IF n = None THEN <<>> ELSE Put(<<"name", n>>, u)

\* The index's entry of u's name, if it is still u's.
DropIndex(u) ==
  LET n == AstridUser(u).name
  IN  IF n # None /\ Named(n) = u THEN Delete(<<"name", n>>) ELSE <<>>

Overlays(h) == {k \in ContextKey : k[2][1] = h /\ kv[k] # None}

-----------------------------------------------------------------------------
(* The operations, up to their first write.                                *)

Start(op, writes) ==
  /\ job = Idle
  /\ job' = [op |-> op, writes |-> writes]
  /\ UNCHANGED <<kv, cuts, torn>>

Keep == UNCHANGED drawn

CreateUser(n) ==
  /\ drawn < MaxUsers /\ drawn' = drawn + 1
  /\ Start("create", Put(<<"user", drawn'>>, [name |-> n, key |-> None]) \o Index(n, drawn'))

SetDisplayName(u, n) ==
  /\ AstridUser(u) # None /\ Keep
  /\ Start("name", DropIndex(u)
                     \o Put(<<"user", u>>, [AstridUser(u) EXCEPT !.name = n])
                     \o Index(n, u))

SetPublicKey(u, k) ==
  /\ AstridUser(u) # None /\ Keep
  /\ Start("key", Put(<<"user", u>>, [AstridUser(u) EXCEPT !.key = k]))

\* A link that is there already is written over.
Link(h, u, nick) ==
  /\ AstridUser(u) # None /\ Keep
  /\ Start("link", Put(<<"link", h>>, [user |-> u, name |-> nick]))

Unlink(h) ==
  /\ FrontendLink(h) # None /\ Keep
  /\ \E first \in DeleteAll(Overlays(h)) :
       Start("unlink", first \o Delete(<<"link", h>>))

LinksOf(u) == {h \in Handle : FrontendLink(h) # None /\ FrontendLink(h).user = u}

DeleteUserFirst(u) ==
  /\ AstridUser(u) # None /\ Keep
  /\ \E links \in DeleteAll({<<"link", h>> : h \in LinksOf(u)}),
        overlays \in DeleteAll(UNION {Overlays(h) : h \in LinksOf(u)}) :
       Start("delete", Delete(<<"user", u>>) \o links \o overlays \o DropIndex(u))

\* Links first, then the overlays of these, in whatever order they are listed;
\* index and record last.
DeleteUser(u) ==
  /\ AstridUser(u) # None /\ Keep
  /\ \E links \in DeleteAll({<<"link", h>> : h \in LinksOf(u)}),
        overlays \in DeleteAll(UNION {Overlays(h) : h \in LinksOf(u)}) :
       Start("delete", links \o overlays \o DropIndex(u) \o Delete(<<"user", u>>))

SetContext(h, c, nick) ==
  /\ FrontendLink(h) # None /\ Keep
  /\ Start("context", Put(<<"context", <<h, c>>>>, nick))

\* Of an overlay that is there, whether its link is or not.
ClearContext(h, c) ==
  /\ Overlay(h, c) # None /\ Keep
  /\ Start("clear", Delete(<<"context", <<h, c>>>>))

-----------------------------------------------------------------------------
(* The writes.                                                             *)

Write ==
  /\ job.writes # <<>>
  /\ kv' = [kv EXCEPT ![Head(job.writes).key] = Head(job.writes).value]
  /\ job' = IF Len(job.writes) = 1 THEN Idle ELSE [job EXCEPT !.writes = Tail(@)]
  /\ UNCHANGED <<drawn, cuts, torn>>

\* Accounts whose link is gone and whose overlays are not.
Leaving ==
  IF job.op # "delete" THEN {}
  ELSE {h \in Handle : FrontendLink(h) = None
          /\ \E w \in Range(job.writes) : w.key[1] = "context" /\ w.key[2][1] = h}

\* A write fails and its operation returns, or the capsule is stopped.
CutOff ==
  /\ job # Idle /\ cuts < MaxCuts
  /\ job' = Idle /\ cuts' = cuts + 1
  /\ torn' = torn \cup Leaving
  /\ UNCHANGED <<kv, drawn>>

Next ==
  \/ \E n \in Name \cup {None} : CreateUser(n)
  \/ \E u \in User :
       \/ \E n \in Name \cup {None} : SetDisplayName(u, n)
       \/ \E k \in PublicKey \cup {None} : SetPublicKey(u, k)
       \/ DeleteUser(u)
       \/ \E h \in Handle, nick \in Nick \cup {None} : Link(h, u, nick)
  \/ \E h \in Handle :
       \/ Unlink(h)
       \/ \E c \in Context : ClearContext(h, c) \/ \E nick \in Nick : SetContext(h, c, nick)
  \/ Write \/ CutOff

Spec == Init /\ [][Next]_vars

-----------------------------------------------------------------------------

\* resolve: the account's user, and the name that is nearest to the context.
Resolve(h, c) ==
  IF FrontendLink(h) = None THEN [user |-> None, name |-> None]
  ELSE LET user == AstridUser(FrontendLink(h).user)
       IN  [user |-> user,
            name |-> CASE Overlay(h, c) # None        -> Overlay(h, c)
                       [] FrontendLink(h).name # None -> FrontendLink(h).name
                       [] OTHER -> IF user = None THEN None ELSE user.name]

\* The four kinds of keys agree at every point an operation may be cut off at:
\* an account resolves to a user that exists, the index leads to a user of that
\* name, and an account that is not linked has a nickname left only if the
\* deletion of its user was cut off, or has not got to it yet (the orders in
\* which unlink, set_display_name and delete_user write).
ReferencesHold ==
  /\ \A h \in Handle, c \in Context :
       FrontendLink(h) # None => Resolve(h, c).user # None
  /\ \A n \in Name :
       Named(n) # None => AstridUser(Named(n)) # None /\ AstridUser(Named(n)).name = n
  /\ \A h \in Handle :
       FrontendLink(h) = None /\ Overlays(h) # {} => h \in torn \cup Leaving
=============================================================================
