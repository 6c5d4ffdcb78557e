------------------------ MODULE UserDirectoryProofs ------------------------
(***************************************************************************)
(* The directory's four kinds of keys refer to each other.  UserDirectory  *)
(* makes the writes of an operation one by one, any of which may be the    *)
(* last; this module proves that they agree at every such point, for any   *)
(* number of users, accounts, contexts and names.                          *)
(*                                                                         *)
(* The agreement alone is not inductive: that the next write keeps it      *)
(* depends on the writes that were made before.  WritesGood says of each   *)
(* kind of operation what is true of the keys while these of its writes    *)
(* are still to be made.                                                   *)
(***************************************************************************)
EXTENDS UserDirectory, FiniteSetTheorems, SequenceTheorems, TLAPS

UserRec == [name : Name \cup {None}, key : PublicKey \cup {None}]
LinkRec == [user : User, name : Nick \cup {None}]
Value   == UserRec \cup User \cup LinkRec \cup Nick \cup {None}
WriteRec == [key : Key, value : Value]

Ops == {"create", "name", "key", "link", "unlink", "delete", "context", "clear"}

KeysOf(W) == {W[i].key : i \in DOMAIN W}
Pending   == KeysOf(job.writes)

\* An index entry leads to a user of that name, a link to a user, and users are
\* created under the uuids drawn.
StoreGood ==
  /\ kv \in [Key -> Value]
  /\ drawn \in Nat
  /\ \A u \in User : /\ AstridUser(u) \in UserRec \cup {None}
                     /\ AstridUser(u) # None => u <= drawn
  /\ \A h \in Handle : FrontendLink(h) # None =>
       FrontendLink(h) \in LinkRec /\ AstridUser(FrontendLink(h).user) # None
  /\ \A n \in Name : Named(n) # None =>
       Named(n) \in User /\ AstridUser(Named(n)) # None /\ AstridUser(Named(n)).name = n

\* Nicknames of an account that is not linked: the deletion of its user was cut
\* off, or it is under way and will remove them all.
LeftGood ==
  \A h \in Handle : FrontendLink(h) = None /\ Overlays(h) # {} =>
    h \in torn \/ (job.op = "delete" /\ Overlays(h) \subseteq Pending)

\* What may be removed before a user's record is written, and how it is written.
Drops == {<<>>} \cup {Delete(<<"name", m>>) : m \in Name}
RecordWrites(drop, u, rec) ==
  {drop \o Put(<<"user", u>>, rec),
   drop \o Put(<<"user", u>>, rec) \o Index(rec.name, u)}

\* A user's record is to be written, the index entry of its former name, if it
\* is another, to be removed before it and that of its name to be written after.
RecordForm(W) ==
  \E u \in User, rec \in UserRec, drop \in Drops :
    /\ u <= drawn
    /\ W \in RecordWrites(drop, u, rec)
    /\ \A m \in Name : Named(m) = u => m = rec.name \/ drop = Delete(<<"name", m>>)

IndexForm(W) ==
  \E u \in User, n \in Name :
    /\ W = Put(<<"name", n>>, u)
    /\ AstridUser(u) # None /\ AstridUser(u).name = n

LinkForm(W) ==
  \E h \in Handle, rec \in LinkRec :
    W = Put(<<"link", h>>, rec) /\ AstridUser(rec.user) # None

OverlayForm(W) ==
  \E h \in Handle, c \in Context, nick \in Nick \cup {None} :
    /\ W = Put(<<"context", <<h, c>>>>, nick)
    /\ nick # None => FrontendLink(h) # None

\* All nicknames of an account go before its link does.
UnlinkForm(W) ==
  /\ W # <<>>
  /\ \E h \in Handle :
       /\ W[Len(W)] = [key |-> <<"link", h>>, value |-> None]
       /\ \A i \in 1 .. Len(W) - 1 : W[i].value = None /\ W[i].key \in ContextKey
       /\ Overlays(h) \subseteq Pending

\* The links, nicknames and index entry of a user go before its record does.
DeleteForm(W) ==
  /\ W # <<>> /\ job.op = "delete"
  /\ \E u \in User :
       /\ W[Len(W)] = [key |-> <<"user", u>>, value |-> None]
       /\ \A i \in 1 .. Len(W) - 1 : W[i].value = None /\ W[i].key \notin UserKey
       /\ \A h \in LinksOf(u) : <<"link", h>> \in Pending
       /\ \A m \in Name : Named(m) = u => <<"name", m>> \in Pending
       /\ \A h \in Handle : <<"link", h>> \in Pending => Overlays(h) \subseteq Pending

WritesGood ==
  /\ job \in [op : Ops \cup {None}, writes : Seq(WriteRec)]
  /\ \/ job.writes = <<>>
     \/ RecordForm(job.writes) \/ IndexForm(job.writes) \/ LinkForm(job.writes)
     \/ OverlayForm(job.writes) \/ UnlinkForm(job.writes) \/ DeleteForm(job.writes)

DirectoryInv == StoreGood /\ LeftGood /\ WritesGood

-----------------------------------------------------------------------------
(* Keys and lists of writes.                                               *)

\* Each kind of key is a key, and the kinds are apart (user_key, name_index_key,
\* link_key, context_key).
LEMMA KindsOfKeys ==
  /\ \A u \in User : <<"user", u>> \in UserKey
  /\ \A n \in Name : <<"name", n>> \in IndexKey
  /\ \A h \in Handle : <<"link", h>> \in LinkKey
  /\ \A h \in Handle, c \in Context : <<"context", <<h, c>>>> \in ContextKey
  /\ \A k \in UserKey : k[1] = "user"
  /\ \A k \in IndexKey : k[1] = "name"
  /\ \A k \in LinkKey : k[1] = "link"
  /\ \A k \in ContextKey : k[1] = "context" /\ k[2] \in Handle \X Context
                           /\ k = <<"context", <<k[2][1], k[2][2]>>>>
  /\ UserKey \subseteq Key /\ IndexKey \subseteq Key
  /\ LinkKey \subseteq Key /\ ContextKey \subseteq Key
BY DEF Key, UserKey, IndexKey, LinkKey, ContextKey

\* There are finitely many keys.
LEMMA KeysFinite == IsFiniteSet(Key)
<1>1. IsFiniteSet(User)
  BY ConstantsAssumption, FS_Interval DEF User
<1>2. IsFiniteSet(Handle) /\ IsFiniteSet(Context) /\ IsFiniteSet(Name)
  BY ConstantsAssumption
<1>3. IsFiniteSet({"user"}) /\ IsFiniteSet({"name"}) /\ IsFiniteSet({"link"})
      /\ IsFiniteSet({"context"})
  BY FS_Singleton
<1>4. IsFiniteSet(UserKey)
  BY <1>1, <1>3, FS_Product DEF UserKey
<1>5. IsFiniteSet(IndexKey)
  BY <1>2, <1>3, FS_Product DEF IndexKey
<1>6. IsFiniteSet(LinkKey)
  BY <1>2, <1>3, FS_Product DEF LinkKey
<1>7. IsFiniteSet(ContextKey)
  <2>1. IsFiniteSet(Handle \X Context)
    BY <1>2, FS_Product
  <2> QED BY <2>1, <1>3, FS_Product DEF ContextKey
<1>8. IsFiniteSet(UserKey \cup IndexKey)
  BY <1>4, <1>5, FS_Union
<1>9. IsFiniteSet(UserKey \cup IndexKey \cup LinkKey)
  BY <1>8, <1>6, FS_Union
<1> QED BY <1>9, <1>7, FS_Union DEF Key

\* The writes of s remove the keys K and nothing else.
Removes(s, K) ==
  /\ s \in Seq(WriteRec)
  /\ \A i \in 1 .. Len(s) : s[i].value = None /\ s[i].key \in K
  /\ \A k \in K : \E i \in 1 .. Len(s) : s[i].key = k

\* A removal is a write of None.
LEMMA DeleteRemoves ==
  ASSUME NEW k \in Key
  PROVE  /\ Delete(k) = <<[key |-> k, value |-> None]>>
         /\ Removes(Delete(k), {k})
<1>1. Delete(k) = <<[key |-> k, value |-> None]>>
  BY DEF Delete, Put
<1>2. [key |-> k, value |-> None] \in WriteRec
  BY DEF WriteRec, Value
<1> QED BY <1>1, <1>2 DEF Removes

LEMMA NothingRemoves == Removes(<<>>, {})
BY DEF Removes

\* Removals made one after the other.
LEMMA RemovesBoth ==
  ASSUME NEW K, NEW L, NEW s, NEW t, Removes(s, K), Removes(t, L)
  PROVE  Removes(s \o t, K \cup L)
<1> USE DEF Removes
<1>1. s \o t \in Seq(WriteRec) /\ Len(s \o t) = Len(s) + Len(t)
  OBVIOUS
<1>2. \A i \in 1 .. Len(s) : (s \o t)[i] = s[i]
  OBVIOUS
<1>3. \A i \in 1 .. Len(t) : (s \o t)[Len(s) + i] = t[i]
  OBVIOUS
<1>4. ASSUME NEW i \in 1 .. Len(s \o t)
      PROVE  (s \o t)[i].value = None /\ (s \o t)[i].key \in K \cup L
  <2>1. CASE i <= Len(s)
    BY <2>1, <1>2
  <2>2. CASE i > Len(s)
    <3>1. i - Len(s) \in 1 .. Len(t) /\ i = Len(s) + (i - Len(s))
      BY <1>1, <2>2
    <3> QED BY <3>1, <1>3
  <2> QED BY <2>1, <2>2, <1>1
<1>5. ASSUME NEW k \in K \cup L
      PROVE  \E i \in 1 .. Len(s \o t) : (s \o t)[i].key = k
  <2>1. CASE k \in K
    <3>1. PICK i \in 1 .. Len(s) : s[i].key = k
      BY <2>1
    <3> QED BY <3>1, <1>1, <1>2
  <2>2. CASE k \in L
    <3>1. PICK i \in 1 .. Len(t) : t[i].key = k
      BY <2>2
    <3>2. Len(s) + i \in 1 .. Len(s \o t)
      BY <1>1
    <3> QED BY <3>1, <3>2, <1>3
  <2> QED BY <2>1, <2>2
<1> QED BY <1>1, <1>4, <1>5

\* However the keys are listed, all of them are removed (unlink, delete_user).
LEMMA DeleteAllRemoves ==
  ASSUME NEW K \in SUBSET Key, NEW s \in DeleteAll(K)
  PROVE  Removes(s, K)
<1>1. PICK f \in SetToSeqs(K) : s = [i \in DOMAIN f |-> Delete(f[i])[1]]
  BY DEF DeleteAll
<1>2. IsFiniteSet(K) /\ Cardinality(K) \in Nat
  BY KeysFinite, FS_Subset, FS_CardinalityType
<1>3. f \in [1 .. Cardinality(K) -> K]
      /\ \A i, j \in 1 .. Cardinality(K) : i # j => f[i] # f[j]
  BY DEF SetToSeqs
<1>4. f \in Injection(1 .. Cardinality(K), K)
  BY <1>3 DEF Injection, IsInjective
<1>5. Cardinality(1 .. Cardinality(K)) = Cardinality(K)
  BY <1>2, FS_Interval
<1>6. f \in Surjection(1 .. Cardinality(K), K)
  BY <1>2, <1>4, <1>5, FS_Injection
<1>7. \A k \in K : \E i \in 1 .. Cardinality(K) : f[i] = k
  BY <1>6 DEF Surjection
<1>8. \A i \in 1 .. Cardinality(K) : s[i] = [key |-> f[i], value |-> None]
  BY <1>1, <1>3 DEF Delete, Put
<1>9. s \in Seq(WriteRec) /\ Len(s) = Cardinality(K)
  <2>1. \A i \in 1 .. Cardinality(K) : s[i] \in WriteRec
    <3> SUFFICES ASSUME NEW i \in 1 .. Cardinality(K)
                 PROVE  s[i] \in WriteRec
      OBVIOUS
    <3>1. f[i] \in Key
      BY <1>3
    <3>2. [key |-> f[i], value |-> None] \in WriteRec
      BY <3>1 DEF WriteRec, Value
    <3> QED BY <3>2, <1>8
  <2>2. s = [i \in 1 .. Cardinality(K) |-> s[i]]
    BY <1>1, <1>3
  <2> QED BY <1>2, <2>1, <2>2
<1> QED BY <1>3, <1>7, <1>8, <1>9 DEF Removes

-----------------------------------------------------------------------------
(* The operations, up to their first write.                                *)

\* No key changes when an operation starts, and every nickname that is left over
\* was left by a deletion that was cut off.
LEMMA StartKeeps ==
  ASSUME DirectoryInv, NEW op, NEW writes, Start(op, writes),
         drawn' \in {drawn, drawn + 1}
  PROVE  /\ StoreGood' /\ LeftGood'
         /\ job'.writes = writes /\ job'.op = op
<1>1. job = Idle /\ job' = [op |-> op, writes |-> writes] /\ kv' = kv /\ torn' = torn
  BY DEF Start
<1>2. StoreGood'
  <2>1. drawn \in Nat /\ drawn' \in Nat /\ drawn <= drawn'
    BY DEF DirectoryInv, StoreGood
  <2>2. \A u \in User : u \in Nat
    BY ConstantsAssumption DEF User
  <2> QED BY <1>1, <2>1, <2>2 DEF DirectoryInv, StoreGood, AstridUser, FrontendLink, Named
<1>3. Pending = {}
  BY <1>1 DEF Pending, KeysOf, Idle
<1>4. LeftGood'
  BY <1>1, <1>3 DEF DirectoryInv, LeftGood, FrontendLink, Overlays
<1> QED BY <1>1, <1>2, <1>4

\* What is removed before a record is written is a list of writes.
LEMMA DropsAreWrites ==
  ASSUME NEW drop \in Drops
  PROVE  drop \in Seq(WriteRec)
<1>1. CASE drop = <<>>
  BY <1>1
<1>2. CASE drop # <<>>
  <2>1. PICK m \in Name : drop = Delete(<<"name", m>>)
    BY <1>2 DEF Drops
  <2> QED BY <2>1, KindsOfKeys, DeleteRemoves DEF Removes
<1> QED BY <1>1, <1>2

\* A record that is to be written for u, after the index entry of another name of
\* u, if it has one, was removed.
LEMMA RecordStarts ==
  ASSUME DirectoryInv, NEW u \in User, NEW rec \in UserRec, NEW op \in Ops,
         NEW drop \in Drops, NEW W \in RecordWrites(drop, u, rec),
         Start(op, W), drawn' \in {drawn, drawn + 1}, u <= drawn',
         \A m \in Name : Named(m) = u => m = rec.name \/ drop = Delete(<<"name", m>>)
  PROVE  DirectoryInv'
<1>1. kv' = kv /\ job' = [op |-> op, writes |-> W]
  BY DEF Start
<1>2. W \in Seq(WriteRec)
  <2>1. drop \in Seq(WriteRec)
    BY DropsAreWrites
  <2>2. Put(<<"user", u>>, rec) \in Seq(WriteRec)
    BY KindsOfKeys DEF Put, WriteRec, Value
  <2>3. Index(rec.name, u) \in Seq(WriteRec)
    <3>1. CASE rec.name = None
      BY <3>1 DEF Index
    <3>2. CASE rec.name # None
      <4>1. <<"name", rec.name>> \in Key
        BY <3>2, KindsOfKeys DEF UserRec
      <4> QED BY <3>2, <4>1 DEF Index, Put, WriteRec, Value
    <3> QED BY <3>1, <3>2
  <2>4. \A s, t \in Seq(WriteRec) : s \o t \in Seq(WriteRec)
    OBVIOUS
  <2> QED BY <2>1, <2>2, <2>3, <2>4 DEF RecordWrites
<1>3. RecordForm(job.writes)'
  <2>1. job'.writes = W
    BY <1>1
  <2>2. \A m \in Name : Named(m)' = u => m = rec.name \/ drop = Delete(<<"name", m>>)
    BY <1>1 DEF Named
  <2>3. RecordForm(W)'
    BY <2>2 DEF RecordForm
  <2> QED BY <2>1, <2>3 DEF RecordForm
<1>4. WritesGood'
  BY <1>1, <1>2, <1>3 DEF WritesGood
<1> QED BY <1>4, StartKeeps DEF DirectoryInv

\* users.create.
LEMMA CreateUserKeeps ==
  ASSUME DirectoryInv, NEW n \in Name \cup {None}, CreateUser(n)
  PROVE  DirectoryInv'
<1>1. PICK u \in User : u = drawn' /\ drawn' = drawn + 1 /\ drawn < u
  BY ConstantsAssumption DEF CreateUser, DirectoryInv, StoreGood, User
<1>2. PICK rec \in UserRec : rec = [name |-> n, key |-> None]
  BY DEF UserRec
<1>3. PICK W \in RecordWrites(<<>>, u, rec) : Start("create", W)
  <2>1. Start("create", Put(<<"user", u>>, rec) \o Index(n, u))
    BY <1>1, <1>2 DEF CreateUser
  <2>2. <<>> \o Put(<<"user", u>>, rec) = Put(<<"user", u>>, rec)
    BY DEF Put
  <2> QED BY <2>1, <2>2, <1>2 DEF RecordWrites
<1>4. ASSUME NEW m \in Name, Named(m) = u
      PROVE  FALSE
  <2>1. u # None
    BY NoneIsApart DEF User
  <2>2. AstridUser(u) # None
    BY <1>4, <2>1 DEF DirectoryInv, StoreGood
  <2>3. u <= drawn
    BY <2>2 DEF DirectoryInv, StoreGood
  <2> QED BY <1>1, <2>3, ConstantsAssumption DEF DirectoryInv, StoreGood, User
<1>5. u <= drawn'
  BY <1>1, ConstantsAssumption DEF User
<1>6. <<>> \in Drops
  BY DEF Drops
<1>7. drawn' \in {drawn, drawn + 1}
  BY <1>1
<1>8. \A m \in Name : Named(m) = u => m = rec.name \/ <<>> = Delete(<<"name", m>>)
  BY <1>4
<1>9. "create" \in Ops
  BY DEF Ops
<1> QED BY <1>3, <1>5, <1>6, <1>7, <1>8, <1>9, RecordStarts

\* The index entry that is dropped is the only one that can lead to u.
LEMMA DropsItsEntry ==
  ASSUME DirectoryInv, NEW u \in User, AstridUser(u) # None
  PROVE  /\ DropIndex(u) \in Drops
         /\ \A m \in Name : Named(m) = u => DropIndex(u) = Delete(<<"name", m>>)
<1>1. AstridUser(u) \in UserRec
  BY DEF DirectoryInv, StoreGood
<1>2. AstridUser(u).name \in Name \cup {None}
  BY <1>1 DEF UserRec
<1>3. DropIndex(u) = IF AstridUser(u).name # None /\ Named(AstridUser(u).name) = u
                       THEN Delete(<<"name", AstridUser(u).name>>) ELSE <<>>
  BY DEF DropIndex
<1>4. ASSUME NEW m \in Name, Named(m) = u
      PROVE  DropIndex(u) = Delete(<<"name", m>>)
  <2>1. u # None /\ m # None
    BY NoneIsApart, ConstantsAssumption DEF User
  <2>2. AstridUser(u).name = m
    BY <1>4, <2>1 DEF DirectoryInv, StoreGood
  <2> QED BY <1>3, <1>4, <2>1, <2>2
<1> QED BY <1>2, <1>3, <1>4 DEF Drops

\* users.set_display_name.
LEMMA SetDisplayNameKeeps ==
  ASSUME DirectoryInv, NEW u \in User, NEW n \in Name \cup {None}, SetDisplayName(u, n)
  PROVE  DirectoryInv'
<1>1. AstridUser(u) # None /\ drawn' = drawn
  BY DEF SetDisplayName, Keep
<1>2. AstridUser(u) \in UserRec /\ u <= drawn
  BY <1>1 DEF DirectoryInv, StoreGood
<1>3. PICK rec \in UserRec : rec = [AstridUser(u) EXCEPT !.name = n] /\ rec.name = n
  <2>1. \A r \in UserRec :
          [r EXCEPT !.name = n] \in UserRec /\ [r EXCEPT !.name = n].name = n
    BY DEF UserRec
  <2> QED BY <1>2, <2>1
<1>4. PICK drop \in Drops :
        /\ drop = DropIndex(u)
        /\ \A m \in Name : Named(m) = u => drop = Delete(<<"name", m>>)
  BY <1>1, DropsItsEntry
<1>5. PICK W \in RecordWrites(drop, u, rec) : Start("name", W)
  BY <1>3, <1>4 DEF SetDisplayName, RecordWrites
<1>6. drawn' \in {drawn, drawn + 1} /\ u <= drawn'
  BY <1>1, <1>2
<1>7. \A m \in Name : Named(m) = u => m = rec.name \/ drop = Delete(<<"name", m>>)
  BY <1>4
<1>8. "name" \in Ops
  BY DEF Ops
<1> QED BY <1>5, <1>6, <1>7, <1>8, RecordStarts

\* users.set_public_key.
LEMMA SetPublicKeyKeeps ==
  ASSUME DirectoryInv, NEW u \in User, NEW k \in PublicKey \cup {None}, SetPublicKey(u, k)
  PROVE  DirectoryInv'
<1>1. AstridUser(u) # None /\ drawn' = drawn
  BY DEF SetPublicKey, Keep
<1>2. AstridUser(u) \in UserRec /\ u <= drawn
  BY <1>1 DEF DirectoryInv, StoreGood
<1>3. PICK rec \in UserRec :
        rec = [AstridUser(u) EXCEPT !.key = k] /\ rec.name = AstridUser(u).name
  <2>1. \A r \in UserRec :
          [r EXCEPT !.key = k] \in UserRec /\ [r EXCEPT !.key = k].name = r.name
    BY DEF UserRec
  <2> QED BY <1>2, <2>1
<1>4. PICK W \in RecordWrites(<<>>, u, rec) : Start("key", W)
  <2>1. Start("key", Put(<<"user", u>>, rec))
    BY <1>3 DEF SetPublicKey
  <2>2. <<>> \o Put(<<"user", u>>, rec) = Put(<<"user", u>>, rec)
    BY DEF Put
  <2> QED BY <2>1, <2>2 DEF RecordWrites
<1>5. \A m \in Name : Named(m) = u => m = rec.name
  <2>1. u # None
    BY NoneIsApart DEF User
  <2> QED BY <1>3, <2>1 DEF DirectoryInv, StoreGood
<1>6. drawn' \in {drawn, drawn + 1} /\ u <= drawn'
  BY <1>1, <1>2
<1>7. <<>> \in Drops
  BY DEF Drops
<1>8. \A m \in Name : Named(m) = u => m = rec.name \/ <<>> = Delete(<<"name", m>>)
  BY <1>5
<1>9. "key" \in Ops
  BY DEF Ops
<1> QED BY <1>4, <1>6, <1>7, <1>8, <1>9, RecordStarts

\* W removes the keys K, and then k.
RemovesThen(W, K, k) ==
  /\ W \in Seq(WriteRec) /\ W # <<>>
  /\ W[Len(W)] = [key |-> k, value |-> None]
  /\ \A i \in 1 .. Len(W) - 1 : W[i].value = None /\ W[i].key \in K
  /\ KeysOf(W) = K \cup {k}

\* A list of removals that ends with that of k.
LEMMA LastDelete ==
  ASSUME NEW K \in SUBSET Key, NEW s, Removes(s, K), NEW k \in Key, NEW W,
         W = s \o Delete(k)
  PROVE  RemovesThen(W, K, k)
<1>1. s \in Seq(WriteRec) /\ Delete(k) = <<[key |-> k, value |-> None]>>
      /\ Delete(k) \in Seq(WriteRec)
  BY DeleteRemoves DEF Removes
<1>2. W \in Seq(WriteRec) /\ Len(W) = Len(s) + 1 /\ Len(s) \in Nat
      /\ W[Len(W)] = [key |-> k, value |-> None]
      /\ \A i \in 1 .. Len(s) : W[i] = s[i]
  BY <1>1
<1>3. \A i \in 1 .. Len(W) - 1 : W[i].value = None /\ W[i].key \in K
  BY <1>2 DEF Removes
<1>4. Removes(W, K \cup {k})
  BY DeleteRemoves, RemovesBoth
<1>5. DOMAIN W = 1 .. Len(W)
  BY <1>2
<1>6. \A x \in K \cup {k} : \E i \in DOMAIN W : W[i].key = x
  BY <1>4, <1>5 DEF Removes
<1>7. \A i \in DOMAIN W : W[i].key \in K \cup {k}
  BY <1>4, <1>5 DEF Removes
<1>8. KeysOf(W) = K \cup {k}
  BY <1>6, <1>7 DEF KeysOf
<1> QED BY <1>2, <1>3, <1>8 DEF RemovesThen

\* users.link.
LEMMA LinkKeeps ==
  ASSUME DirectoryInv, NEW u \in User, NEW h \in Handle, NEW nick \in Nick \cup {None},
         Link(h, u, nick)
  PROVE  DirectoryInv'
<1>1. AstridUser(u) # None /\ drawn' = drawn
  BY DEF Link, Keep
<1>2. PICK rec \in LinkRec : rec = [user |-> u, name |-> nick] /\ rec.user = u
  <2>1. [user |-> u, name |-> nick] \in LinkRec
    BY DEF LinkRec
  <2> QED BY <2>1
<1>3. PICK W : W = Put(<<"link", h>>, rec) /\ Start("link", W)
  BY <1>2 DEF Link
<1>4. W \in Seq(WriteRec)
  BY <1>3, KindsOfKeys DEF Put, WriteRec, Value
<1>5. kv' = kv /\ job' = [op |-> "link", writes |-> W]
  BY <1>3 DEF Start
<1>6. LinkForm(W)'
  BY <1>1, <1>2, <1>3, <1>5 DEF LinkForm, AstridUser
<1>7. WritesGood'
  BY <1>4, <1>5, <1>6 DEF WritesGood, Ops, LinkForm
<1> QED BY <1>1, <1>3, <1>7, StartKeeps DEF DirectoryInv

\* Overlays of h are context keys.
LEMMA OverlaysAreKeys ==
  ASSUME NEW h
  PROVE  Overlays(h) \subseteq ContextKey /\ Overlays(h) \in SUBSET Key
BY KindsOfKeys DEF Overlays

\* users.unlink.
LEMMA UnlinkKeeps ==
  ASSUME DirectoryInv, NEW h \in Handle, Unlink(h)
  PROVE  DirectoryInv'
<1>1. FrontendLink(h) # None /\ drawn' = drawn
  BY DEF Unlink, Keep
<1>2. PICK first \in DeleteAll(Overlays(h)) :
        Start("unlink", first \o Delete(<<"link", h>>))
  BY DEF Unlink
<1>3. PICK W : W = first \o Delete(<<"link", h>>) /\ Start("unlink", W)
  BY <1>2
<1>4. Removes(first, Overlays(h)) /\ <<"link", h>> \in Key
  BY DeleteAllRemoves, OverlaysAreKeys, KindsOfKeys
<1>5. RemovesThen(W, Overlays(h), <<"link", h>>)
  BY <1>3, <1>4, LastDelete, OverlaysAreKeys
<1>6. kv' = kv /\ job' = [op |-> "unlink", writes |-> W]
  BY <1>3 DEF Start
<1>7. Overlays(h)' = Overlays(h) /\ Pending' = Overlays(h) \cup {<<"link", h>>}
  BY <1>5, <1>6 DEF Overlays, Pending, RemovesThen
<1>8. UnlinkForm(W)'
  BY <1>5, <1>7, OverlaysAreKeys DEF UnlinkForm, RemovesThen
<1>9. WritesGood'
  BY <1>5, <1>6, <1>8 DEF WritesGood, Ops, UnlinkForm, RemovesThen
<1> QED BY <1>1, <1>3, <1>9, StartKeeps DEF DirectoryInv

\* users.delete.
LEMMA DeleteUserKeeps ==
  ASSUME DirectoryInv, NEW u \in User, DeleteUser(u)
  PROVE  DirectoryInv'
<1>1. AstridUser(u) # None /\ drawn' = drawn
  BY DEF DeleteUser, Keep
<1>2. PICK links \in DeleteAll({<<"link", h>> : h \in LinksOf(u)}),
           overlays \in DeleteAll(UNION {Overlays(h) : h \in LinksOf(u)}) :
        Start("delete", links \o overlays \o DropIndex(u) \o Delete(<<"user", u>>))
  BY DEF DeleteUser
<1>3. PICK linkKeys, overlayKeys :
        /\ linkKeys = {<<"link", h>> : h \in LinksOf(u)}
        /\ overlayKeys = UNION {Overlays(h) : h \in LinksOf(u)}
  OBVIOUS
<1>4. linkKeys \subseteq LinkKey /\ overlayKeys \subseteq ContextKey
  BY <1>3, KindsOfKeys, OverlaysAreKeys DEF LinksOf
<1>5. Removes(links, linkKeys) /\ Removes(overlays, overlayKeys)
  BY <1>2, <1>3, <1>4, KindsOfKeys, DeleteAllRemoves
<1>6. PICK dropKeys \in SUBSET IndexKey :
        /\ Removes(DropIndex(u), dropKeys)
        /\ \A m \in Name : Named(m) = u => <<"name", m>> \in dropKeys
  <2>1. DropIndex(u) \in Drops
        /\ \A m \in Name : Named(m) = u => DropIndex(u) = Delete(<<"name", m>>)
    BY <1>1, DropsItsEntry
  <2>2. CASE DropIndex(u) = <<>>
    <3>1. \A m \in Name : Delete(<<"name", m>>) # <<>>
      BY DEF Delete, Put
    <3>2. Removes(DropIndex(u), {})
      BY <2>2, NothingRemoves
    <3> QED BY <2>1, <2>2, <3>1, <3>2
  <2>3. CASE DropIndex(u) # <<>>
    <3>1. PICK m \in Name : DropIndex(u) = Delete(<<"name", m>>)
      BY <2>1, <2>3 DEF Drops
    <3>2. \A n \in Name : Delete(<<"name", n>>) = Delete(<<"name", m>>) => n = m
      BY DEF Delete, Put
    <3>3. Removes(DropIndex(u), {<<"name", m>>}) /\ {<<"name", m>>} \in SUBSET IndexKey
      BY <3>1, KindsOfKeys, DeleteRemoves
    <3> QED BY <2>1, <3>1, <3>2, <3>3
  <2> QED BY <2>2, <2>3
<1>7. PICK K \in SUBSET Key : K = linkKeys \cup overlayKeys \cup dropKeys
  BY <1>4, KindsOfKeys
<1>8. Removes(links \o overlays \o DropIndex(u), K)
  BY <1>5, <1>6, <1>7, RemovesBoth
<1>9. PICK W : W = links \o overlays \o DropIndex(u) \o Delete(<<"user", u>>)
               /\ Start("delete", W)
  BY <1>2
<1>10. RemovesThen(W, K, <<"user", u>>)
  BY <1>8, <1>9, LastDelete, KindsOfKeys
<1>11. kv' = kv /\ job' = [op |-> "delete", writes |-> W]
  BY <1>9 DEF Start
<1>12. Pending' = K \cup {<<"user", u>>}
  BY <1>10, <1>11 DEF Pending, RemovesThen
<1>13. \A k \in K : k \notin UserKey
  BY <1>4, <1>6, <1>7, KindsOfKeys
<1>14. LinksOf(u)' = LinksOf(u)
  BY <1>11 DEF LinksOf, FrontendLink
<1>15. \A h \in LinksOf(u)' : <<"link", h>> \in Pending'
  BY <1>3, <1>7, <1>12, <1>14
<1>16. \A m \in Name : Named(m)' = u => <<"name", m>> \in Pending'
  BY <1>6, <1>7, <1>11, <1>12 DEF Named
<1>17. ASSUME NEW h \in Handle, <<"link", h>> \in Pending'
       PROVE  Overlays(h)' \subseteq Pending'
  <2>1. <<"link", h>> \in linkKeys
    BY <1>4, <1>6, <1>7, <1>12, <1>17, KindsOfKeys
  <2>2. h \in LinksOf(u)
    BY <1>3, <2>1
  <2>3. Overlays(h) \subseteq overlayKeys
    BY <1>3, <2>2
  <2>4. Overlays(h)' = Overlays(h)
    BY <1>11 DEF Overlays
  <2> QED BY <1>7, <1>12, <2>3, <2>4
<1>18. job'.op = "delete"
  BY <1>11
<1>19. DeleteForm(W)'
  BY <1>10, <1>13, <1>15, <1>16, <1>17, <1>18 DEF DeleteForm, RemovesThen
<1>20. WritesGood'
  BY <1>10, <1>11, <1>19 DEF WritesGood, Ops, DeleteForm, RemovesThen
<1> QED BY <1>1, <1>9, <1>20, StartKeeps DEF DirectoryInv

\* users.context_set and users.context_clear.
LEMMA ContextKeeps ==
  ASSUME DirectoryInv, NEW h \in Handle, NEW c \in Context,
         \/ \E nick \in Nick : SetContext(h, c, nick)
         \/ ClearContext(h, c)
  PROVE  DirectoryInv'
<1>1. PICK nick \in Nick \cup {None}, op \in Ops :
        /\ Start(op, Put(<<"context", <<h, c>>>>, nick))
        /\ nick # None => FrontendLink(h) # None
        /\ drawn' = drawn
  <2>1. CASE \E nick \in Nick : SetContext(h, c, nick)
    BY <2>1 DEF SetContext, Keep, Ops
  <2>2. CASE ClearContext(h, c)
    <3>1. Start("clear", Put(<<"context", <<h, c>>>>, None)) /\ drawn' = drawn
      BY <2>2 DEF ClearContext, Delete, Keep
    <3> QED BY <3>1 DEF Ops
  <2> QED BY <2>1, <2>2
<1>2. PICK W \in Seq(WriteRec) : W = Put(<<"context", <<h, c>>>>, nick)
  <2>1. Put(<<"context", <<h, c>>>>, nick) \in Seq(WriteRec)
    BY <1>1, KindsOfKeys DEF Put, WriteRec, Value
  <2> QED BY <2>1
<1>3. kv' = kv /\ job' = [op |-> op, writes |-> W]
  BY <1>1, <1>2 DEF Start
<1>4. OverlayForm(W)'
  BY <1>1, <1>2, <1>3 DEF OverlayForm, FrontendLink
<1>5. WritesGood'
  BY <1>2, <1>3, <1>4 DEF WritesGood, OverlayForm
<1> QED BY <1>1, <1>5, StartKeeps DEF DirectoryInv

-----------------------------------------------------------------------------
(* The writes.                                                             *)

\* The first of the writes is made: v is put under k.
Written(k, v) ==
  /\ k \in Key /\ v \in Value
  /\ job.writes # <<>> /\ job.writes[1] = [key |-> k, value |-> v]
  /\ kv' \in [Key -> Value]
  /\ \A u \in User : AstridUser(u)' = IF k = <<"user", u>> THEN v ELSE AstridUser(u)
  /\ \A h \in Handle : FrontendLink(h)' = IF k = <<"link", h>> THEN v ELSE FrontendLink(h)
  /\ \A n \in Name : Named(n)' = IF k = <<"name", n>> THEN v ELSE Named(n)
  /\ \A h \in Handle : /\ Overlays(h)' \ {k} = Overlays(h) \ {k}
                       /\ k \in Overlays(h)' <=> k \in ContextKey /\ k[2][1] = h /\ v # None
  /\ job'.writes = Tail(job.writes) /\ job'.writes \in Seq(WriteRec)
  /\ job' \in [op : Ops \cup {None}, writes : Seq(WriteRec)]
  /\ job'.writes # <<>> => job'.op = job.op
  /\ Pending = Pending' \cup {k}
  /\ drawn' = drawn /\ torn' = torn

LEMMA WriteWrites ==
  ASSUME DirectoryInv, Write
  PROVE  \E k \in Key, v \in Value : Written(k, v)
<1>1. /\ job \in [op : Ops \cup {None}, writes : Seq(WriteRec)] /\ kv \in [Key -> Value]
      /\ job.writes # <<>>
  BY DEF DirectoryInv, WritesGood, StoreGood, Write
<1>2. PICK W \in Seq(WriteRec) : W = job.writes /\ W # <<>>
  BY <1>1
<1>3. W[1] \in WriteRec /\ Head(W) = W[1] /\ Tail(W) \in Seq(WriteRec)
      /\ Len(Tail(W)) = Len(W) - 1 /\ Len(W) \in Nat \ {0}
      /\ \A i \in 1 .. Len(W) - 1 : Tail(W)[i] = W[i + 1]
  BY <1>2
<1>4. PICK k \in Key, v \in Value : W[1] = [key |-> k, value |-> v]
  <2>1. \A w \in WriteRec : w.key \in Key /\ w.value \in Value
                            /\ w = [key |-> w.key, value |-> w.value]
    BY DEF WriteRec
  <2> QED BY <1>3, <2>1
<1>5. kv' = [kv EXCEPT ![k] = v] /\ drawn' = drawn /\ torn' = torn
  <2>1. Head(job.writes).key = k /\ Head(job.writes).value = v
    BY <1>2, <1>3, <1>4
  <2> QED BY <2>1 DEF Write
<1>6. /\ kv' \in [Key -> Value]
      /\ \A x \in Key : kv'[x] = IF x = k THEN v ELSE kv[x]
  BY <1>1, <1>5
<1>7. \A u \in User : AstridUser(u)' = IF k = <<"user", u>> THEN v ELSE AstridUser(u)
  BY <1>6, KindsOfKeys DEF AstridUser
<1>8. \A h \in Handle : FrontendLink(h)' = IF k = <<"link", h>> THEN v ELSE FrontendLink(h)
  BY <1>6, KindsOfKeys DEF FrontendLink
<1>9. \A n \in Name : Named(n)' = IF k = <<"name", n>> THEN v ELSE Named(n)
  BY <1>6, KindsOfKeys DEF Named
<1>10. ASSUME NEW h \in Handle
       PROVE  /\ Overlays(h)' \ {k} = Overlays(h) \ {k}
              /\ k \in Overlays(h)' <=> k \in ContextKey /\ k[2][1] = h /\ v # None
  BY <1>6, KindsOfKeys DEF Overlays
<1>11. job'.writes = Tail(W) /\ (job'.writes # <<>> => job'.op = job.op)
       /\ job' \in [op : Ops \cup {None}, writes : Seq(WriteRec)]
  <2>1. CASE Len(W) = 1
    <3>1. job' = Idle
      <4>1. Len(job.writes) = 1
        BY <1>2, <2>1
      <4> QED BY <4>1 DEF Write
    <3>2. Tail(W) = <<>>
      <4>1. Len(Tail(W)) = 0 /\ Tail(W) \in Seq(WriteRec)
        BY <1>3, <2>1
      <4> QED BY <4>1, EmptySeq
    <3>3. Idle.writes = <<>> /\ Idle \in [op : Ops \cup {None}, writes : Seq(WriteRec)]
      <4>1. <<>> \in Seq(WriteRec)
        OBVIOUS
      <4> QED BY <4>1 DEF Idle
    <3> QED BY <3>1, <3>2, <3>3
  <2>2. CASE Len(W) # 1
    <3>1. job' = [job EXCEPT !.writes = Tail(W)]
      BY <1>2, <2>2 DEF Write
    <3> QED BY <1>1, <1>3, <3>1
  <2> QED BY <2>1, <2>2
<1>12. Pending = Pending' \cup {k}
  <2>1. KeysOf(W) = KeysOf(Tail(W)) \cup {k}
    <3>1. DOMAIN W = 1 .. Len(W) /\ DOMAIN Tail(W) = 1 .. Len(W) - 1
      BY <1>3
    <3>2. ASSUME NEW i \in DOMAIN W
          PROVE  W[i].key \in KeysOf(Tail(W)) \cup {k}
      <4>1. CASE i = 1
        BY <1>4, <4>1
      <4>2. CASE i # 1
        <5>1. i - 1 \in 1 .. Len(W) - 1 /\ W[i] = Tail(W)[i - 1]
          BY <1>3, <3>1, <4>2
        <5> QED BY <3>1, <5>1 DEF KeysOf
      <4> QED BY <4>1, <4>2
    <3>3. ASSUME NEW i \in DOMAIN Tail(W)
          PROVE  Tail(W)[i].key \in KeysOf(W)
      <4>1. i + 1 \in DOMAIN W /\ Tail(W)[i] = W[i + 1]
        BY <1>3, <3>1
      <4> QED BY <4>1 DEF KeysOf
    <3>4. k \in KeysOf(W)
      <4>1. 1 \in DOMAIN W /\ W[1].key = k
        BY <1>3, <1>4, <3>1
      <4> QED BY <4>1 DEF KeysOf
    <3> QED BY <3>2, <3>3, <3>4 DEF KeysOf
  <2> QED BY <1>2, <1>11, <2>1 DEF Pending
<1>13. Written(k, v)
  BY <1>2, <1>3, <1>4, <1>5, <1>6, <1>7, <1>8, <1>9, <1>10, <1>11, <1>12 DEF Written
<1> QED BY <1>13

\* A nickname is written only for an account that is linked, and a link is
\* removed only when no nickname of it is left, or the deletion will remove them.
LEMMA WriteLeaves ==
  ASSUME DirectoryInv, NEW k \in Key, NEW v \in Value, Written(k, v),
         k \in ContextKey /\ v # None => FrontendLink(k[2][1]) # None,
         \A h \in Handle : k = <<"link", h>> /\ v = None =>
           Overlays(h) = {} \/ (job.op = "delete" /\ Overlays(h) \subseteq Pending)
  PROVE  LeftGood'
<1> SUFFICES ASSUME NEW h \in Handle, FrontendLink(h)' = None, Overlays(h)' # {},
                    h \notin torn
             PROVE  job'.op = "delete" /\ Overlays(h)' \subseteq Pending'
  BY DEF LeftGood, Written
<1>1. Overlays(h)' \ {k} = Overlays(h) \ {k}
      /\ (k \in Overlays(h)' <=> k \in ContextKey /\ k[2][1] = h /\ v # None)
      /\ FrontendLink(h)' = (IF k = <<"link", h>> THEN v ELSE FrontendLink(h))
      /\ Pending = Pending' \cup {k} /\ (job'.writes # <<>> => job'.op = job.op)
  BY DEF Written
<1>2. k \notin Overlays(h)' /\ Overlays(h)' \subseteq Overlays(h)
  <2>1. CASE k = <<"link", h>>
    BY <1>1, <2>1, KindsOfKeys
  <2>2. CASE k # <<"link", h>>
    BY <1>1, <2>2
  <2> QED BY <2>1, <2>2
<1>3. job.op = "delete" /\ Overlays(h) \subseteq Pending
  <2>1. CASE k = <<"link", h>>
    BY <1>1, <1>2, <2>1
  <2>2. CASE k # <<"link", h>>
    BY <1>1, <1>2, <2>2 DEF DirectoryInv, LeftGood
  <2> QED BY <2>1, <2>2
<1>4. Overlays(h)' \subseteq Pending'
  BY <1>1, <1>2, <1>3
<1>5. job'.writes # <<>>
  BY <1>4 DEF Pending, KeysOf
<1> QED BY <1>1, <1>3, <1>4, <1>5

\* To remove a link, a nickname or an index entry leaves nothing dangling.
LEMMA RemovalKeepsStore ==
  ASSUME DirectoryInv, NEW k \in Key, Written(k, None), k \notin UserKey
  PROVE  StoreGood'
<1>1. /\ \A u \in User : AstridUser(u)' = AstridUser(u)
      /\ \A h \in Handle : FrontendLink(h)' \in {None, FrontendLink(h)}
      /\ \A n \in Name : Named(n)' \in {None, Named(n)}
      /\ kv' \in [Key -> Value] /\ drawn' = drawn
  BY KindsOfKeys DEF Written
<1>2. \A u \in User : /\ AstridUser(u)' \in UserRec \cup {None}
                      /\ AstridUser(u)' # None => u <= drawn'
  BY <1>1 DEF DirectoryInv, StoreGood
<1>3. ASSUME NEW h \in Handle, FrontendLink(h)' # None
      PROVE  FrontendLink(h)' \in LinkRec /\ AstridUser(FrontendLink(h).user)' # None
  <2>1. FrontendLink(h)' = FrontendLink(h) /\ FrontendLink(h) \in LinkRec
        /\ AstridUser(FrontendLink(h).user) # None
    BY <1>1, <1>3 DEF DirectoryInv, StoreGood
  <2>2. PICK u \in User : u = FrontendLink(h).user /\ u = FrontendLink(h)'.user
    BY <2>1 DEF LinkRec
  <2>3. AstridUser(u)' # None
    BY <1>1, <2>1, <2>2 DEF AstridUser
  <2> QED BY <2>1, <2>2, <2>3 DEF AstridUser
<1>4. ASSUME NEW n \in Name, Named(n)' # None
      PROVE  /\ Named(n)' \in User
             /\ AstridUser(Named(n))' # None /\ AstridUser(Named(n))'.name = n
  <2>1. PICK u \in User : u = Named(n) /\ u = Named(n)'
    BY <1>1, <1>4 DEF DirectoryInv, StoreGood
  <2>2. AstridUser(u) # None /\ AstridUser(u).name = n
    BY <1>1, <1>4, <2>1 DEF DirectoryInv, StoreGood
  <2>3. AstridUser(u)' # None /\ AstridUser(u)'.name = n
    BY <1>1, <2>2
  <2> QED BY <2>1, <2>3 DEF AstridUser
<1>5. drawn' \in Nat
  BY <1>1 DEF DirectoryInv, StoreGood
<1> QED BY <1>1, <1>2, <1>3, <1>4, <1>5 DEF StoreGood

\* What is first in a list of writes, and what is left.
LEMMA FirstWrite ==
  ASSUME NEW w \in WriteRec, NEW t \in Seq(WriteRec), NEW W, W = <<w>> \o t
  PROVE  W[1] = w /\ Tail(W) = t
<1>1. W \in Seq(WriteRec) /\ Len(W) = 1 + Len(t) /\ W[1] = w
      /\ \A i \in 1 .. Len(t) : W[1 + i] = t[i]
  OBVIOUS
<1>2. Tail(W) \in Seq(WriteRec) /\ Len(Tail(W)) = Len(t)
      /\ \A i \in 1 .. Len(t) : Tail(W)[i] = t[i]
  BY <1>1
<1> QED BY <1>1, <1>2, SeqEqual

\* The rest of an operation on a record, after its first write.
LEMMA RecordWriteKeeps ==
  ASSUME DirectoryInv, NEW k \in Key, NEW v \in Value, Written(k, v),
         RecordForm(job.writes)
  PROVE  DirectoryInv'
<1>1. PICK u \in User, rec \in UserRec, drop \in Drops :
        /\ u <= drawn
        /\ job.writes \in RecordWrites(drop, u, rec)
        /\ \A m \in Name : Named(m) = u => m = rec.name \/ drop = Delete(<<"name", m>>)
  BY DEF RecordForm
<1>2. PICK rest : /\ rest \in {<<>>, Index(rec.name, u)}
                  /\ job.writes = drop \o Put(<<"user", u>>, rec) \o rest
  <2>1. drop \in Seq(WriteRec)
    BY DropsAreWrites
  <2>2. drop \o Put(<<"user", u>>, rec) = drop \o Put(<<"user", u>>, rec) \o <<>>
    BY <2>1 DEF Put
  <2> QED BY <1>1, <2>2 DEF RecordWrites
<1>3. rest = <<>> \/ (rec.name \in Name /\ rest = Put(<<"name", rec.name>>, u))
  BY <1>2 DEF Index, UserRec
<1>4. u # None /\ rec # None
  BY NoneIsApart DEF User, UserRec
<1>7. rest \in Seq(WriteRec)
  <2>1. CASE rest = <<>>
    BY <2>1
  <2>2. CASE rest # <<>>
    <3>1. <<"name", rec.name>> \in Key /\ rest = Put(<<"name", rec.name>>, u)
      BY <1>3, <2>2, KindsOfKeys
    <3>2. [key |-> <<"name", rec.name>>, value |-> u] \in WriteRec
      BY <3>1 DEF WriteRec, Value
    <3> QED BY <3>1, <3>2 DEF Put
  <2> QED BY <2>1, <2>2
<1>8. [key |-> <<"user", u>>, value |-> rec] \in WriteRec
  BY KindsOfKeys DEF WriteRec, Value
<1>5. CASE drop = <<>>
  <2>1. job.writes = Put(<<"user", u>>, rec) \o rest
    BY <1>2, <1>5 DEF Put
  <2>2. k = <<"user", u>> /\ v = rec /\ job'.writes = rest
    <3>1. job.writes[1] = [key |-> <<"user", u>>, value |-> rec] /\ Tail(job.writes) = rest
      BY <2>1, <1>3, <1>7, <1>8, FirstWrite DEF Put
    <3> QED BY <3>1 DEF Written
  <2>3. /\ \A x \in User : AstridUser(x)' = IF x = u THEN rec ELSE AstridUser(x)
        /\ \A h \in Handle : FrontendLink(h)' = FrontendLink(h)
        /\ \A n \in Name : Named(n)' = Named(n)
        /\ kv' \in [Key -> Value] /\ drawn' = drawn
    BY <2>2, KindsOfKeys DEF Written
  <2>4. LeftGood'
    BY <2>2, WriteLeaves, KindsOfKeys
  <2>5. StoreGood'
    <3>1. \A x \in User : /\ AstridUser(x)' \in UserRec \cup {None}
                          /\ AstridUser(x)' # None => x <= drawn'
      BY <1>1, <2>3 DEF DirectoryInv, StoreGood
    <3>2. ASSUME NEW h \in Handle, FrontendLink(h)' # None
          PROVE  FrontendLink(h)' \in LinkRec /\ AstridUser(FrontendLink(h).user)' # None
      <4>1. FrontendLink(h) \in LinkRec /\ AstridUser(FrontendLink(h).user) # None
        BY <2>3, <3>2 DEF DirectoryInv, StoreGood
      <4>2. PICK x \in User : x = FrontendLink(h).user /\ x = FrontendLink(h)'.user
        BY <2>3, <4>1 DEF LinkRec
      <4>3. AstridUser(x)' # None
        BY <1>4, <2>3, <4>1, <4>2 DEF AstridUser
      <4> QED BY <2>3, <4>1, <4>2, <4>3 DEF AstridUser
    <3>3. ASSUME NEW n \in Name, Named(n)' # None
          PROVE  /\ Named(n)' \in User
                 /\ AstridUser(Named(n))' # None /\ AstridUser(Named(n))'.name = n
      <4>1. PICK x \in User : x = Named(n) /\ x = Named(n)'
        BY <2>3, <3>3 DEF DirectoryInv, StoreGood
      <4>2. AstridUser(x) # None /\ AstridUser(x).name = n
        BY <2>3, <3>3, <4>1 DEF DirectoryInv, StoreGood
      <4>3. x = u => n = rec.name
        <5>1. \A m \in Name : drop # Delete(<<"name", m>>)
          BY <1>5 DEF Delete, Put
        <5> QED BY <1>1, <4>1, <5>1
      <4>4. AstridUser(x)' # None /\ AstridUser(x)'.name = n
        BY <1>4, <2>3, <4>2, <4>3
      <4> QED BY <4>1, <4>4 DEF AstridUser
    <3>4. drawn' \in Nat
      BY <2>3 DEF DirectoryInv, StoreGood
    <3> QED BY <2>3, <3>1, <3>2, <3>3, <3>4 DEF StoreGood
  <2>6. WritesGood'
    <3>1. rest # <<>> => IndexForm(job.writes)'
      <4>1. AstridUser(u)' = rec
        BY <2>3
      <4> QED BY <1>3, <1>4, <2>2, <4>1 DEF IndexForm
    <3> QED BY <2>2, <3>1 DEF WritesGood, Written
  <2> QED BY <2>4, <2>5, <2>6 DEF DirectoryInv
<1>6. CASE drop # <<>>
  <2>1. PICK m \in Name : drop = Delete(<<"name", m>>)
    BY <1>6 DEF Drops
  <2>2. drop = <<[key |-> <<"name", m>>, value |-> None]>>
    BY <2>1, KindsOfKeys, DeleteRemoves
  <2>3. k = <<"name", m>> /\ v = None
        /\ job'.writes = <<>> \o Put(<<"user", u>>, rec) \o rest
    <3>1. job.writes[1] = [key |-> <<"name", m>>, value |-> None]
          /\ Tail(job.writes) = <<>> \o Put(<<"user", u>>, rec) \o rest
      <4>1. [key |-> <<"name", m>>, value |-> None] \in WriteRec
        BY KindsOfKeys DEF WriteRec, Value
      <4>2. PICK t \in Seq(WriteRec) : t = Put(<<"user", u>>, rec) \o rest
        <5>1. Put(<<"user", u>>, rec) \in Seq(WriteRec)
          BY <1>8 DEF Put
        <5>2. Put(<<"user", u>>, rec) \o rest \in Seq(WriteRec)
          BY <5>1, <1>7
        <5> QED BY <5>2
      <4>3. job.writes = <<[key |-> <<"name", m>>, value |-> None]>> \o t
        BY <1>2, <1>7, <1>8, <2>2, <4>1, <4>2 DEF Put
      <4>4. <<>> \o Put(<<"user", u>>, rec) \o rest = t
        BY <4>2 DEF Put
      <4>5. job.writes[1] = [key |-> <<"name", m>>, value |-> None] /\ Tail(job.writes) = t
        BY <4>1, <4>3, FirstWrite
      <4>6. Tail(job.writes) = <<>> \o Put(<<"user", u>>, rec) \o rest
        BY <4>4, <4>5
      <4> QED BY <4>5, <4>6
    <3>2. job'.writes = Tail(job.writes) /\ job.writes[1] = [key |-> k, value |-> v]
      BY DEF Written
    <3>3. k = <<"name", m>> /\ v = None
      BY <3>1, <3>2
    <3> QED BY <3>1, <3>2, <3>3
  <2>4. LeftGood'
    BY <2>3, WriteLeaves, KindsOfKeys
  <2>5. StoreGood'
    BY <2>3, RemovalKeepsStore, KindsOfKeys
  <2>6. \A n \in Name : Named(n)' = u => n = rec.name
    <3>1. \A n \in Name : drop = Delete(<<"name", n>>) => n = m
      BY <2>1 DEF Delete, Put
    <3>2. \A n \in Name : Named(n)' = IF n = m THEN None ELSE Named(n)
      BY <2>3 DEF Written
    <3> QED BY <1>1, <1>4, <3>1, <3>2
  <2>7. job'.writes \in RecordWrites(<<>>, u, rec)
    <3>1. <<>> \o Put(<<"user", u>>, rec) \o <<>> = <<>> \o Put(<<"user", u>>, rec)
      BY DEF Put
    <3> QED BY <1>2, <2>3, <3>1 DEF RecordWrites
  <2>8. drawn' = drawn /\ <<>> \in Drops
    BY DEF Written, Drops
  <2>9. RecordForm(job.writes)'
    BY <1>1, <2>6, <2>7, <2>8 DEF RecordForm
  <2>10. WritesGood'
    BY <2>9 DEF WritesGood, Written
  <2> QED BY <2>4, <2>5, <2>10 DEF DirectoryInv
<1> QED BY <1>5, <1>6

\* The one write of an operation that makes but one, and an index entry.
LEMMA LastWriteKeeps ==
  ASSUME DirectoryInv, NEW k \in Key, NEW v \in Value, Written(k, v),
         IndexForm(job.writes) \/ LinkForm(job.writes) \/ OverlayForm(job.writes)
  PROVE  DirectoryInv'
<1>1. job.writes = Put(k, v)
  <2>1. PICK x \in Key, y \in Value : job.writes = Put(x, y)
    <3>1. CASE IndexForm(job.writes)
      BY <3>1, KindsOfKeys DEF IndexForm, Value
    <3>2. CASE LinkForm(job.writes)
      BY <3>2, KindsOfKeys DEF LinkForm, Value
    <3>3. CASE OverlayForm(job.writes)
      BY <3>3, KindsOfKeys DEF OverlayForm, Value
    <3> QED BY <3>1, <3>2, <3>3
  <2> QED BY <2>1 DEF Put, Written
<1>2. job'.writes = <<>>
  BY <1>1 DEF Written, Put
<1>3. WritesGood'
  BY <1>2 DEF WritesGood, Written
<1>4. \A x \in Key, y \in Value : Put(x, y) = Put(k, v) => x = k /\ y = v
  BY DEF Put
<1>5. CASE IndexForm(job.writes)
  <2>1. PICK u \in User, n \in Name :
          k = <<"name", n>> /\ v = u /\ AstridUser(u) # None /\ AstridUser(u).name = n
    BY <1>1, <1>4, <1>5, KindsOfKeys DEF IndexForm, Value
  <2>2. LeftGood'
    BY <2>1, WriteLeaves, KindsOfKeys
  <2>3. /\ \A x \in User : AstridUser(x)' = AstridUser(x)
        /\ \A h \in Handle : FrontendLink(h)' = FrontendLink(h)
        /\ \A m \in Name : Named(m)' = IF m = n THEN u ELSE Named(m)
        /\ kv' \in [Key -> Value] /\ drawn' = drawn
    BY <2>1, KindsOfKeys DEF Written
  <2>4. ASSUME NEW h \in Handle, FrontendLink(h)' # None
        PROVE  FrontendLink(h)' \in LinkRec /\ AstridUser(FrontendLink(h).user)' # None
    <3>1. FrontendLink(h) \in LinkRec /\ AstridUser(FrontendLink(h).user) # None
      BY <2>3, <2>4 DEF DirectoryInv, StoreGood
    <3>2. PICK x \in User : x = FrontendLink(h).user /\ x = FrontendLink(h)'.user
      BY <2>3, <3>1 DEF LinkRec
    <3>3. AstridUser(x)' # None
      BY <2>3, <3>1, <3>2 DEF AstridUser
    <3> QED BY <2>3, <3>1, <3>2, <3>3 DEF AstridUser
  <2>5. ASSUME NEW m \in Name, Named(m)' # None
        PROVE  /\ Named(m)' \in User
               /\ AstridUser(Named(m))' # None /\ AstridUser(Named(m))'.name = m
    <3>1. PICK x \in User : /\ x = Named(m)'
                            /\ AstridUser(x) # None /\ AstridUser(x).name = m
      <4>1. CASE m = n
        BY <2>1, <2>3, <4>1
      <4>2. CASE m # n
        <5>1. PICK x \in User : x = Named(m)
          BY <2>3, <2>5, <4>2 DEF DirectoryInv, StoreGood
        <5>2. AstridUser(x) # None /\ AstridUser(x).name = m
          BY <2>3, <2>5, <4>2, <5>1 DEF DirectoryInv, StoreGood
        <5> QED BY <2>3, <4>2, <5>1, <5>2
      <4> QED BY <4>1, <4>2
    <3>2. AstridUser(x)' # None /\ AstridUser(x)'.name = m
      BY <2>3, <3>1
    <3> QED BY <3>1, <3>2 DEF AstridUser
  <2>6. StoreGood'
    BY <2>3, <2>4, <2>5 DEF StoreGood, DirectoryInv
  <2> QED BY <1>3, <2>2, <2>6 DEF DirectoryInv
<1>6. CASE LinkForm(job.writes)
  <2>1. PICK g \in Handle, rec \in LinkRec :
          k = <<"link", g>> /\ v = rec /\ AstridUser(rec.user) # None
    BY <1>1, <1>4, <1>6, KindsOfKeys DEF LinkForm, Value
  <2>2. rec # None
    BY NoneIsApart DEF User, LinkRec
  <2>3. LeftGood'
    BY <2>1, <2>2, WriteLeaves, KindsOfKeys
  <2>4. /\ \A x \in User : AstridUser(x)' = AstridUser(x)
        /\ \A h \in Handle : FrontendLink(h)' = IF h = g THEN rec ELSE FrontendLink(h)
        /\ \A m \in Name : Named(m)' = Named(m)
        /\ kv' \in [Key -> Value] /\ drawn' = drawn
    BY <2>1, KindsOfKeys DEF Written
  <2>5. ASSUME NEW h \in Handle, FrontendLink(h)' # None
        PROVE  FrontendLink(h)' \in LinkRec /\ AstridUser(FrontendLink(h).user)' # None
    <3>1. PICK old \in LinkRec : old = FrontendLink(h)' /\ AstridUser(old.user) # None
      BY <2>1, <2>4, <2>5 DEF DirectoryInv, StoreGood
    <3>2. PICK x \in User : x = old.user
      BY DEF LinkRec
    <3>3. AstridUser(x)' # None
      BY <2>4, <3>1, <3>2
    <3> QED BY <3>1, <3>2, <3>3 DEF AstridUser
  <2>6. ASSUME NEW m \in Name, Named(m)' # None
        PROVE  /\ Named(m)' \in User
               /\ AstridUser(Named(m))' # None /\ AstridUser(Named(m))'.name = m
    <3>1. PICK x \in User : x = Named(m) /\ x = Named(m)'
      BY <2>4, <2>6 DEF DirectoryInv, StoreGood
    <3>2. AstridUser(x) # None /\ AstridUser(x).name = m
      BY <2>4, <2>6, <3>1 DEF DirectoryInv, StoreGood
    <3>3. AstridUser(x)' # None /\ AstridUser(x)'.name = m
      BY <2>4, <3>2
    <3> QED BY <3>1, <3>3 DEF AstridUser
  <2>7. StoreGood'
    BY <2>4, <2>5, <2>6 DEF StoreGood, DirectoryInv
  <2> QED BY <1>3, <2>3, <2>7 DEF DirectoryInv
<1>7. CASE OverlayForm(job.writes)
  <2>1. PICK h \in Handle, c \in Context, nick \in Nick \cup {None} :
          /\ k = <<"context", <<h, c>>>> /\ v = nick
          /\ nick # None => FrontendLink(h) # None
    BY <1>1, <1>4, <1>7, KindsOfKeys DEF OverlayForm, Value
  <2>2. LeftGood'
    BY <2>1, WriteLeaves, KindsOfKeys
  <2>3. /\ \A x \in User : AstridUser(x)' = AstridUser(x)
        /\ \A g \in Handle : FrontendLink(g)' = FrontendLink(g)
        /\ \A m \in Name : Named(m)' = Named(m)
        /\ kv' \in [Key -> Value] /\ drawn' = drawn
    BY <2>1, KindsOfKeys DEF Written
  <2>4. ASSUME NEW g \in Handle, FrontendLink(g)' # None
        PROVE  FrontendLink(g)' \in LinkRec /\ AstridUser(FrontendLink(g).user)' # None
    <3>1. FrontendLink(g) \in LinkRec /\ AstridUser(FrontendLink(g).user) # None
      BY <2>3, <2>4 DEF DirectoryInv, StoreGood
    <3>2. PICK x \in User : x = FrontendLink(g).user /\ x = FrontendLink(g)'.user
      BY <2>3, <3>1 DEF LinkRec
    <3>3. AstridUser(x)' # None
      BY <2>3, <3>1, <3>2 DEF AstridUser
    <3> QED BY <2>3, <3>1, <3>2, <3>3 DEF AstridUser
  <2>5. ASSUME NEW m \in Name, Named(m)' # None
        PROVE  /\ Named(m)' \in User
               /\ AstridUser(Named(m))' # None /\ AstridUser(Named(m))'.name = m
    <3>1. PICK x \in User : x = Named(m) /\ x = Named(m)'
      BY <2>3, <2>5 DEF DirectoryInv, StoreGood
    <3>2. AstridUser(x) # None /\ AstridUser(x).name = m
      BY <2>3, <2>5, <3>1 DEF DirectoryInv, StoreGood
    <3>3. AstridUser(x)' # None /\ AstridUser(x)'.name = m
      BY <2>3, <3>2
    <3> QED BY <3>1, <3>3 DEF AstridUser
  <2>6. StoreGood'
    BY <2>3, <2>4, <2>5 DEF StoreGood, DirectoryInv
  <2> QED BY <1>3, <2>2, <2>6 DEF DirectoryInv
<1> QED BY <1>5, <1>6, <1>7

LEMMA BeforeLast == \A l \in Nat \ {0, 1} : \E n \in 1 .. l - 1 : n = l - 1 /\ n + 1 = l
<1>1. \A l \in Nat \ {0, 1} : l - 1 \in 1 .. l - 1 /\ (l - 1) + 1 = l
  OBVIOUS
<1> QED BY <1>1

LEMMA OneIsNotNone == 0 # 1
OBVIOUS

\* A removal by an unlinking or a deletion, and the list that is left of one of
\* more than one write.
LEMMA RestOfRemovals ==
  ASSUME DirectoryInv, NEW k \in Key, NEW v \in Value, Written(k, v),
         NEW W, W = job.writes, NEW last, W[Len(W)] = [key |-> last, value |-> None],
         Len(W) # 1
  PROVE  /\ 1 \in 1 .. Len(W) - 1 /\ W[1].key = k /\ W[1].value = v
         /\ Tail(W) # <<>> /\ Tail(W)[Len(Tail(W))] = [key |-> last, value |-> None]
         /\ Len(Tail(W)) = Len(W) - 1
         /\ \A i \in 1 .. Len(Tail(W)) - 1 :
              i + 1 \in 1 .. Len(W) - 1 /\ Tail(W)[i] = W[i + 1]
<1>1. W \in Seq(WriteRec) /\ W # <<>>
  BY DEF Written, DirectoryInv, WritesGood
<1>2. Len(W) \in Nat \ {0, 1} /\ Tail(W) \in Seq(WriteRec) /\ Len(Tail(W)) = Len(W) - 1
      /\ \A i \in 1 .. Len(W) - 1 : Tail(W)[i] = W[i + 1]
  BY <1>1
<1>3. W[1].key = k /\ W[1].value = v
  BY DEF Written
<1>4. Tail(W)[Len(W) - 1] = W[Len(W)]
  <2>1. PICK n \in 1 .. Len(W) - 1 : n = Len(W) - 1 /\ n + 1 = Len(W)
    BY <1>2, BeforeLast, Zenon
  <2>2. Tail(W)[n] = W[n + 1]
    BY <1>2
  <2> QED BY <2>1, <2>2
<1>5. Tail(W) # <<>>
  <2>1. Len(Tail(W)) # 0
    BY <1>2
  <2> QED BY <2>1, EmptySeq
<1> QED BY <1>2, <1>3, <1>4, <1>5

\* A list of one write.
LEMMA OnlyWrite ==
  ASSUME DirectoryInv, NEW k \in Key, NEW v \in Value, Written(k, v),
         Len(job.writes) = 1
  PROVE  job.writes[1] = [key |-> k, value |-> v] /\ job'.writes = <<>> /\ Pending = {k}
<1>1. job.writes \in Seq(WriteRec)
  BY DEF Written, DirectoryInv, WritesGood
<1>2. Len(Tail(job.writes)) = 0 /\ Tail(job.writes) \in Seq(WriteRec)
  <2>1. PICK W \in Seq(WriteRec) : W = job.writes /\ Len(W) = 1
    BY <1>1
  <2>2. W # <<>>
    BY <2>1, EmptySeq, OneIsNotNone, Zenon
  <2>3. Len(Tail(W)) = Len(W) - 1 /\ Tail(W) \in Seq(WriteRec)
    BY <2>2, HeadTailProperties
  <2> QED BY <2>1, <2>3
<1>3. job'.writes = <<>>
  BY <1>2, EmptySeq DEF Written
<1>4. Pending' = {}
  BY <1>3 DEF Pending, KeysOf
<1> QED BY <1>3, <1>4 DEF Written

\* unlink, write by write.
LEMMA UnlinkWriteKeeps ==
  ASSUME DirectoryInv, NEW k \in Key, NEW v \in Value, Written(k, v),
         UnlinkForm(job.writes)
  PROVE  DirectoryInv'
<1>1. PICK W : W = job.writes
  OBVIOUS
<1>2. PICK h \in Handle :
        /\ W[Len(W)] = [key |-> <<"link", h>>, value |-> None]
        /\ \A i \in 1 .. Len(W) - 1 : W[i].value = None /\ W[i].key \in ContextKey
        /\ Overlays(h) \subseteq Pending
  BY <1>1 DEF UnlinkForm
<1>3. CASE Len(W) = 1
  <2>1. k = <<"link", h>> /\ v = None /\ job'.writes = <<>> /\ Pending = {k}
    <3>1. /\ job.writes[1] = [key |-> k, value |-> v]
          /\ job'.writes = <<>> /\ Pending = {k}
      BY <1>1, <1>3, OnlyWrite
    <3>2. job.writes[1] = [key |-> <<"link", h>>, value |-> None]
      BY <1>1, <1>2, <1>3
    <3>3. [key |-> k, value |-> v] = [key |-> <<"link", h>>, value |-> None]
      BY <3>1, <3>2
    <3> QED BY <3>1, <3>3
  <2>2. Overlays(h) = {}
    BY <1>2, <2>1, OverlaysAreKeys, KindsOfKeys
  <2>3. LeftGood'
    <3>1. \A g \in Handle : k = <<"link", g>> => g = h
      BY <2>1
    <3> QED BY <2>1, <2>2, <3>1, WriteLeaves
  <2>4. StoreGood'
    BY <2>1, KindsOfKeys, RemovalKeepsStore
  <2>5. WritesGood'
    BY <2>1 DEF WritesGood, Written
  <2> QED BY <2>3, <2>4, <2>5 DEF DirectoryInv
<1>4. CASE Len(W) # 1
  <2>1. /\ 1 \in 1 .. Len(W) - 1 /\ W[1].key = k /\ W[1].value = v
        /\ Tail(W) # <<>>
        /\ Tail(W)[Len(Tail(W))] = [key |-> <<"link", h>>, value |-> None]
        /\ \A i \in 1 .. Len(Tail(W)) - 1 :
             i + 1 \in 1 .. Len(W) - 1 /\ Tail(W)[i] = W[i + 1]
    BY <1>1, <1>2, <1>4, RestOfRemovals
  <2>2. k \in ContextKey /\ v = None
    BY <1>2, <2>1
  <2>3. LeftGood'
    BY <2>2, WriteLeaves, KindsOfKeys
  <2>4. StoreGood'
    BY <2>2, KindsOfKeys, RemovalKeepsStore
  <2>5. \A i \in 1 .. Len(Tail(W)) - 1 : Tail(W)[i].value = None /\ Tail(W)[i].key \in ContextKey
    BY <1>2, <2>1
  <2>6. Overlays(h)' \subseteq Pending'
    BY <1>2, <2>2 DEF Written
  <2>7. job'.writes = Tail(W)
    BY <1>1 DEF Written
  <2>8. UnlinkForm(job.writes)'
    BY <2>1, <2>5, <2>6, <2>7 DEF UnlinkForm
  <2>9. WritesGood'
    BY <2>8 DEF WritesGood, Written
  <2> QED BY <2>3, <2>4, <2>9 DEF DirectoryInv
<1> QED BY <1>3, <1>4

\* delete, write by write.
LEMMA DeleteWriteKeeps ==
  ASSUME DirectoryInv, NEW k \in Key, NEW v \in Value, Written(k, v),
         DeleteForm(job.writes)
  PROVE  DirectoryInv'
<1>1. PICK W : W = job.writes
  OBVIOUS
<1>2. PICK u \in User :
        /\ W[Len(W)] = [key |-> <<"user", u>>, value |-> None]
        /\ \A i \in 1 .. Len(W) - 1 : W[i].value = None /\ W[i].key \notin UserKey
        /\ \A h \in LinksOf(u) : <<"link", h>> \in Pending
        /\ \A m \in Name : Named(m) = u => <<"name", m>> \in Pending
        /\ \A h \in Handle : <<"link", h>> \in Pending => Overlays(h) \subseteq Pending
  BY <1>1 DEF DeleteForm
<1>3. job.op = "delete" /\ u # None
  BY NoneIsApart DEF DeleteForm, User
<1>4. CASE Len(W) = 1
  <2>1. k = <<"user", u>> /\ v = None /\ job'.writes = <<>> /\ Pending = {k}
    <3>1. /\ job.writes[1] = [key |-> k, value |-> v]
          /\ job'.writes = <<>> /\ Pending = {k}
      BY <1>1, <1>4, OnlyWrite
    <3>2. job.writes[1] = [key |-> <<"user", u>>, value |-> None]
      BY <1>1, <1>2, <1>4
    <3>3. [key |-> k, value |-> v] = [key |-> <<"user", u>>, value |-> None]
      BY <3>1, <3>2
    <3> QED BY <3>1, <3>3
  <2>2. LeftGood'
    BY <2>1, WriteLeaves, KindsOfKeys
  <2>3. /\ \A x \in User : AstridUser(x)' = IF x = u THEN None ELSE AstridUser(x)
        /\ \A h \in Handle : FrontendLink(h)' = FrontendLink(h)
        /\ \A m \in Name : Named(m)' = Named(m)
        /\ kv' \in [Key -> Value] /\ drawn' = drawn
    BY <2>1, KindsOfKeys DEF Written
  <2>4. ASSUME NEW h \in Handle, FrontendLink(h)' # None
        PROVE  FrontendLink(h)' \in LinkRec /\ AstridUser(FrontendLink(h).user)' # None
    <3>1. FrontendLink(h) \in LinkRec /\ AstridUser(FrontendLink(h).user) # None
      BY <2>3, <2>4 DEF DirectoryInv, StoreGood
    <3>2. PICK x \in User : x = FrontendLink(h).user /\ x = FrontendLink(h)'.user
      BY <2>3, <3>1 DEF LinkRec
    <3>3. x # u
      <4>1. h \notin LinksOf(u)
        BY <1>2, <2>1
      <4> QED BY <2>3, <2>4, <3>2, <4>1 DEF LinksOf
    <3>4. AstridUser(x)' # None
      BY <2>3, <3>1, <3>2, <3>3 DEF AstridUser
    <3> QED BY <2>3, <3>1, <3>2, <3>4 DEF AstridUser
  <2>5. ASSUME NEW m \in Name, Named(m)' # None
        PROVE  /\ Named(m)' \in User
               /\ AstridUser(Named(m))' # None /\ AstridUser(Named(m))'.name = m
    <3>1. PICK x \in User : x = Named(m) /\ x = Named(m)'
      BY <2>3, <2>5 DEF DirectoryInv, StoreGood
    <3>2. AstridUser(x) # None /\ AstridUser(x).name = m
      BY <2>3, <2>5, <3>1 DEF DirectoryInv, StoreGood
    <3>3. x # u
      BY <1>2, <2>1, <3>1
    <3>4. AstridUser(x)' # None /\ AstridUser(x)'.name = m
      BY <2>3, <3>2, <3>3
    <3> QED BY <3>1, <3>4 DEF AstridUser
  <2>6. \A x \in User : /\ AstridUser(x)' \in UserRec \cup {None}
                        /\ AstridUser(x)' # None => x <= drawn'
    BY <2>3 DEF DirectoryInv, StoreGood
  <2>7. StoreGood'
    BY <2>3, <2>4, <2>5, <2>6 DEF StoreGood, DirectoryInv
  <2>8. WritesGood'
    BY <2>1 DEF WritesGood, Written
  <2> QED BY <2>2, <2>7, <2>8 DEF DirectoryInv
<1>5. CASE Len(W) # 1
  <2>1. /\ 1 \in 1 .. Len(W) - 1 /\ W[1].key = k /\ W[1].value = v
        /\ Tail(W) # <<>>
        /\ Tail(W)[Len(Tail(W))] = [key |-> <<"user", u>>, value |-> None]
        /\ \A i \in 1 .. Len(Tail(W)) - 1 :
             i + 1 \in 1 .. Len(W) - 1 /\ Tail(W)[i] = W[i + 1]
    BY <1>1, <1>2, <1>5, RestOfRemovals
  <2>2. k \notin UserKey /\ v = None
    BY <1>2, <2>1
  <2>3. k \in Pending
    BY DEF Written
  <2>4. LeftGood'
    <3>1. \A h \in Handle : k = <<"link", h>> => Overlays(h) \subseteq Pending
      BY <1>2, <2>3
    <3> QED BY <1>3, <2>2, <3>1, WriteLeaves
  <2>5. StoreGood'
    BY <2>2, RemovalKeepsStore
  <2>6. \A i \in 1 .. Len(Tail(W)) - 1 : Tail(W)[i].value = None /\ Tail(W)[i].key \notin UserKey
    BY <1>2, <2>1
  <2>7. job'.writes = Tail(W) /\ job'.op = "delete" /\ Pending = Pending' \cup {k}
    BY <1>1, <1>3, <2>1 DEF Written
  <2>8. ASSUME NEW h \in LinksOf(u)'
        PROVE  <<"link", h>> \in Pending'
    <3>1. h \in Handle /\ FrontendLink(h)' # None /\ FrontendLink(h)'.user = u
      BY <2>8 DEF LinksOf
    <3>2. k # <<"link", h>> /\ FrontendLink(h)' = FrontendLink(h)
      BY <2>2, <3>1 DEF Written
    <3>3. h \in LinksOf(u)
      BY <3>1, <3>2 DEF LinksOf
    <3> QED BY <1>2, <2>7, <3>2, <3>3
  <2>9. ASSUME NEW m \in Name, Named(m)' = u
        PROVE  <<"name", m>> \in Pending'
    <3>1. k # <<"name", m>> /\ Named(m) = u
      BY <1>3, <2>2, <2>9 DEF Written
    <3> QED BY <1>2, <2>7, <3>1
  <2>10. ASSUME NEW h \in Handle, <<"link", h>> \in Pending'
         PROVE  Overlays(h)' \subseteq Pending'
    <3>1. Overlays(h) \subseteq Pending
      BY <1>2, <2>7, <2>10
    <3>2. Overlays(h)' \ {k} = Overlays(h) \ {k} /\ k \notin Overlays(h)'
      BY <2>2 DEF Written
    <3> QED BY <2>7, <3>1, <3>2
  <2>11. DeleteForm(job.writes)'
    BY <2>1, <2>6, <2>7, <2>8, <2>9, <2>10 DEF DeleteForm
  <2>12. WritesGood'
    BY <2>11 DEF WritesGood, Written
  <2> QED BY <2>4, <2>5, <2>12 DEF DirectoryInv
<1> QED BY <1>4, <1>5

\* One write of whatever operation it is.
LEMMA WriteKeeps ==
  ASSUME DirectoryInv, Write
  PROVE  DirectoryInv'
<1>1. PICK k \in Key, v \in Value : Written(k, v)
  BY WriteWrites
<1>2. \/ RecordForm(job.writes) \/ IndexForm(job.writes) \/ LinkForm(job.writes)
      \/ OverlayForm(job.writes) \/ UnlinkForm(job.writes) \/ DeleteForm(job.writes)
  BY <1>1 DEF Written, DirectoryInv, WritesGood
<1> QED BY <1>1, <1>2, RecordWriteKeeps, LastWriteKeeps, UnlinkWriteKeeps, DeleteWriteKeeps

\* What a deletion that is cut off has left is on record.
LEMMA LeftAreLeaving ==
  ASSUME DirectoryInv, NEW h \in Handle, FrontendLink(h) = None, Overlays(h) # {}
  PROVE  h \in torn \cup Leaving
<1> SUFFICES ASSUME h \notin torn
             PROVE  h \in Leaving
  OBVIOUS
<1>1. job.op = "delete" /\ Overlays(h) \subseteq Pending
  BY DEF DirectoryInv, LeftGood
<1>2. PICK k \in Overlays(h) : k \in Pending
  BY <1>1
<1>3. PICK i \in DOMAIN job.writes : job.writes[i].key = k
  BY <1>2 DEF Pending, KeysOf
<1>4. k[1] = "context" /\ k[2][1] = h
  BY KindsOfKeys DEF Overlays
<1>5. \E w \in Range(job.writes) : w.key[1] = "context" /\ w.key[2][1] = h
  BY <1>3, <1>4 DEF Range
<1> QED BY <1>1, <1>5 DEF Leaving

\* A write that fails, or the end of the capsule.
LEMMA CutOffKeeps ==
  ASSUME DirectoryInv, CutOff
  PROVE  DirectoryInv'
<1>1. job' = Idle /\ kv' = kv /\ drawn' = drawn /\ torn' = torn \cup Leaving
  BY DEF CutOff
<1>2. StoreGood'
  BY <1>1 DEF DirectoryInv, StoreGood, AstridUser, FrontendLink, Named
<1>3. LeftGood'
  <2>1. \A h \in Handle : FrontendLink(h)' = FrontendLink(h) /\ Overlays(h)' = Overlays(h)
    BY <1>1 DEF FrontendLink, Overlays
  <2> QED BY <1>1, <2>1, LeftAreLeaving DEF LeftGood
<1>4. WritesGood'
  <2>1. <<>> \in Seq(WriteRec)
    OBVIOUS
  <2> QED BY <1>1, <2>1 DEF WritesGood, Idle
<1> QED BY <1>2, <1>3, <1>4 DEF DirectoryInv

-----------------------------------------------------------------------------

\* An empty store is in order.
LEMMA InitEstablishes ==
  ASSUME Init
  PROVE  DirectoryInv
<1>1. kv = [k \in Key |-> None] /\ job = Idle /\ drawn = 0 /\ torn = {}
  BY DEF Init
<1>2. /\ \A u \in User : AstridUser(u) = None
      /\ \A h \in Handle : FrontendLink(h) = None
      /\ \A n \in Name : Named(n) = None
      /\ \A h \in Handle : Overlays(h) = {}
  BY <1>1, KindsOfKeys DEF AstridUser, FrontendLink, Named, Overlays
<1>3. StoreGood
  BY <1>1, <1>2 DEF StoreGood, Value
<1>4. LeftGood
  BY <1>2 DEF LeftGood
<1>5. WritesGood
  <2>1. <<>> \in Seq(WriteRec)
    OBVIOUS
  <2> QED BY <1>1, <2>1 DEF WritesGood, Idle
<1> QED BY <1>3, <1>4, <1>5 DEF DirectoryInv

\* Every step keeps the directory in order.
LEMMA NextKeeps ==
  ASSUME DirectoryInv, [Next]_vars
  PROVE  DirectoryInv'
<1>1. ASSUME NEW n \in Name \cup {None}, CreateUser(n)
      PROVE  DirectoryInv'
  BY <1>1, CreateUserKeeps
<1>2. ASSUME NEW u \in User, NEW n \in Name \cup {None}, SetDisplayName(u, n)
      PROVE  DirectoryInv'
  BY <1>2, SetDisplayNameKeeps
<1>3. ASSUME NEW u \in User, NEW k \in PublicKey \cup {None}, SetPublicKey(u, k)
      PROVE  DirectoryInv'
  BY <1>3, SetPublicKeyKeeps
<1>4. ASSUME NEW u \in User, DeleteUser(u)
      PROVE  DirectoryInv'
  BY <1>4, DeleteUserKeeps
<1>5. ASSUME NEW u \in User, NEW h \in Handle, NEW nick \in Nick \cup {None},
             Link(h, u, nick)
      PROVE  DirectoryInv'
  BY <1>5, LinkKeeps
<1>6. ASSUME NEW h \in Handle, Unlink(h)
      PROVE  DirectoryInv'
  BY <1>6, UnlinkKeeps
<1>7. ASSUME NEW h \in Handle, NEW c \in Context,
             ClearContext(h, c) \/ \E nick \in Nick : SetContext(h, c, nick)
      PROVE  DirectoryInv'
  BY <1>7, ContextKeeps
<1>8. CASE Write
  BY <1>8, WriteKeeps
<1>9. CASE CutOff
  BY <1>9, CutOffKeeps
<1>10. CASE UNCHANGED vars
  <2>1. kv' = kv /\ job' = job /\ drawn' = drawn /\ torn' = torn
    BY <1>10 DEF vars
  <2>2. StoreGood'
    BY <2>1 DEF DirectoryInv, StoreGood, AstridUser, FrontendLink, Named
  <2>3. Pending' = Pending /\ \A h \in Handle : Overlays(h)' = Overlays(h)
    BY <2>1 DEF Pending, Overlays
  <2>4. LeftGood'
    BY <2>1, <2>3 DEF DirectoryInv, LeftGood, FrontendLink
  <2>5. RecordForm(job.writes) => RecordForm(job.writes)'
    BY <2>1 DEF RecordForm, Named
  <2>6. IndexForm(job.writes) => IndexForm(job.writes)'
    BY <2>1 DEF IndexForm, AstridUser
  <2>7. LinkForm(job.writes) => LinkForm(job.writes)'
    BY <2>1 DEF LinkForm, AstridUser
  <2>8. OverlayForm(job.writes) => OverlayForm(job.writes)'
    BY <2>1 DEF OverlayForm, FrontendLink
  <2>9. UnlinkForm(job.writes) => UnlinkForm(job.writes)'
    BY <2>1, <2>3 DEF UnlinkForm
  <2>10. DeleteForm(job.writes) => DeleteForm(job.writes)'
    <3>1. \A u \in User : LinksOf(u)' = LinksOf(u)
      BY <2>1 DEF LinksOf, FrontendLink
    <3> QED BY <2>1, <2>3, <3>1 DEF DeleteForm, Named
  <2>11. WritesGood'
    BY <2>1, <2>5, <2>6, <2>7, <2>8, <2>9, <2>10 DEF DirectoryInv, WritesGood
  <2> QED BY <2>2, <2>4, <2>11 DEF DirectoryInv
<1> QED BY <1>1, <1>2, <1>3, <1>4, <1>5, <1>6, <1>7, <1>8, <1>9, <1>10 DEF Next

\* The inductive invariant implies that the references hold.
LEMMA InvImpliesReferences ==
  ASSUME DirectoryInv
  PROVE  ReferencesHold
<1>1. ASSUME NEW h \in Handle, NEW c \in Context, FrontendLink(h) # None
      PROVE  Resolve(h, c).user # None
  <2>1. AstridUser(FrontendLink(h).user) # None
    BY <1>1 DEF DirectoryInv, StoreGood
  <2> QED BY <1>1, <2>1 DEF Resolve
<1>2. ASSUME NEW n \in Name, Named(n) # None
      PROVE  AstridUser(Named(n)) # None /\ AstridUser(Named(n)).name = n
  BY <1>2 DEF DirectoryInv, StoreGood
<1> QED BY <1>1, <1>2, LeftAreLeaving DEF ReferencesHold

\* Wherever an operation is cut off, an account resolves to a user that exists,
\* the index leads to a user of that name, and a nickname is left over only by a
\* deletion that was cut off (users.rs: unlink, set_display_name, delete_user).
THEOREM References == Spec => []ReferencesHold
<1>1. Init => DirectoryInv
  BY InitEstablishes
<1>2. DirectoryInv /\ [Next]_vars => DirectoryInv'
  BY NextKeeps
<1>3. DirectoryInv => ReferencesHold
  BY InvImpliesReferences
<1> QED BY <1>1, <1>2, <1>3, PTL DEF Spec
=============================================================================
