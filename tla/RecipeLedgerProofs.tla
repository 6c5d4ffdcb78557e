------------------------- MODULE RecipeLedgerProofs -------------------------
(***************************************************************************)
(* The ledger of workspace recipes, for any number of recipes, patches,    *)
(* fields and revisions, and any number of deaths and failed writes        *)
(* between the writes of a commit: what is left can be opened again, a     *)
(* patch that was acknowledged stays, and what is visible is committed.    *)
(*                                                                         *)
(* A commit that fails after the pointer was moved leaves the disk one     *)
(* revision ahead of memory, one that fails before leaves a revision that  *)
(* no pointer reaches: what has to be invariant is that whoever commits    *)
(* next, above either, cannot put another revision in its place.           *)
(***************************************************************************)
EXTENDS RecipeLedger, SequenceTheorems, TLAPS

\* The clients of two recipes do not use the same patch id.
IdsApart == \A r, s \in Recipe : r # s => Ids[r] \cap Ids[s] = {}

Content   == [Field -> PatchId \cup {None}]
Chain     == Seq(Content)
Ops       == [kind : {"set"}, fields : UNION {[K -> PatchId] : K \in SUBSET Field}]
             \cup [kind : {"restore"}, target : Nat]
PatchType == [id : PatchId, recipe : Recipe, base : Chain, ops : Ops]
Revision  == [recipe : Recipe, chain : Chain, patch : PatchType \cup {None}]
Memory    == [chain : Chain, patches : Seq(PatchType)]
Commit    == [recipe : Recipe, chain : Chain, patch : PatchType \cup {None}, expected : Chain,
              at : {"object", "revision", "pointer", "journal", "done"}]

TypesGood ==
  /\ disk = [objects |-> disk.objects, revisions |-> disk.revisions,
             journal |-> disk.journal, pointer |-> disk.pointer]
  /\ disk.revisions \subseteq Revision
  /\ disk.pointer \in [Recipe -> Chain]
  /\ store \in [Recipe -> Memory] \cup {None}
  /\ commit \in Commit \cup {None}

\* What a patch may do to a chain.
Applies(p, chain) ==
  p.ops \in Ops /\ (p.ops.kind = "restore" => p.ops.target \in DOMAIN chain)

\* A revision was made of the one before by its patch.
Made(e) ==
  /\ Len(e.chain) >= 1
  /\ IF Len(e.chain) = 1 THEN e.patch = None /\ e.chain = <<Empty>>
     ELSE /\ e.patch # None /\ e.patch.recipe = e.recipe /\ e.patch.id \in Ids[e.recipe]
          /\ e.patch.base = Prefix(e.chain, Len(e.chain) - 1)
          /\ e.chain = Patched(e.patch.base, e.patch) /\ Applies(e.patch, e.patch.base)

\* Every revision, committed or not, is whole, and there is one of a number.
RevisionsGood ==
  /\ \A e \in disk.revisions : Made(e) /\ <<e.recipe, e.chain>> \in disk.objects
  /\ \A d, e \in disk.revisions :
       d.recipe = e.recipe /\ Len(d.chain) = Len(e.chain) => d = e

\* The revisions up to a pointer are there, each a prefix of the last, and no
\* two of them were made by patches of one id.
PointersGood ==
  /\ \A r \in Recipe :
       /\ \A n \in 1 .. Len(disk.pointer[r]) :
            \E e \in disk.revisions : e.recipe = r /\ Len(e.chain) = n
       /\ \A e \in Committed(r) : e.chain = Prefix(disk.pointer[r], Len(e.chain))
  /\ \A d, e \in Patches : d.patch.id = e.patch.id => d = e

\* The journal is about what was committed.
JournalGood == \A j \in disk.journal : \E e \in Patches : j = Record(e)

\* Memory is what was committed, or one revision behind; each patch it knows
\* made a revision, and is in the journal.
MemoryGood ==
  store # None => \A r \in Recipe :
    /\ Len(disk.pointer[r]) \in {Len(store[r].chain), Len(store[r].chain) + 1}
    /\ store[r].chain = Prefix(disk.pointer[r], Len(store[r].chain))
    /\ Len(store[r].patches) = IF store[r].chain = <<>> THEN 0 ELSE Len(store[r].chain) - 1
    /\ \A n \in 1 .. Len(store[r].patches) : \E e \in disk.revisions :
         /\ e.recipe = r /\ Len(e.chain) = n + 1 /\ e.patch = store[r].patches[n]
         /\ Record(e) \in disk.journal

\* The commit in progress: a revision above what is in memory, by a patch memory
\* does not know, and how far it has got.
CommitGood ==
  commit # None =>
    /\ store # None
    /\ Made(Envelope(commit))
    /\ store[commit.recipe].chain = Prefix(commit.chain, Len(commit.chain) - 1)
    /\ commit.patch # None => Known(commit.patch.id) = {}
    /\ commit.at # "object" => <<commit.recipe, commit.chain>> \in disk.objects
    /\ commit.at \in {"pointer", "journal", "done"} => Envelope(commit) \in disk.revisions
    /\ commit.at \in {"journal", "done"} => disk.pointer[commit.recipe] = commit.chain
    /\ commit.at = "journal" => commit.patch # None
    /\ commit.at = "done" /\ commit.patch # None => Record(Envelope(commit)) \in disk.journal

LedgerInv ==
  TypesGood /\ RevisionsGood /\ PointersGood /\ JournalGood /\ MemoryGood /\ CommitGood
  /\ AckedStays

-----------------------------------------------------------------------------
(* Prefixes and patches.                                                   *)

LEMMA PrefixIs ==
  ASSUME NEW S, NEW s \in Seq(S), NEW n \in 0 .. Len(s)
  PROVE  /\ Prefix(s, n) \in Seq(S) /\ Len(Prefix(s, n)) = n
         /\ \A i \in 1 .. n : Prefix(s, n)[i] = s[i]
<1>1. \A i \in 1 .. n : s[i] \in S
  BY ElementOfSeq
<1>2. n \in Int /\ n \in Nat
  OBVIOUS
<1>3. /\ SubSeq(s, 1, n) \in Seq(S)
      /\ Len(SubSeq(s, 1, n)) = IF 1 <= n THEN n - 1 + 1 ELSE 0
      /\ \A i \in 1 .. n - 1 + 1 : SubSeq(s, 1, n)[i] = s[1 + i - 1]
  BY <1>1, <1>2, SubSeqProperties
<1> QED BY <1>2, <1>3 DEF Prefix

LEMMA PrefixWhole ==
  ASSUME NEW S, NEW s \in Seq(S)
  PROVE  Prefix(s, Len(s)) = s
BY SubSeqFull DEF Prefix

LEMMA PrefixOfPrefix ==
  ASSUME NEW S, NEW s \in Seq(S), NEW n \in 0 .. Len(s), NEW m \in 0 .. n
  PROVE  Prefix(Prefix(s, n), m) = Prefix(s, m)
<1>1. /\ Prefix(s, n) \in Seq(S) /\ Len(Prefix(s, n)) = n
      /\ \A i \in 1 .. n : Prefix(s, n)[i] = s[i]
  BY PrefixIs
<1>2. /\ Prefix(Prefix(s, n), m) \in Seq(S) /\ Len(Prefix(Prefix(s, n), m)) = m
      /\ \A i \in 1 .. m : Prefix(Prefix(s, n), m)[i] = Prefix(s, n)[i]
  BY <1>1, PrefixIs
<1>3. /\ Prefix(s, m) \in Seq(S) /\ Len(Prefix(s, m)) = m
      /\ \A i \in 1 .. m : Prefix(s, m)[i] = s[i]
  BY PrefixIs
<1>4. \A i \in 1 .. m : Prefix(Prefix(s, n), m)[i] = Prefix(s, m)[i]
  BY <1>1, <1>2, <1>3
<1> QED BY <1>2, <1>3, <1>4, SeqEqual

\* A patch adds a revision.
LEMMA PatchedAdds ==
  ASSUME NEW chain \in Chain, chain # <<>>, NEW p, Applies(p, chain)
  PROVE  /\ Patched(chain, p) \in Chain
         /\ Len(Patched(chain, p)) = Len(chain) + 1
         /\ Prefix(Patched(chain, p), Len(chain)) = chain
<1>1. chain \in Seq(Content) /\ Len(chain) \in Nat \ {0} /\ DOMAIN chain = 1 .. Len(chain)
  BY EmptySeq, LenProperties DEF Chain
<1>2. Last(chain) \in Content
  BY <1>1, ElementOfSeq DEF Last
<1>3. PICK x : Patched(chain, p) = Append(chain, x) /\ x \in Content
  <2>1. CASE p.ops.kind = "restore"
    BY <1>1, <2>1, ElementOfSeq DEF Patched, Applies
  <2>2. CASE p.ops.kind # "restore"
    <3>1. PICK K \in SUBSET Field : p.ops.fields \in [K -> PatchId]
      BY <2>2 DEF Applies, Ops
    <3>2. \A k \in Field : (IF k \in DOMAIN p.ops.fields THEN p.ops.fields[k]
                            ELSE Last(chain)[k]) \in PatchId \cup {None}
      BY <1>2, <3>1 DEF Content
    <3>3. [k \in Field |-> IF k \in DOMAIN p.ops.fields THEN p.ops.fields[k]
                           ELSE Last(chain)[k]] \in Content
      BY <3>2 DEF Content
    <3> QED BY <2>2, <3>3 DEF Patched
  <2> QED BY <2>1, <2>2
<1>4. /\ Append(chain, x) \in Seq(Content) /\ Len(Append(chain, x)) = Len(chain) + 1
      /\ \A i \in 1 .. Len(chain) : Append(chain, x)[i] = chain[i]
  BY <1>1, <1>3, AppendProperties
<1>5. Len(chain) \in 0 .. Len(Append(chain, x))
  BY <1>1, <1>4
<1>6. /\ Prefix(Append(chain, x), Len(chain)) \in Seq(Content)
      /\ Len(Prefix(Append(chain, x), Len(chain))) = Len(chain)
      /\ \A i \in 1 .. Len(chain) : Prefix(Append(chain, x), Len(chain))[i] = chain[i]
  BY <1>4, <1>5, PrefixIs
<1>7. Prefix(Append(chain, x), Len(chain)) = chain
  BY <1>1, <1>6, SeqEqual
<1> QED BY <1>3, <1>4, <1>7 DEF Chain

LEMMA PatchIs ==
  ASSUME NEW id \in PatchId, NEW r \in Recipe, NEW base \in Chain, NEW ops \in Ops
  PROVE  \E p \in PatchType : /\ p = Patch(id, r, base, ops)
                              /\ p.id = id /\ p.recipe = r /\ p.base = base /\ p.ops = ops
<1>1. Patch(id, r, base, ops) \in PatchType
  BY DEF Patch, PatchType
<1>2. /\ Patch(id, r, base, ops).id = id /\ Patch(id, r, base, ops).recipe = r
      /\ Patch(id, r, base, ops).base = base /\ Patch(id, r, base, ops).ops = ops
  BY DEF Patch
<1> QED BY <1>1, <1>2

LEMMA PatchIsNotNone == \A p \in PatchType : p # None
BY NoneIsApart DEF PatchType, Ops, Chain, Content

-----------------------------------------------------------------------------
(* What is on disk and in memory.                                          *)

LEMMA DiskTypes ==
  ASSUME TypesGood
  PROVE  /\ \A e \in disk.revisions :
              /\ e.recipe \in Recipe /\ e.chain \in Chain /\ Len(e.chain) \in Nat
              /\ e.patch \in PatchType \cup {None}
              /\ e = [recipe |-> e.recipe, chain |-> e.chain, patch |-> e.patch]
         /\ \A r \in Recipe : disk.pointer[r] \in Chain /\ Len(disk.pointer[r]) \in Nat
BY LenProperties DEF TypesGood, Revision, Chain

LEMMA MemoryTypes ==
  ASSUME TypesGood, store # None, NEW r \in Recipe
  PROVE  /\ store[r].chain \in Chain /\ Len(store[r].chain) \in Nat
         /\ store[r].chain # <<>> => Len(store[r].chain) \in Nat \ {0}
         /\ store[r].patches \in Seq(PatchType) /\ Len(store[r].patches) \in Nat
BY LenProperties, EmptySeq DEF TypesGood, Memory, Chain

\* Each patch memory knows made a revision, and is in the journal.
LEMMA MadeInMemory ==
  ASSUME MemoryGood, store # None, NEW r \in Recipe, NEW n \in 1 .. Len(store[r].patches)
  PROVE  \E e \in disk.revisions :
           /\ e.recipe = r /\ Len(e.chain) = n + 1 /\ e.patch = store[r].patches[n]
           /\ Record(e) \in disk.journal
BY DEF MemoryGood

\* The patches of the committed revisions.
LEMMA PatchesAre ==
  ASSUME TypesGood
  PROVE  /\ \A r \in Recipe : \A e : e \in Committed(r) <=>
              e \in disk.revisions /\ e.recipe = r /\ Len(e.chain) <= Len(disk.pointer[r])
         /\ \A e : e \in Patches <=>
              /\ e \in disk.revisions /\ e.patch # None
              /\ Len(e.chain) <= Len(disk.pointer[e.recipe])
BY DiskTypes DEF Committed, Patches

\* A patch memory knows made a revision that is committed.
LEMMA KnownIsCommitted ==
  ASSUME LedgerInv, store # None, NEW id, NEW q \in Known(id)
  PROVE  \E e \in Patches : e.patch = q /\ e.recipe = q.recipe /\ q.id = id
<1> USE DEF LedgerInv
<1>1. PICK r \in Recipe : q \in Range(store[r].patches) /\ q.id = id
  BY DEF Known, Applied
<1>2. PICK n \in 1 .. Len(store[r].patches) : q = store[r].patches[n]
  BY <1>1, MemoryTypes, RangeEquality
<1>3. PICK e \in disk.revisions : e.recipe = r /\ Len(e.chain) = n + 1 /\ e.patch = q
  BY <1>2 DEF MemoryGood
<1>4. q # None /\ q.recipe = r
  <2>1. q \in PatchType
    BY <1>2, MemoryTypes, ElementOfSeq
  <2>2. Made(e)
    BY DEF RevisionsGood
  <2> QED BY <1>2, <1>3, <2>1, <2>2, MemoryTypes, PatchIsNotNone DEF Made
<1>5. n + 1 <= Len(disk.pointer[r])
  <2>1. PICK c \in Nat, l \in Nat, k \in Nat :
          c = Len(store[r].chain) /\ l = Len(disk.pointer[r]) /\ k = Len(store[r].patches)
    BY MemoryTypes, DiskTypes
  <2>2. l \in {c, c + 1} /\ k = (IF store[r].chain = <<>> THEN 0 ELSE c - 1)
    BY <2>1 DEF MemoryGood
  <2> QED BY <1>2, <2>1, <2>2
<1>6. e \in Patches
  BY <1>3, <1>4, <1>5, PatchesAre
<1> QED BY <1>1, <1>3, <1>4, <1>6

\* What is asked of the disk and what of memory and the commit.
DiskGood == RevisionsGood /\ PointersGood /\ JournalGood /\ AckedStays

\* Nothing on disk has changed.
LEMMA DiskStays ==
  ASSUME LedgerInv, disk' = disk, acked' = acked
  PROVE  DiskGood'
BY DEF LedgerInv, DiskGood, RevisionsGood, PointersGood, JournalGood, AckedStays, Committed,
       Patches

-----------------------------------------------------------------------------
(* The service's operations.                                               *)

\* A commit begins above what is in memory, by a patch that memory does not know.
LEMMA BeginKeeps ==
  ASSUME LedgerInv, Up, NEW r \in Recipe, NEW chain \in Chain, NEW p \in PatchType \cup {None},
         Begin(r, chain, p), UNCHANGED <<disk, store, faults, acked>>,
         Made([recipe |-> r, chain |-> chain, patch |-> p]),
         store[r].chain = Prefix(chain, Len(chain) - 1),
         p # None => Known(p.id) = {}
  PROVE  LedgerInv'
<1>1. PICK c \in Commit :
        /\ commit' = c
        /\ c.recipe = r /\ c.chain = chain /\ c.patch = p /\ c.at = "object"
  BY DiskTypes DEF LedgerInv, Begin, Commit
<1>2. TypesGood'
  BY <1>1 DEF LedgerInv, TypesGood
<1>3. MemoryGood'
  <2>1. MemoryGood /\ disk' = disk /\ store' = store
    BY DEF LedgerInv
  <2> QED BY <2>1 DEF MemoryGood, Record
<1>4. CommitGood'
  <2>1. Envelope(c) = [recipe |-> r, chain |-> chain, patch |-> p]
    BY <1>1 DEF Envelope
  <2>2. Made(Envelope(c))
    BY <2>1
  <2>3. Known(p.id)' = Known(p.id)
    BY DEF Known, Applied
  <2> QED BY <1>1, <2>2, <2>3 DEF CommitGood, Up
<1> QED BY <1>2, <1>3, <1>4, DiskStays DEF LedgerInv, DiskGood

\* A recipe is made.
LEMMA CreateRecipeKeeps ==
  ASSUME LedgerInv, Up, NEW r \in Recipe, CreateRecipe(r)
  PROVE  LedgerInv'
<1>1. Empty \in Content
  BY DEF Empty, Content
<1>2. PICK chain \in Chain : chain = <<Empty>> /\ Len(chain) = 1
  <2>1. <<Empty>> \in Seq(Content) /\ Len(<<Empty>>) = 1
    BY <1>1
  <2> QED BY <2>1 DEF Chain
<1>3. Made([recipe |-> r, chain |-> chain, patch |-> None])
  BY <1>2 DEF Made
<1>4. Prefix(chain, Len(chain) - 1) = <<>>
  BY <1>2, SubSeqEmpty DEF Prefix
<1> QED BY <1>2, <1>3, <1>4, BeginKeeps DEF CreateRecipe

\* A patch of what is in memory.
LEMMA ApplyPatchKeeps ==
  ASSUME LedgerInv, Up, NEW p \in PatchType, p.id \in Ids[p.recipe], Applies(p, p.base),
         Fits(p), Begin(p.recipe, Patched(p.base, p), p),
         UNCHANGED <<disk, store, faults, acked>>
  PROVE  LedgerInv'
<1>1. p.recipe \in Recipe /\ p.base \in Chain
  BY DEF PatchType
<1>2. store[p.recipe].chain # <<>> /\ store[p.recipe].chain = p.base /\ Known(p.id) = {}
  BY DEF Fits
<1>3. PICK chain \in Chain : /\ chain = Patched(p.base, p)
                             /\ Len(chain) = Len(p.base) + 1
                             /\ Prefix(chain, Len(p.base)) = p.base
  BY <1>1, <1>2, PatchedAdds
<1>4. Len(p.base) \in Nat \ {0}
  BY <1>1, <1>2, EmptySeq DEF Chain
<1>5. Len(chain) - 1 = Len(p.base) /\ Len(chain) >= 1 /\ Len(chain) # 1
  BY <1>3, <1>4
<1>6. Made([recipe |-> p.recipe, chain |-> chain, patch |-> p])
  BY <1>3, <1>5, PatchIsNotNone DEF Made
<1> QED BY <1>1, <1>2, <1>3, <1>5, <1>6, BeginKeeps

\* A patch that memory knows is acknowledged again.
LEMMA AgainKeeps ==
  ASSUME LedgerInv, Up, NEW r, NEW id, NEW q \in Known(id), q.recipe = r,
         acked' = acked \cup {<<r, id>>}, UNCHANGED <<disk, store, commit, faults>>
  PROVE  LedgerInv'
<1>1. TypesGood' /\ MemoryGood'
  BY DEF LedgerInv, TypesGood, MemoryGood
<1>2. CommitGood'
  BY DEF Up, CommitGood
<1>3. RevisionsGood' /\ PointersGood' /\ JournalGood'
  BY DEF LedgerInv, RevisionsGood, PointersGood, JournalGood, Committed, Patches
<1>4. PICK e \in Patches : e.patch = q /\ e.recipe = r /\ q.id = id
  BY KnownIsCommitted DEF Up
<1>5. Patches' = Patches
  BY DEF Patches, Committed
<1>6. AckedStays'
  BY <1>4, <1>5 DEF LedgerInv, AckedStays
<1> QED BY <1>1, <1>2, <1>3, <1>6 DEF LedgerInv

\* A client patches what it has read: memory takes the patch, knows it, or
\* merges it with the last one.
LEMMA PatchingKeeps ==
  ASSUME LedgerInv, Up, NEW r \in Recipe, Patching(r)
  PROVE  LedgerInv'
<1> USE DEF LedgerInv
<1>0. PICK id \in Ids[r], base \in Bases(r) :
        \E ops \in Sets(id) \cup {Restore(n) : n \in DOMAIN base} :
          LET p == Patch(id, r, base, ops)
          IN  \/ ApplyPatch(p) \/ ApplyAgain(p)
              \/ \E other \in Ids[r] : ApplyMerged(p, other)
  BY DEF Patching
<1>1. PICK ops \in Sets(id) \cup {Restore(n) : n \in DOMAIN base} :
        LET p == Patch(id, r, base, ops)
        IN  \/ ApplyPatch(p) \/ ApplyAgain(p)
            \/ \E other \in Ids[r] : ApplyMerged(p, other)
  BY <1>0
<1>2. id \in PatchId /\ Ids[r] \subseteq PatchId
  BY DEF PatchId
<1>3. store[r].chain \in Chain /\ Len(store[r].chain) \in Nat
  BY MemoryTypes DEF Up
<1>4. base \in Chain
  <2>1. PICK n \in DOMAIN store[r].chain : base = Prefix(store[r].chain, n)
    BY DEF Bases
  <2>2. n \in 0 .. Len(store[r].chain)
    BY <1>3, LenProperties DEF Chain
  <2> QED BY <1>3, <2>1, <2>2, PrefixIs DEF Chain
<1>5. ops \in Ops /\ (ops.kind = "restore" => ops.target \in DOMAIN base)
  <2>1. CASE ops \in Sets(id)
    <3>1. PICK K \in SUBSET Field : ops = Set([k \in K |-> id])
      BY <2>1 DEF Sets
    <3>2. [k \in K |-> id] \in [K -> PatchId]
      BY <1>2
    <3>3. [k \in K |-> id] \in UNION {[L -> PatchId] : L \in SUBSET Field}
      BY <3>2
    <3> QED BY <3>1, <3>3 DEF Set, Ops
  <2>2. CASE ops \in {Restore(n) : n \in DOMAIN base}
    <3>1. PICK n \in DOMAIN base : ops = Restore(n)
      BY <2>2
    <3>2. n \in Nat
      BY <1>4, LenProperties DEF Chain
    <3> QED BY <3>1, <3>2 DEF Restore, Ops
  <2> QED BY <2>1, <2>2
<1>6. PICK p \in PatchType :
        p = Patch(id, r, base, ops) /\ p.id = id /\ p.recipe = r /\ p.base = base /\ p.ops = ops
  BY <1>2, <1>4, <1>5, PatchIs
<1>7. CASE ApplyPatch(p)
  BY <1>5, <1>6, <1>7, ApplyPatchKeeps DEF ApplyPatch, Applies
<1>8. CASE ApplyAgain(p)
  <2>1. PICK q \in Known(id) : q.recipe = r
    BY <1>6, <1>8 DEF ApplyAgain, Again, Intent
  <2> QED BY <1>6, <1>8, <2>1, AgainKeeps DEF ApplyAgain
<1>9. ASSUME NEW other \in Ids[r], ApplyMerged(p, other)
      PROVE  LedgerInv'
  <2>1. PICK last : last = Last(store[r].patches)
    OBVIOUS
  <2>2. /\ store[r].patches # <<>> /\ Disjoint(last, p)
        /\ Fits(Merged(last, p, other))
        /\ Begin(r, Patched(Merged(last, p, other).base, Merged(last, p, other)),
                 Merged(last, p, other))
        /\ UNCHANGED <<disk, store, faults, acked>>
    BY <1>6, <1>9, <2>1 DEF ApplyMerged, Merged, Patch
  <2>3. last \in PatchType
    <3>1. store[r].patches \in Seq(PatchType) /\ Len(store[r].patches) \in Nat \ {0}
      BY <2>2, MemoryTypes, EmptySeq DEF Up
    <3> QED BY <2>1, <3>1, ElementOfSeq DEF Last
  <2>4. PICK K \in SUBSET Field, L \in SUBSET Field :
          last.ops.fields \in [K -> PatchId] /\ p.ops.fields \in [L -> PatchId]
    BY <2>2, <2>3 DEF Disjoint, PatchType, Ops
  <2>5. PICK f \in [K \cup L -> PatchId] :
          f = [k \in K \cup L |-> IF k \in L THEN p.ops.fields[k] ELSE last.ops.fields[k]]
    BY <2>4
  <2>6. Merged(last, p, other) = Patch(other, r, store[r].chain, Set(f))
    BY <1>6, <2>2, <2>4, <2>5 DEF Merged, Fields, Disjoint
  <2>7. Set(f) \in Ops /\ Set(f).kind = "set"
    <3>1. K \cup L \in SUBSET Field
      OBVIOUS
    <3>2. f \in UNION {[J -> PatchId] : J \in SUBSET Field}
      BY <2>5, <3>1
    <3> QED BY <3>2 DEF Set, Ops
  <2>8. PICK m \in PatchType : /\ m = Merged(last, p, other)
                               /\ m.id = other /\ m.recipe = r /\ m.ops = Set(f)
    BY <1>2, <1>3, <2>6, <2>7 DEF Patch, PatchType
  <2> QED BY <2>2, <2>7, <2>8, ApplyPatchKeeps DEF Applies
<1> QED BY <1>1, <1>6, <1>7, <1>8, <1>9

\* What is current is replaced by an older revision, once for each id.
LEMMA RollbackKeeps ==
  ASSUME LedgerInv, Up, NEW r \in Recipe, NEW id \in Ids[r], NEW target, Rollback(r, id, target)
  PROVE  LedgerInv'
<1>1. target \in DOMAIN store[r].chain
  BY DEF Rollback
<1>2. id \in PatchId
  BY DEF PatchId
<1>3. store[r].chain \in Chain /\ target \in Nat
  BY <1>1, MemoryTypes, LenProperties DEF Up, LedgerInv, Chain
<1>4. Restore(target) \in Ops /\ Restore(target).target = target
  BY <1>3 DEF Restore, Ops
<1>5. CASE ApplyPatch(Patch(id, r, store[r].chain, Restore(target)))
  <2>1. PICK p \in PatchType :
          /\ p = Patch(id, r, store[r].chain, Restore(target)) /\ p.id = id
          /\ p.recipe = r /\ p.base = store[r].chain /\ p.ops = Restore(target)
    BY <1>2, <1>3, <1>4, PatchIs
  <2> QED BY <1>1, <1>4, <1>5, <2>1, ApplyPatchKeeps DEF ApplyPatch, Applies
<1>6. CASE /\ \E q \in Known(id) : q.recipe = r /\ q.ops = Restore(target)
           /\ acked' = acked \cup {<<r, id>>}
           /\ UNCHANGED <<disk, store, commit, faults>>
  BY <1>6, AgainKeeps
<1> QED BY <1>5, <1>6 DEF Rollback

-----------------------------------------------------------------------------
(* The commit.                                                             *)

\* The disk with one of its parts written.
LEMMA DiskWritten ==
  ASSUME TypesGood, NEW x
  PROVE  /\ disk' = [disk EXCEPT !.objects = x] =>
              /\ disk' = [objects |-> x, revisions |-> disk.revisions,
                          journal |-> disk.journal, pointer |-> disk.pointer]
              /\ disk'.objects = x /\ disk'.revisions = disk.revisions
              /\ disk'.journal = disk.journal /\ disk'.pointer = disk.pointer
         /\ disk' = [disk EXCEPT !.revisions = x] =>
              /\ disk' = [objects |-> disk.objects, revisions |-> x,
                          journal |-> disk.journal, pointer |-> disk.pointer]
              /\ disk'.objects = disk.objects /\ disk'.revisions = x
              /\ disk'.journal = disk.journal /\ disk'.pointer = disk.pointer
         /\ disk' = [disk EXCEPT !.journal = x] =>
              /\ disk' = [objects |-> disk.objects, revisions |-> disk.revisions,
                          journal |-> x, pointer |-> disk.pointer]
              /\ disk'.objects = disk.objects /\ disk'.revisions = disk.revisions
              /\ disk'.journal = x /\ disk'.pointer = disk.pointer
         /\ disk' = [disk EXCEPT !.pointer = x] =>
              /\ disk' = [objects |-> disk.objects, revisions |-> disk.revisions,
                          journal |-> disk.journal, pointer |-> x]
              /\ disk'.objects = disk.objects /\ disk'.revisions = disk.revisions
              /\ disk'.journal = disk.journal /\ disk'.pointer = x
<1>1. PICK o, v, j, c : disk = [objects |-> o, revisions |-> v, journal |-> j, pointer |-> c]
  BY DEF TypesGood
<1> QED BY <1>1

\* The next write of a commit.
LEMMA ThenIs ==
  ASSUME TypesGood, commit # None, NEW stage \in {"revision", "pointer", "journal", "done"},
         Then(stage)
  PROVE  /\ commit' \in Commit /\ commit'.at = stage /\ Envelope(commit') = Envelope(commit)
         /\ commit'.recipe = commit.recipe /\ commit'.chain = commit.chain
         /\ commit'.patch = commit.patch
<1>1. PICK c \in Commit : c = commit
  BY DEF TypesGood
<1>2. commit' = [c EXCEPT !.at = stage]
  BY <1>1 DEF Then
<1> QED BY <1>1, <1>2 DEF Commit, Envelope

LEMMA CommitTypes ==
  ASSUME TypesGood, commit # None
  PROVE  /\ commit.recipe \in Recipe /\ commit.chain \in Chain /\ Len(commit.chain) \in Nat
         /\ commit.patch \in PatchType \cup {None}
         /\ Envelope(commit) \in Revision
         /\ Envelope(commit).recipe = commit.recipe /\ Envelope(commit).chain = commit.chain
         /\ Envelope(commit).patch = commit.patch
<1>1. commit \in Commit
  BY DEF TypesGood
<1>2. commit.recipe \in Recipe /\ commit.chain \in Chain /\ commit.patch \in PatchType \cup {None}
  BY <1>1 DEF Commit
<1> QED BY <1>2, LenProperties DEF Envelope, Revision, Chain

\* A write that lets the committed patches, the pointers and memory alone, and
\* loses nothing that was journalled.
LEMMA WriteKeeps ==
  ASSUME LedgerInv, TypesGood', RevisionsGood', JournalGood',
         disk'.pointer = disk.pointer, disk.revisions \subseteq disk'.revisions,
         disk.journal \subseteq disk'.journal,
         PointersGood', Patches \subseteq Patches',
         store' = store, acked' = acked
  PROVE  MemoryGood' /\ AckedStays'
<1>1. MemoryGood'
  BY DEF LedgerInv, MemoryGood
<1>2. AckedStays'
  BY DEF LedgerInv, AckedStays
<1> QED BY <1>1, <1>2

LEMMA PutObjectKeeps ==
  ASSUME LedgerInv, PutObject
  PROVE  LedgerInv'
<1> USE DEF LedgerInv
<1>1. /\ commit # None /\ commit.at = "object" /\ Then("revision")
      /\ UNCHANGED <<store, faults, acked>>
      /\ disk' = [disk EXCEPT !.objects = @ \cup {<<commit.recipe, commit.chain>>}]
  BY DEF PutObject, Writing
<1>2. /\ disk' = [objects |-> disk'.objects, revisions |-> disk'.revisions,
                  journal |-> disk'.journal, pointer |-> disk'.pointer]
      /\ disk'.objects = disk.objects \cup {<<commit.recipe, commit.chain>>}
      /\ disk'.revisions = disk.revisions /\ disk'.journal = disk.journal
      /\ disk'.pointer = disk.pointer
  <2>1. PICK x : x = disk.objects \cup {<<commit.recipe, commit.chain>>}
    OBVIOUS
  <2>2. disk' = [disk EXCEPT !.objects = x]
    BY <1>1, <2>1
  <2> QED BY <2>1, <2>2, DiskWritten
<1>3. /\ commit' \in Commit /\ commit'.at = "revision" /\ Envelope(commit') = Envelope(commit)
      /\ commit'.recipe = commit.recipe /\ commit'.chain = commit.chain
      /\ commit'.patch = commit.patch
  BY <1>1, ThenIs
<1>4. TypesGood'
  BY <1>1, <1>2, <1>3 DEF TypesGood
<1>5. RevisionsGood'
  BY <1>2 DEF RevisionsGood
<1>6. /\ Patches' = Patches /\ \A r : Committed(r)' = Committed(r)
  BY <1>2 DEF Patches, Committed
<1>7. PointersGood' /\ JournalGood'
  BY <1>2, <1>6 DEF PointersGood, JournalGood
<1>8. MemoryGood' /\ AckedStays'
  BY <1>1, <1>2, <1>4, <1>5, <1>6, <1>7, WriteKeeps
<1>9. CommitGood'
  <2>1. \A id : Known(id)' = Known(id)
    BY <1>1 DEF Known, Applied
  <2> QED BY <1>1, <1>2, <1>3, <2>1 DEF CommitGood
<1> QED BY <1>4, <1>5, <1>7, <1>8, <1>9

\* A revision is written where none is, or it is there already: it is not among
\* the committed ones.
LEMMA PutRevisionKeeps ==
  ASSUME LedgerInv, PutRevision
  PROVE  LedgerInv'
<1> USE DEF LedgerInv
<1>1. /\ commit # None /\ commit.at = "revision" /\ Then("pointer")
      /\ Stored(commit) \subseteq {Due(commit)}
      /\ UNCHANGED <<store, faults, acked>>
      /\ disk' = [disk EXCEPT !.revisions = @ \cup {Due(commit)}]
  BY DEF PutRevision, Writing
<1>2. PICK e0 \in Revision :
        /\ e0 = Envelope(commit) /\ Due(commit) = e0
        /\ e0.recipe = commit.recipe /\ e0.chain = commit.chain /\ e0.patch = commit.patch
  BY <1>1, CommitTypes DEF Due
<1>3. \A e \in disk.revisions : e.recipe = e0.recipe /\ Len(e.chain) = Len(e0.chain) => e = e0
  BY <1>1, <1>2 DEF Stored
<1>4. /\ disk' = [objects |-> disk'.objects, revisions |-> disk'.revisions,
                  journal |-> disk'.journal, pointer |-> disk'.pointer]
      /\ disk'.objects = disk.objects /\ disk'.revisions = disk.revisions \cup {e0}
      /\ disk'.journal = disk.journal /\ disk'.pointer = disk.pointer
  <2>1. PICK x : x = disk.revisions \cup {e0}
    OBVIOUS
  <2>2. disk' = [disk EXCEPT !.revisions = x]
    BY <1>1, <1>2, <2>1
  <2> QED BY <2>1, <2>2, DiskWritten
<1>5. /\ commit' \in Commit /\ commit'.at = "pointer" /\ Envelope(commit') = Envelope(commit)
      /\ commit'.recipe = commit.recipe /\ commit'.chain = commit.chain
      /\ commit'.patch = commit.patch
  BY <1>1, ThenIs
<1>6. TypesGood'
  BY <1>1, <1>4, <1>5 DEF TypesGood
<1>7. Made(e0) /\ <<e0.recipe, e0.chain>> \in disk.objects
  BY <1>1, <1>2 DEF CommitGood
<1>8. RevisionsGood'
  BY <1>3, <1>4, <1>7 DEF RevisionsGood
<1>9. e0 \in disk.revisions \/ ~(Len(e0.chain) <= Len(disk.pointer[e0.recipe]))
  <2> SUFFICES ASSUME Len(e0.chain) <= Len(disk.pointer[e0.recipe])
               PROVE  e0 \in disk.revisions
    OBVIOUS
  <2>1. e0.recipe \in Recipe /\ Len(e0.chain) \in Nat /\ Len(e0.chain) >= 1
        /\ Len(disk.pointer[e0.recipe]) \in Nat
    BY <1>1, <1>2, <1>7, CommitTypes, DiskTypes DEF Made
  <2>2. PICK e \in disk.revisions : e.recipe = e0.recipe /\ Len(e.chain) = Len(e0.chain)
    BY <2>1 DEF PointersGood
  <2> QED BY <1>3, <2>2
<1>10. \A r \in Recipe : Committed(r)' = Committed(r)
  BY <1>4, <1>9 DEF Committed
<1>11. Patches' = Patches
  BY <1>10 DEF Patches
<1>12. PointersGood' /\ JournalGood'
  BY <1>4, <1>10, <1>11 DEF PointersGood, JournalGood
<1>13. MemoryGood' /\ AckedStays'
  BY <1>1, <1>4, <1>6, <1>8, <1>11, <1>12, WriteKeeps
<1>14. CommitGood'
  <2>1. \A id : Known(id)' = Known(id)
    BY <1>1 DEF Known, Applied
  <2> QED BY <1>1, <1>2, <1>4, <1>5, <2>1 DEF CommitGood
<1> QED BY <1>6, <1>8, <1>12, <1>13, <1>14

\* The pointer moves one revision up, or is there already since a commit that
\* failed.  In the first case memory knows all that is committed, and with it
\* every id there is among the patches of the recipe.
LEMMA CasCurrentKeeps ==
  ASSUME IdsApart, LedgerInv, CasCurrent
  PROVE  LedgerInv'
<1> USE DEF LedgerInv
<1>1. /\ commit # None /\ commit.at = "pointer"
      /\ Then(IF commit.patch = None THEN "done" ELSE "journal")
      /\ UNCHANGED <<store, faults, acked>>
      /\ disk' = [disk EXCEPT !.pointer[commit.recipe] = commit.chain]
  BY DEF CasCurrent, Writing
<1>2. PICK e0 \in disk.revisions :
        /\ e0 = Envelope(commit) /\ Made(e0)
        /\ e0.recipe = commit.recipe /\ e0.chain = commit.chain /\ e0.patch = commit.patch
  BY <1>1, CommitTypes DEF CommitGood
<1>3. PICK r \in Recipe, ch \in Chain : r = commit.recipe /\ ch = commit.chain
  BY <1>1, CommitTypes
<1>4. PICK C \in Chain, P \in Chain : C = store[r].chain /\ P = disk.pointer[r]
  BY <1>1, MemoryTypes, DiskTypes DEF CommitGood
<1>5. PICK L \in Nat \ {0} : L = Len(ch)
  <2>1. Len(ch) \in Nat /\ Len(ch) >= 1
    BY <1>1, <1>2, <1>3, CommitTypes DEF Made
  <2> QED BY <2>1
<1>6. C = Prefix(ch, L - 1) /\ Len(C) = L - 1 /\ Len(P) \in {L - 1, L}
  <2>1. C = Prefix(ch, L - 1)
    BY <1>1, <1>3, <1>4, <1>5 DEF CommitGood
  <2>2. Len(C) = L - 1
    BY <1>5, <2>1, PrefixIs DEF Chain
  <2>3. Len(P) \in {Len(C), Len(C) + 1}
    BY <1>1, <1>3, <1>4 DEF CommitGood, MemoryGood
  <2> QED BY <2>1, <2>2, <2>3
<1>7. /\ disk' = [objects |-> disk'.objects, revisions |-> disk'.revisions,
                  journal |-> disk'.journal, pointer |-> disk'.pointer]
      /\ disk'.objects = disk.objects /\ disk'.revisions = disk.revisions
      /\ disk'.journal = disk.journal
      /\ disk'.pointer = [disk.pointer EXCEPT ![r] = ch]
  <2>1. PICK x : x = [disk.pointer EXCEPT ![r] = ch]
    OBVIOUS
  <2>2. disk' = [disk EXCEPT !.pointer = x]
    BY <1>1, <1>3, <2>1
  <2> QED BY <2>1, <2>2, DiskWritten
<1>8. /\ disk'.pointer \in [Recipe -> Chain] /\ disk'.pointer[r] = ch
      /\ \A s \in Recipe \ {r} : disk'.pointer[s] = disk.pointer[s]
  BY <1>7 DEF TypesGood
<1>9. /\ commit' \in Commit /\ commit'.at = (IF commit.patch = None THEN "done" ELSE "journal")
      /\ Envelope(commit') = Envelope(commit)
      /\ commit'.recipe = commit.recipe /\ commit'.chain = commit.chain
      /\ commit'.patch = commit.patch
  BY <1>1, ThenIs
<1>10. TypesGood'
  BY <1>1, <1>7, <1>8, <1>9 DEF TypesGood
<1>11. RevisionsGood'
  BY <1>7 DEF RevisionsGood
<1>12. CommitGood'
  <2>1. \A id : Known(id)' = Known(id)
    BY <1>1 DEF Known, Applied
  <2> QED BY <1>1, <1>2, <1>3, <1>7, <1>8, <1>9, <2>1 DEF CommitGood
<1>13. CASE Len(P) = L
  <2>1. PICK e \in Committed(r) : Len(e.chain) = L
    <3>1. PICK e \in disk.revisions : e.recipe = r /\ Len(e.chain) = L
      BY <1>4, <1>5, <1>13 DEF PointersGood
    <3> QED BY <1>4, <1>5, <1>13, <3>1, PatchesAre
  <2>2. e = e0
    BY <1>2, <1>3, <1>5, <2>1, PatchesAre DEF RevisionsGood
  <2>3. ch = P
    <3>1. ch = Prefix(P, L)
      BY <1>2, <1>3, <1>4, <2>1, <2>2 DEF PointersGood
    <3> QED BY <1>13, <3>1, PrefixWhole DEF Chain
  <2>4. disk'.pointer = disk.pointer
    BY <1>4, <1>7, <2>3 DEF TypesGood
  <2>5. Patches' = Patches /\ \A s : Committed(s)' = Committed(s)
    BY <1>7, <2>4 DEF Patches, Committed
  <2>6. PointersGood' /\ JournalGood'
    BY <1>7, <2>4, <2>5 DEF PointersGood, JournalGood
  <2> QED BY <1>1, <1>7, <1>10, <1>11, <1>12, <2>4, <2>5, <2>6, WriteKeeps
<1>14. CASE Len(P) = L - 1
  <2>1. P = C
    <3>1. C = Prefix(P, Len(C))
      BY <1>1, <1>3, <1>4 DEF CommitGood, MemoryGood
    <3> QED BY <1>6, <1>14, <3>1, PrefixWhole DEF Chain
  <2>2. \A e : e \in Committed(r)' <=> e \in Committed(r) \/ e = e0
    <3>1. \A e : e \in Committed(r)' <=>
                   e \in disk.revisions /\ e.recipe = r /\ Len(e.chain) <= L
      BY <1>5, <1>7, <1>8, <1>10, PatchesAre DEF Committed
    <3>2. \A e : e \in Committed(r) <=>
                   e \in disk.revisions /\ e.recipe = r /\ Len(e.chain) <= L - 1
      BY <1>4, <1>14, PatchesAre
    <3>3. \A e \in disk.revisions :
            /\ Len(e.chain) \in Nat
            /\ e.recipe = r /\ Len(e.chain) = L => e = e0
      BY <1>2, <1>3, <1>5, DiskTypes DEF RevisionsGood
    <3>4. e0 \in disk.revisions /\ e0.recipe = r /\ Len(e0.chain) = L
      BY <1>2, <1>3, <1>5
    <3> QED BY <3>1, <3>2, <3>3, <3>4
  <2>3. \A s \in Recipe \ {r} : Committed(s)' = Committed(s)
    BY <1>7, <1>8 DEF Committed
  <2>4. \A e : e \in Patches' <=> e \in Patches \/ (e = e0 /\ e0.patch # None)
    BY <2>2, <2>3 DEF Patches
  <2>5. ASSUME NEW d \in Patches, e0.patch # None, d.patch.id = e0.patch.id
        PROVE  FALSE
    <3>1. d \in disk.revisions /\ d.patch # None /\ Len(d.chain) <= Len(disk.pointer[d.recipe])
      BY PatchesAre
    <3>2. Made(d) /\ d.recipe \in Recipe /\ Len(d.chain) \in Nat
      BY <3>1, DiskTypes DEF RevisionsGood
    <3>3. d.patch.id \in Ids[d.recipe] /\ e0.patch.id \in Ids[r] /\ Len(d.chain) # 1
      BY <1>2, <1>3, <2>5, <3>1, <3>2 DEF Made
    <3>4. d.recipe = r
      BY <2>5, <3>2, <3>3 DEF IdsApart
    <3>5. PICK n \in Nat \ {0} : Len(d.chain) = n + 1 /\ n + 1 <= Len(C)
      <4>1. Len(d.chain) <= Len(C) /\ Len(d.chain) >= 1
        BY <1>4, <2>1, <3>1, <3>2, <3>4 DEF Made
      <4>2. Len(d.chain) - 1 \in Nat \ {0} /\ Len(d.chain) = (Len(d.chain) - 1) + 1
        BY <3>2, <3>3, <4>1
      <4> QED BY <4>1, <4>2
    <3>6. C # <<>> /\ Len(C) \in Nat
      BY <1>5, <1>6, <3>5
    <3>7. store # None /\ store[r].patches \in Seq(PatchType)
          /\ Len(store[r].patches) = Len(C) - 1
      BY <1>1, <1>4, <3>6, MemoryTypes DEF CommitGood, MemoryGood
    <3>8. n \in 1 .. Len(store[r].patches)
      BY <3>5, <3>6, <3>7
    <3>9. PICK e \in disk.revisions :
            e.recipe = r /\ Len(e.chain) = n + 1 /\ e.patch = store[r].patches[n]
      BY <3>7, <3>8, MadeInMemory
    <3>10. e = d
      BY <3>1, <3>4, <3>5, <3>9 DEF RevisionsGood
    <3>11. d.patch \in Range(store[r].patches)
      BY <3>7, <3>8, <3>9, <3>10, RangeEquality
    <3>12. d.patch \in Known(e0.patch.id)
      BY <2>5, <3>11 DEF Known, Applied
    <3> QED BY <1>1, <1>2, <2>5, <3>12 DEF CommitGood
  <2>6. PointersGood'
    <3>1. ASSUME NEW n \in 1 .. L
          PROVE  \E e \in disk.revisions : e.recipe = r /\ Len(e.chain) = n
      <4>1. CASE n = L
        BY <1>2, <1>3, <1>5, <4>1
      <4>2. CASE n # L
        <5>1. n \in 1 .. Len(P)
          BY <1>14, <3>1, <4>2
        <5> QED BY <1>4, <5>1 DEF PointersGood
      <4> QED BY <4>1, <4>2
    <3>2. ASSUME NEW e \in Committed(r)'
          PROVE  e.chain = Prefix(ch, Len(e.chain))
      <4>1. CASE e = e0
        BY <1>2, <1>3, <4>1, PrefixWhole DEF Chain
      <4>2. CASE e # e0
        <5>1. e \in Committed(r) /\ Len(e.chain) \in 0 .. L - 1
          <6>1. e \in Committed(r)
            BY <2>2, <4>2
          <6>2. Len(e.chain) \in Nat /\ Len(e.chain) <= L - 1
            BY <1>4, <1>14, <6>1, PatchesAre, DiskTypes
          <6> QED BY <6>1, <6>2
        <5>2. e.chain = Prefix(P, Len(e.chain))
          BY <1>4, <5>1 DEF PointersGood
        <5>3. L - 1 \in 0 .. Len(ch)
          BY <1>5
        <5> QED BY <1>6, <2>1, <5>1, <5>2, <5>3, PrefixOfPrefix DEF Chain
      <4> QED BY <4>1, <4>2
    <3>3. \A s \in Recipe \ {r} : \A n \in 1 .. Len(disk'.pointer[s]) :
            \E e \in disk.revisions : e.recipe = s /\ Len(e.chain) = n
      BY <1>8 DEF PointersGood
    <3>4. \A s \in Recipe \ {r} : \A e \in Committed(s)' :
            e.chain = Prefix(disk'.pointer[s], Len(e.chain))
      BY <1>8, <2>3 DEF PointersGood
    <3>5. \A d, e \in Patches' : d.patch.id = e.patch.id => d = e
      BY <2>4, <2>5 DEF PointersGood
    <3> QED BY <1>5, <1>7, <1>8, <3>1, <3>2, <3>3, <3>4, <3>5 DEF PointersGood
  <2>7. JournalGood' /\ AckedStays'
    BY <1>1, <1>7, <2>4 DEF JournalGood, AckedStays
  <2>8. MemoryGood'
    <3>1. Len(ch) = Len(C) + 1 /\ C = Prefix(ch, Len(C))
      BY <1>5, <1>6
    <3> QED BY <1>1, <1>4, <1>7, <1>8, <3>1 DEF MemoryGood
  <2> QED BY <1>10, <1>11, <1>12, <2>6, <2>7, <2>8
<1> QED BY <1>6, <1>13, <1>14

\* The patch of what was committed is entered in the journal.
LEMMA PutJournalKeeps ==
  ASSUME LedgerInv, PutJournal
  PROVE  LedgerInv'
<1> USE DEF LedgerInv
<1>1. /\ commit # None /\ commit.at = "journal" /\ Then("done")
      /\ UNCHANGED <<store, faults, acked>>
      /\ disk' = [disk EXCEPT !.journal = @ \cup {Due(commit)}]
  BY DEF PutJournal, Writing
<1>2. PICK e0 \in Patches : e0 = Envelope(commit) /\ Due(commit) = Record(e0)
  <2>1. /\ Envelope(commit) \in disk.revisions /\ commit.patch # None
        /\ disk.pointer[commit.recipe] = commit.chain
    BY <1>1 DEF CommitGood
  <2>2. /\ Envelope(commit).recipe = commit.recipe /\ Envelope(commit).chain = commit.chain
        /\ Envelope(commit).patch = commit.patch /\ Len(commit.chain) \in Nat
    BY <1>1, CommitTypes
  <2>3. Envelope(commit) \in Patches
    BY <2>1, <2>2, PatchesAre
  <2> QED BY <1>1, <2>3 DEF Due
<1>3. /\ disk' = [objects |-> disk'.objects, revisions |-> disk'.revisions,
                  journal |-> disk'.journal, pointer |-> disk'.pointer]
      /\ disk'.objects = disk.objects /\ disk'.revisions = disk.revisions
      /\ disk'.journal = disk.journal \cup {Record(e0)}
      /\ disk'.pointer = disk.pointer
  <2>1. PICK x : x = disk.journal \cup {Record(e0)}
    OBVIOUS
  <2>2. disk' = [disk EXCEPT !.journal = x]
    BY <1>1, <1>2, <2>1
  <2> QED BY <2>1, <2>2, DiskWritten
<1>4. /\ commit' \in Commit /\ commit'.at = "done" /\ Envelope(commit') = Envelope(commit)
      /\ commit'.recipe = commit.recipe /\ commit'.chain = commit.chain
      /\ commit'.patch = commit.patch
  BY <1>1, ThenIs
<1>5. TypesGood'
  BY <1>1, <1>3, <1>4 DEF TypesGood
<1>6. RevisionsGood'
  BY <1>3 DEF RevisionsGood
<1>7. /\ Patches' = Patches /\ \A r : Committed(r)' = Committed(r)
  BY <1>3 DEF Patches, Committed
<1>8. PointersGood'
  BY <1>3, <1>7 DEF PointersGood
<1>9. JournalGood'
  BY <1>3, <1>7 DEF JournalGood
<1>10. MemoryGood' /\ AckedStays'
  BY <1>1, <1>3, <1>5, <1>6, <1>7, <1>8, <1>9, WriteKeeps
<1>11. CommitGood'
  <2>1. \A id : Known(id)' = Known(id)
    BY <1>1 DEF Known, Applied
  <2> QED BY <1>1, <1>2, <1>3, <1>4, <2>1 DEF CommitGood
<1> QED BY <1>5, <1>6, <1>8, <1>9, <1>10, <1>11

\* A commit that is given up, and a service that dies, leave the disk as it is.
LEMMA GivenUpKeeps ==
  ASSUME LedgerInv, commit' = None, store' \in {store, None}, UNCHANGED <<disk, acked>>
  PROVE  LedgerInv'
<1>1. TypesGood' /\ CommitGood'
  BY DEF LedgerInv, TypesGood, CommitGood
<1>2. MemoryGood'
  <2>1. CASE store' = store
    BY <2>1 DEF LedgerInv, MemoryGood
  <2>2. CASE store' = None
    BY <2>2 DEF MemoryGood
  <2> QED BY <2>1, <2>2
<1> QED BY <1>1, <1>2, DiskStays DEF LedgerInv, DiskGood

\* What was committed becomes visible, and is acknowledged.
LEMMA FinishKeeps ==
  ASSUME LedgerInv, Finish
  PROVE  LedgerInv'
<1> USE DEF LedgerInv
<1>1. /\ commit # None /\ commit.at = "done" /\ commit' = None
      /\ UNCHANGED <<disk, faults>>
      /\ store' = [store EXCEPT ![commit.recipe] =
           [chain |-> commit.chain,
            patches |-> IF commit.patch = None THEN <<>> ELSE Append(@.patches, commit.patch)]]
      /\ acked' = IF commit.patch = None THEN acked
                  ELSE acked \cup {<<commit.recipe, commit.patch.id>>}
  BY DEF Finish, Writing
<1>2. /\ store # None /\ Made(Envelope(commit)) /\ Envelope(commit) \in disk.revisions
      /\ store[commit.recipe].chain = Prefix(commit.chain, Len(commit.chain) - 1)
      /\ disk.pointer[commit.recipe] = commit.chain
      /\ commit.patch # None => Record(Envelope(commit)) \in disk.journal
  BY <1>1 DEF CommitGood
<1>3. PICK e0 \in disk.revisions :
        /\ e0 = Envelope(commit) /\ Made(e0)
        /\ e0.recipe = commit.recipe /\ e0.chain = commit.chain /\ e0.patch = commit.patch
  BY <1>1, <1>2, CommitTypes
<1>4. PICK r \in Recipe, ch \in Chain, p \in PatchType \cup {None} :
        r = commit.recipe /\ ch = commit.chain /\ p = commit.patch
  BY <1>1, CommitTypes
<1>5. PICK L \in Nat \ {0} : L = Len(ch)
  <2>1. Len(ch) \in Nat /\ Len(ch) >= 1
    BY <1>1, <1>3, <1>4, CommitTypes DEF Made
  <2> QED BY <2>1
<1>6. PICK Q \in Seq(PatchType) : Q = IF p = None THEN <<>> ELSE Append(store[r].patches, p)
  <2>1. store[r].patches \in Seq(PatchType) /\ <<>> \in Seq(PatchType)
    BY <1>2, MemoryTypes
  <2> QED BY <2>1, AppendProperties
<1>7. /\ store' \in [Recipe -> Memory]
      /\ store'[r].chain = ch /\ store'[r].patches = Q
      /\ \A s \in Recipe \ {r} : store'[s] = store[s]
  <2>1. store \in [Recipe -> Memory]
    BY <1>2 DEF TypesGood
  <2>2. [chain |-> ch, patches |-> Q] \in Memory
    BY DEF Memory
  <2>3. store' = [store EXCEPT ![r] = [chain |-> ch, patches |-> Q]]
    BY <1>1, <1>4, <1>6
  <2> QED BY <2>1, <2>2, <2>3
<1>8. TypesGood' /\ CommitGood'
  BY <1>1, <1>7 DEF TypesGood, CommitGood
<1>9. /\ Len(Q) = (IF ch = <<>> THEN 0 ELSE L - 1)
      /\ \A n \in 1 .. Len(Q) : \E e \in disk.revisions :
           e.recipe = r /\ Len(e.chain) = n + 1 /\ e.patch = Q[n] /\ Record(e) \in disk.journal
  <2>0. ch # <<>>
    BY <1>5
  <2>1. CASE p = None
    <3>1. Q = <<>> /\ Len(Q) = 0
      BY <1>6, <2>1
    <3>2. L = 1
      BY <1>3, <1>4, <1>5, <2>1 DEF Made
    <3> QED BY <2>0, <3>1, <3>2
  <2>2. CASE p # None
    <3>1. L - 1 \in Nat \ {0}
      BY <1>3, <1>4, <1>5, <2>2 DEF Made
    <3>2. PICK C \in Chain : C = store[r].chain /\ Len(C) = L - 1 /\ C # <<>>
      <4>1. store[r].chain = Prefix(ch, L - 1)
        BY <1>2, <1>4, <1>5
      <4>2. store[r].chain \in Chain /\ Len(store[r].chain) = L - 1
        BY <1>5, <4>1, PrefixIs DEF Chain
      <4> QED BY <3>1, <4>2
    <3>3. PICK O \in Seq(PatchType) : O = store[r].patches /\ Len(O) = L - 2
      BY <1>2, <3>1, <3>2, MemoryTypes DEF MemoryGood
    <3>4. /\ Len(Q) = L - 1 /\ Q[L - 1] = p
          /\ \A n \in 1 .. L - 2 : Q[n] = O[n]
      <4>1. Q = Append(O, p) /\ p \in PatchType
        BY <1>6, <2>2, <3>3
      <4> QED BY <3>1, <3>3, <4>1, AppendProperties
    <3>5. ASSUME NEW n \in 1 .. L - 1
          PROVE  \E e \in disk.revisions :
                   e.recipe = r /\ Len(e.chain) = n + 1 /\ e.patch = Q[n]
                   /\ Record(e) \in disk.journal
      <4>1. CASE n = L - 1
        <5>1. Record(e0) \in disk.journal
          BY <1>2, <1>3, <1>4, <2>2
        <5> QED BY <1>3, <1>4, <1>5, <3>4, <4>1, <5>1
      <4>2. CASE n # L - 1
        <5>1. n \in 1 .. Len(store[r].patches) /\ Q[n] = store[r].patches[n]
          BY <3>1, <3>3, <3>4, <3>5, <4>2
        <5> QED BY <1>2, <5>1, MadeInMemory
      <4> QED BY <4>1, <4>2
    <3> QED BY <2>0, <3>4, <3>5
  <2> QED BY <2>1, <2>2
<1>10. MemoryGood'
  <2>1. /\ Len(disk.pointer[r]) \in {Len(ch), Len(ch) + 1}
        /\ ch = Prefix(disk.pointer[r], Len(ch))
    BY <1>2, <1>4, PrefixWhole DEF Chain
  <2> SUFFICES ASSUME NEW s \in Recipe
               PROVE  /\ Len(disk.pointer[s]) \in {Len(store'[s].chain), Len(store'[s].chain) + 1}
                      /\ store'[s].chain = Prefix(disk.pointer[s], Len(store'[s].chain))
                      /\ Len(store'[s].patches) =
                           IF store'[s].chain = <<>> THEN 0 ELSE Len(store'[s].chain) - 1
                      /\ \A n \in 1 .. Len(store'[s].patches) : \E e \in disk.revisions :
                           /\ e.recipe = s /\ Len(e.chain) = n + 1
                           /\ e.patch = store'[s].patches[n] /\ Record(e) \in disk.journal
    BY <1>1 DEF MemoryGood
  <2>2. CASE s = r
    BY <1>5, <1>7, <1>9, <2>1, <2>2
  <2>3. CASE s # r
    <3>1. store'[s] = store[s]
      BY <1>7, <2>3
    <3>2. MemoryGood /\ store # None
      BY <1>2
    <3> HIDE DEF LedgerInv
    <3> QED BY <3>1, <3>2 DEF MemoryGood
  <2> QED BY <2>2, <2>3
<1>11. RevisionsGood' /\ PointersGood' /\ JournalGood'
  BY <1>1 DEF RevisionsGood, PointersGood, JournalGood, Committed, Patches
<1>12. AckedStays'
  <2>1. Patches' = Patches
    BY <1>1 DEF Patches, Committed
  <2>2. commit.patch # None => e0 \in Patches
    <3>1. Len(e0.chain) <= Len(disk.pointer[e0.recipe])
      BY <1>2, <1>3, <1>4, <1>5
    <3> QED BY <1>3, <3>1, PatchesAre
  <2>3. ASSUME NEW a \in acked'
        PROVE  \E e \in Patches : e.recipe = a[1] /\ e.patch.id = a[2]
    <3>1. CASE a \in acked
      BY <3>1 DEF AckedStays
    <3>2. CASE a \notin acked
      <4>1. commit.patch # None /\ a = <<e0.recipe, e0.patch.id>>
        BY <1>1, <1>3, <2>3, <3>2
      <4>2. a[1] = e0.recipe /\ a[2] = e0.patch.id
        BY <4>1
      <4> QED BY <2>2, <4>1, <4>2
    <3> QED BY <3>1, <3>2
  <2> QED BY <2>1, <2>3 DEF AckedStays
<1> QED BY <1>8, <1>10, <1>11, <1>12

-----------------------------------------------------------------------------
(* Recovery.                                                               *)

\* What open finds is what was committed.
LEMMA OpenKeeps ==
  ASSUME LedgerInv, Open
  PROVE  LedgerInv'
<1> USE DEF LedgerInv
<1> DEFINE Opened(r) ==
             [chain   |-> disk.pointer[r],
              patches |-> [n \in 1..(Len(disk.pointer[r]) - 1) |-> At(r, n + 1).patch]]
<1>1. /\ store = None /\ commit' = commit /\ acked' = acked
      /\ store' = [r \in Recipe |-> Opened(r)]
  BY DEF Open
<1>2. commit = None
  BY <1>1 DEF CommitGood
<1>3. PICK v, j, o :
        /\ v = {e \in disk.revisions : Referenced(e)}
        /\ j = Journalled
        /\ o = {x \in disk.objects : x[2] # <<>> /\ \E e \in disk.revisions :
                  Referenced(e) /\ e.recipe = x[1] /\ e.chain = x[2]}
  OBVIOUS
<1>4. disk' = [disk EXCEPT !.journal = j, !.revisions = v, !.objects = o]
  BY <1>3 DEF Open
<1>5. /\ disk' = [objects |-> disk'.objects, revisions |-> disk'.revisions,
                  journal |-> disk'.journal, pointer |-> disk'.pointer]
      /\ disk'.objects = o /\ disk'.revisions = v /\ disk'.journal = j
      /\ disk'.pointer = disk.pointer
  <2>1. PICK O, V, J, P :
          disk = [objects |-> O, revisions |-> V, journal |-> J, pointer |-> P]
    BY DEF TypesGood
  <2> QED BY <1>4, <2>1
<1>6. \A e : e \in v <=>
        e \in disk.revisions /\ Len(e.chain) <= Len(disk.pointer[e.recipe])
  BY <1>3 DEF Referenced
<1>7. /\ \A r \in Recipe : Committed(r)' = Committed(r)
      /\ Patches' = Patches
  <2>1. \A r \in Recipe : Committed(r)' = Committed(r)
    BY <1>5, <1>6 DEF Committed
  <2> QED BY <2>1 DEF Patches
<1>8. RevisionsGood'
  <2>1. ASSUME NEW e \in v
        PROVE  <<e.recipe, e.chain>> \in o
    <3>1. e \in disk.revisions /\ Referenced(e)
      BY <1>3
    <3>2. <<e.recipe, e.chain>> \in disk.objects /\ e.chain # <<>>
      BY <3>1 DEF RevisionsGood, Made
    <3>3. <<e.recipe, e.chain>>[1] = e.recipe /\ <<e.recipe, e.chain>>[2] = e.chain
      OBVIOUS
    <3> QED BY <1>3, <3>1, <3>2, <3>3
  <2> QED BY <1>5, <1>6, <2>1 DEF RevisionsGood
<1>9. PointersGood'
  <2>1. ASSUME NEW r \in Recipe, NEW n \in 1 .. Len(disk.pointer[r])
        PROVE  \E e \in v : e.recipe = r /\ Len(e.chain) = n
    <3>1. PICK e \in disk.revisions : e.recipe = r /\ Len(e.chain) = n
      BY DEF PointersGood
    <3>2. n <= Len(disk.pointer[r])
      BY DiskTypes
    <3> QED BY <1>6, <3>1, <3>2
  <2> QED BY <1>5, <1>7, <2>1 DEF PointersGood
<1>10. JournalGood'
  BY <1>3, <1>5, <1>7 DEF JournalGood, Journalled
<1>11. AckedStays'
  BY <1>1, <1>7 DEF AckedStays
<1>12. ASSUME NEW r \in Recipe
       PROVE  LET P == disk.pointer[r]
                  Q == Opened(r).patches
              IN  /\ Q \in Seq(PatchType)
                  /\ Len(Q) = IF P = <<>> THEN 0 ELSE Len(P) - 1
                  /\ \A n \in 1 .. Len(Q) : \E e \in v :
                       /\ e.recipe = r /\ Len(e.chain) = n + 1 /\ e.patch = Q[n]
                       /\ Record(e) \in j
  <2>1. PICK P \in Chain : P = disk.pointer[r]
    BY DiskTypes
  <2>2. PICK m \in Nat : m = (IF P = <<>> THEN 0 ELSE Len(P) - 1)
    BY EmptySeq DEF Chain
  <2>3. 1 .. (Len(P) - 1) = 1 .. m /\ \A n \in 1 .. m : n + 1 \in 1 .. Len(P) /\ n + 1 # 1
    <3>1. CASE P = <<>>
      BY <2>2, <3>1
    <3>2. CASE P # <<>>
      BY <2>2, <3>2, EmptySeq DEF Chain
    <3> QED BY <3>1, <3>2
  <2>4. PICK Q : Q = [n \in 1 .. m |-> At(r, n + 1).patch] /\ Q = Opened(r).patches
    BY <2>1, <2>3
  <2>5. ASSUME NEW n \in 1 .. m
        PROVE  \E e \in v : /\ e.recipe = r /\ Len(e.chain) = n + 1 /\ e.patch = Q[n]
                            /\ Q[n] \in PatchType /\ Record(e) \in j
    <3>1. \E e \in disk.revisions : e.recipe = r /\ Len(e.chain) = n + 1
      BY <2>1, <2>3 DEF PointersGood
    <3>2. PICK e \in disk.revisions : e = At(r, n + 1) /\ e.recipe = r /\ Len(e.chain) = n + 1
      BY <3>1 DEF At
    <3>3. e.patch # None /\ e.patch \in PatchType
      BY <2>3, <3>2, DiskTypes DEF RevisionsGood, Made
    <3>4. Len(e.chain) <= Len(disk.pointer[e.recipe])
      BY <2>1, <2>3, <3>2, DiskTypes
    <3>5. e \in v /\ e \in Patches
      BY <1>6, <3>3, <3>4, PatchesAre
    <3>6. Record(e) \in j
      BY <1>3, <3>5 DEF Journalled
    <3> QED BY <2>4, <3>2, <3>3, <3>5, <3>6
  <2>6. Q \in Seq(PatchType) /\ Len(Q) = m
    BY <2>4, <2>5
  <2> QED BY <2>1, <2>2, <2>4, <2>5, <2>6
<1>13. \A r \in Recipe : /\ store'[r] = Opened(r)
                          /\ Opened(r).chain = disk.pointer[r]
  BY <1>1
<1> HIDE DEF Opened
<1>14. TypesGood'
  <2>1. ASSUME NEW r \in Recipe
        PROVE  Opened(r) \in Memory
    <3>1. Opened(r) = [chain |-> disk.pointer[r], patches |-> Opened(r).patches]
      BY DEF Opened
    <3>2. disk.pointer[r] \in Chain /\ Opened(r).patches \in Seq(PatchType)
      BY <1>12, DiskTypes
    <3> QED BY <3>1, <3>2 DEF Memory
  <2>2. store' \in [Recipe -> Memory]
    BY <1>1, <2>1
  <2> QED BY <1>1, <1>5, <1>6, <2>2 DEF TypesGood
<1>15. MemoryGood'
  <2> SUFFICES ASSUME NEW r \in Recipe
               PROVE  LET P == disk.pointer[r]
                          Q == Opened(r).patches
                      IN  /\ Len(P) \in {Len(P), Len(P) + 1}
                          /\ P = Prefix(P, Len(P))
                          /\ Len(Q) = IF P = <<>> THEN 0 ELSE Len(P) - 1
                          /\ \A n \in 1 .. Len(Q) : \E e \in v :
                               /\ e.recipe = r /\ Len(e.chain) = n + 1 /\ e.patch = Q[n]
                               /\ Record(e) \in j
    BY <1>5, <1>13 DEF MemoryGood
  <2>1. disk.pointer[r] = Prefix(disk.pointer[r], Len(disk.pointer[r]))
    BY DiskTypes, PrefixWhole DEF Chain
  <2> QED BY <1>12, <2>1
<1>16. CommitGood'
  BY <1>1, <1>2 DEF CommitGood
<1> QED BY <1>8, <1>9, <1>10, <1>11, <1>14, <1>15, <1>16

-----------------------------------------------------------------------------
(* The invariant holds throughout.                                         *)

LEMMA InitEstablishes ==
  ASSUME Init
  PROVE  LedgerInv
<1>1. /\ disk.objects = {} /\ disk.revisions = {} /\ disk.journal = {}
      /\ disk.pointer = [r \in Recipe |-> <<>>]
      /\ disk = [objects |-> disk.objects, revisions |-> disk.revisions,
                 journal |-> disk.journal, pointer |-> disk.pointer]
  BY DEF Init
<1>2. store = [r \in Recipe |-> Nothing] /\ commit = None /\ acked = {}
  BY DEF Init
<1>3. <<>> \in Chain /\ <<>> \in Seq(PatchType) /\ Len(<<>>) = 0
  BY DEF Chain
<1>4. Nothing \in Memory /\ Nothing.chain = <<>> /\ Nothing.patches = <<>>
  BY <1>3 DEF Nothing, Memory
<1>5. TypesGood
  BY <1>1, <1>2, <1>3, <1>4 DEF TypesGood
<1>6. RevisionsGood /\ JournalGood /\ AckedStays /\ CommitGood
  BY <1>1, <1>2 DEF RevisionsGood, JournalGood, AckedStays, CommitGood
<1>7. PointersGood
  BY <1>1, <1>3 DEF PointersGood, Committed, Patches
<1>8. MemoryGood
  <2>1. Prefix(<<>>, 0) = <<>>
    BY SubSeqEmpty DEF Prefix
  <2> QED BY <1>1, <1>2, <1>3, <1>4, <2>1 DEF MemoryGood
<1> QED BY <1>5, <1>6, <1>7, <1>8 DEF LedgerInv

LEMMA NextKeeps ==
  ASSUME IdsApart, LedgerInv, [Next]_vars
  PROVE  LedgerInv'
<1>1. ASSUME NEW r \in Recipe, CreateRecipe(r)
      PROVE  LedgerInv'
  BY <1>1, CreateRecipeKeeps DEF CreateRecipe
<1>2. ASSUME NEW r \in Recipe, Up, Patching(r)
      PROVE  LedgerInv'
  BY <1>2, PatchingKeeps
<1>3. ASSUME NEW r \in Recipe, Up, NEW id \in Ids[r], NEW target \in 1 .. MaxRevision,
             Rollback(r, id, target)
      PROVE  LedgerInv'
  BY <1>3, RollbackKeeps
<1>4. CASE PutObject \/ PutRevision \/ CasCurrent \/ PutJournal \/ Finish
  BY <1>4, PutObjectKeeps, PutRevisionKeeps, CasCurrentKeeps, PutJournalKeeps, FinishKeeps
<1>5. CASE Collides
  BY <1>5, GivenUpKeeps DEF Collides
<1>6. CASE Fail \/ Kill
  BY <1>6, GivenUpKeeps DEF Fail, Kill
<1>7. CASE Open
  BY <1>7, OpenKeeps
<1>8. CASE UNCHANGED vars
  <2>1. TypesGood' /\ MemoryGood'
    BY <1>8 DEF vars, LedgerInv, TypesGood, MemoryGood
  <2>2. CommitGood'
    BY <1>8 DEF vars, LedgerInv, CommitGood, Known, Applied
  <2> QED BY <1>8, <2>1, <2>2, DiskStays DEF vars, LedgerInv, DiskGood
<1> QED BY <1>1, <1>2, <1>3, <1>4, <1>5, <1>6, <1>7, <1>8 DEF Next

LEMMA LedgerInvHolds ==
  ASSUME IdsApart
  PROVE  Spec => []LedgerInv
<1>1. Init => LedgerInv
  BY InitEstablishes
<1>2. LedgerInv /\ [Next]_vars => LedgerInv'
  BY NextKeeps
<1> QED BY <1>1, <1>2, PTL DEF Spec

-----------------------------------------------------------------------------
(* What the ledger promises.                                               *)

\* Wherever the service is cut off, what it left can be opened, and no patch is
\* in two revisions (commit_recipe's four writes, in their order, and what open
\* checks).
THEOREM AlwaysRecoverable ==
  ASSUME IdsApart
  PROVE  Spec => []Recoverable
<1>1. ASSUME LedgerInv
      PROVE  Recoverable
  <2> USE <1>1 DEF LedgerInv
  <2>1. ASSUME NEW r \in Recipe
        PROVE  {Len(e.chain) : e \in Committed(r)} = DOMAIN disk.pointer[r]
    <3>1. DOMAIN disk.pointer[r] = 1 .. Len(disk.pointer[r]) /\ Len(disk.pointer[r]) \in Nat
      BY DiskTypes, LenProperties DEF Chain
    <3>2. \A e \in Committed(r) : Len(e.chain) \in 1 .. Len(disk.pointer[r])
      <4>1. \A e \in Committed(r) :
              e \in disk.revisions /\ Len(e.chain) <= Len(disk.pointer[r])
        BY PatchesAre
      <4>2. \A e \in disk.revisions : Len(e.chain) \in Nat /\ Len(e.chain) >= 1
        BY DiskTypes DEF RevisionsGood, Made
      <4> QED BY <3>1, <4>1, <4>2
    <3>3. \A n \in 1 .. Len(disk.pointer[r]) : \E e \in Committed(r) : Len(e.chain) = n
      BY <3>1, PatchesAre DEF PointersGood
    <3> QED BY <3>1, <3>2, <3>3
  <2>2. ASSUME NEW r \in Recipe, NEW e \in Committed(r)
        PROVE  /\ <<r, e.chain>> \in disk.objects
               /\ e.chain = Prefix(disk.pointer[r], Len(e.chain))
               /\ IF Len(e.chain) = 1 THEN e.patch = None
                  ELSE /\ e.patch # None /\ e.patch.recipe = r
                       /\ e.patch.base = Prefix(e.chain, Len(e.chain) - 1)
                       /\ e.chain = Patched(e.patch.base, e.patch)
    BY PatchesAre DEF RevisionsGood, PointersGood, Made
  <2>3. \A d, e \in Patches : d.patch.id = e.patch.id => d = e
    BY DEF PointersGood
  <2>4. ASSUME NEW e \in Patches, NEW j \in disk.journal, j.recipe = e.recipe, j.id = e.patch.id
        PROVE  j = Record(e)
    BY <2>3, <2>4 DEF JournalGood, Record
  <2> QED BY <2>1, <2>2, <2>3, <2>4 DEF Recoverable, Replayable
<1> QED BY <1>1, LedgerInvHolds, PTL

\* A patch a client was told of stays in the chain, whatever fails later
\* (commit_recipe returns after its last write, open quarantines orphans only).
THEOREM AcknowledgedStays ==
  ASSUME IdsApart
  PROVE  Spec => []AckedStays
<1>1. LedgerInv => AckedStays
  BY DEF LedgerInv
<1> QED BY <1>1, LedgerInvHolds, PTL

\* What is read from the service is committed, and the journal knows each of its
\* patches.
THEOREM VisibleIsInJournal ==
  ASSUME IdsApart
  PROVE  Spec => []VisibleIsCommitted
<1>1. ASSUME LedgerInv
      PROVE  VisibleIsCommitted
  <2> USE <1>1 DEF LedgerInv
  <2>1. ASSUME store # None, NEW r \in Recipe, NEW p \in Range(store[r].patches)
        PROVE  \E j \in disk.journal : j.recipe = r /\ j.id = p.id /\ j.intent = Intent(p)
    <3>1. PICK n \in 1 .. Len(store[r].patches) : p = store[r].patches[n]
      BY <2>1, MemoryTypes, RangeEquality
    <3>2. PICK e \in disk.revisions : e.recipe = r /\ e.patch = p /\ Record(e) \in disk.journal
      BY <2>1, <3>1 DEF MemoryGood
    <3> QED BY <3>2 DEF Record
  <2> QED BY <2>1 DEF VisibleIsCommitted, MemoryGood
<1> QED BY <1>1, LedgerInvHolds, PTL

-----------------------------------------------------------------------------
(* The ledger keeps the promise of RecipeHistory.                          *)

\* What a history holds at a place is the revision of that number.
LEMMA RevisionsAre ==
  ASSUME LedgerInv, NEW r \in Recipe
  PROVE  /\ Revisions(r) \in Seq([content : Content, patch : PatchType \cup {None}])
         /\ Len(Revisions(r)) = Len(disk.pointer[r]) /\ DOMAIN Revisions(r) = DOMAIN disk.pointer[r]
         /\ \A e \in Committed(r) :
              /\ Len(e.chain) \in DOMAIN Revisions(r)
              /\ Revisions(r)[Len(e.chain)] =
                   [content |-> disk.pointer[r][Len(e.chain)], patch |-> e.patch]
         /\ \A n \in DOMAIN Revisions(r) : \E e \in Committed(r) : Len(e.chain) = n
<1> USE DEF LedgerInv
<1>1. PICK P \in Chain, m \in Nat : P = disk.pointer[r] /\ m = Len(P) /\ DOMAIN P = 1 .. m
  BY DiskTypes, LenProperties DEF Chain
<1>2. \A n \in 1 .. m : P[n] \in Content
  BY <1>1, ElementOfSeq DEF Chain
<1>3. ASSUME NEW n \in 1 .. m
      PROVE  \E e \in Committed(r) : Len(e.chain) = n
  <2>1. PICK e \in disk.revisions : e.recipe = r /\ Len(e.chain) = n
    BY <1>1 DEF PointersGood
  <2>2. Len(e.chain) <= Len(disk.pointer[r])
    BY <1>1, <2>1
  <2> QED BY <2>1, <2>2, PatchesAre
<1>4. ASSUME NEW e \in Committed(r)
      PROVE  Len(e.chain) \in 1 .. m /\ At(r, Len(e.chain)) = e /\ e.patch \in PatchType \cup {None}
  <2>1. e \in disk.revisions /\ e.recipe = r /\ Len(e.chain) <= m
    BY <1>1, PatchesAre
  <2>2. Len(e.chain) \in Nat /\ Len(e.chain) >= 1 /\ e.patch \in PatchType \cup {None}
    BY <2>1, DiskTypes DEF RevisionsGood, Made
  <2>3. PICK d \in disk.revisions :
          d = At(r, Len(e.chain)) /\ d.recipe = r /\ Len(d.chain) = Len(e.chain)
    BY <2>1 DEF At
  <2>4. d = e
    BY <2>1, <2>3 DEF RevisionsGood
  <2> QED BY <2>1, <2>2, <2>3, <2>4
<1>5. Revisions(r) = [n \in 1 .. m |-> [content |-> P[n], patch |-> At(r, n).patch]]
  BY <1>1 DEF Revisions
<1>6. \A n \in 1 .. m : At(r, n).patch \in PatchType \cup {None}
  BY <1>3, <1>4
<1>7. \A n \in 1 .. m : [content |-> P[n], patch |-> At(r, n).patch]
                          \in [content : Content, patch : PatchType \cup {None}]
  BY <1>2, <1>6
<1>8. /\ Revisions(r) \in Seq([content : Content, patch : PatchType \cup {None}])
      /\ Len(Revisions(r)) = m /\ DOMAIN Revisions(r) = 1 .. m
  BY <1>5, <1>7
<1> QED BY <1>1, <1>3, <1>4, <1>5, <1>8

\* A history stays while its pointer and its committed revisions do.
LEMMA HistoryStays ==
  ASSUME LedgerInv, RevisionsGood', NEW r \in Recipe, disk'.pointer[r] = disk.pointer[r],
         \A e \in Committed(r) : e \in disk'.revisions
  PROVE  Revisions(r)' = Revisions(r)
<1>1. ASSUME NEW n \in DOMAIN disk.pointer[r]
      PROVE  At(r, n)' = At(r, n)
  <2>1. PICK e \in Committed(r) : Len(e.chain) = n
    BY RevisionsAre
  <2>2. e \in disk.revisions /\ e \in disk'.revisions /\ e.recipe = r
    BY PatchesAre DEF LedgerInv
  <2>3. PICK d \in disk.revisions : d = At(r, n) /\ d.recipe = r /\ Len(d.chain) = n
    BY <2>1, <2>2 DEF At
  <2>4. PICK c \in disk'.revisions : c = At(r, n)' /\ c.recipe = r /\ Len(c.chain) = n
    BY <2>1, <2>2 DEF At
  <2>5. d = e
    BY <2>1, <2>2, <2>3 DEF LedgerInv, RevisionsGood
  <2>6. c = e
    BY <2>1, <2>2, <2>4 DEF RevisionsGood
  <2> QED BY <2>3, <2>4, <2>5, <2>6
<1> QED BY <1>1 DEF Revisions

LEMMA HistoriesStay ==
  ASSUME LedgerInv, RevisionsGood', disk'.pointer = disk.pointer,
         \A r \in Recipe : \A e \in Committed(r) : e \in disk'.revisions
  PROVE  Histories' = Histories
<1>1. \A r \in Recipe : Revisions(r)' = Revisions(r)
  BY HistoryStays
<1> QED BY <1>1 DEF Histories

KeepsPromise == [History!Next]_(History!vars)

\* Nothing that is promised has changed,
LEMMA Stutters ==
  ASSUME LedgerInv, disk' = disk, acked' = acked
  PROVE  KeepsPromise
<1>1. RevisionsGood'
  BY DiskStays DEF DiskGood
<1>2. \A r \in Recipe : \A e \in Committed(r) : e \in disk'.revisions
  BY PatchesAre DEF LedgerInv
<1>3. Histories' = Histories
  BY <1>1, <1>2, HistoriesStay
<1> QED BY <1>3 DEF KeepsPromise, History!vars

\* or a client is told of a patch that is in the history.
LEMMA Tells ==
  ASSUME LedgerInv, NEW e \in Patches, Histories' = Histories,
         acked' = acked \cup {<<e.recipe, e.patch.id>>}
  PROVE  KeepsPromise
<1>1. TypesGood /\ e \in disk.revisions
  BY PatchesAre DEF LedgerInv
<1>2. e.patch # None /\ Len(e.chain) <= Len(disk.pointer[e.recipe])
  BY <1>1, PatchesAre
<1>3. PICK r \in Recipe, n \in Nat : r = e.recipe /\ n = Len(e.chain)
  BY <1>1, DiskTypes
<1> DEFINE id == e.patch.id
<1>4. n > 1 /\ id \in Ids[r]
  <2>1. Made(e)
    BY <1>1 DEF LedgerInv, RevisionsGood
  <2>2. n >= 1 /\ n # 1
    BY <1>2, <1>3, <2>1 DEF Made
  <2>3. e.patch.id \in Ids[e.recipe]
    BY <1>3, <2>1, <2>2 DEF Made
  <2>4. n > 1
    BY <2>2
  <2>5. id \in Ids[r]
    BY <1>3, <2>3
  <2> QED BY <2>4, <2>5
<1>5. e \in Committed(r)
  BY <1>1, <1>2, <1>3 DEF Committed
<1>6. n \in DOMAIN Revisions(r) /\ Revisions(r)[n].patch = e.patch
  <2>1. /\ n \in DOMAIN Revisions(r)
        /\ Revisions(r)[n] = [content |-> disk.pointer[r][n], patch |-> e.patch]
    BY <1>3, <1>5, RevisionsAre
  <2> QED BY <2>1
<1>7. n \in History!MadeBy(r, id)
  BY <1>3, <1>4, <1>6 DEF History!MadeBy, Histories
<1>8. History!Tell(r, id)
  BY <1>3, <1>7 DEF History!Tell
<1> QED BY <1>4, <1>8 DEF KeepsPromise, History!Next

\* A sequence, as a function.
LEMMA SeqIsFunction ==
  ASSUME NEW S, NEW s \in Seq(S)
  PROVE  s = [n \in DOMAIN s |-> s[n]]
OBVIOUS

\* The pointer moves: at this instant the revision is in the history.
LEMMA Commits ==
  ASSUME IdsApart, LedgerInv, CasCurrent
  PROVE  KeepsPromise
<1> USE DEF LedgerInv
<1>1. /\ commit # None /\ commit.at = "pointer" /\ UNCHANGED <<store, faults, acked>>
      /\ disk' = [disk EXCEPT !.pointer[commit.recipe] = commit.chain]
  BY DEF CasCurrent, Writing
<1>2. PICK e \in disk.revisions :
        /\ e = Envelope(commit) /\ Made(e)
        /\ e.recipe = commit.recipe /\ e.chain = commit.chain /\ e.patch = commit.patch
  BY <1>1, CommitTypes DEF CommitGood
<1>3. PICK r \in Recipe, ch \in Chain, P \in Chain :
        r = commit.recipe /\ ch = commit.chain /\ P = disk.pointer[r]
  BY <1>1, CommitTypes, DiskTypes
<1>4. PICK m \in Nat, L \in Nat : m = Len(P) /\ L = Len(ch) /\ DOMAIN P = 1 .. m /\ DOMAIN ch = 1 .. L
  BY LenProperties DEF Chain
<1>5. L >= 1
  BY <1>2, <1>3, <1>4 DEF Made
<1>6. /\ store[r].chain = Prefix(ch, L - 1) /\ Len(store[r].chain) = L - 1
      /\ store[r].chain = Prefix(P, L - 1) /\ m \in {L - 1, L}
  <2>1. store # None /\ store[r].chain = Prefix(ch, L - 1)
    BY <1>1, <1>3, <1>4 DEF CommitGood
  <2>2. Len(store[r].chain) = L - 1
    <3>1. L - 1 \in 0 .. Len(ch) /\ ch \in Seq(Content)
      BY <1>4, <1>5 DEF Chain
    <3>2. Len(Prefix(ch, L - 1)) = L - 1
      BY <3>1, PrefixIs
    <3> QED BY <2>1, <3>2
  <2>3. m \in {L - 1, (L - 1) + 1} /\ store[r].chain = Prefix(P, L - 1)
    BY <1>3, <1>4, <2>1, <2>2 DEF MemoryGood
  <2> QED BY <1>5, <2>1, <2>2, <2>3
<1>7. /\ disk'.revisions = disk.revisions /\ disk'.pointer = [disk.pointer EXCEPT ![r] = ch]
      /\ disk'.pointer[r] = ch /\ \A s \in Recipe \ {r} : disk'.pointer[s] = disk.pointer[s]
  <2>1. PICK x : x = [disk.pointer EXCEPT ![r] = ch]
    OBVIOUS
  <2>2. disk' = [disk EXCEPT !.pointer = x]
    BY <1>1, <1>3, <2>1
  <2>3. disk'.revisions = disk.revisions /\ disk'.pointer = x
    BY <2>2, DiskWritten
  <2> QED BY <2>1, <2>3 DEF TypesGood
<1>8. LedgerInv'
  BY CasCurrentKeeps
<1>9. \A s \in Recipe : \A d \in Committed(s) : d \in disk'.revisions
  BY <1>7, PatchesAre
<1>10. CASE m = L
  <2>1. e \in Committed(r)
    BY <1>2, <1>3, <1>4, <1>10 DEF Committed
  <2>2. ch = P
    BY <1>2, <1>3, <1>4, <1>10, <2>1, PrefixWhole DEF PointersGood, Chain
  <2>3. disk'.pointer = disk.pointer
    BY <1>3, <1>7, <2>2 DEF TypesGood
  <2>4. Histories' = Histories
    BY <1>8, <1>9, <2>3, HistoriesStay
  <2> QED BY <1>1, <2>4 DEF KeepsPromise, History!vars
<1>11. CASE m = L - 1
  <2>1. P = Prefix(ch, m)
    BY <1>3, <1>4, <1>6, <1>11, PrefixWhole DEF Chain
  <2>2. PICK H : H = Revisions(r)
    OBVIOUS
  <2>3. /\ H \in Seq([content : Content, patch : PatchType \cup {None}])
        /\ Len(H) = m /\ DOMAIN H = 1 .. m
    BY <1>3, <1>4, <2>2, RevisionsAre
  <2>4. Revisions(r)' = Append(H, [content |-> ch[L], patch |-> commit.patch])
    <3>1. At(r, L) = e
      <4>1. PICK d \in disk.revisions : d = At(r, L) /\ d.recipe = r /\ Len(d.chain) = L
        BY <1>2, <1>3, <1>4 DEF At
      <4> QED BY <1>2, <1>3, <1>4, <4>1 DEF RevisionsGood
    <3>2. \A n : At(r, n)' = At(r, n)
      BY <1>7 DEF At
    <3>3. Revisions(r)' = [n \in 1 .. L |-> [content |-> ch[n], patch |-> At(r, n).patch]]
      BY <1>4, <1>7, <3>2 DEF Revisions
    <3>4. H = [n \in 1 .. m |-> [content |-> P[n], patch |-> At(r, n).patch]]
      BY <1>3, <1>4, <2>2 DEF Revisions
    <3>5. \A n \in 1 .. m : ch[n] = P[n]
      <4>1. m \in 0 .. Len(ch) /\ ch \in Seq(Content)
        BY <1>4, <1>5, <1>11 DEF Chain
      <4>2. \A n \in 1 .. m : Prefix(ch, m)[n] = ch[n]
        BY <4>1, PrefixIs
      <4> QED BY <2>1, <4>2
    <3>6. \A n \in 1 .. m : Revisions(r)'[n] = H[n]
      BY <1>4, <1>11, <3>3, <3>4, <3>5
    <3>7. Revisions(r)'[L] = [content |-> ch[L], patch |-> commit.patch]
      BY <1>2, <1>4, <1>5, <3>1, <3>3
    <3>8. PICK x \in [content : Content, patch : PatchType \cup {None}] :
            x = [content |-> ch[L], patch |-> commit.patch]
      <4>1. ch[L] \in Content
        BY <1>4, <1>5, ElementOfSeq DEF Chain
      <4> QED BY <1>1, <4>1, CommitTypes
    <3>9. PICK A \in Seq([content : Content, patch : PatchType \cup {None}]) :
            /\ A = Append(H, x) /\ DOMAIN A = 1 .. L
            /\ A[L] = x /\ \A n \in 1 .. m : A[n] = H[n]
      <4>1. /\ Append(H, x) \in Seq([content : Content, patch : PatchType \cup {None}])
            /\ Len(Append(H, x)) = Len(H) + 1 /\ Append(H, x)[Len(H) + 1] = x
            /\ \A n \in 1 .. Len(H) : Append(H, x)[n] = H[n]
        BY <2>3, AppendProperties
      <4>2. Len(H) = m /\ m + 1 = L
        BY <1>4, <1>5, <1>11, <2>3
      <4>3. PICK A : A = Append(H, x)
        OBVIOUS
      <4>4. A \in Seq([content : Content, patch : PatchType \cup {None}]) /\ Len(A) = L
            /\ A[L] = x /\ \A n \in 1 .. m : A[n] = H[n]
        BY <4>1, <4>2, <4>3
      <4>5. DOMAIN A = 1 .. L
        BY <4>4, LenProperties
      <4> QED BY <4>3, <4>4, <4>5
    <3>10. \A n \in 1 .. L : Revisions(r)'[n] = A[n]
      BY <1>4, <1>5, <1>11, <3>6, <3>7, <3>8, <3>9
    <3>11. A = [n \in 1 .. L |-> A[n]] /\ Revisions(r)' = [n \in 1 .. L |-> Revisions(r)'[n]]
      <4>1. A = [n \in 1 .. L |-> A[n]]
        BY <3>9, SeqIsFunction
      <4>2. Revisions(r)' = [n \in 1 .. L |-> Revisions(r)'[n]]
        BY <3>3
      <4> QED BY <4>1, <4>2
    <3>12. [n \in 1 .. L |-> Revisions(r)'[n]] = [n \in 1 .. L |-> A[n]]
      BY <3>10
    <3> QED BY <3>8, <3>9, <3>11, <3>12
  <2>5. Histories' = [Histories EXCEPT ![r] =
                        Append(@, [content |-> ch[L], patch |-> commit.patch])]
    <3>1. \A s \in Recipe \ {r} : Revisions(s)' = Revisions(s)
      BY <1>7, <1>8, <1>9, HistoryStays
    <3> QED BY <2>2, <2>4, <3>1 DEF Histories
  <2>6. acked' = acked
    BY <1>1
  <2>7. \A n \in 1 .. m : H[n].content = P[n]
    BY <1>3, <1>4, <2>2, <2>3 DEF Revisions
  <2>8. CASE L = 1
    <3>1. commit.patch = None /\ ch[L] = [k \in Field |-> None]
      BY <1>2, <1>3, <1>4, <2>8 DEF Made, Empty
    <3>2. H = <<>>
      BY <1>11, <2>3, <2>8, EmptySeq
    <3>3. History!Create(r)
      BY <2>2, <2>5, <2>6, <3>1, <3>2 DEF History!Create, History!Add, Histories
    <3> QED BY <3>3 DEF KeepsPromise, History!Next
  <2>9. CASE L # 1
    <3>1. PICK p \in PatchType :
            /\ p = commit.patch /\ p.recipe = r /\ p.id \in Ids[r]
            /\ p.base = P /\ ch = Patched(P, p) /\ Applies(p, P)
      <4>1. commit.patch # None /\ commit.patch \in PatchType \cup {None}
        BY <1>1, <1>2, <1>3, <1>4, <2>9, CommitTypes DEF Made
      <4> QED BY <1>2, <1>3, <1>4, <1>11, <2>1, <2>9, <4>1 DEF Made
    <3>2. p = [id |-> p.id, recipe |-> r, base |-> P, ops |-> p.ops]
      BY <3>1 DEF PatchType
    <3>3. History!Contents(r) = P
      <4>1. Histories[r] = H
        BY <2>2 DEF Histories
      <4>2. P = [n \in 1 .. m |-> P[n]]
        BY <1>4 DEF Chain
      <4> QED BY <2>3, <2>7, <4>1, <4>2 DEF History!Contents
    <3>4. ch[L] = History!Patched(r, p.ops)
      <4>1. ch = Append(P, IF p.ops.kind = "restore" THEN P[p.ops.target]
                           ELSE [k \in Field |-> IF k \in DOMAIN p.ops.fields
                                                  THEN p.ops.fields[k] ELSE P[m][k]])
        BY <1>4, <3>1 DEF Patched, Last
      <4>2. ch[L] = IF p.ops.kind = "restore" THEN P[p.ops.target]
                    ELSE [k \in Field |-> IF k \in DOMAIN p.ops.fields
                                           THEN p.ops.fields[k] ELSE P[m][k]]
        BY <1>4, <1>5, <1>11, <4>1 DEF Chain
      <4>3. m \in 1 .. m /\ (p.ops.kind = "restore" => p.ops.target \in 1 .. m)
        <5>1. m \in 1 .. m
          BY <1>4, <1>5, <1>11, <2>9
        <5>2. p.ops.kind = "restore" => p.ops.target \in 1 .. m
          BY <1>4, <3>1 DEF Applies
        <5> QED BY <5>1, <5>2
      <4>4. Histories[r] = H /\ Len(H) = m
        BY <2>2, <2>3 DEF Histories
      <4> QED BY <2>7, <4>2, <4>3, <4>4 DEF History!Patched
    <3>5. \A s \in Recipe : History!MadeBy(s, p.id) = {}
      <4> SUFFICES ASSUME NEW s \in Recipe, NEW n \in History!MadeBy(s, p.id)
                   PROVE  FALSE
        OBVIOUS
      <4>1. n \in DOMAIN Revisions(s) /\ n > 1 /\ Revisions(s)[n].patch.id = p.id
        <5>1. Histories[s] = Revisions(s)
          BY DEF Histories
        <5> QED BY <5>1 DEF History!MadeBy
      <4>2. PICK d \in Committed(s) : Len(d.chain) = n /\ d.patch = Revisions(s)[n].patch
        <5>1. PICK d \in Committed(s) : Len(d.chain) = n
          BY <4>1, RevisionsAre
        <5>2. Revisions(s)[n] = [content |-> disk.pointer[s][n], patch |-> d.patch]
          BY <5>1, RevisionsAre
        <5> QED BY <5>1, <5>2
      <4>3. d \in disk.revisions /\ d.recipe = s /\ Len(d.chain) <= Len(disk.pointer[s])
        BY DEF Committed
      <4>4. d.patch # None
        <5>1. Made(d)
          BY <4>3 DEF RevisionsGood
        <5> QED BY <4>1, <4>2, <5>1 DEF Made
      <4>5. d \in Patches'
        <5>1. Len(d.chain) <= Len(disk'.pointer[s])
          BY <1>3, <1>4, <1>7, <1>11, <4>3
        <5>2. d \in Committed(s)'
          BY <1>7, <4>3, <5>1 DEF Committed
        <5> QED BY <4>4, <5>2 DEF Patches
      <4>6. e \in Patches'
        <5>1. e \in Committed(r)'
          BY <1>2, <1>3, <1>4, <1>7 DEF Committed
        <5>2. e.patch # None
          BY <1>2, <3>1, PatchIsNotNone
        <5> QED BY <5>1, <5>2 DEF Patches
      <4>7. d = e
        BY <1>2, <1>8, <3>1, <4>1, <4>2, <4>5, <4>6 DEF PointersGood
      <4> QED BY <1>2, <1>3, <1>4, <1>11, <4>3, <4>7
    <3>6. p.ops \in History!Ops(r)
      BY <1>4, <2>2, <2>3, <3>1 DEF Applies, Ops, History!Ops, Histories, PatchId
    <3>7. Histories[r] # <<>>
      BY <1>4, <1>5, <1>11, <2>2, <2>3, <2>9, EmptySeq DEF Histories
    <3>8. History!Commit(r, p.id)
      BY <2>5, <2>6, <3>1, <3>2, <3>3, <3>4, <3>5, <3>6, <3>7 DEF History!Commit, History!Add
    <3> QED BY <3>1, <3>8 DEF KeepsPromise, History!Next
  <2> QED BY <2>8, <2>9
<1> QED BY <1>6, <1>10, <1>11

LEMMA NextKeepsPromise ==
  ASSUME IdsApart, LedgerInv, [Next]_vars
  PROVE  KeepsPromise
<1>1. LedgerInv'
  BY NextKeeps
<1>2. ASSUME NEW r, NEW id, NEW q \in Known(id), q.recipe = r, store # None, disk' = disk,
             acked' = acked \cup {<<r, id>>}
      PROVE  KeepsPromise
  <2>1. PICK e \in Patches : e.patch = q /\ e.recipe = q.recipe /\ q.id = id
    BY <1>2, KnownIsCommitted
  <2>2. RevisionsGood' /\ \A s \in Recipe : \A d \in Committed(s) : d \in disk'.revisions
    BY <1>1, <1>2 DEF LedgerInv, Committed
  <2>3. Histories' = Histories
    BY <1>2, <2>2, HistoriesStay
  <2> QED BY <1>2, <2>1, <2>3, Tells
<1>3. ASSUME disk' = disk, acked' = acked
      PROVE  KeepsPromise
  BY <1>3, Stutters
<1>4. ASSUME NEW r \in Recipe, CreateRecipe(r)
      PROVE  KeepsPromise
  BY <1>3, <1>4 DEF CreateRecipe
<1>5. ASSUME NEW r \in Recipe, Up, Patching(r)
      PROVE  KeepsPromise
  <2>1. PICK id, base, ops :
          LET p == Patch(id, r, base, ops)
          IN  ApplyPatch(p) \/ ApplyAgain(p) \/ \E other \in Ids[r] : ApplyMerged(p, other)
    BY <1>5 DEF Patching
  <2> DEFINE p == Patch(id, r, base, ops)
  <2>2. p.recipe = r /\ p.id = id
    BY DEF Patch
  <2>3. CASE ApplyPatch(p) \/ \E other \in Ids[r] : ApplyMerged(p, other)
    BY <1>3, <2>3 DEF ApplyPatch, ApplyMerged
  <2>4. CASE ApplyAgain(p)
    <3>1. PICK q \in Known(id) : q.recipe = r
      BY <2>2, <2>4 DEF ApplyAgain, Again, Intent
    <3>2. disk' = disk /\ acked' = acked \cup {<<r, id>>}
      BY <2>2, <2>4 DEF ApplyAgain
    <3> QED BY <1>2, <1>5, <3>1, <3>2 DEF Up
  <2> HIDE DEF p
  <2> QED BY <2>1, <2>3, <2>4 DEF p
<1>6. ASSUME NEW r \in Recipe, Up, NEW id \in Ids[r], NEW target \in 1 .. MaxRevision,
             Rollback(r, id, target)
      PROVE  KeepsPromise
  <2>1. CASE ApplyPatch(Patch(id, r, store[r].chain, Restore(target)))
    BY <1>3, <2>1 DEF ApplyPatch
  <2>2. CASE /\ \E q \in Known(id) : q.recipe = r /\ q.ops = Restore(target)
             /\ acked' = acked \cup {<<r, id>>}
             /\ UNCHANGED <<disk, store, commit, faults>>
    BY <1>2, <1>6, <2>2 DEF Up
  <2> QED BY <1>6, <2>1, <2>2 DEF Rollback
<1>7. CASE PutObject
  <2>1. PICK x : disk' = [disk EXCEPT !.objects = x]
    BY <1>7 DEF PutObject
  <2>2. disk'.pointer = disk.pointer /\ disk'.revisions = disk.revisions
    BY <2>1, DiskWritten DEF LedgerInv
  <2>3. Histories' = Histories
    BY <1>1, <2>2, HistoriesStay DEF LedgerInv, Committed
  <2> QED BY <1>7, <2>3 DEF PutObject, KeepsPromise, History!vars
<1>8. CASE PutRevision
  <2>1. PICK x : disk' = [disk EXCEPT !.revisions = x] /\ x = disk.revisions \cup {Due(commit)}
    BY <1>8 DEF PutRevision
  <2>2. disk'.pointer = disk.pointer /\ disk.revisions \subseteq disk'.revisions
    BY <2>1, DiskWritten DEF LedgerInv
  <2>3. Histories' = Histories
    BY <1>1, <2>2, HistoriesStay DEF LedgerInv, Committed
  <2> QED BY <1>8, <2>3 DEF PutRevision, KeepsPromise, History!vars
<1>9. CASE PutJournal
  <2>1. PICK x : disk' = [disk EXCEPT !.journal = x]
    BY <1>9 DEF PutJournal
  <2>2. disk'.pointer = disk.pointer /\ disk'.revisions = disk.revisions
    BY <2>1, DiskWritten DEF LedgerInv
  <2>3. Histories' = Histories
    BY <1>1, <2>2, HistoriesStay DEF LedgerInv, Committed
  <2> QED BY <1>9, <2>3 DEF PutJournal, KeepsPromise, History!vars
<1>10. CASE CasCurrent
  BY <1>10, Commits
<1>11. CASE Finish
  <2>1. commit # None /\ commit.at = "done" /\ disk' = disk
    BY <1>11 DEF Finish, Writing
  <2>2. CASE commit.patch = None
    BY <1>3, <1>11, <2>1, <2>2 DEF Finish
  <2>3. CASE commit.patch # None
    <3>1. PICK e \in disk.revisions :
            e = Envelope(commit) /\ e.recipe = commit.recipe /\ e.chain = commit.chain
            /\ e.patch = commit.patch
      BY <2>1, CommitTypes DEF LedgerInv, CommitGood
    <3>2. Len(e.chain) <= Len(disk.pointer[e.recipe]) /\ e.recipe \in Recipe
      BY <2>1, <3>1, CommitTypes DEF LedgerInv, CommitGood
    <3>3. e \in Patches
      BY <2>3, <3>1, <3>2 DEF Patches, Committed
    <3>4. acked' = acked \cup {<<e.recipe, e.patch.id>>}
      BY <1>11, <2>3, <3>1 DEF Finish
    <3>5. Histories' = Histories
      BY <1>1, <2>1, HistoriesStay DEF LedgerInv, Committed
    <3> QED BY <3>3, <3>4, <3>5, Tells
  <2> QED BY <2>2, <2>3
<1>12. CASE Collides \/ Fail \/ Kill
  BY <1>3, <1>12 DEF Collides, Fail, Kill
<1>13. CASE Open
  <2>1. PICK v, j, o :
          /\ v = {e \in disk.revisions : Referenced(e)}
          /\ disk' = [disk EXCEPT !.journal = j, !.revisions = v, !.objects = o]
    BY <1>13 DEF Open
  <2>2. disk'.pointer = disk.pointer /\ disk'.revisions = v
    <3>1. PICK O, V, J, P :
            disk = [objects |-> O, revisions |-> V, journal |-> J, pointer |-> P]
      BY DEF LedgerInv, TypesGood
    <3> QED BY <2>1, <3>1
  <2>3. \A r \in Recipe : \A e \in Committed(r) : e \in disk'.revisions
    BY <2>1, <2>2 DEF Committed, Referenced
  <2>4. Histories' = Histories
    BY <1>1, <2>2, <2>3, HistoriesStay DEF LedgerInv
  <2> QED BY <1>13, <2>4 DEF Open, KeepsPromise, History!vars
<1>14. CASE UNCHANGED vars
  BY <1>3, <1>14 DEF vars
<1> QED BY <1>4, <1>5, <1>6, <1>7, <1>8, <1>9, <1>10, <1>11, <1>12, <1>13, <1>14 DEF Next

\* The ledger keeps the promise of RecipeHistory, for any number of recipes and
\* patches, deaths and failed writes, wherever the writes of a commit are cut
\* off: the instant of a patch is the one at which the pointer moves
\* (commit_recipe, open).
THEOREM HistoryIsKept ==
  ASSUME IdsApart
  PROVE  Spec => KeepsHistory
<1>1. Init => History!Init
  <2> SUFFICES ASSUME Init
               PROVE  History!Init
    OBVIOUS
  <2>1. \A r \in Recipe : disk.pointer[r] = <<>>
    BY DEF Init
  <2>2. \A r \in Recipe : Revisions(r) = <<>>
    BY <2>1 DEF Revisions
  <2> QED BY <2>2 DEF Init, History!Init, Histories
<1>2. LedgerInv /\ [Next]_vars => [History!Next]_(History!vars)
  BY NextKeepsPromise DEF KeepsPromise
<1> QED BY <1>1, <1>2, LedgerInvHolds, PTL DEF Spec, KeepsHistory, History!Spec
=============================================================================
