---------------------------- MODULE RecipeLedger ----------------------------
(***************************************************************************)
(* The ledger of workspace recipes: capsules/capsule-workspace-recipes     *)
(* commits revisions of a recipe to a backend in four writes, above the    *)
(* store of capsules/capsule-surface-model, which decides in memory what a *)
(* patch does.  The service is killed, or told of an error, between any    *)
(* two of the writes, and opened again on what they left.                  *)
(*                                                                         *)
(* A digest covers a revision's content, its number and its parent's       *)
(* digest, so it stands for the whole chain of contents and is modelled    *)
(* by it.  A patch writes its own id into the fields it sets.  One owner.  *)
(***************************************************************************)
EXTENDS Naturals, Sequences, FiniteSets, SequencesExt

CONSTANTS
  Recipe,
  Ids,         \* the patch ids that clients use for each recipe
  Field,       \* fields, metadata or properties, that a patch may set
  None,
  Faults,      \* "kill": the process dies; "error": a write reports a failure
  MaxFaults,   \* bound: how many of them
  MaxObjects,  \* bound: objects in the backend, what commits left included
  MaxRevision  \* bound: revisions of a recipe

PatchId == UNION {Ids[r] : r \in Recipe}

ASSUME ConstantsAssumption ==
  /\ IsFiniteSet(Field) /\ DOMAIN Ids = Recipe /\ IsFiniteSet(PatchId)
  /\ None \notin PatchId
  /\ Faults \subseteq {"kill", "error"}
  /\ {MaxFaults, MaxObjects} \subseteq Nat /\ MaxRevision \in Nat \ {0}

\* None is not a patch.
ASSUME NoneIsApart ==
  None \notin [id : PatchId, recipe : Recipe, base : Seq([Field -> PatchId \cup {None}]),
              ops : [kind : {"set"}, fields : UNION {[K -> PatchId] : K \in SUBSET Field}]
                    \cup [kind : {"restore"}, target : Nat]]

VARIABLES
  disk,    \* the backend: objects, revisions, current pointers and journal
  store,   \* in memory: each recipe's chain and the patches that made it,
           \* None while there is no process
  commit,  \* the commit the service is in the middle of, None if it is idle
  faults,  \* faults so far
  acked    \* history: the patches whose clients were told they are applied

vars == <<disk, store, commit, faults, acked>>

Empty == [k \in Field |-> None]

Set(fields)     == [kind |-> "set", fields |-> fields]
Restore(target) == [kind |-> "restore", target |-> target]

Patch(id, r, base, ops) == [id |-> id, recipe |-> r, base |-> base, ops |-> ops]
Intent(p)               == <<p.recipe, p.base, p.ops>>

\* The recipe after a patch of it.
Patched(chain, p) ==
  Append(chain, IF p.ops.kind = "restore" THEN chain[p.ops.target]
                ELSE [k \in Field |-> IF k \in DOMAIN p.ops.fields THEN p.ops.fields[k]
                                      ELSE Last(chain)[k]])

Nothing == [chain |-> <<>>, patches |-> <<>>]

\* new and RecipeService::open on an empty backend.
Init ==
  /\ disk = [objects |-> {}, revisions |-> {}, journal |-> {},
             pointer |-> [r \in Recipe |-> <<>>]]
  /\ store = [r \in Recipe |-> Nothing]
  /\ commit = None /\ faults = 0
  /\ acked = {}

-----------------------------------------------------------------------------
(* What is in memory, store.rs.                                            *)

\* The patches applied, of all recipes, under their ids.
Applied == UNION {Range(store[r].patches) : r \in Recipe}
Known(id) == {p \in Applied : p.id = id}

Prefix(chain, n) == SubSeq(chain, 1, n)

\* apply_patch_once, short of what has an error for an answer.
Again(p) == \E q \in Known(p.id) : Intent(q) = Intent(p)
FitsTwice(p) == store[p.recipe].chain # <<>> /\ store[p.recipe].chain = p.base
Fits(p) == /\ Known(p.id) = {}
           /\ store[p.recipe].chain # <<>> /\ store[p.recipe].chain = p.base

\* merge_disjoint_fields: with the patch that made the current revision.
Fields(p) == IF p.ops.kind = "set" THEN DOMAIN p.ops.fields ELSE {}
Disjoint(p, q) ==
  p.ops.kind = "set" /\ q.ops.kind = "set" /\ Fields(p) \cap Fields(q) = {}
Merged(last, p, id) ==
  Patch(id, p.recipe, store[p.recipe].chain,
        Set([k \in Fields(last) \cup Fields(p) |->
               IF k \in Fields(p) THEN p.ops.fields[k] ELSE last.ops.fields[k]]))

-----------------------------------------------------------------------------
(* The service's operations.                                               *)

Up == store # None /\ commit = None

\* What a client may have read, and then patch.
Bases(r) == {Prefix(store[r].chain, n) : n \in DOMAIN store[r].chain}
Sets(id) == {Set([k \in K |-> id]) : K \in SUBSET Field \ {{}}}

\* commit_recipe begins.
Begin(r, chain, p) ==
  /\ Cardinality(disk.objects) < MaxObjects
  /\ commit' = [recipe |-> r, chain |-> chain, patch |-> p,
                expected |-> disk.pointer[r], at |-> "object"]

CreateRecipe(r) ==
  /\ Up /\ disk.pointer[r] = <<>> /\ store[r].chain = <<>>
  /\ Begin(r, <<Empty>>, None)
  /\ UNCHANGED <<disk, store, faults, acked>>

ApplyPatch(p) ==
  /\ Fits(p) /\ Len(p.base) < MaxRevision
  /\ Begin(p.recipe, Patched(p.base, p), p)
  /\ UNCHANGED <<disk, store, faults, acked>>

\* AlreadyApplied, and a rollback that is repeated.
ApplyAgain(p) ==
  /\ Again(p)
  /\ acked' = acked \cup {<<p.recipe, p.id>>}
  /\ UNCHANGED <<disk, store, commit, faults>>

\* apply_patch_with_narrow_merge: a patch of an older revision.
ApplyMerged(p, id) ==
  /\ Known(p.id) = {} /\ store[p.recipe].patches # <<>>
  /\ p.base # store[p.recipe].chain
  /\ LET last   == Last(store[p.recipe].patches)
         merged == Merged(last, p, id)
     IN  /\ Disjoint(last, p) /\ id \notin {last.id, p.id}
         /\ Fits(merged) /\ Len(merged.base) < MaxRevision
         /\ Begin(p.recipe, Patched(merged.base, merged), merged)
  /\ UNCHANGED <<disk, store, faults, acked>>

Patching(r) ==
  \E id \in Ids[r], base \in Bases(r) :
    \E ops \in Sets(id) \cup {Restore(n) : n \in DOMAIN base} :
      LET p == Patch(id, r, base, ops)
      IN  \/ ApplyPatch(p) \/ ApplyAgain(p)
          \/ \E other \in Ids[r] : ApplyMerged(p, other)

\* rollback: of whatever is current, once for each id.
Rollback(r, id, target) ==
  /\ target \in DOMAIN store[r].chain
  /\ \/ ApplyPatch(Patch(id, r, store[r].chain, Restore(target)))
     \/ /\ \E q \in Known(id) : q.recipe = r /\ q.ops = Restore(target)
        /\ acked' = acked \cup {<<r, id>>}
        /\ UNCHANGED <<disk, store, commit, faults>>

-----------------------------------------------------------------------------
(* The commit, commit_recipe, one write after the other.                   *)

Envelope(c) == [recipe |-> c.recipe, chain |-> c.chain, patch |-> c.patch]
Record(e) == [recipe |-> e.recipe, id |-> e.patch.id, chain |-> e.chain,
              intent |-> Intent(e.patch)]

\* What the next write puts, and what its key has already.
Due(c) == IF c.at = "journal" THEN Record(Envelope(c)) ELSE Envelope(c)
Stored(c) ==
  CASE c.at = "revision" -> {e \in disk.revisions : e.recipe = c.recipe
                                                    /\ Len(e.chain) = Len(c.chain)}
    [] c.at = "journal"  -> {j \in disk.journal : j.recipe = c.recipe /\ j.id = c.patch.id}
    [] OTHER             -> {}

Writing(stage) == commit # None /\ commit.at = stage
Then(stage)    == commit' = [commit EXCEPT !.at = stage]

PutObject ==
  /\ Writing("object")
  /\ disk' = [disk EXCEPT !.objects = @ \cup {<<commit.recipe, commit.chain>>}]
  /\ Then("revision")
  /\ UNCHANGED <<store, faults, acked>>

PutRevisionAnyway ==
  /\ Writing("revision")
  /\ disk' = [disk EXCEPT !.revisions = (@ \ Stored(commit)) \cup {Due(commit)}]
  /\ Then("pointer")
  /\ UNCHANGED <<store, faults, acked>>

PutRevision ==
  /\ Writing("revision") /\ Stored(commit) \subseteq {Due(commit)}
  /\ disk' = [disk EXCEPT !.revisions = @ \cup {Due(commit)}]
  /\ Then("pointer")
  /\ UNCHANGED <<store, faults, acked>>

\* The service alone writes the backend, so the pointer is as it was.
CasCurrent ==
  /\ Writing("pointer") /\ disk.pointer[commit.recipe] = commit.expected
  /\ disk' = [disk EXCEPT !.pointer[commit.recipe] = commit.chain]
  /\ Then(IF commit.patch = None THEN "done" ELSE "journal")
  /\ UNCHANGED <<store, faults, acked>>

PutJournal ==
  /\ Writing("journal") /\ Stored(commit) \subseteq {Due(commit)}
  /\ disk' = [disk EXCEPT !.journal = @ \cup {Due(commit)}]
  /\ Then("done")
  /\ UNCHANGED <<store, faults, acked>>

\* HashCollision: something else is there already.
Collides ==
  /\ commit # None /\ ~(Stored(commit) \subseteq {Due(commit)})
  /\ commit' = None
  /\ UNCHANGED <<disk, store, faults, acked>>

\* The staged store becomes the store, and the client is told.
Finish ==
  /\ Writing("done")
  /\ store' = [store EXCEPT ![commit.recipe] =
                 [chain |-> commit.chain,
                  patches |-> IF commit.patch = None THEN <<>> ELSE Append(@.patches, commit.patch)]]
  /\ acked' = IF commit.patch = None THEN acked
              ELSE acked \cup {<<commit.recipe, commit.patch.id>>}
  /\ commit' = None
  /\ UNCHANGED <<disk, faults>>

Faulty == faults < MaxFaults /\ faults' = faults + 1

\* A write was made and then reported to have failed (fail_after).
Fail ==
  /\ "error" \in Faults
  /\ commit # None /\ commit.at # "object"
  /\ commit' = None
  /\ Faulty
  /\ UNCHANGED <<disk, store, acked>>

Kill ==
  /\ "kill" \in Faults /\ store # None
  /\ store' = None /\ commit' = None
  /\ Faulty
  /\ UNCHANGED <<disk, acked>>

-----------------------------------------------------------------------------
(* RecipeService::open.                                                    *)

At(r, n) == CHOOSE e \in disk.revisions : e.recipe = r /\ Len(e.chain) = n

Committed(r) == {e \in disk.revisions : e.recipe = r /\ Len(e.chain) <= Len(disk.pointer[r])}
Patches      == {e \in UNION {Committed(r) : r \in Recipe} : e.patch # None}

\* Every revision is there, made of the one before by its patch, which no other
\* revision has, and agrees with the journal: what open checks.
Replayable ==
  /\ \A r \in Recipe :
       /\ {Len(e.chain) : e \in Committed(r)} = DOMAIN disk.pointer[r]
       /\ \A e \in Committed(r) :
            /\ <<r, e.chain>> \in disk.objects
            /\ e.chain = Prefix(disk.pointer[r], Len(e.chain))
            /\ IF Len(e.chain) = 1 THEN e.patch = None
               ELSE /\ e.patch # None /\ e.patch.recipe = r
                    /\ e.patch.base = Prefix(e.chain, Len(e.chain) - 1)
                    /\ e.chain = Patched(e.patch.base, e.patch)
  /\ \A d, e \in Patches : d.patch.id = e.patch.id => d = e
  /\ \A e \in Patches, j \in disk.journal :
       j.recipe = e.recipe /\ j.id = e.patch.id => j = Record(e)

\* The journal of what was committed is completed ...
JournalAsFound == disk.journal
Journalled     == disk.journal \cup {Record(e) : e \in Patches}

\* ... and what was not is put in quarantine.
Referenced(e) == Len(e.chain) <= Len(disk.pointer[e.recipe])
Open ==
  /\ store = None /\ Replayable
  /\ store' = [r \in Recipe |->
                 [chain   |-> disk.pointer[r],
                  patches |-> [n \in 1..(Len(disk.pointer[r]) - 1) |-> At(r, n + 1).patch]]]
  /\ disk' = [disk EXCEPT
       !.journal   = Journalled,
       !.revisions = {e \in @ : Referenced(e)},
       !.objects   = {o \in @ : o[2] # <<>> /\ \E e \in disk.revisions :
                        Referenced(e) /\ e.recipe = o[1] /\ e.chain = o[2]}]
  /\ UNCHANGED <<commit, faults, acked>>

Next ==
  \/ \E r \in Recipe :
       \/ CreateRecipe(r)
       \/ Up /\ Patching(r)
       \/ Up /\ \E id \in Ids[r], target \in 1..MaxRevision : Rollback(r, id, target)
  \/ PutObject \/ PutRevision \/ CasCurrent \/ PutJournal \/ Collides \/ Finish
  \/ Fail \/ Kill \/ Open

Spec == Init /\ [][Next]_vars

-----------------------------------------------------------------------------

\* Wherever the service is cut off, what it left can be opened, and no patch is
\* in two revisions (every_recipe_commit_stage_recovers_without_partial_visibility).
Recoverable == Replayable

\* A patch a client was told of stays in the chain, whatever fails later
\* (commit_recipe returns after its last write, open quarantines orphans only).
AckedStays ==
  \A a \in acked : \E e \in Patches : e.recipe = a[1] /\ e.patch.id = a[2]

\* What is read from the service is committed, and the journal knows each of its
\* patches, so that one that comes again is recognised, commit_recipe's last
\* write having been made or not.
VisibleIsCommitted ==
  store # None => \A r \in Recipe :
    /\ store[r].chain = Prefix(disk.pointer[r], Len(store[r].chain))
    /\ \A p \in Range(store[r].patches) :
         \E j \in disk.journal : j.recipe = r /\ j.id = p.id /\ j.intent = Intent(p)

\* The committed revisions, with the patches that made them.
Revisions(r) ==
  [n \in DOMAIN disk.pointer[r] |-> [content |-> disk.pointer[r][n], patch |-> At(r, n).patch]]

Histories == [r \in Recipe |-> Revisions(r)]

History == INSTANCE RecipeHistory WITH history <- Histories, told <- acked

\* The ledger keeps the promise of RecipeHistory: wherever it is cut off and
\* however often it is opened, a patch takes effect at one instant, on the
\* revision it names, and once, and its client is told afterwards
\* (apply_patch_once, commit_recipe, open).
KeepsHistory == History!Spec
=============================================================================
