--------------------------- MODULE RecipeHistory ---------------------------
(***************************************************************************)
(* What workspace recipes promise: a recipe is a history that only grows.  *)
(* Each revision is made at one instant, of the revision before it, by a   *)
(* patch that makes no other; a client is told that its patch is applied   *)
(* once the history has it.  Nothing else is seen, no death of the service *)
(* and no write that failed.                                               *)
(***************************************************************************)
EXTENDS Naturals, Sequences

CONSTANTS Recipe, Ids, Field, None

VARIABLES
  history,  \* each recipe's revisions: a content, and the patch that made it
  told      \* the patches whose clients were told they are applied

vars == <<history, told>>

Init == history = [r \in Recipe |-> <<>>] /\ told = {}

\* The revisions that were made by a patch of this id.
MadeBy(r, id) == {n \in DOMAIN history[r] : n > 1 /\ history[r][n].patch.id = id}

Contents(r) == [n \in DOMAIN history[r] |-> history[r][n].content]
Add(r, content, patch) ==
  history' = [history EXCEPT ![r] = Append(@, [content |-> content, patch |-> patch])]

Create(r) ==
  /\ history[r] = <<>>
  /\ Add(r, [k \in Field |-> None], None)
  /\ UNCHANGED told

\* A patch sets some fields, or has back what a revision held; and it says which
\* history it is a patch of.
Ops(r) ==
  [kind : {"set"}, fields : UNION {[K -> UNION {Ids[s] : s \in Recipe}] : K \in SUBSET Field}]
  \cup [kind : {"restore"}, target : DOMAIN history[r]]

Patched(r, ops) ==
  IF ops.kind = "restore" THEN history[r][ops.target].content
  ELSE [k \in Field |-> IF k \in DOMAIN ops.fields THEN ops.fields[k]
                        ELSE history[r][Len(history[r])].content[k]]

Commit(r, id) ==
  /\ history[r] # <<>>
  /\ \A s \in Recipe : MadeBy(s, id) = {}
  /\ \E ops \in Ops(r) :
       Add(r, Patched(r, ops), [id |-> id, recipe |-> r, base |-> Contents(r), ops |-> ops])
  /\ UNCHANGED told

Tell(r, id) ==
  /\ MadeBy(r, id) # {}
  /\ told' = told \cup {<<r, id>>}
  /\ UNCHANGED history

Next == \E r \in Recipe :
  \/ Create(r)
  \/ \E id \in Ids[r] : Commit(r, id) \/ Tell(r, id)

Spec == Init /\ [][Next]_vars
=============================================================================
