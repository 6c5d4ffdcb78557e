-------------------------- MODULE RuntimeMigration --------------------------
(***************************************************************************)
(* `aos migrate runtime', crates/unicity-aos-bootstrap/src/migration.rs:   *)
(* the import of a standalone runtime home into the product's, as a        *)
(* transaction made of renames of directories.                             *)
(*                                                                         *)
(* Every rename or removal is flushed before the next one, so a crash      *)
(* falls between two of the steps below, or in the middle of a copy or of  *)
(* a recursive removal.  The import holds the source's lock and its own,   *)
(* so one import runs at a time and its source stands still; nothing locks *)
(* the product's own runtime home.                                         *)
(***************************************************************************)
EXTENDS Naturals, FiniteSets

CONSTANTS
  Source,      \* standalone runtime homes
  File,        \* files of a home, each in as many versions as the home has
  Absent,      \* a path that does not exist
  Local,       \* state the product's own runtime wrote
  MaxVersion,  \* bound: versions of a source
  MaxCrashes,  \* bound: crashes
  IoErrors,    \* may a file operation fail?
  ProductRuns  \* when the product's runtime may run

Imported == Source \X (1 .. MaxVersion) \X File
Piece    == Imported \cup {Local}

ASSUME ConstantsAssumption ==
  /\ MaxVersion \in Nat \ {0}
  /\ MaxCrashes \in Nat
  /\ IoErrors \in BOOLEAN
  /\ ProductRuns \in {"never", "between imports", "any time"}
  /\ \A home \in SUBSET Piece : home # Absent
  /\ Absent \notin Source \X (1 .. MaxVersion)
  /\ Local \notin Imported

VARIABLES
  target,    \* <home>/runtime: Absent, or the set of what it holds
  backup,    \* <home>/runtime.pre-migration
  failed,    \* <home>/runtime.failed-migration
  staging,   \* <home>/.runtime-import
  staged,    \* <home>/migrations/astrid-home-v1.tmp
  receipt,   \* <home>/migrations/astrid-home-v1.json
  version,   \* the version each source is at
  pc,        \* the next step of the import in progress
  src,       \* its source
  undo,      \* is its rollback due to a receipt that could not be finalized?
  outcome,   \* what the last import returned
  crashes    \* how many imports crashed

dirs == <<target, backup, failed, staging>>
vars == <<dirs, staged, receipt, version, pc, src, undo, outcome, crashes>>

Dir     == {Absent} \cup (SUBSET Piece)
Receipt == {Absent} \cup (Source \X (1 .. MaxVersion))

Step == {"recover", "rollback", "rollbackIn", "rollbackDrop", "clean", "cleanReceipt",
         "validate", "create", "copy", "receipt", "swapOut", "swapIn", "finalize",
         "undoReceipt", "undoStaged", "dropBackup", "dropOldBackup", "fail"}

TypeOK ==
  /\ target \in Dir /\ backup \in Dir /\ failed \in Dir /\ staging \in Dir
  /\ staged \in Receipt /\ receipt \in Receipt
  /\ version \in [Source -> 1 .. MaxVersion]
  /\ pc \in Step \cup {"idle"}
  /\ src \in Source
  /\ undo \in BOOLEAN
  /\ outcome \in {"none", "running", "migrated", "already", "error", "manual", "crashed"}
  /\ crashes \in 0 .. MaxCrashes

\* The product is installed: its runtime home is there and holds nothing.
Init ==
  /\ target = {}
  /\ backup = Absent /\ failed = Absent /\ staging = Absent
  /\ staged = Absent /\ receipt = Absent
  /\ version = [s \in Source |-> 1]
  /\ pc = "idle" /\ src \in Source /\ undo = FALSE
  /\ outcome = "none" /\ crashes = 0

-----------------------------------------------------------------------------
(* File operations.                                                        *)

Import(s, v) == {<<s, v, f>> : f \in File}

GoTo(step) == pc' = step /\ UNCHANGED outcome
Stop(result) == pc' = "idle" /\ outcome' = result

\* A rename of a directory: its new name must be free, or empty.
Free(to) == to = Absent \/ to = {}

\* What is there after a recursive removal got part of the way.
Remains(dir) == IF dir = Absent THEN {Absent} ELSE SUBSET dir

\* remove_path, remove_backup: `now' is what is left of `dir'.  The removal is
\* over, still under way, or gets an error.
Removal(dir, now, done, error) ==
  \/ now = Absent /\ done
  \/ now \in Remains(dir) \ {dir} /\ GoTo(pc)
  \/ IoErrors /\ dir # Absent /\ now \in Remains(dir) \cup {Absent} /\ error

\* The same for a file, which goes at once.
FileRemoval(file, now, done, error) ==
  \/ now = Absent /\ done
  \/ IoErrors /\ file # Absent /\ now \in {file, Absent} /\ error

Erring == IoErrors /\ Stop("error")
Failing == IoErrors /\ GoTo("fail")

-----------------------------------------------------------------------------
(* recover_interrupted_transaction.                                        *)

\* migrate_runtime, called by the user: both locks are taken.
Begin(s) ==
  /\ pc = "idle"
  /\ pc' = "recover" /\ outcome' = "running"
  /\ src' = s /\ undo' = FALSE
  /\ UNCHANGED <<dirs, staged, receipt, version, crashes>>

\* A receipt ends the matter: this source's import is complete, or another's is.
RecoverReceipted ==
  /\ pc = "recover" /\ receipt # Absent
  /\ IF receipt[1] = src /\ target # Absent THEN GoTo("dropOldBackup") ELSE Stop("error")
  /\ UNCHANGED <<dirs, staged, receipt, version, src, undo, crashes>>

\* No import got as far as the swap: drop what it staged.
RecoverStaged ==
  /\ pc = "recover" /\ receipt = Absent /\ backup = Absent
  /\ GoTo(IF staging # Absent \/ staged # Absent THEN "clean" ELSE "validate")
  /\ UNCHANGED <<dirs, staged, receipt, version, src, undo, crashes>>

\* An import stopped between the two renames of its swap.
RecoverSwappedOut ==
  /\ pc = "recover" /\ receipt = Absent /\ backup # Absent /\ target = Absent
  /\ \/ target' = backup /\ backup' = Absent /\ (GoTo("clean") \/ Erring)
     \/ UNCHANGED <<target, backup>> /\ Erring
  /\ UNCHANGED <<failed, staging, staged, receipt, version, src, undo, crashes>>

\* An import stopped after its swap: a target without a receipt goes.
RecoverPromotes ==
  /\ pc = "recover" /\ receipt = Absent /\ backup # Absent /\ target # Absent
  /\ IF staged # Absent /\ Import(staged[1], staged[2]) \subseteq target
       THEN GoTo("finalize") ELSE GoTo("rollback")
  /\ UNCHANGED <<dirs, staged, receipt, version, src, undo, crashes>>
RecoverSwappedFirst ==
  /\ pc = "recover" /\ backup # Absent /\ target # Absent
  /\ GoTo("rollback")
  /\ UNCHANGED <<dirs, staged, receipt, version, src, undo, crashes>>
RecoverSwapped ==
  /\ pc = "recover" /\ receipt = Absent /\ backup # Absent /\ target # Absent
  /\ GoTo("rollback")
  /\ UNCHANGED <<dirs, staged, receipt, version, src, undo, crashes>>

\* rollback_target: put the target aside ...
RollbackRefused ==
  /\ pc = "rollback" /\ failed # Absent
  /\ Stop("manual")
  /\ UNCHANGED <<dirs, staged, receipt, version, src, undo, crashes>>

RollbackOut ==
  /\ pc = "rollback" /\ failed = Absent
  /\ \/ /\ target # Absent /\ failed' = target /\ target' = Absent
        /\ GoTo("rollbackIn") \/ Erring
     \/ UNCHANGED <<target, failed>> /\ Erring
  /\ UNCHANGED <<backup, staging, staged, receipt, version, src, undo, crashes>>

\* ... put the backup in its place, or else the target back ...
RollbackIn ==
  /\ pc = "rollbackIn"
  /\ \/ /\ Free(target)
        /\ target' = backup /\ backup' = Absent
        /\ GoTo("rollbackDrop") \/ Erring
        /\ UNCHANGED failed
     \/ /\ IoErrors \/ ~Free(target)
        /\ \/ Free(target) /\ target' = failed /\ failed' = Absent
           \/ (IoErrors \/ ~Free(target)) /\ UNCHANGED <<target, failed>>
        /\ Stop("error")
        /\ UNCHANGED backup
  /\ UNCHANGED <<staging, staged, receipt, version, src, undo, crashes>>

\* ... and remove it.
RollbackDrop ==
  /\ pc = "rollbackDrop"
  /\ Removal(failed, failed', IF undo THEN Stop("error") ELSE GoTo("clean"), Stop("error"))
  /\ UNCHANGED <<target, backup, staging, staged, receipt, version, src, undo, crashes>>

Clean ==
  /\ pc = "clean"
  /\ Removal(staging, staging', GoTo("cleanReceipt"), Stop("error"))
  /\ UNCHANGED <<target, backup, failed, staged, receipt, version, src, undo, crashes>>

CleanReceiptForgotten ==
  /\ pc = "cleanReceipt" /\ GoTo("validate")
  /\ UNCHANGED <<dirs, staged, receipt, version, src, undo, crashes>>
CleanReceipt ==
  /\ pc = "cleanReceipt"
  /\ FileRemoval(staged, staged', GoTo("validate"), Stop("error"))
  /\ UNCHANGED <<dirs, receipt, version, src, undo, crashes>>

-----------------------------------------------------------------------------
(* migrate_runtime, the import itself.                                     *)

\* validate_target: the home to replace is there and holds no state.
Validate ==
  /\ pc = "validate"
  /\ IF target = {} /\ staging = Absent THEN GoTo("create") ELSE Stop("error")
  /\ UNCHANGED <<dirs, staged, receipt, version, src, undo, crashes>>

Create ==
  /\ pc = "create"
  /\ \/ staging' = {} /\ (GoTo("copy") \/ Failing)
     \/ UNCHANGED staging /\ Failing
  /\ UNCHANGED <<target, backup, failed, staged, receipt, version, src, undo, crashes>>

\* copy_etc_state, copy_if_present, copy_wasm_blobs: one file.
Copy(f) ==
  /\ pc = "copy" /\ <<src, version[src], f>> \notin staging
  /\ staging' = staging \cup {<<src, version[src], f>>}
  /\ GoTo("copy") \/ Failing
  /\ UNCHANGED <<target, backup, failed, staged, receipt, version, src, undo, crashes>>

\* receipt_matches, then write_staged_receipt.
WriteReceipt ==
  /\ pc = "copy" /\ staging = Import(src, version[src])
  /\ \/ staged = Absent /\ staged' = <<src, version[src]>> /\ (GoTo("swapOut") \/ Failing)
     \/ UNCHANGED staged /\ (IoErrors \/ staged # Absent) /\ GoTo("fail")
  /\ UNCHANGED <<dirs, receipt, version, src, undo, crashes>>

\* replace_target: the target becomes the backup ...
SwapOutDiscards ==
  /\ pc = "swapOut" /\ target' = Absent /\ GoTo("swapIn")
  /\ UNCHANGED <<backup, failed, staging, staged, receipt, version, src, undo, crashes>>
SwapOut ==
  /\ pc = "swapOut"
  /\ \/ /\ backup = Absent /\ target # Absent
        /\ backup' = target /\ target' = Absent
        /\ GoTo("swapIn") \/ Failing
     \/ /\ IoErrors \/ backup # Absent
        /\ UNCHANGED <<target, backup>> /\ GoTo("fail")
  /\ UNCHANGED <<failed, staging, staged, receipt, version, src, undo, crashes>>

\* ... and the staged home the target, or else the backup again.
SwapIn ==
  /\ pc = "swapIn"
  /\ \/ /\ Free(target) /\ target' = staging /\ staging' = Absent
        /\ GoTo("finalize") \/ Failing
        /\ UNCHANGED backup
     \/ /\ IoErrors \/ ~Free(target)
        /\ \/ Free(target) /\ target' = backup /\ backup' = Absent
           \/ (IoErrors \/ ~Free(target)) /\ UNCHANGED <<target, backup>>
        /\ GoTo("fail")
        /\ UNCHANGED staging
  /\ UNCHANGED <<failed, staged, receipt, version, src, undo, crashes>>

\* finalize_receipt.
Finalize ==
  /\ pc = "finalize"
  /\ \/ /\ receipt' = staged /\ staged' = Absent
        /\ GoTo("dropBackup") \/ (IoErrors /\ GoTo("undoReceipt"))
     \/ UNCHANGED <<receipt, staged>> /\ IoErrors /\ GoTo("undoReceipt")
  /\ UNCHANGED <<dirs, version, src, undo, crashes>>

\* It failed: no receipt first, then no imported target.
UndoInReverse ==
  /\ pc = "undoReceipt"
  /\ GoTo("rollback") /\ undo' = TRUE
  /\ UNCHANGED <<dirs, staged, receipt, version, src, crashes>>
UndoReceipt ==
  /\ pc = "undoReceipt"
  /\ FileRemoval(receipt, receipt', GoTo("undoStaged"), GoTo("fail"))
  /\ UNCHANGED <<dirs, staged, version, src, undo, crashes>>

UndoStaged ==
  /\ pc = "undoStaged"
  /\ FileRemoval(staged, staged', GoTo("rollback"), GoTo("fail"))
  /\ undo' = TRUE
  /\ UNCHANGED <<dirs, receipt, version, src, crashes>>

\* remove_backup, and the import is done ...
DropBackup ==
  /\ pc = "dropBackup"
  /\ Removal(backup, backup', Stop("migrated"), GoTo("fail"))
  /\ UNCHANGED <<target, failed, staging, staged, receipt, version, src, undo, crashes>>

\* ... or was, before this call.
OldBackupLeft ==
  /\ pc = "dropOldBackup" /\ Stop("already")
  /\ UNCHANGED <<dirs, staged, receipt, version, src, undo, crashes>>
DropOldBackup ==
  /\ pc = "dropOldBackup"
  /\ Removal(backup, backup', Stop("already"), Stop("error"))
  /\ UNCHANGED <<target, failed, staging, staged, receipt, version, src, undo, crashes>>

\* The import returns its error, the staged home is removed if that works.
Fail ==
  /\ pc = "fail"
  /\ Removal(staging, staging', Stop("error"), Stop("error"))
  /\ UNCHANGED <<target, backup, failed, staged, receipt, version, src, undo, crashes>>

-----------------------------------------------------------------------------
(* The process, the source and the product's runtime.                      *)

\* The process is killed; its locks go with it.
Crash ==
  /\ pc # "idle" /\ crashes < MaxCrashes
  /\ Stop("crashed") /\ crashes' = crashes + 1
  /\ UNCHANGED <<dirs, staged, receipt, version, src, undo>>

\* The standalone runtime, which needs its lock, runs and changes its home.
SourceRuns(s) ==
  /\ pc = "idle" \/ src # s
  /\ version[s] < MaxVersion
  /\ version' = [version EXCEPT ![s] = @ + 1]
  /\ UNCHANGED <<dirs, staged, receipt, pc, src, undo, outcome, crashes>>

\* Does the product's runtime run now?
Running == ProductRuns = "any time" \/ (ProductRuns = "between imports" /\ pc = "idle")

\* ensure_layout, before any command of the product's runtime.
EnsureLayout ==
  /\ Running /\ target = Absent
  /\ target' = {}
  /\ UNCHANGED <<backup, failed, staging, staged, receipt, version, pc, src, undo, outcome, crashes>>

\* The product's runtime writes state of its own.
ProductWrites ==
  /\ Running /\ target # Absent
  /\ target' = target \cup {Local}
  /\ UNCHANGED <<backup, failed, staging, staged, receipt, version, pc, src, undo, outcome, crashes>>

Advance ==
  \/ RecoverReceipted \/ RecoverStaged \/ RecoverSwappedOut \/ RecoverSwapped
  \/ RollbackRefused \/ RollbackOut \/ RollbackIn \/ RollbackDrop
  \/ Clean \/ CleanReceipt \/ Validate \/ Create \/ (\E f \in File : Copy(f))
  \/ WriteReceipt \/ SwapOut \/ SwapIn \/ Finalize \/ UndoReceipt \/ UndoStaged
  \/ DropBackup \/ DropOldBackup \/ Fail

Next ==
  \/ \E s \in Source : Begin(s) \/ SourceRuns(s)
  \/ Advance
  \/ Crash
  \/ EnsureLayout \/ ProductWrites

Spec == Init /\ [][Next]_vars

\* A process that is not killed goes on.
FairSpec == Spec /\ WF_vars(Advance)

-----------------------------------------------------------------------------
(* Properties.                                                             *)

\* The home holds an import, complete, and no other.
Holds(home, r) ==
  home # Absent /\ Import(r[1], r[2]) \subseteq home /\ home \cap Imported \subseteq Import(r[1], r[2])

\* Nothing imported is, or is any more, in this home.
Pristine(home) == home # Absent /\ home \cap Imported = {}

\* A receipt vouches for the home it stands beside: every file of the import
\* it records is there, and nothing of another import, after any sequence of
\* crashes, failures and retries.
ReceiptTruthful == receipt # Absent => Holds(target, receipt)

\* Until there is a receipt, a home without imported state is there to go
\* back to: the target itself or its backup.
PreImportKept == receipt = Absent => \E home \in {target, backup} : Pristine(home)

\* What the import in progress has established when it is at its next step.
StepGood ==
  /\ pc \in {"clean", "cleanReceipt", "rollbackDrop", "validate", "create", "copy", "swapOut"} =>
       receipt = Absent /\ Pristine(target)
  /\ pc \in {"rollback", "rollbackIn", "swapIn", "finalize", "undoStaged"} =>
       receipt = Absent /\ backup # Absent
  /\ pc \in {"rollbackIn", "swapIn"} => target = Absent \/ Pristine(target)
  /\ pc = "copy" => staging # Absent
  /\ pc \in {"swapOut", "swapIn"} => staging = Import(src, version[src])
  /\ pc \in {"swapOut", "swapIn", "finalize"} => staged = <<src, version[src]>>
  /\ pc = "finalize" => Holds(target, staged)
  /\ pc = "undoReceipt" => backup # Absent
  /\ pc \in {"dropBackup", "dropOldBackup"} => receipt # Absent

\* A backup never holds imported state, and without one, and without a
\* receipt, neither does the target.
HomesGood ==
  /\ receipt # Absent => Holds(target, receipt)
  /\ backup # Absent => Pristine(backup)
  /\ receipt = Absent /\ backup = Absent => Pristine(target)

\* Why the two properties above hold: at each step the import knows enough of
\* the homes for the next one, wherever the previous import was killed.
TransactionInv == TypeOK /\ StepGood /\ HomesGood

\* An import that reports success, its own or an earlier one's, leaves no
\* intermediate directory or file of it behind.
NoResidue ==
  outcome \in {"migrated", "already"} =>
    receipt # Absent /\ backup = Absent /\ staging = Absent /\ staged = Absent

\* What is imported is the source as it is: recovery does not complete an
\* earlier copy of a source that has changed since.
ImportIsCurrent ==
  [][receipt' # receipt /\ receipt' # Absent => version[receipt'[1]] = receipt'[2]]_vars

\* A home with a receipt, once its import has returned, is never replaced,
\* moved away or reduced by another import.
CompletedHomeStays ==
  [][receipt # Absent /\ pc # "undoReceipt" =>
       receipt' = receipt /\ target' # Absent /\ target \subseteq target']_vars

\* A user who keeps retrying gets the home imported in the end, if one import
\* at most is killed and the product is not used before.
RetrySucceeds ==
  (\A s \in Source : []<><<Begin(s)>>_vars) /\ [](crashes <= 1) => <>(receipt # Absent)
=============================================================================
