----------------------- MODULE RuntimeMigrationProofs -----------------------
(***************************************************************************)
(* Proofs about RuntimeMigration for any sources, files and versions, any  *)
(* number of crashes and failures, and a product runtime that runs at any  *)
(* time.                                                                   *)
(*                                                                         *)
(* TransactionInv is inductive: one lemma per action, each with one step   *)
(* per part of it (types, what the step may rely on, the homes).           *)
(***************************************************************************)
EXTENDS RuntimeMigration, TLAPS

\* A home is not a missing path, and no receipt is a missing path.
LEMMA PresentHomes ==
  /\ \A home \in SUBSET Piece : home # Absent
  /\ \A s \in Source, v \in 1 .. MaxVersion : <<s, v>> # Absent
<1>1. \A home \in SUBSET Piece : home # Absent
  BY ConstantsAssumption
<1>2. ASSUME NEW s \in Source, NEW v \in 1 .. MaxVersion
      PROVE  <<s, v>> # Absent
  <2>1. <<s, v>> \in Source \X (1 .. MaxVersion)
    OBVIOUS
  <2> QED
    BY <2>1, ConstantsAssumption
<1> QED
  BY <1>1, <1>2

\* The files of an import are imported pieces.
LEMMA ImportTyped ==
  \A s \in Source, v \in 1 .. MaxVersion : Import(s, v) \subseteq Imported
BY DEF Import, Imported

\* What TransactionInv says of the homes in one place.
LEMMA Known ==
  ASSUME TransactionInv
  PROVE  TypeOK /\ StepGood /\ HomesGood
BY DEF TransactionInv

\* Before the first import the product's home is its own and nothing is staged.
LEMMA InitGood == Init => TransactionInv
<1> SUFFICES ASSUME Init PROVE TransactionInv
  OBVIOUS
<1>1. TypeOK
  <2>1. MaxVersion \in Nat \ {0} /\ MaxCrashes \in Nat
    BY ConstantsAssumption
  <2>2. 1 \in 1 .. MaxVersion /\ 0 \in 0 .. MaxCrashes
    BY <2>1
  <2> QED
    BY <2>2 DEF Init, TypeOK, Dir, Receipt, Step
<1>2. StepGood /\ HomesGood
  BY PresentHomes DEF Init, StepGood, HomesGood, Pristine
<1> QED
  BY <1>1, <1>2 DEF TransactionInv

\* A receipt: nothing moves.
LEMMA RecoverReceiptedKeeps ==
  ASSUME TransactionInv, RecoverReceipted
  PROVE  TransactionInv'
<1>1. TypeOK'
  BY Known, PresentHomes DEF RecoverReceipted, GoTo, Stop, dirs, TypeOK, StepGood, Dir, Receipt, Step
<1>2. StepGood'
  BY Known, PresentHomes DEF RecoverReceipted, GoTo, Stop, dirs, StepGood, HomesGood, Holds, Pristine
<1>3. HomesGood'
  BY Known, PresentHomes DEF RecoverReceipted, GoTo, Stop, dirs, StepGood, HomesGood, Holds, Pristine
<1> QED
  BY <1>1, <1>2, <1>3 DEF TransactionInv

\* No backup, so the target is untouched by any import.
LEMMA RecoverStagedKeeps ==
  ASSUME TransactionInv, RecoverStaged
  PROVE  TransactionInv'
<1>1. TypeOK'
  BY Known, PresentHomes DEF RecoverStaged, GoTo, dirs, TypeOK, StepGood, Dir, Receipt, Step
<1>2. StepGood'
  BY Known, PresentHomes DEF RecoverStaged, GoTo, dirs, StepGood, HomesGood, Holds, Pristine
<1>3. HomesGood'
  BY Known, PresentHomes DEF RecoverStaged, GoTo, dirs, StepGood, HomesGood, Holds, Pristine
<1> QED
  BY <1>1, <1>2, <1>3 DEF TransactionInv

\* The backup, which holds nothing imported, becomes the target.
LEMMA RecoverSwappedOutKeeps ==
  ASSUME TransactionInv, RecoverSwappedOut
  PROVE  TransactionInv'
<1>1. TypeOK'
  BY Known, PresentHomes DEF RecoverSwappedOut, GoTo, Stop, Erring, TypeOK, StepGood, Dir, Receipt, Step
<1>2. StepGood'
  BY Known, PresentHomes DEF RecoverSwappedOut, GoTo, Stop, Erring, StepGood, HomesGood, Holds, Pristine
<1>3. Pristine(backup) /\ backup # Absent
  BY Known DEF RecoverSwappedOut, HomesGood
<1>4. \/ target' = backup /\ backup' = Absent
      \/ target' = target /\ backup' = backup
  BY DEF RecoverSwappedOut
<1>5. HomesGood'
  BY <1>3, <1>4 DEF RecoverSwappedOut, HomesGood, Pristine
<1> QED
  BY <1>1, <1>2, <1>5 DEF TransactionInv

\* Nothing moves, but the backup is known to be there.
LEMMA RecoverSwappedKeeps ==
  ASSUME TransactionInv, RecoverSwapped
  PROVE  TransactionInv'
<1>1. TypeOK'
  BY Known, PresentHomes DEF RecoverSwapped, GoTo, dirs, TypeOK, StepGood, Dir, Receipt, Step
<1>2. StepGood'
  BY Known, PresentHomes DEF RecoverSwapped, GoTo, dirs, StepGood, HomesGood, Holds, Pristine
<1>3. HomesGood'
  BY Known, PresentHomes DEF RecoverSwapped, GoTo, dirs, StepGood, HomesGood, Holds, Pristine
<1> QED
  BY <1>1, <1>2, <1>3 DEF TransactionInv

\* Nothing moves.
LEMMA RollbackRefusedKeeps ==
  ASSUME TransactionInv, RollbackRefused
  PROVE  TransactionInv'
<1>1. TypeOK'
  BY Known, PresentHomes DEF RollbackRefused, Stop, dirs, TypeOK, StepGood, Dir, Receipt, Step
<1>2. StepGood'
  BY Known, PresentHomes DEF RollbackRefused, Stop, dirs, StepGood, HomesGood, Holds, Pristine
<1>3. HomesGood'
  BY Known, PresentHomes DEF RollbackRefused, Stop, dirs, StepGood, HomesGood, Holds, Pristine
<1> QED
  BY <1>1, <1>2, <1>3 DEF TransactionInv

\* The target leaves, the backup stays.
LEMMA RollbackOutKeeps ==
  ASSUME TransactionInv, RollbackOut
  PROVE  TransactionInv'
<1>1. TypeOK'
  BY Known, PresentHomes DEF RollbackOut, GoTo, Stop, Erring, TypeOK, StepGood, Dir, Receipt, Step
<1>2. StepGood'
  BY Known, PresentHomes DEF RollbackOut, GoTo, Stop, Erring, StepGood, HomesGood, Holds, Pristine
<1>3. HomesGood'
  BY Known, PresentHomes DEF RollbackOut, GoTo, Stop, Erring, StepGood, HomesGood, Holds, Pristine
<1> QED
  BY <1>1, <1>2, <1>3 DEF TransactionInv

\* The backup becomes the target, or the target comes back beside it.
LEMMA RollbackInKeeps ==
  ASSUME TransactionInv, RollbackIn
  PROVE  TransactionInv'
<1>1. TypeOK'
  BY Known, PresentHomes DEF RollbackIn, GoTo, Stop, Erring, Free, TypeOK, StepGood, Dir, Receipt, Step
<1>2. StepGood'
  BY Known, PresentHomes DEF RollbackIn, GoTo, Stop, Erring, Free, StepGood, HomesGood, Holds, Pristine
<1>3. HomesGood'
  BY Known, PresentHomes DEF RollbackIn, GoTo, Stop, Erring, Free, StepGood, HomesGood, Holds, Pristine
<1> QED
  BY <1>1, <1>2, <1>3 DEF TransactionInv

\* Only what was put aside shrinks.
LEMMA RollbackDropKeeps ==
  ASSUME TransactionInv, RollbackDrop
  PROVE  TransactionInv'
<1>1. TypeOK'
  BY Known, PresentHomes DEF RollbackDrop, GoTo, Stop, Remains, Removal, TypeOK, StepGood, Dir, Receipt, Step
<1>2. StepGood'
  BY Known, PresentHomes DEF RollbackDrop, GoTo, Stop, Remains, Removal, StepGood, HomesGood, Holds, Pristine
<1>3. HomesGood'
  BY Known, PresentHomes DEF RollbackDrop, GoTo, Stop, Remains, Removal, StepGood, HomesGood, Holds, Pristine
<1> QED
  BY <1>1, <1>2, <1>3 DEF TransactionInv

\* Only the staged home shrinks.
LEMMA CleanKeeps ==
  ASSUME TransactionInv, Clean
  PROVE  TransactionInv'
<1>1. TypeOK'
  BY Known, PresentHomes DEF Clean, GoTo, Stop, Remains, Removal, TypeOK, StepGood, Dir, Receipt, Step
<1>2. StepGood'
  BY Known, PresentHomes DEF Clean, GoTo, Stop, Remains, Removal, StepGood, HomesGood, Holds, Pristine
<1>3. HomesGood'
  BY Known, PresentHomes DEF Clean, GoTo, Stop, Remains, Removal, StepGood, HomesGood, Holds, Pristine
<1> QED
  BY <1>1, <1>2, <1>3 DEF TransactionInv

\* Only the staged receipt goes.
LEMMA CleanReceiptKeeps ==
  ASSUME TransactionInv, CleanReceipt
  PROVE  TransactionInv'
<1>1. TypeOK'
  BY Known, PresentHomes DEF CleanReceipt, GoTo, Stop, FileRemoval, dirs, TypeOK, StepGood, Dir, Receipt, Step
<1>2. StepGood'
  BY Known, PresentHomes DEF CleanReceipt, GoTo, Stop, FileRemoval, dirs, StepGood, HomesGood, Holds, Pristine
<1>3. HomesGood'
  BY Known, PresentHomes DEF CleanReceipt, GoTo, Stop, FileRemoval, dirs, StepGood, HomesGood, Holds, Pristine
<1> QED
  BY <1>1, <1>2, <1>3 DEF TransactionInv

\* Nothing moves.
LEMMA ValidateKeeps ==
  ASSUME TransactionInv, Validate
  PROVE  TransactionInv'
<1>1. TypeOK'
  BY Known, PresentHomes DEF Validate, GoTo, Stop, dirs, TypeOK, StepGood, Dir, Receipt, Step
<1>2. StepGood'
  BY Known, PresentHomes DEF Validate, GoTo, Stop, dirs, StepGood, HomesGood, Holds, Pristine
<1>3. HomesGood'
  BY Known, PresentHomes DEF Validate, GoTo, Stop, dirs, StepGood, HomesGood, Holds, Pristine
<1> QED
  BY <1>1, <1>2, <1>3 DEF TransactionInv

\* Only the staged home changes.
LEMMA CreateKeeps ==
  ASSUME TransactionInv, Create
  PROVE  TransactionInv'
<1>1. TypeOK'
  BY Known, PresentHomes DEF Create, GoTo, Failing, TypeOK, StepGood, Dir, Receipt, Step
<1>2. StepGood'
  BY Known, PresentHomes DEF Create, GoTo, Failing, StepGood, HomesGood, Holds, Pristine
<1>3. HomesGood'
  BY Known, PresentHomes DEF Create, GoTo, Failing, StepGood, HomesGood, Holds, Pristine
<1> QED
  BY <1>1, <1>2, <1>3 DEF TransactionInv

\* Only the staged home changes.
LEMMA CopyKeeps ==
  ASSUME TransactionInv, NEW f \in File, Copy(f)
  PROVE  TransactionInv'
<1>4. staging' \in SUBSET Piece
  <2>1. <<src, version[src], f>> \in Piece
    BY Known DEF TypeOK, Piece, Imported
  <2> QED
    BY <2>1, Known DEF Copy, StepGood, TypeOK, Dir
<1>1. TypeOK'
  BY <1>4, Known DEF Copy, GoTo, Failing, TypeOK, Dir, Step
<1>2. StepGood'
  BY <1>4, Known, PresentHomes DEF Copy, GoTo, Failing, StepGood, Pristine
<1>3. HomesGood'
  BY Known, PresentHomes DEF Copy, GoTo, Failing, StepGood, HomesGood, Holds, Pristine
<1> QED
  BY <1>1, <1>2, <1>3 DEF TransactionInv

\* The staged home is complete and the staged receipt names it.
LEMMA WriteReceiptKeeps ==
  ASSUME TransactionInv, WriteReceipt
  PROVE  TransactionInv'
<1>1. TypeOK'
  <2>1. <<src, version[src]>> \in Source \X (1 .. MaxVersion)
    BY Known DEF TypeOK
  <2> QED
    BY <2>1, Known DEF WriteReceipt, GoTo, Failing, dirs, TypeOK, Receipt, Step
<1>2. StepGood'
  BY Known, PresentHomes DEF WriteReceipt, GoTo, Failing, dirs, StepGood, HomesGood, Holds, Pristine
<1>3. HomesGood'
  BY Known, PresentHomes DEF WriteReceipt, GoTo, Failing, dirs, StepGood, HomesGood, Holds, Pristine
<1> QED
  BY <1>1, <1>2, <1>3 DEF TransactionInv

\* The target, which holds nothing imported, becomes the backup.
LEMMA SwapOutKeeps ==
  ASSUME TransactionInv, SwapOut
  PROVE  TransactionInv'
<1>1. TypeOK'
  BY Known, PresentHomes DEF SwapOut, GoTo, Failing, TypeOK, StepGood, Dir, Receipt, Step
<1>2. StepGood'
  BY Known, PresentHomes DEF SwapOut, GoTo, Failing, StepGood, HomesGood, Holds, Pristine
<1>3. HomesGood'
  BY Known, PresentHomes DEF SwapOut, GoTo, Failing, StepGood, HomesGood, Holds, Pristine
<1> QED
  BY <1>1, <1>2, <1>3 DEF TransactionInv

\* The complete staged home becomes the target, or the backup does again.
LEMMA SwapInKeeps ==
  ASSUME TransactionInv, SwapIn
  PROVE  TransactionInv'
<1>1. TypeOK'
  BY Known, PresentHomes DEF SwapIn, GoTo, Failing, Free, TypeOK, StepGood, Dir, Receipt, Step
<1>2. StepGood'
  <2>1. /\ receipt = Absent /\ backup # Absent
        /\ staging = Import(src, version[src]) /\ staged = <<src, version[src]>>
    BY Known DEF SwapIn, StepGood
  <2>2. Holds(staging, staged)
    BY <2>1, Known, PresentHomes, ImportTyped DEF Holds, TypeOK, Piece
  <2>3. \/ pc' = "finalize" /\ target' = staging /\ backup' = backup
        \/ pc' = "fail"
    BY DEF SwapIn, GoTo, Failing
  <2> QED
    BY <2>1, <2>2, <2>3 DEF SwapIn, StepGood, Holds
<1>3. HomesGood'
  BY Known, PresentHomes DEF SwapIn, GoTo, Failing, Free, StepGood, HomesGood, Holds, Pristine
<1> QED
  BY <1>1, <1>2, <1>3 DEF TransactionInv

\* The receipt appears, beside the home it names.
LEMMA FinalizeKeeps ==
  ASSUME TransactionInv, Finalize
  PROVE  TransactionInv'
<1>1. TypeOK'
  BY Known, PresentHomes DEF Finalize, GoTo, dirs, TypeOK, StepGood, Dir, Receipt, Step
<1>2. StepGood'
  <2>1. pc = "finalize" /\ staged = <<src, version[src]>> /\ staged # Absent /\ backup # Absent
    BY Known, PresentHomes DEF Finalize, StepGood, TypeOK
  <2>2. (pc' = "dropBackup" /\ receipt' = staged) \/ pc' = "undoReceipt"
    BY DEF Finalize, GoTo
  <2> QED
    BY <2>1, <2>2 DEF Finalize, StepGood, dirs
<1>3. HomesGood'
  BY Known, PresentHomes DEF Finalize, GoTo, dirs, StepGood, HomesGood, Holds, Pristine
<1> QED
  BY <1>1, <1>2, <1>3 DEF TransactionInv

\* The receipt goes before anything else does.
LEMMA UndoReceiptKeeps ==
  ASSUME TransactionInv, UndoReceipt
  PROVE  TransactionInv'
<1>1. TypeOK'
  BY Known, PresentHomes DEF UndoReceipt, GoTo, FileRemoval, dirs, TypeOK, StepGood, Dir, Receipt, Step
<1>2. StepGood'
  BY Known, PresentHomes DEF UndoReceipt, GoTo, FileRemoval, dirs, StepGood, HomesGood, Holds, Pristine
<1>3. HomesGood'
  BY Known, PresentHomes DEF UndoReceipt, GoTo, FileRemoval, dirs, StepGood, HomesGood, Holds, Pristine
<1> QED
  BY <1>1, <1>2, <1>3 DEF TransactionInv

\* Only the staged receipt goes.
LEMMA UndoStagedKeeps ==
  ASSUME TransactionInv, UndoStaged
  PROVE  TransactionInv'
<1>1. TypeOK'
  BY Known, PresentHomes DEF UndoStaged, GoTo, FileRemoval, dirs, TypeOK, StepGood, Dir, Receipt, Step
<1>2. StepGood'
  BY Known, PresentHomes DEF UndoStaged, GoTo, FileRemoval, dirs, StepGood, HomesGood, Holds, Pristine
<1>3. HomesGood'
  BY Known, PresentHomes DEF UndoStaged, GoTo, FileRemoval, dirs, StepGood, HomesGood, Holds, Pristine
<1> QED
  BY <1>1, <1>2, <1>3 DEF TransactionInv

\* The backup shrinks or goes, beside a receipt.
LEMMA DropBackupKeeps ==
  ASSUME TransactionInv, DropBackup
  PROVE  TransactionInv'
<1>1. TypeOK'
  BY Known, PresentHomes DEF DropBackup, GoTo, Stop, Remains, Removal, TypeOK, StepGood, Dir, Receipt, Step
<1>2. StepGood'
  BY Known, PresentHomes DEF DropBackup, GoTo, Stop, Remains, Removal, StepGood, HomesGood, Holds, Pristine
<1>3. HomesGood'
  BY Known, PresentHomes DEF DropBackup, GoTo, Stop, Remains, Removal, StepGood, HomesGood, Holds, Pristine
<1> QED
  BY <1>1, <1>2, <1>3 DEF TransactionInv

\* The backup shrinks or goes, beside a receipt.
LEMMA DropOldBackupKeeps ==
  ASSUME TransactionInv, DropOldBackup
  PROVE  TransactionInv'
<1>1. TypeOK'
  BY Known, PresentHomes DEF DropOldBackup, GoTo, Stop, Remains, Removal, TypeOK, StepGood, Dir, Receipt, Step
<1>2. StepGood'
  BY Known, PresentHomes DEF DropOldBackup, GoTo, Stop, Remains, Removal, StepGood, HomesGood, Holds, Pristine
<1>3. HomesGood'
  BY Known, PresentHomes DEF DropOldBackup, GoTo, Stop, Remains, Removal, StepGood, HomesGood, Holds, Pristine
<1> QED
  BY <1>1, <1>2, <1>3 DEF TransactionInv

\* Only the staged home shrinks.
LEMMA FailKeeps ==
  ASSUME TransactionInv, Fail
  PROVE  TransactionInv'
<1>1. TypeOK'
  BY Known, PresentHomes DEF Fail, GoTo, Stop, Remains, Removal, TypeOK, StepGood, Dir, Receipt, Step
<1>2. StepGood'
  BY Known, PresentHomes DEF Fail, GoTo, Stop, Remains, Removal, StepGood, HomesGood, Holds, Pristine
<1>3. HomesGood'
  BY Known, PresentHomes DEF Fail, GoTo, Stop, Remains, Removal, StepGood, HomesGood, Holds, Pristine
<1> QED
  BY <1>1, <1>2, <1>3 DEF TransactionInv

\* Nothing moves.
LEMMA CrashKeeps ==
  ASSUME TransactionInv, Crash
  PROVE  TransactionInv'
<1>1. TypeOK'
  <2>1. crashes \in 0 .. MaxCrashes /\ crashes < MaxCrashes /\ crashes' = crashes + 1
    BY Known DEF Crash, TypeOK
  <2>2. MaxCrashes \in Nat
    BY ConstantsAssumption
  <2>3. crashes' \in 0 .. MaxCrashes
    BY <2>1, <2>2
  <2> QED
    BY <2>3, Known DEF Crash, Stop, dirs, TypeOK, Step
<1>2. StepGood'
  BY Known, PresentHomes DEF Crash, Stop, dirs, StepGood, HomesGood, Holds, Pristine
<1>3. HomesGood'
  BY Known, PresentHomes DEF Crash, Stop, dirs, StepGood, HomesGood, Holds, Pristine
<1> QED
  BY <1>1, <1>2, <1>3 DEF TransactionInv

\* No import stands at a step that knows the version of this source.
LEMMA SourceRunsKeeps ==
  ASSUME TransactionInv, NEW s \in Source, SourceRuns(s)
  PROVE  TransactionInv'
<1>1. TypeOK'
  <2>1. version[s] \in 1 .. MaxVersion /\ version[s] < MaxVersion /\ MaxVersion \in Nat
    BY Known, ConstantsAssumption DEF SourceRuns, TypeOK
  <2>2. version[s] + 1 \in 1 .. MaxVersion
    BY <2>1
  <2>3. version' \in [Source -> 1 .. MaxVersion]
    BY <2>2, Known DEF SourceRuns, TypeOK
  <2> QED
    BY <2>3, Known DEF SourceRuns, dirs, TypeOK
<1>2. StepGood'
  BY Known, PresentHomes DEF SourceRuns, dirs, StepGood, HomesGood, Holds, Pristine
<1>3. HomesGood'
  BY Known, PresentHomes DEF SourceRuns, dirs, StepGood, HomesGood, Holds, Pristine
<1> QED
  BY <1>1, <1>2, <1>3 DEF TransactionInv

\* A missing home becomes an empty one.
LEMMA EnsureLayoutKeeps ==
  ASSUME TransactionInv, EnsureLayout
  PROVE  TransactionInv'
<1>1. TypeOK'
  <2>1. target' \in Dir
    BY Known DEF EnsureLayout, TypeOK, Dir
  <2> QED
    BY <2>1, Known DEF EnsureLayout, TypeOK
<1>2. StepGood'
  BY Known, PresentHomes DEF EnsureLayout, Running, StepGood, HomesGood, Holds, Pristine
<1>3. HomesGood'
  BY Known, PresentHomes DEF EnsureLayout, Running, StepGood, HomesGood, Holds, Pristine
<1> QED
  BY <1>1, <1>2, <1>3 DEF TransactionInv

\* What the product writes is not imported state.
LEMMA ProductWritesKeeps ==
  ASSUME TransactionInv, ProductWrites
  PROVE  TransactionInv'
<1>1. TypeOK'
  <2>1. target \in SUBSET Piece /\ Local \in Piece
    BY Known DEF ProductWrites, TypeOK, Dir, Piece
  <2>2. target' \in SUBSET Piece
    BY <2>1 DEF ProductWrites
  <2> QED
    BY <2>2, Known DEF ProductWrites, TypeOK, Dir
<1>4. target' \in SUBSET Piece /\ target' = target \cup {Local} /\ Local \notin Imported
  BY Known, ConstantsAssumption DEF ProductWrites, TypeOK, Dir, Piece
<1>5. target' # Absent /\ target' \cap Imported = target \cap Imported /\ target \subseteq target'
  BY <1>4, PresentHomes
<1>6. /\ Pristine(target) => Pristine(target')
      /\ \A r : Holds(target, r) => Holds(target', r)
  BY <1>5 DEF Pristine, Holds
<1>2. StepGood'
  BY <1>5, <1>6, Known DEF ProductWrites, StepGood
<1>3. HomesGood'
  BY <1>6, Known DEF ProductWrites, HomesGood
<1> QED
  BY <1>1, <1>2, <1>3 DEF TransactionInv

\* Nothing moves.
LEMMA BeginKeeps ==
  ASSUME TransactionInv, NEW s \in Source, Begin(s)
  PROVE  TransactionInv'
<1>1. TypeOK'
  BY Known, PresentHomes DEF Begin, dirs, TypeOK, StepGood, Dir, Receipt, Step
<1>2. StepGood'
  BY Known, PresentHomes DEF Begin, dirs, StepGood, HomesGood, Holds, Pristine
<1>3. HomesGood'
  BY Known, PresentHomes DEF Begin, dirs, StepGood, HomesGood, Holds, Pristine
<1> QED
  BY <1>1, <1>2, <1>3 DEF TransactionInv

\* Every step of an import, of its recovery and of the programs beside it
\* keeps the invariant.
LEMMA StepKeeps == TransactionInv /\ [Next]_vars => TransactionInv'
<1> SUFFICES ASSUME TransactionInv, [Next]_vars PROVE TransactionInv'
  OBVIOUS
<1>1. CASE Advance
  BY <1>1, RecoverReceiptedKeeps, RecoverStagedKeeps, RecoverSwappedOutKeeps,
     RecoverSwappedKeeps, RollbackRefusedKeeps, RollbackOutKeeps,
     RollbackInKeeps, RollbackDropKeeps, CleanKeeps, CleanReceiptKeeps,
     ValidateKeeps, CreateKeeps, CopyKeeps, WriteReceiptKeeps, SwapOutKeeps,
     SwapInKeeps, FinalizeKeeps, UndoReceiptKeeps, UndoStagedKeeps,
     DropBackupKeeps, DropOldBackupKeeps, FailKeeps DEF Advance
<1>2. CASE \E s \in Source : Begin(s) \/ SourceRuns(s)
  BY <1>2, BeginKeeps, SourceRunsKeeps
<1>3. CASE Crash \/ EnsureLayout \/ ProductWrites
  BY <1>3, CrashKeeps, EnsureLayoutKeeps, ProductWritesKeeps
<1>4. CASE UNCHANGED vars
  BY <1>4 DEF vars, dirs, TransactionInv, TypeOK, StepGood, HomesGood, Holds, Pristine
<1> QED
  BY <1>1, <1>2, <1>3, <1>4 DEF Next

\* The transaction's invariant, for every sequence of crashes and failures.
THEOREM TransactionInvariant == Spec => []TransactionInv
BY InitGood, StepKeeps, PTL DEF Spec

\* A receipt always vouches for the home it stands beside.
THEOREM ReceiptVouches == Spec => []ReceiptTruthful
<1>1. TransactionInv => ReceiptTruthful
  BY DEF TransactionInv, HomesGood, ReceiptTruthful
<1> QED
  BY <1>1, TransactionInvariant, PTL

\* There is always a home without imported state to go back to, until there
\* is a receipt.
THEOREM WayBack == Spec => []PreImportKept
<1>1. TransactionInv => PreImportKept
  BY DEF TransactionInv, HomesGood, PreImportKept, Pristine
<1> QED
  BY <1>1, TransactionInvariant, PTL

\* A home with a receipt is never replaced, moved away or reduced.
LEMMA CompletedStep ==
  ASSUME TransactionInv, [Next]_vars, receipt # Absent, pc # "undoReceipt"
  PROVE  receipt' = receipt /\ target' # Absent /\ target \subseteq target'
<1>1. target # Absent
  BY Known DEF HomesGood, Holds
<1>2. receipt' = receipt /\ (target' = target \/ ProductWrites)
  BY Known, <1>1
  DEF Next, Advance, vars, dirs, StepGood, Begin, SourceRuns, Crash, EnsureLayout, ProductWrites,
      RecoverReceipted, RecoverStaged, RecoverSwappedOut, RecoverSwapped, RollbackRefused, RollbackOut, RollbackIn, RollbackDrop, Clean, CleanReceipt, Validate,
      Create, Copy, WriteReceipt, SwapOut, SwapIn, Finalize, UndoReceipt, UndoStaged, DropBackup, DropOldBackup, Fail
<1>3. CASE ProductWrites
  <2>1. target \in SUBSET Piece /\ Local \in Piece
    BY <1>1, Known DEF TypeOK, Dir, Piece
  <2> QED
    BY <1>2, <1>3, <2>1, PresentHomes DEF ProductWrites
<1> QED
  BY <1>1, <1>2, <1>3

\* Once an import has its receipt (validate_completed_target, migration.rs:651),
\* no later import, crash or recovery replaces the imported home.
THEOREM CompletedHomeIsFinal == Spec => CompletedHomeStays
<1>1. TransactionInv /\ [Next]_vars =>
        [receipt # Absent /\ pc # "undoReceipt" =>
           receipt' = receipt /\ target' # Absent /\ target \subseteq target']_vars
  BY CompletedStep
<1> QED
  BY <1>1, TransactionInvariant, PTL DEF Spec, CompletedHomeStays

-----------------------------------------------------------------------------
(* What an import leaves behind, and what it imports.                      *)

\* Beside a receipt nothing is staged; the staged home is gone before the
\* receipt is finalized; and success is reported once the backup is gone too.
ResidueGood ==
  /\ receipt # Absent => staging = Absent /\ staged = Absent
  /\ pc = "finalize" => staging = Absent
  /\ outcome \in {"migrated", "already"} =>
       pc = "idle" /\ receipt # Absent /\ backup = Absent

\* Nothing is staged and no import ran.
LEMMA InitResidue == Init => ResidueGood
BY DEF Init, ResidueGood

\* A step of recovery stages nothing, and reports success only by way of the
\* removal of the backup.
LEMMA RecoveryKeepsResidue ==
  ASSUME TransactionInv, ResidueGood,
         \/ RecoverReceipted \/ RecoverStaged \/ RecoverSwappedOut \/ RecoverSwapped
         \/ RollbackRefused \/ RollbackOut \/ RollbackIn \/ RollbackDrop
         \/ Clean \/ CleanReceipt
  PROVE  ResidueGood'
<1>1. receipt' = receipt /\ (receipt # Absent => staging' = staging /\ staged' = staged)
  BY Known DEF RecoverReceipted, RecoverStaged, RecoverSwappedOut, RecoverSwapped,
     RollbackRefused, RollbackOut, RollbackIn, RollbackDrop, Clean, CleanReceipt,
     StepGood, dirs
<1>2. pc' # "finalize" /\ pc # "idle"
  BY DEF RecoverReceipted, RecoverStaged, RecoverSwappedOut, RecoverSwapped,
     RollbackRefused, RollbackOut, RollbackIn, RollbackDrop, Clean, CleanReceipt,
     Removal, FileRemoval, GoTo, Stop, Erring
<1>3. outcome' = outcome \/ outcome' \in {"error", "manual"}
  BY DEF RecoverReceipted, RecoverStaged, RecoverSwappedOut, RecoverSwapped,
     RollbackRefused, RollbackOut, RollbackIn, RollbackDrop, Clean, CleanReceipt,
     Removal, FileRemoval, GoTo, Stop, Erring
<1> QED
  BY <1>1, <1>2, <1>3 DEF ResidueGood

\* A step of the import stages only while there is no receipt, and what it
\* staged is renamed away before and with the receipt.
LEMMA ImportKeepsResidue ==
  ASSUME TransactionInv, ResidueGood,
         \/ Validate \/ Create \/ (\E f \in File : Copy(f))
         \/ WriteReceipt \/ SwapOut \/ SwapIn \/ Finalize
  PROVE  ResidueGood'
<1>1. pc # "idle" /\ receipt = Absent
  BY Known DEF Validate, Create, Copy, WriteReceipt, SwapOut, SwapIn, Finalize, StepGood
<1>2. receipt' # Absent => staging' = Absent /\ staged' = Absent
  BY <1>1 DEF Validate, Create, Copy, WriteReceipt, SwapOut, SwapIn, Finalize, ResidueGood, dirs
<1>3. pc' = "finalize" => staging' = Absent
  BY DEF Validate, Create, Copy, WriteReceipt, SwapOut, SwapIn, Finalize, GoTo, Stop, Failing
<1>4. outcome' = outcome \/ outcome' = "error"
  BY DEF Validate, Create, Copy, WriteReceipt, SwapOut, SwapIn, Finalize, GoTo, Stop, Failing
<1> QED
  BY <1>1, <1>2, <1>3, <1>4 DEF ResidueGood

\* What follows a receipt, or its failure, only removes.
LEMMA EndingKeepsResidue ==
  ASSUME TransactionInv, ResidueGood,
         UndoReceipt \/ UndoStaged \/ DropBackup \/ DropOldBackup \/ Fail
  PROVE  ResidueGood'
<1>1. pc # "idle" /\ pc' # "finalize"
  BY DEF UndoReceipt, UndoStaged, DropBackup, DropOldBackup, Fail, Removal, FileRemoval, GoTo, Stop
<1>2. receipt' # Absent => receipt # Absent /\ staging' = Absent /\ staged' = Absent
  BY Known DEF UndoReceipt, UndoStaged, DropBackup, DropOldBackup, Fail, Removal, FileRemoval,
     Remains, GoTo, Stop, ResidueGood, StepGood, dirs
<1>3. outcome' \in {"migrated", "already"} =>
        outcome' = outcome \/ (pc' = "idle" /\ receipt' = receipt /\ receipt # Absent /\ backup' = Absent)
  BY Known DEF UndoReceipt, UndoStaged, DropBackup, DropOldBackup, Fail, Removal, FileRemoval,
     GoTo, Stop, StepGood
<1> QED
  BY <1>1, <1>2, <1>3 DEF ResidueGood

\* The programs beside the import, a crash and a new import stage nothing.
LEMMA OthersKeepResidue ==
  ASSUME ResidueGood,
         \/ \E s \in Source : Begin(s) \/ SourceRuns(s)
         \/ Crash \/ EnsureLayout \/ ProductWrites \/ UNCHANGED vars
  PROVE  ResidueGood'
BY DEF Begin, SourceRuns, Crash, Stop, EnsureLayout, ProductWrites, vars, dirs, ResidueGood

\* An import that reports success leaves nothing of its transaction behind:
\* no backup, no staged home and no staged receipt, whichever imports were
\* killed or failed before it (migration.rs:243 and 313: success is reported after
\* remove_backup).
THEOREM SuccessIsClean == Spec => []NoResidue
<1>1. TransactionInv /\ ResidueGood /\ [Next]_vars => ResidueGood'
  BY RecoveryKeepsResidue, ImportKeepsResidue, EndingKeepsResidue, OthersKeepResidue
  DEF Next, Advance
<1>2. ResidueGood => NoResidue
  BY DEF ResidueGood, NoResidue
<1> QED
  BY <1>1, <1>2, InitResidue, TransactionInvariant, PTL DEF Spec

\* A receipt appears only by the finalization of the import in progress.
LEMMA ReceiptStep ==
  ASSUME TransactionInv, [Next]_vars, receipt' # receipt, receipt' # Absent
  PROVE  version[receipt'[1]] = receipt'[2]
<1>1. Finalize
  BY DEF Next, Advance, vars, dirs, Begin, SourceRuns, Crash, EnsureLayout, ProductWrites,
     RecoverReceipted, RecoverStaged, RecoverSwappedOut, RecoverSwapped, RollbackRefused,
     RollbackOut, RollbackIn, RollbackDrop, Clean, CleanReceipt, Validate, Create, Copy,
     WriteReceipt, SwapOut, SwapIn, Finalize, UndoReceipt, FileRemoval, UndoStaged, DropBackup,
     DropOldBackup, Fail
<1>2. receipt' = <<src, version[src]>>
  BY <1>1, Known DEF Finalize, StepGood
<1> QED
  BY <1>2

\* What an import, or the recovery of one, declares imported is the source as
\* it is at that moment.
THEOREM ImportsAreCurrent == Spec => ImportIsCurrent
<1>1. TransactionInv /\ [Next]_vars =>
        [receipt' # receipt /\ receipt' # Absent => version[receipt'[1]] = receipt'[2]]_vars
  BY ReceiptStep
<1> QED
  BY <1>1, TransactionInvariant, PTL DEF Spec, ImportIsCurrent
=============================================================================
