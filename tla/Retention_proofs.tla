-------------------------- MODULE Retention_proofs --------------------------
(***************************************************************************)
(* What is held back stays until it was downloaded, and the downloads are  *)
(* bounded, for any miners, requests, ages, failures and orders of the     *)
(* pass, the exports and the deletions.                                    *)
(***************************************************************************)
EXTENDS Retention, TLAPS, FiniteSetTheorems

LEMMA Constants == /\ Duration \in Nat /\ Grace \in Nat /\ YearLength \in Nat \ {0}
                   /\ NoMiner \notin Miners
  BY RetentionAssumption

-----------------------------------------------------------------------------
(* Types.                                                                  *)

\* A year is a positive number.
LEMMA YearType == \A t \in Nat : YearOf(t) \in Nat \ {0} /\ YearOf(t) - 1 \in Nat
  BY Constants DEF YearOf

\* The next miner of pruneNuked, or the next phase.
LEMMA NextNukedType ==
  ASSUME pass \in Passes, NEW todo \in SUBSET Miners, NextNuked(todo)
  PROVE  /\ pass' \in Passes
         /\ pass'.todo \subseteq todo \cup pass.todo
         /\ \/ pass'.pc = "hold"
            \/ /\ pass'.pc = "erase hashrate"
               /\ pass'.miner \in todo
               /\ pass'.todo \subseteq todo
  <1>1. CASE todo = {}
    BY <1>1 DEF NextNuked, Goto, Passes, PassSteps
  <1>2. CASE todo # {}
    <2>1. PICK m \in todo : pass' = [pass EXCEPT !.pc = "erase hashrate", !.miner = m,
                                                 !.todo = todo \ {m}]
      BY <1>2 DEF NextNuked
    <2>. QED  BY <2>1 DEF Passes, PassSteps
  <1>. QED  BY <1>1, <1>2

LEMMA TypeInitial == Init => TypeOK
  BY Constants DEF Init, TypeOK, IdlePass, IdleExport, IdleNuke, Passes, PassSteps, ExportStates, NukeStates

\* The steps of the scanners and the clock.
LEMMA ScannersType == TypeOK /\ (Scanners \/ Tick) => TypeOK'
  <1> SUFFICES ASSUME TypeOK, Scanners \/ Tick  PROVE TypeOK'
    OBVIOUS
  <1>1. ASSUME NEW m \in Miners, RecordPayment(m)  PROVE TypeOK'
    BY <1>1 DEF TypeOK, RecordPayment, columns, actors, bounds, history
  <1>2. ASSUME NEW m \in Miners, RecordHashrate(m)  PROVE TypeOK'
    BY <1>2 DEF TypeOK, RecordHashrate, columns, actors, bounds, history
  <1>3. ASSUME NEW m \in Miners, Activate(m)  PROVE TypeOK'
    <2>0. now \in Nat /\ grants \in Nat /\ grace \in [Miners -> Nat]
      BY DEF TypeOK
    <2>1. grace' \in [Miners -> Nat] /\ grants' \in Nat
      BY <1>3, <2>0, Constants DEF Activate
    <2>2. UNCHANGED <<now, keyed, held, left, deleted, tables, actors, faults, nukes, history>>
      BY <1>3 DEF Activate
    <2>. QED  BY <2>1, <2>2 DEF TypeOK, tables, actors, history
  <1>4. ASSUME NEW m \in Miners, GenerateKey(m)  PROVE TypeOK'
    BY <1>4 DEF TypeOK, GenerateKey, tables, actors, bounds, history
  <1>5. CASE Tick
    <2>0. now \in Nat
      BY DEF TypeOK
    <2>1. now' \in Nat /\ UNCHANGED <<columns, tables, actors, bounds, history>>
      BY <1>5, <2>0 DEF Tick
    <2>. QED  BY <2>1 DEF TypeOK, columns, tables, actors, bounds, history
  <1>. QED  BY <1>1, <1>2, <1>3, <1>4, <1>5 DEF Scanners

\* A statement that fails.
LEMMA FaultType == TypeOK => /\ faults \in Nat /\ nukes \in Nat /\ nukes + 1 \in Nat
                             /\ Fault => faults' \in Nat
  <1>1. TypeOK => faults \in Nat /\ nukes \in Nat
    BY DEF TypeOK
  <1>. QED  BY <1>1 DEF Fault

\* The row of a miner that asked for deletion.
LEMMA ResetRowType ==
  ASSUME TypeOK, NEW m \in Miners, ResetRow(m)
  PROVE  /\ grace' \in [Miners -> Nat] /\ keyed' \in [Miners -> BOOLEAN]
         /\ held' \in [Miners -> Nat] /\ left' \in [Miners -> 0..2]
         /\ deleted' = deleted /\ served' = served
         /\ owed' \in [Miners -> SUBSET Nat]
  <1>1. /\ grace \in [Miners -> Nat] /\ keyed \in [Miners -> BOOLEAN] /\ held \in [Miners -> Nat]
        /\ left \in [Miners -> 0..2] /\ owed \in [Miners -> SUBSET Nat]
    BY DEF TypeOK
  <1>2. grace' \in [Miners -> Nat] /\ held' \in [Miners -> Nat]
    BY <1>1 DEF ResetRow
  <1>3. left' \in [Miners -> 0..2]
    BY <1>1 DEF ResetRow
  <1>4. keyed' \in [Miners -> BOOLEAN] /\ owed' \in [Miners -> SUBSET Nat]
    BY <1>1 DEF ResetRow
  <1>. QED  BY <1>2, <1>3, <1>4 DEF ResetRow

\* The steps of the daily pass.
LEMMA PruneType == TypeOK /\ Prune => TypeOK'
  <1> SUFFICES ASSUME TypeOK, Prune  PROVE TypeOK'
    OBVIOUS
  <1>p. \A pc \in PassSteps : pc \notin {"erase hashrate", "erase payments", "reset"}
                                 /\ Goto(pc) => pass' \in Passes /\ pass'.pc = pc
    BY DEF TypeOK, Goto, Passes
  <1>1. CASE BeginPass
    BY <1>1 DEF TypeOK, BeginPass, IdlePass, Passes, PassSteps, columns, tables, bounds, history
  <1>2. CASE SelectNuked
    <2>1. NextNuked({m \in Miners : deleted[m]})
      BY <1>2 DEF SelectNuked
    <2>2. pass' \in Passes /\ (pass'.pc = "hold" \/ pass'.miner \in Miners)
      <3>1. pass \in Passes /\ {m \in Miners : deleted[m]} \in SUBSET Miners
        BY DEF TypeOK
      <3>. QED  BY <2>1, <3>1, NextNukedType
    <2>. QED  BY <1>2, <2>2 DEF TypeOK, SelectNuked, columns, tables, bounds, history
  <1>3. CASE EraseHashrate
    BY <1>3 DEF TypeOK, EraseHashrate, Goto, Passes, PassSteps, columns, bounds, history
  <1>4. CASE ErasePayments
    BY <1>4 DEF TypeOK, ErasePayments, Goto, Passes, PassSteps, columns, bounds, history
  <1>5. CASE ResetNuked
    <2>1. pass.miner \in Miners /\ pass \in Passes /\ pass.todo \subseteq Miners
      BY <1>5 DEF TypeOK, ResetNuked, Passes
    <2>2. NextNuked(pass.todo) /\ ResetRow(pass.miner)
      BY <1>5 DEF ResetNuked
    <2>3. pass' \in Passes /\ (pass'.pc = "hold" \/ pass'.miner \in Miners)
      BY <2>1, <2>2, NextNukedType
    <2>4. /\ grace' \in [Miners -> Nat] /\ keyed' \in [Miners -> BOOLEAN]
          /\ held' \in [Miners -> Nat] /\ left' \in [Miners -> 0..2]
          /\ deleted' = deleted /\ served' = served
          /\ owed' \in [Miners -> SUBSET Nat]
      BY <2>1, <2>2, ResetRowType
    <2>. QED  BY <1>5, <2>3, <2>4 DEF TypeOK, ResetNuked, tables, bounds
  <1>6. CASE HoldYear
    <2>1. YearOf(pass.at) - 1 \in Nat
      BY YearType DEF TypeOK, Passes
    <2>2. pass' \in Passes /\ pass'.pc = "clear"
      BY <1>6, <1>p DEF HoldYear, PassSteps
    <2>3. /\ held' \in [Miners -> Nat] /\ left' \in [Miners -> 0..2]
          /\ served' \in [Miners -> Nat]
      BY <1>6, <2>1 DEF HoldYear, TypeOK
    <2>4. owed' \in [Miners -> SUBSET Nat]
      BY <1>6 DEF HoldYear, TypeOK
    <2>. QED  BY <1>6, <2>2, <2>3, <2>4 DEF TypeOK, HoldYear, tables, bounds
  <1>7. CASE ClearExhausted
    BY <1>7, <1>p DEF TypeOK, ClearExhausted, PassSteps, tables, bounds, history
  <1>8. CASE FreeHashrate
    BY <1>8, <1>p DEF TypeOK, FreeHashrate, PassSteps, columns, bounds, history
  <1>9. CASE FreePayments
    BY <1>9, <1>p DEF TypeOK, FreePayments, PassSteps, columns, bounds, history
  <1>10. CASE PaidHashrate
    BY <1>10 DEF TypeOK, PaidHashrate, IdlePass, Passes, PassSteps, columns, bounds, history
  <1>11. CASE Abort
    <2>1. faults' \in Nat /\ pass' = IdlePass
      BY <1>11, FaultType DEF Abort
    <2>2. UNCHANGED <<now, columns, tables, export, nuke, nukes, grants, history>>
      BY <1>11 DEF Abort
    <2>. QED  BY <2>1, <2>2 DEF TypeOK, IdlePass, Passes, PassSteps, columns, tables, history
  <1>. QED  BY <1>1, <1>2, <1>3, <1>4, <1>5, <1>6, <1>7, <1>8, <1>9, <1>10, <1>11 DEF Prune

\* The steps of the requests.
LEMMA RequestsType ==
  TypeOK /\ ((\E e \in Exports : TaxExport(e)) \/ MarkDeleted \/ Delete) => TypeOK'
  <1> SUFFICES ASSUME TypeOK, (\E e \in Exports : TaxExport(e)) \/ MarkDeleted \/ Delete
               PROVE  TypeOK'
    OBVIOUS
  <1>x. /\ export \in [Exports -> ExportStates]
        /\ \A e \in Exports : export[e].pc # "idle" => export[e].miner \in Miners
        /\ nuke \in NukeStates /\ (nuke.pc # "idle" => nuke.miner \in Miners)
    BY DEF TypeOK
  <1>1. ASSUME NEW e \in Exports, StartExport(e)  PROVE TypeOK'
    <2>1. PICK m \in Miners : export' = [export EXCEPT ![e] = [pc |-> "select", miner |-> m]]
      BY <1>1 DEF StartExport
    <2>2. /\ export' \in [Exports -> ExportStates]
          /\ \A x \in Exports : export'[x].pc # "idle" => export'[x].miner \in Miners
      BY <1>x, <2>1 DEF ExportStates
    <2>3. UNCHANGED <<now, columns, tables, pass, nuke, bounds, history>>
      BY <1>1 DEF StartExport
    <2>. QED  BY <2>2, <2>3 DEF TypeOK, columns, tables, bounds, history
  <1>2. ASSUME NEW e \in Exports, SelectHeld(e)  PROVE TypeOK'
    <2>1. \/ export' = [export EXCEPT ![e].pc = "count"]
          \/ export' = [export EXCEPT ![e] = IdleExport]
      BY <1>2 DEF SelectHeld
    <2>2. export[e].pc = "select"
      BY <1>2 DEF SelectHeld
    <2>3. /\ export' \in [Exports -> ExportStates]
          /\ \A x \in Exports : export'[x].pc # "idle" => export'[x].miner \in Miners
      BY <1>x, <2>1, <2>2 DEF ExportStates, IdleExport
    <2>4. UNCHANGED <<now, columns, tables, pass, nuke, bounds, history>>
      BY <1>2 DEF SelectHeld
    <2>. QED  BY <2>3, <2>4 DEF TypeOK, columns, tables, bounds, history
  <1>3. ASSUME NEW e \in Exports, CountExport(e)  PROVE TypeOK'
    <2>0. /\ left \in [Miners -> 0..2] /\ served \in [Miners -> Nat]
          /\ export[e].miner \in Miners
      BY <1>3, <1>x DEF TypeOK, CountExport
    <2>1. left' \in [Miners -> 0..2]
      BY <1>3, <2>0 DEF CountExport, CountedDown
    <2>2. served' \in [Miners -> Nat]
      BY <1>3, <2>0 DEF CountExport
    <2>3. /\ export' \in [Exports -> ExportStates]
          /\ \A x \in Exports : export'[x].pc # "idle" => export'[x].miner \in Miners
      BY <1>3, <1>x DEF CountExport, IdleExport, ExportStates
    <2>4. faults' \in Nat
      BY <1>3, FaultType DEF CountExport
    <2>5. UNCHANGED <<now, grace, keyed, held, deleted, tables, pass, nuke, nukes, grants, owed>>
      BY <1>3 DEF CountExport
    <2>. QED  BY <2>1, <2>2, <2>3, <2>4, <2>5 DEF TypeOK, tables
  <1>4. CASE MarkDeleted
    <2>1. nukes' \in Nat /\ faults' \in Nat
      BY <1>4, FaultType DEF MarkDeleted
    <2>2. PICK m \in Miners : /\ deleted' = [deleted EXCEPT ![m] = TRUE]
                              /\ nuke' \in {nuke, [pc |-> "hashrate", miner |-> m]}
      BY <1>4 DEF MarkDeleted
    <2>3. nuke' \in NukeStates /\ (nuke'.pc # "idle" => nuke'.miner \in Miners)
      BY <1>x, <2>2 DEF NukeStates
    <2>4. UNCHANGED <<now, grace, keyed, held, left, tables, pass, export, grants, history>>
      BY <1>4 DEF MarkDeleted
    <2>. QED  BY <2>1, <2>2, <2>3, <2>4 DEF TypeOK, tables, history
  <1>5. CASE DeleteHashrate
    <2>1. faults' \in Nat /\ hashrate' \in [Miners -> SUBSET Nat]
      BY <1>5, FaultType DEF TypeOK, DeleteHashrate
    <2>2. nuke' \in NukeStates /\ (nuke'.pc # "idle" => nuke'.miner \in Miners)
      BY <1>5, <1>x DEF DeleteHashrate, NukeStates
    <2>3. UNCHANGED <<now, columns, payments, pass, export, nukes, grants, history>>
      BY <1>5 DEF DeleteHashrate
    <2>. QED  BY <2>1, <2>2, <2>3 DEF TypeOK, columns, history
  <1>6. CASE DeletePayments
    <2>1. faults' \in Nat /\ payments' \in [Miners -> SUBSET Nat]
      BY <1>6, FaultType DEF TypeOK, DeletePayments
    <2>2. nuke' \in NukeStates /\ (nuke'.pc # "idle" => nuke'.miner \in Miners)
      BY <1>6, <1>x DEF DeletePayments, NukeStates
    <2>3. UNCHANGED <<now, columns, hashrate, pass, export, nukes, grants, history>>
      BY <1>6 DEF DeletePayments
    <2>. QED  BY <2>1, <2>2, <2>3 DEF TypeOK, columns, history
  <1>7. CASE ResetDeleted
    <2>1. nuke.miner \in Miners /\ nuke' = IdleNuke /\ faults' \in Nat
      BY <1>7, <1>x, FaultType DEF ResetDeleted
    <2>2. UNCHANGED <<now, tables, pass, export, nukes, grants>>
      BY <1>7 DEF ResetDeleted
    <2>3. nuke' \in NukeStates /\ (nuke'.pc # "idle" => nuke'.miner \in Miners)
      BY <2>1 DEF IdleNuke, NukeStates
    <2>4. CASE ResetRow(nuke.miner)
      <3>1. /\ grace' \in [Miners -> Nat] /\ keyed' \in [Miners -> BOOLEAN]
            /\ held' \in [Miners -> Nat] /\ left' \in [Miners -> 0..2]
            /\ deleted' = deleted /\ served' = served
            /\ owed' \in [Miners -> SUBSET Nat]
        BY <2>1, <2>4, ResetRowType
      <3>. QED  BY <2>1, <2>2, <2>3, <3>1 DEF TypeOK, tables
    <2>5. CASE UNCHANGED <<columns, history>>
      BY <2>1, <2>2, <2>3, <2>5 DEF TypeOK, tables, columns, history
    <2>. QED  BY <1>7, <2>4, <2>5 DEF ResetDeleted
  <1>. QED  BY <1>1, <1>2, <1>3, <1>4, <1>5, <1>6, <1>7 DEF TaxExport, Delete

LEMMA TypeStep == TypeOK /\ [Next]_vars => TypeOK'
  <1>1. TypeOK /\ UNCHANGED vars => TypeOK'
    BY DEF TypeOK, vars, columns, tables, actors, bounds, history
  <1>. QED  BY <1>1, ScannersType, PruneType, RequestsType DEF Next

\* Every variable keeps its type, for all values of the constants.
THEOREM TypeCorrect == Spec => []TypeOK
  BY TypeInitial, TypeStep, PTL DEF Spec
-----------------------------------------------------------------------------
(* What is held back stays.                                                *)

\* Only a miner that asked for it is erased, by the pass or by the handler.
LEMMA ErasedStep == TypeOK /\ OnlyDeletedAreErased /\ [Next]_vars => OnlyDeletedAreErased'
  <1> SUFFICES ASSUME TypeOK, OnlyDeletedAreErased, [Next]_vars  PROVE OnlyDeletedAreErased'
    OBVIOUS
  <1>t. /\ pass \in Passes /\ nuke \in NukeStates /\ pass.todo \subseteq Miners
        /\ deleted \in [Miners -> BOOLEAN]
        /\ pass.pc \in {"erase hashrate", "erase payments", "reset"} => pass.miner \in Miners
        /\ nuke.pc # "idle" => nuke.miner \in Miners
    BY DEF TypeOK, Passes
  <1>p. ASSUME NEW pc \in PassSteps, Goto(pc)
        PROVE  pass'.pc = pc /\ pass'.todo = pass.todo /\ pass'.miner = pass.miner
    BY <1>p, <1>t DEF Goto, Passes
  <1>n. ASSUME NEW todo \in SUBSET Miners, NextNuked(todo), \A m \in todo : deleted[m],
               UNCHANGED <<deleted, nuke>>
        PROVE  OnlyDeletedAreErased'
    <2>1. /\ pass'.todo \subseteq todo \cup pass.todo
          /\ \/ pass'.pc = "hold"
             \/ pass'.pc = "erase hashrate" /\ pass'.miner \in todo
      BY <1>n, <1>t, NextNukedType
    <2>. QED  BY <1>n, <2>1 DEF OnlyDeletedAreErased
  <1>u. ASSUME UNCHANGED <<deleted, pass, nuke>>  PROVE OnlyDeletedAreErased'
    BY <1>u DEF OnlyDeletedAreErased
  <1>1. CASE UNCHANGED vars
    BY <1>1, <1>u DEF vars, columns, actors
  <1>2. CASE Scanners \/ Tick
    BY <1>2, <1>u DEF Scanners, Tick, RecordPayment, RecordHashrate, Activate, GenerateKey,
                      columns, actors
  <1>3. CASE Prune
    <2>1. UNCHANGED <<deleted, nuke>>
      BY <1>3 DEF Prune, BeginPass, SelectNuked, EraseHashrate, ErasePayments, ResetNuked,
                  ResetRow, HoldYear, ClearExhausted, FreeHashrate, FreePayments, PaidHashrate,
                  Abort, columns
    <2>2. CASE BeginPass \/ PaidHashrate \/ Abort
      <3>1. IdlePass \in Passes /\ IdlePass.todo = {} /\ IdlePass.pc = "idle"
        BY DEF IdlePass, Passes, PassSteps
      <3>2. pass' = IdlePass \/ pass' = [IdlePass EXCEPT !.pc = "nuked", !.at = now]
        BY <2>2 DEF BeginPass, PaidHashrate, Abort
      <3>3. pass'.todo = {} /\ pass'.pc \in {"idle", "nuked"}
        BY <3>1, <3>2 DEF Passes
      <3>. QED  BY <2>1, <3>3 DEF OnlyDeletedAreErased
    <2>3. CASE SelectNuked
      BY <1>n, <2>1, <2>3 DEF SelectNuked
    <2>4. CASE EraseHashrate \/ ErasePayments
      <3>1. /\ pass.pc \in {"erase hashrate", "erase payments"}
            /\ pass'.todo = pass.todo /\ pass'.miner = pass.miner
        BY <2>4, <1>p DEF EraseHashrate, ErasePayments, PassSteps
      <3>. QED  BY <2>1, <3>1 DEF OnlyDeletedAreErased
    <2>5. CASE ResetNuked
      BY <1>n, <1>t, <2>1, <2>5 DEF ResetNuked, OnlyDeletedAreErased
    <2>6. CASE HoldYear \/ ClearExhausted \/ FreeHashrate \/ FreePayments
      <3>1. /\ pass'.pc \in {"clear", "free hashrate", "free payments", "paid hashrate"}
            /\ pass'.todo = pass.todo
        BY <2>6, <1>p DEF HoldYear, ClearExhausted, FreeHashrate, FreePayments, PassSteps
      <3>. QED  BY <2>1, <3>1 DEF OnlyDeletedAreErased
    <2>. QED  BY <1>3, <2>2, <2>3, <2>4, <2>5, <2>6 DEF Prune
  <1>4. CASE \E e \in Exports : TaxExport(e)
    BY <1>4, <1>u DEF TaxExport, StartExport, SelectHeld, CountExport, columns
  <1>5. CASE MarkDeleted
    <2>1. PICK m \in Miners : /\ deleted' = [deleted EXCEPT ![m] = TRUE]
                              /\ nuke' \in {nuke, [pc |-> "hashrate", miner |-> m]}
      BY <1>5 DEF MarkDeleted
    <2>2. pass' = pass /\ nuke.pc = "idle"
      BY <1>5 DEF MarkDeleted
    <2>3. deleted'[m] /\ \A x \in Miners : deleted[x] => deleted'[x]
      BY <1>t, <2>1
    <2>4. nuke'.pc # "idle" => deleted'[nuke'.miner]
      BY <2>1, <2>2, <2>3
    <2>5. /\ \A x \in pass'.todo : deleted'[x]
          /\ pass'.pc \in {"erase hashrate", "erase payments", "reset"} => deleted'[pass'.miner]
      BY <1>t, <2>2, <2>3 DEF OnlyDeletedAreErased
    <2>. QED  BY <2>4, <2>5 DEF OnlyDeletedAreErased
  <1>6. CASE Delete
    <2>1. UNCHANGED <<deleted, pass>>
      BY <1>6 DEF Delete, DeleteHashrate, DeletePayments, ResetDeleted, ResetRow, columns
    <2>2. nuke.pc # "idle" /\ (nuke'.pc = "idle" \/ nuke'.miner = nuke.miner)
      <3>1. CASE DeleteHashrate
        BY <3>1, <1>t DEF DeleteHashrate, NukeStates
      <3>2. CASE DeletePayments
        BY <3>2, <1>t DEF DeletePayments, NukeStates
      <3>3. CASE ResetDeleted
        BY <3>3 DEF ResetDeleted, IdleNuke
      <3>. QED  BY <1>6, <3>1, <3>2, <3>3 DEF Delete
    <2>. QED  BY <2>1, <2>2 DEF OnlyDeletedAreErased
  <1>. QED  BY <1>1, <1>2, <1>3, <1>4, <1>5, <1>6 DEF Next

\* Downloads are left only of the year that is held and owed, and what is owed is
\* there: phase 2 holds a year with what it has, phase 5 spares it, and the rest
\* of the steps delete the payments of deleted miners only.
HeldInv == HoldsAreLinked /\ HeldPaymentsKept

LEMMA HeldStep == TypeOK /\ OnlyDeletedAreErased /\ HeldInv /\ [Next]_vars => HeldInv'
  <1> SUFFICES ASSUME TypeOK, OnlyDeletedAreErased, HeldInv, [Next]_vars  PROVE HeldInv'
    OBVIOUS
  <1>t. /\ pass \in Passes /\ nuke \in NukeStates /\ pass.at \in Nat
        /\ held \in [Miners -> Nat] /\ left \in [Miners -> 0..2]
        /\ deleted \in [Miners -> BOOLEAN]
        /\ owed \in [Miners -> SUBSET Nat] /\ payments \in [Miners -> SUBSET Nat]
        /\ pass.pc \in {"erase hashrate", "erase payments", "reset"} => pass.miner \in Miners
        /\ nuke.pc # "idle" => nuke.miner \in Miners
    BY DEF TypeOK, Passes
  \* A step that only records payments, or deletes those of deleted miners.
  <1>u. ASSUME UNCHANGED <<held, left, owed>>,
               \A m \in Miners : deleted[m] => deleted'[m],
               \A m \in Miners : ~deleted[m] => payments[m] \subseteq payments'[m]
        PROVE  HeldInv'
    BY <1>u DEF HeldInv, HoldsAreLinked, HeldPaymentsKept
  <1>r. ASSUME NEW m \in Miners, ResetRow(m), UNCHANGED payments  PROVE HeldInv'
    <2>1. /\ \A x \in Miners : x # m => held'[x] = held[x] /\ left'[x] = left[x] /\ owed'[x] = owed[x]
          /\ left'[m] = 0 /\ deleted' = deleted
      BY <1>t, <1>r DEF ResetRow
    <2>. QED  BY <1>r, <2>1 DEF HeldInv, HoldsAreLinked, HeldPaymentsKept
  <1>1. CASE UNCHANGED vars
    BY <1>1, <1>u DEF vars, columns, tables, history
  <1>2. CASE Scanners \/ Tick
    <2>1. UNCHANGED <<held, left, deleted, owed>>
      BY <1>2 DEF Scanners, Tick, RecordPayment, RecordHashrate, Activate, GenerateKey,
                  columns, history
    <2>2. \A m \in Miners : payments[m] \subseteq payments'[m]
      BY <1>2, <1>t DEF Scanners, Tick, RecordPayment, RecordHashrate, Activate, GenerateKey,
                        tables
    <2>. QED  BY <1>u, <2>1, <2>2
  <1>3. CASE BeginPass \/ SelectNuked \/ EraseHashrate \/ FreeHashrate \/ PaidHashrate \/ Abort
    BY <1>3, <1>u DEF BeginPass, SelectNuked, EraseHashrate, FreeHashrate, PaidHashrate, Abort,
                      columns, tables, history
  <1>4. CASE ErasePayments
    <2>1. deleted[pass.miner] /\ pass.miner \in Miners
      BY <1>4, <1>t DEF ErasePayments, OnlyDeletedAreErased
    <2>2. \A m \in Miners : ~deleted[m] => payments'[m] = payments[m]
      BY <1>4, <1>t, <2>1 DEF ErasePayments
    <2>. QED  BY <1>4, <1>u, <2>2 DEF ErasePayments, columns, history
  <1>5. CASE ResetNuked
    BY <1>5, <1>t, <1>r DEF ResetNuked, tables
  <1>6. CASE HoldYear
    <2>. DEFINE year == YearOf(pass.at) - 1
    <2>1. ASSUME NEW m \in Miners, m \in NewlyLapsed
          PROVE  /\ held'[m] = year /\ year # 0
                 /\ owed'[m] = {t \in payments[m] : YearOf(t) = year}
      <3>1. held'[m] = year /\ owed'[m] = {t \in payments[m] : YearOf(t) = year}
        BY <1>6, <2>1 DEF HoldYear
      <3>2. PICK t \in payments[m] : YearOf(t) + 1 = YearOf(pass.at)
        BY <2>1 DEF NewlyLapsed
      <3>3. YearOf(t) \in Nat \ {0} /\ YearOf(pass.at) \in Nat
        BY <1>t, YearType
      <3>. QED  BY <3>1, <3>2, <3>3
    <2>2. ASSUME NEW m \in Miners, m \notin NewlyLapsed
          PROVE  held'[m] = held[m] /\ left'[m] = left[m] /\ owed'[m] = owed[m]
      BY <1>6, <2>2 DEF HoldYear
    <2>3. UNCHANGED <<deleted, payments>>
      BY <1>6 DEF HoldYear, tables
    <2>. HIDE DEF year
    <2>4. HoldsAreLinked'
      <3> SUFFICES ASSUME NEW m \in Miners, left'[m] > 0
                   PROVE  held'[m] # 0 /\ \A t \in owed'[m] : YearOf(t) = held'[m]
        BY DEF HoldsAreLinked, YearOf
      <3>. QED  BY <2>1, <2>2 DEF HeldInv, HoldsAreLinked
    <2>5. HeldPaymentsKept'
      <3> SUFFICES ASSUME NEW m \in Miners, left'[m] > 0, ~deleted'[m]
                   PROVE  owed'[m] \subseteq payments'[m]
        BY DEF HeldPaymentsKept
      <3>. QED  BY <2>1, <2>2, <2>3 DEF HeldInv, HeldPaymentsKept
    <2>. QED  BY <2>4, <2>5 DEF HeldInv
  <1>7. CASE ClearExhausted
    <2>1. UNCHANGED <<left, deleted, owed, payments>>
      BY <1>7 DEF ClearExhausted, tables, history
    <2>2. ASSUME NEW m \in Miners, left[m] > 0  PROVE held'[m] = held[m]
      <3>1. ~Exhausted(m)
        BY <2>2 DEF Exhausted
      <3>. QED  BY <1>7, <3>1 DEF ClearExhausted
    <2>. QED  BY <2>1, <2>2 DEF HeldInv, HoldsAreLinked, HeldPaymentsKept
  <1>8. CASE FreePayments
    <2>1. UNCHANGED <<held, left, deleted, owed>>
      BY <1>8 DEF FreePayments, columns, history
    <2>2. ASSUME NEW m \in Miners, left[m] > 0, NEW t \in owed[m], t \in payments[m]
          PROVE  t \in payments'[m]
      <3>1. Withheld(m, t)
        BY <2>2 DEF HeldInv, HoldsAreLinked, Withheld
      <3>. QED  BY <1>8, <2>2, <3>1 DEF FreePayments
    <2>. QED  BY <2>1, <2>2 DEF HeldInv, HoldsAreLinked, HeldPaymentsKept
  <1>9. ASSUME NEW e \in Exports, TaxExport(e)  PROVE HeldInv'
    <2>1. CASE StartExport(e) \/ SelectHeld(e)
      BY <2>1, <1>u DEF StartExport, SelectHeld, columns, tables, history
    <2>2. CASE CountExport(e)
      <3>1. UNCHANGED <<held, deleted, owed, payments>>
        BY <2>2 DEF CountExport, tables
      <3>2. \A m \in Miners : left'[m] > 0 => left[m] > 0
        BY <2>2, <1>t DEF CountExport, CountedDown
      <3>. QED  BY <3>1, <3>2 DEF HeldInv, HoldsAreLinked, HeldPaymentsKept
    <2>. QED  BY <1>9, <2>1, <2>2 DEF TaxExport
  <1>10. CASE MarkDeleted
    <2>1. \A m \in Miners : deleted[m] => deleted'[m]
      BY <1>10, <1>t DEF MarkDeleted
    <2>. QED  BY <1>10, <1>u, <2>1 DEF MarkDeleted, tables, history
  <1>11. CASE DeleteHashrate
    BY <1>11, <1>u DEF DeleteHashrate, columns, history
  <1>12. CASE DeletePayments
    <2>1. deleted[nuke.miner] /\ nuke.miner \in Miners
      BY <1>12, <1>t DEF DeletePayments, OnlyDeletedAreErased
    <2>2. \A m \in Miners : ~deleted[m] => payments'[m] = payments[m]
      BY <1>12, <1>t, <2>1 DEF DeletePayments
    <2>. QED  BY <1>12, <1>u, <2>2 DEF DeletePayments, columns, history
  <1>13. CASE ResetDeleted
    <2>1. nuke.miner \in Miners /\ UNCHANGED payments
      BY <1>13, <1>t DEF ResetDeleted, tables
    <2>2. CASE ResetRow(nuke.miner)
      BY <1>r, <2>1, <2>2
    <2>3. CASE UNCHANGED <<columns, history>>
      BY <1>u, <2>1, <2>3 DEF columns, history
    <2>. QED  BY <1>13, <2>2, <2>3 DEF ResetDeleted
  <1>. QED  BY <1>1, <1>2, <1>3, <1>4, <1>5, <1>6, <1>7, <1>8, <1>9, <1>10, <1>11, <1>12, <1>13
            DEF Next, Prune, Delete

LEMMA HeldInitial == Init => OnlyDeletedAreErased /\ HeldInv
  BY DEF Init, OnlyDeletedAreErased, HeldInv, HoldsAreLinked, HeldPaymentsKept, IdlePass, IdleNuke

\* The payments of a held year stay while downloads of it are left, whatever the
\* pass, the requests and the failures do (phases 2 and 5 of pruneRetention).
THEOREM HeldYearStays == Spec => []HeldPaymentsKept
  <1>1. HeldInv => HeldPaymentsKept
    BY DEF HeldInv
  <1>. QED
    BY <1>1, TypeCorrect, HeldInitial, ErasedStep, HeldStep, PTL DEF Spec


-----------------------------------------------------------------------------
(* The downloads of a held year are bounded.                               *)

\* The requests that were let through are some of the requests.
LEMMA CountingSize ==
  /\ Cardinality(Exports) \in Nat
  /\ \A m \in Miners : /\ IsFiniteSet(Counting(m)) /\ Cardinality(Counting(m)) \in Nat
                       /\ Cardinality(Counting(m)) <= Cardinality(Exports)
  <1>1. IsFiniteSet(Exports) /\ Cardinality(Exports) \in Nat
    BY RetentionAssumption, FS_CardinalityType
  <1>2. ASSUME NEW m \in Miners
        PROVE  /\ IsFiniteSet(Counting(m)) /\ Cardinality(Counting(m)) \in Nat
               /\ Cardinality(Counting(m)) <= Cardinality(Exports)
    <2>1. Counting(m) \subseteq Exports
      BY DEF Counting
    <2>. QED  BY <1>1, <2>1, FS_Subset, FS_CardinalityType
  <1>. QED  BY <1>1, <1>2

\* The same of the next state.
LEMMA CountingSizeNext ==
  \A m \in Miners : /\ Cardinality(Counting(m)') \in Nat
                    /\ Cardinality(Counting(m)') <= Cardinality(Exports)
  <1>1. IsFiniteSet(Exports)
    BY RetentionAssumption
  <1>2. ASSUME NEW m \in Miners
        PROVE  /\ Cardinality(Counting(m)') \in Nat
               /\ Cardinality(Counting(m)') <= Cardinality(Exports)
    <2>1. Counting(m)' \subseteq Exports
      BY DEF Counting
    <2>. QED  BY <1>1, <2>1, FS_Subset, FS_CardinalityType
  <1>. QED  BY <1>2

\* Failures are only ever added.
LEMMA FaultsGrow == TypeOK /\ [Next]_vars => faults' \in Nat /\ faults <= faults'
  <1>1. TypeOK => faults \in Nat
    BY DEF TypeOK
  <1>2. [Next]_vars => UNCHANGED faults \/ Fault
    BY DEF Next, Scanners, RecordPayment, RecordHashrate, Activate, GenerateKey, Tick,
           Prune, BeginPass, SelectNuked, EraseHashrate, ErasePayments, ResetNuked, HoldYear,
           ClearExhausted, FreeHashrate, FreePayments, PaidHashrate, Abort,
           TaxExport, StartExport, SelectHeld, CountExport,
           MarkDeleted, Delete, DeleteHashrate, DeletePayments, ResetDeleted, vars, bounds
  <1>. QED  BY <1>1, <1>2 DEF Fault

\* A step that leaves the counters of a miner and its requests alone.
LEMMA TrackedUnchanged ==
  ASSUME TypeOK, NEW m \in Miners, Tracked(m), faults' \in Nat, faults <= faults',
         left'[m] = left[m], served'[m] = served[m], Counting(m)' = Counting(m)
  PROVE  Tracked(m)'
  <1>1. left[m] \in 0..2 /\ served[m] \in Nat /\ faults \in Nat
    BY DEF TypeOK
  <1>2. Cardinality(Exports) \in Nat /\ Cardinality(Counting(m)) \in Nat
    BY CountingSize
  <1>. QED  BY <1>1, <1>2 DEF Tracked

\* A row that becomes a free one has no download left; its requests that were let
\* through may all still count.
LEMMA TrackedReset ==
  ASSUME TypeOK, NEW m \in Miners, Tracked(m), faults' \in Nat, faults <= faults',
         left'[m] = 0, served'[m] = served[m], Counting(m)' = Counting(m)
  PROVE  Tracked(m)'
  <1>1. left[m] \in 0..2 /\ served[m] \in Nat /\ faults \in Nat
    BY DEF TypeOK
  <1>2. /\ Cardinality(Exports) \in Nat /\ Cardinality(Counting(m)) \in Nat
        /\ Cardinality(Counting(m)) <= Cardinality(Exports)
    BY CountingSize
  <1>. QED  BY <1>1, <1>2 DEF Tracked

\* A request that counts itself is no longer among those that were let through.
LEMMA CountedExport ==
  ASSUME TypeOK, NEW e \in Exports, CountExport(e), NEW m \in Miners, m = export[e].miner
  PROVE  /\ Cardinality(Counting(m)') + 1 = Cardinality(Counting(m))
         /\ \A x \in Miners : x # m => Counting(x)' = Counting(x)
         /\ served'[m] = served[m] + 1
         /\ \A x \in Miners : x # m => served'[x] = served[x] /\ left'[x] = left[x]
         /\ \/ left'[m] = CountedDown(left[m]) /\ faults' = faults
            \/ left'[m] = left[m] /\ faults' = faults + 1
  <1>1. export \in [Exports -> ExportStates] /\ export[e].pc = "count"
        /\ export' = [export EXCEPT ![e] = IdleExport]
    BY DEF TypeOK, CountExport
  <1>2. Counting(m)' = Counting(m) \ {e} /\ e \in Counting(m)
    BY <1>1 DEF Counting, IdleExport
  <1>3. \A x \in Miners : x # m => Counting(x)' = Counting(x)
    BY <1>1 DEF Counting, IdleExport
  <1>4. Cardinality(Counting(m)') + 1 = Cardinality(Counting(m))
    <2>1. IsFiniteSet(Counting(m)) /\ Cardinality(Counting(m)) \in Nat
      BY CountingSize
    <2>2. Cardinality(Counting(m) \ {e}) = Cardinality(Counting(m)) - 1
      BY <1>2, <2>1, FS_RemoveElement
    <2>. QED  BY <1>2, <2>1, <2>2
  <1>5. left \in [Miners -> 0..2] /\ served \in [Miners -> Nat]
    BY DEF TypeOK
  <1>6. served' = [served EXCEPT ![m] = served[m] + 1]
    BY DEF CountExport
  <1>7. \/ left' = [left EXCEPT ![m] = CountedDown(left[m])] /\ faults' = faults
        \/ left' = left /\ faults' = faults + 1
    BY DEF CountExport, Fault
  <1>. QED  BY <1>3, <1>4, <1>5, <1>6, <1>7

LEMMA TrackedStep == TypeOK /\ ExportsTracked /\ [Next]_vars => ExportsTracked'
  <1> SUFFICES ASSUME TypeOK, ExportsTracked, [Next]_vars, NEW m \in Miners
               PROVE  Tracked(m)'
    BY DEF ExportsTracked
  <1>t. /\ left \in [Miners -> 0..2] /\ served \in [Miners -> Nat] /\ faults \in Nat
        /\ export \in [Exports -> ExportStates] /\ Tracked(m)
        /\ pass.pc \in {"erase hashrate", "erase payments", "reset"} => pass.miner \in Miners
        /\ nuke.pc # "idle" => nuke.miner \in Miners
    BY DEF TypeOK, ExportsTracked
  <1>f. faults' \in Nat /\ faults <= faults'
    BY FaultsGrow
  <1>u. ASSUME UNCHANGED <<left, served, export>>  PROVE Tracked(m)'
    BY <1>u, <1>f, <1>t, TrackedUnchanged DEF Counting
  <1>r. ASSUME NEW x \in Miners, ResetRow(x), UNCHANGED export  PROVE Tracked(m)'
    <2>1. served' = served /\ Counting(m)' = Counting(m)
      BY <1>r DEF ResetRow, Counting
    <2>2. left'[m] = left[m] \/ left'[m] = 0
      BY <1>r, <1>t DEF ResetRow
    <2>. QED  BY <2>1, <2>2, <1>f, <1>t, TrackedUnchanged, TrackedReset
  <1>1. CASE UNCHANGED vars
    BY <1>1, <1>u DEF vars, columns, actors, history
  <1>2. CASE Scanners \/ Tick \/ MarkDeleted
    BY <1>2, <1>u DEF Scanners, Tick, RecordPayment, RecordHashrate, Activate, GenerateKey,
                      MarkDeleted, columns, actors, history
  <1>3. CASE Prune
    <2>1. CASE BeginPass \/ SelectNuked \/ EraseHashrate \/ ErasePayments \/ ClearExhausted
               \/ FreeHashrate \/ FreePayments \/ PaidHashrate \/ Abort
      BY <2>1, <1>u DEF BeginPass, SelectNuked, EraseHashrate, ErasePayments, ClearExhausted,
                        FreeHashrate, FreePayments, PaidHashrate, Abort, columns, history
    <2>2. CASE ResetNuked
      BY <2>2, <1>r, <1>t DEF ResetNuked
    <2>3. CASE HoldYear
      <3>1. export' = export
        BY <2>3 DEF HoldYear
      <3>2. CASE m \in NewlyLapsed
        <4>1. left'[m] = 2 /\ served'[m] = 0
          BY <2>3, <3>2 DEF HoldYear
        <4>2. 0 + 2 <= 2 + faults' /\ 2 > 0
          BY FaultsGrow
        <4>. QED  BY <4>1, <4>2 DEF Tracked
      <3>3. CASE m \notin NewlyLapsed
        <4>1. left'[m] = left[m] /\ served'[m] = served[m]
          BY <2>3, <3>3 DEF HoldYear
        <4>. QED  BY <1>f, <1>t, <3>1, <4>1, TrackedUnchanged DEF Counting
      <3>. QED  BY <3>2, <3>3
    <2>. QED  BY <1>3, <2>1, <2>2, <2>3 DEF Prune
  <1>4. ASSUME NEW e \in Exports, StartExport(e)  PROVE Tracked(m)'
    <2>1. PICK x \in Miners : export' = [export EXCEPT ![e] = [pc |-> "select", miner |-> x]]
      BY <1>4 DEF StartExport
    <2>2. export[e].pc = "idle" /\ UNCHANGED <<left, served>>
      BY <1>4 DEF StartExport, columns, history
    <2>3. Counting(m)' = Counting(m)
      BY <1>t, <2>1, <2>2 DEF Counting
    <2>. QED  BY <1>f, <1>t, <2>2, <2>3, TrackedUnchanged
  <1>5. ASSUME NEW e \in Exports, SelectHeld(e)  PROVE Tracked(m)'
    <2>1. export[e].pc = "select" /\ UNCHANGED <<left, served>>
      BY <1>5 DEF SelectHeld, columns, history
    <2>2. CASE export' = [export EXCEPT ![e] = IdleExport]
      <3>1. Counting(m)' = Counting(m)
        BY <1>t, <2>1, <2>2 DEF Counting, IdleExport
      <3>. QED  BY <1>f, <1>t, <2>1, <3>1, TrackedUnchanged
    <2>3. CASE MayExport(export[e].miner) /\ export' = [export EXCEPT ![e].pc = "count"]
      <3>1. CASE export[e].miner = m
        <4>1. left[m] > 0 /\ left[m] \in 0..2 /\ served[m] \in Nat /\ faults \in Nat
          BY <1>t, <2>3, <3>1 DEF MayExport
        <4>2. served[m] + left[m] <= 2 + faults
          BY <1>t, <4>1 DEF Tracked
        <4>3. served[m] + left[m] <= 2 + faults'
          BY <1>f, <4>1, <4>2
        <4>4. left'[m] = left[m] /\ served'[m] = served[m]
          BY <2>1
        <4>. QED  BY <4>1, <4>3, <4>4 DEF Tracked
      <3>2. CASE export[e].miner # m
        <4>1. Counting(m)' = Counting(m)
          BY <1>t, <2>1, <2>3, <3>2 DEF Counting, ExportStates
        <4>. QED  BY <1>f, <1>t, <2>1, <4>1, TrackedUnchanged
      <3>. QED  BY <3>1, <3>2
    <2>. QED  BY <1>5, <2>2, <2>3 DEF SelectHeld
  <1>6. ASSUME NEW e \in Exports, CountExport(e)  PROVE Tracked(m)'
    <2>1. PICK x \in Miners : x = export[e].miner
      BY <1>6 DEF TypeOK, CountExport
    <2>2. /\ Cardinality(Counting(x)') + 1 = Cardinality(Counting(x))
          /\ \A y \in Miners : y # x => Counting(y)' = Counting(y)
          /\ served'[x] = served[x] + 1
          /\ \A y \in Miners : y # x => served'[y] = served[y] /\ left'[y] = left[y]
          /\ \/ left'[x] = CountedDown(left[x]) /\ faults' = faults
             \/ left'[x] = left[x] /\ faults' = faults + 1
      BY <1>6, <2>1, CountedExport
    <2>3. CASE m # x
      BY <1>f, <1>t, <2>2, <2>3, TrackedUnchanged
    <2>4. CASE m = x
      <3>. DEFINE c == Cardinality(Counting(m))
                  d == Cardinality(Counting(m)')
                  n == Cardinality(Exports)
      <3>1. c \in Nat /\ n \in Nat /\ d \in Nat /\ c <= n /\ d + 1 = c
        BY <2>2, <2>4, CountingSize, CountingSizeNext
      <3>2. /\ left[m] \in 0..2 /\ served[m] \in Nat /\ faults \in Nat
            /\ served'[m] = served[m] + 1
            /\ \/ left'[m] = CountedDown(left[m]) /\ faults' = faults
               \/ left'[m] = left[m] /\ faults' = faults + 1
        BY <1>t, <2>2, <2>4
      <3>3. IF left[m] > 0 THEN served[m] + left[m] <= 2 + faults
                           ELSE served[m] + c <= 2 + (n - 1) + faults
        BY <1>t DEF Tracked
      <3>. HIDE DEF c, d, n
      <3>4. IF left'[m] > 0 THEN served'[m] + left'[m] <= 2 + faults'
                            ELSE served'[m] + d <= 2 + (n - 1) + faults'
        BY <3>1, <3>2, <3>3 DEF CountedDown
      <3>. QED  BY <3>4 DEF Tracked, d, n
    <2>. QED  BY <2>3, <2>4
  <1>7. CASE Delete
    <2>1. CASE DeleteHashrate \/ DeletePayments
      BY <2>1, <1>u DEF DeleteHashrate, DeletePayments, columns, history
    <2>2. CASE ResetDeleted
      <3>1. nuke.miner \in Miners /\ UNCHANGED export
        BY <2>2, <1>t DEF ResetDeleted
      <3>2. CASE ResetRow(nuke.miner)
        BY <1>r, <3>1, <3>2
      <3>3. CASE UNCHANGED <<columns, history>>
        BY <1>u, <3>1, <3>3 DEF columns, history
      <3>. QED  BY <2>2, <3>2, <3>3 DEF ResetDeleted
    <2>. QED  BY <1>7, <2>1, <2>2 DEF Delete
  <1>. QED  BY <1>1, <1>2, <1>3, <1>4, <1>5, <1>6, <1>7 DEF Next, TaxExport

LEMMA TrackedInitial == Init => ExportsTracked
  <1> SUFFICES ASSUME Init, NEW m \in Miners  PROVE Tracked(m)
    BY DEF ExportsTracked
  <1>1. Counting(m) = {}
    BY DEF Init, IdleExport, Counting
  <1>2. Cardinality(Counting(m)) = 0 /\ Cardinality(Exports) \in Nat
    BY <1>1, CountingSize, FS_EmptySet
  <1>3. left[m] = 0 /\ served[m] = 0 /\ faults = 0
    BY DEF Init
  <1>. QED  BY <1>2, <1>3 DEF Tracked

\* A held year is downloaded twice, and once more for each request that was let
\* through at the same time and for each failed statement (handleTaxExport).
THEOREM DownloadsAreBounded == Spec => []ExportsBounded
  <1>1. TypeOK /\ ExportsTracked => ExportsBounded
    <2> SUFFICES ASSUME TypeOK, ExportsTracked, NEW m \in Miners
                 PROVE  served[m] <= 2 + (Cardinality(Exports) - 1) + faults
      BY DEF ExportsBounded
    <2>1. left[m] \in 0..2 /\ served[m] \in Nat /\ faults \in Nat /\ Tracked(m)
      BY DEF TypeOK, ExportsTracked
    <2>2. Cardinality(Exports) \in Nat /\ Cardinality(Counting(m)) \in Nat
      BY CountingSize
    <2>. QED  BY <2>1, <2>2 DEF Tracked
  <1>. QED  BY <1>1, TypeCorrect, TrackedInitial, TrackedStep, PTL DEF Spec

=============================================================================
