----------------------------- MODULE Retention ------------------------------
(***************************************************************************)
(* What the manager keeps of a miner, and for how long: the daily pass of  *)
(* TimeseriesBuilder over the tables, the deletion handler, and the tax    *)
(* export, which counts down the downloads of a held-back year, while the  *)
(* scanners write payments, hashrate and subscriptions.                    *)
(*                                                                         *)
(* One step is one statement.  A row of a table is the time it was written *)
(* (created_at, bucket_time), so a table holds a set of times per miner.   *)
(* NOW() is the clock at the statement; what the Go code reads from its    *)
(* clock at the start of a pass is pass.at.  p2pool_shares, which nothing  *)
(* in the repository fills, and subscription_payments, which               *)
(* SubscriptionScanner models, are left out of the tables.                 *)
(***************************************************************************)
EXTENDS Naturals, FiniteSets

CONSTANTS Miners,     \* miners, each with a row of subscriptions
          NoMiner,
          Exports,    \* tax export requests, at one time
          YearLength, \* ticks of the clock in a calendar year
          FreeAge,    \* 30 days
          PaidAge,    \* 15 months
          Duration,   \* Scanner.durationDays
          Grace,      \* Scanner.graceHours
          PrunerRuns, \* whether a TimeseriesBuilder was started
          MaxRows,    \* bound: times with payments, per miner
          LastPayment, LastBucket, \* bounds: the last times that get rows
          MaxFaults,  \* bound: statements that fail
          MaxNukes,   \* bound: deletion requests
          MaxGrants,  \* bound: activations
          MaxTime     \* bound: the last tick of the clock

ASSUME RetentionAssumption ==
    /\ NoMiner \notin Miners
    /\ IsFiniteSet(Exports)
    /\ {YearLength, Duration} \subseteq Nat \ {0}
    /\ {FreeAge, PaidAge, Grace} \subseteq Nat
    /\ {MaxRows, LastPayment, LastBucket} \subseteq Nat
    /\ {MaxFaults, MaxNukes, MaxGrants, MaxTime} \subseteq Nat
    /\ PrunerRuns \in BOOLEAN

VARIABLES now,       \* the clock
          grace,     \* subscriptions.grace_until, 0 if NULL
          keyed,     \* subscriptions.api_key_hash is not NULL
          held,      \* subscriptions.held_year, 0 if NULL
          left,      \* subscriptions.tax_exports_remaining, 0 if NULL
          deleted,   \* subscriptions.data_deleted_at is not NULL
          payments,  \* payments: the times of the miner's rows
          hashrate,  \* miner_hashrate: likewise
          pass,      \* the goroutine of the TimeseriesBuilder
          export,    \* the tax export requests
          nuke,      \* a deletion request
          faults, nukes, grants  \* what was used of the bounds

\* History variables, which the program does not have.
VARIABLES owed,      \* the payments that a held year promised its miner
          served     \* held exports that were granted since

columns == <<grace, keyed, held, left, deleted>>
tables  == <<payments, hashrate>>
actors  == <<pass, export, nuke>>
bounds  == <<faults, nukes, grants>>
history == <<owed, served>>
vars    == <<now, columns, tables, actors, bounds, history>>

\* Years are counted from 1, so that 0 can stand for NULL.
YearOf(t) == 1 + (t \div YearLength)

PassSteps == {"idle", "nuked", "erase hashrate", "erase payments", "reset", "hold",
              "clear", "free hashrate", "free payments", "paid hashrate"}

Passes  == [pc : PassSteps, at : Nat, todo : SUBSET Miners, miner : Miners \cup {NoMiner}]
ExportStates == [pc : {"idle", "select", "count"}, miner : Miners \cup {NoMiner}]
NukeStates == [pc : {"idle", "hashrate", "payments", "reset"},
               miner : Miners \cup {NoMiner}]

IdlePass   == [pc |-> "idle", at |-> 0, todo |-> {}, miner |-> NoMiner]
IdleExport == [pc |-> "idle", miner |-> NoMiner]
IdleNuke   == [pc |-> "idle", miner |-> NoMiner]

TypeOK == /\ now \in Nat
          /\ grace \in [Miners -> Nat]
          /\ keyed \in [Miners -> BOOLEAN]
          /\ held \in [Miners -> Nat]
          /\ left \in [Miners -> 0..2]
          /\ deleted \in [Miners -> BOOLEAN]
          /\ payments \in [Miners -> SUBSET Nat]
          /\ hashrate \in [Miners -> SUBSET Nat]
          /\ pass \in Passes
          /\ pass.pc \in {"erase hashrate", "erase payments", "reset"} => pass.miner \in Miners
          /\ export \in [Exports -> ExportStates]
          /\ \A e \in Exports : export[e].pc # "idle" => export[e].miner \in Miners
          /\ nuke \in NukeStates
          /\ nuke.pc # "idle" => nuke.miner \in Miners
          /\ faults \in Nat /\ nukes \in Nat /\ grants \in Nat
          /\ owed \in [Miners -> SUBSET Nat]
          /\ served \in [Miners -> Nat]

Init == /\ now = 0
        /\ grace = [m \in Miners |-> 0]
        /\ keyed = [m \in Miners |-> FALSE]
        /\ held = [m \in Miners |-> 0]
        /\ left = [m \in Miners |-> 0]
        /\ deleted = [m \in Miners |-> FALSE]
        /\ payments = [m \in Miners |-> {}]
        /\ hashrate = [m \in Miners |-> {}]
        /\ pass = IdlePass
        /\ export = [e \in Exports |-> IdleExport]
        /\ nuke = IdleNuke
        /\ faults = 0 /\ nukes = 0 /\ grants = 0
        /\ owed = [m \in Miners |-> {}]
        /\ served = [m \in Miners |-> 0]

Active(m) == now < grace[m]                      \* grace_until > NOW()
Lapsed(m) == grace[m] # 0 /\ grace[m] <= now     \* grace_until <= NOW()

\* A statement fails.
Fault == faults < MaxFaults /\ faults' = faults + 1

-----------------------------------------------------------------------------
(* What the scanners write. *)

\* recordPayments and updateWorkers insert rows.
RecordPayment(m) ==
    /\ now <= LastPayment
    /\ Cardinality(payments[m] \cup {now}) <= MaxRows
    /\ payments' = [payments EXCEPT ![m] = @ \cup {now}]
    /\ UNCHANGED <<now, columns, hashrate, actors, bounds, history>>

RecordHashrate(m) ==
    /\ now <= LastBucket
    /\ hashrate' = [hashrate EXCEPT ![m] = @ \cup {now}]
    /\ UNCHANGED <<now, columns, payments, actors, bounds, history>>

\* The subscription scanner extends the subscription.  Nothing else of the
\* row changes: neither held_year nor data_deleted_at.
Activate(m) ==
    /\ grants < MaxGrants
    /\ grants' = grants + 1
    /\ grace' = [grace EXCEPT ![m] = IF now + Grace < @ THEN @ + Duration
                                                        ELSE now + Duration + Grace]
    /\ UNCHANGED <<now, keyed, held, left, deleted, tables, actors, faults, nukes, history>>

\* GenerateAPIKey, for a paying miner.
GenerateKey(m) ==
    /\ Active(m)
    /\ ~keyed[m]
    /\ keyed' = [keyed EXCEPT ![m] = TRUE]
    /\ UNCHANGED <<now, grace, held, left, deleted, tables, actors, bounds, history>>

\* A tick is long and a pass short: it sees at most one.
Tick ==
    /\ now < MaxTime
    /\ pass.pc # "idle" => pass.at = now
    /\ now' = now + 1
    /\ UNCHANGED <<columns, tables, actors, bounds, history>>


-----------------------------------------------------------------------------
(* pruneRetention, daily.  A statement that fails ends the pass. *)

Goto(pc) == pass' = [pass EXCEPT !.pc = pc]

Abort ==
    /\ pass.pc # "idle"
    /\ Fault
    /\ pass' = IdlePass
    /\ UNCHANGED <<now, columns, tables, export, nuke, nukes, grants, history>>

BeginPass ==
    /\ PrunerRuns
    /\ pass.pc = "idle"
    /\ pass' = [IdlePass EXCEPT !.pc = "nuked", !.at = now]
    /\ UNCHANGED <<now, columns, tables, export, nuke, bounds, history>>

\* pruneNuked takes the next of the miners that it found in SelectNuked.
NextNuked(todo) ==
    IF todo = {} THEN Goto("hold")
    ELSE \E m \in todo : pass' = [pass EXCEPT !.pc = "erase hashrate", !.miner = m,
                                              !.todo = todo \ {m}]

SelectNuked ==
    /\ pass.pc = "nuked"
    /\ NextNuked({m \in Miners : deleted[m]})
    /\ UNCHANGED <<now, columns, tables, export, nuke, bounds, history>>

EraseHashrate ==
    /\ pass.pc = "erase hashrate"
    /\ hashrate' = [hashrate EXCEPT ![pass.miner] = {}]
    /\ Goto("erase payments")
    /\ UNCHANGED <<now, columns, payments, export, nuke, bounds, history>>

ErasePayments ==
    /\ pass.pc = "erase payments"
    /\ payments' = [payments EXCEPT ![pass.miner] = {}]
    /\ Goto("reset")
    /\ UNCHANGED <<now, columns, hashrate, export, nuke, bounds, history>>

\* Mutant of ResetRow: the downloads are reset and the held year is not.
ResetRowButHeld(m) ==
    /\ grace' = [grace EXCEPT ![m] = 0]
    /\ keyed' = [keyed EXCEPT ![m] = FALSE]
    /\ left' = [left EXCEPT ![m] = 0]
    /\ owed' = [owed EXCEPT ![m] = {}]
    /\ UNCHANGED <<held, deleted, served>>

\* The row becomes a free one and stays marked: data_deleted_at is kept.
ResetRow(m) ==
    /\ grace' = [grace EXCEPT ![m] = 0]
    /\ keyed' = [keyed EXCEPT ![m] = FALSE]
    /\ held' = [held EXCEPT ![m] = 0]
    /\ left' = [left EXCEPT ![m] = 0]
    /\ owed' = [owed EXCEPT ![m] = {}]
    /\ UNCHANGED <<deleted, served>>

ResetNuked ==
    /\ pass.pc = "reset"
    /\ ResetRow(pass.miner)
    /\ NextNuked(pass.todo)
    /\ UNCHANGED <<now, tables, export, nuke, bounds>>

\* The miners whose grace period is over, whose previous year has payments and
\* who have no held year yet.
NewlyLapsed == {m \in Miners : /\ Lapsed(m)
                               /\ held[m] = 0
                               /\ ~deleted[m]
                               /\ \E t \in payments[m] : YearOf(t) + 1 = YearOf(pass.at)}

HoldYear ==
    /\ pass.pc = "hold"
    /\ LET year == YearOf(pass.at) - 1
           new(f, v) == [m \in Miners |-> IF m \in NewlyLapsed THEN v ELSE f[m]] IN
       /\ held' = new(held, year)
       /\ left' = new(left, 2)
       /\ owed' = [m \in Miners |-> IF m \in NewlyLapsed
                                    THEN {t \in payments[m] : YearOf(t) = year} ELSE owed[m]]
       /\ served' = new(served, 0)
    /\ Goto("clear")
    /\ UNCHANGED <<now, grace, keyed, deleted, tables, export, nuke, bounds>>

\* Miners who used all their exports.
Exhausted(m) == held[m] # 0 /\ left[m] = 0

ClearExhausted ==
    /\ pass.pc = "clear"
    /\ held' = [m \in Miners |-> IF Exhausted(m) THEN 0 ELSE held[m]]
    /\ Goto("free hashrate")
    /\ UNCHANGED <<now, grace, keyed, left, deleted, tables, export, nuke, bounds, history>>

\* created_at < now - age, with the clock of the start of the pass.
Older(t, age) == t + age < pass.at

FreeHashrate ==
    /\ pass.pc = "free hashrate"
    /\ hashrate' = [m \in Miners |-> IF Active(m) THEN hashrate[m]
                                     ELSE {t \in hashrate[m] : ~Older(t, FreeAge)}]
    /\ Goto("free payments")
    /\ UNCHANGED <<now, columns, payments, export, nuke, bounds, history>>

\* Mutant of Withheld: any payment of the previous year is withheld.
WithheldPreviousYear(m, t) == held[m] # 0 /\ left[m] > 0 /\ YearOf(t) + 1 = YearOf(pass.at)

\* A payment of a held year that is still to be exported.
Withheld(m, t) == held[m] # 0 /\ left[m] > 0 /\ YearOf(t) = held[m]

FreePayments ==
    /\ pass.pc = "free payments"
    /\ payments' = [m \in Miners |-> IF Active(m) THEN payments[m]
                      ELSE {t \in payments[m] : ~Older(t, FreeAge) \/ Withheld(m, t)}]
    /\ Goto("paid hashrate")
    /\ UNCHANGED <<now, columns, hashrate, export, nuke, bounds, history>>

\* The last phase has statements for shares and hashrate, none for payments.
PaidHashrate ==
    /\ pass.pc = "paid hashrate"
    /\ hashrate' = [m \in Miners |-> IF ~Active(m) THEN hashrate[m]
                                     ELSE {t \in hashrate[m] : ~Older(t, PaidAge)}]
    /\ pass' = IdlePass
    /\ UNCHANGED <<now, columns, payments, export, nuke, bounds, history>>

Prune == \/ BeginPass \/ SelectNuked \/ EraseHashrate \/ ErasePayments \/ ResetNuked
         \/ HoldYear \/ ClearExhausted \/ FreeHashrate \/ FreePayments \/ PaidHashrate
         \/ Abort

-----------------------------------------------------------------------------
(* handleTaxExport, behind RequireOwner: the request has a key of the miner. *)

\* A request of a miner that is not paying; one of a paying miner only reads.
StartExport(e) ==
    /\ export[e].pc = "idle"
    /\ \E m \in Miners :
          /\ keyed[m]
          /\ ~Active(m)
          /\ export' = [export EXCEPT ![e] = [pc |-> "select", miner |-> m]]
    /\ UNCHANGED <<now, columns, tables, pass, nuke, bounds, history>>

\* Mutant of MayExport: the counter is taken for the number of past exports.
MayExportAnyHeld(m) == held[m] # 0

MayExport(m) == held[m] # 0 /\ left[m] > 0

\* SELECT held_year, tax_exports_remaining.  An error is a refusal, and so is the
\* request for another year than the held one.
SelectHeld(e) ==
    /\ export[e].pc = "select"
    /\ \/ /\ MayExport(export[e].miner)
          /\ export' = [export EXCEPT ![e].pc = "count"]
       \/ export' = [export EXCEPT ![e] = IdleExport]
    /\ UNCHANGED <<now, columns, tables, pass, nuke, bounds, history>>

\* Mutant of CountedDown: the UPDATE has no guard.
CountedDownUnguarded(n) == n - 1

CountedDown(n) == IF n > 0 THEN n - 1 ELSE n

\* UPDATE ... WHERE tax_exports_remaining > 0.  Whether it changed a row is not
\* looked at, and an error is logged: the payments are read and sent in any case.
CountExport(e) ==
    LET m == export[e].miner IN
    /\ export[e].pc = "count"
    /\ \/ /\ left' = [left EXCEPT ![m] = CountedDown(@)]
          /\ UNCHANGED faults
       \/ Fault /\ UNCHANGED left
    /\ export' = [export EXCEPT ![e] = IdleExport]
    /\ served' = [served EXCEPT ![m] = @ + 1]
    /\ UNCHANGED <<now, grace, keyed, held, deleted, tables, pass, nuke, nukes, grants, owed>>

TaxExport(e) == StartExport(e) \/ SelectHeld(e) \/ CountExport(e)

-----------------------------------------------------------------------------
(* handleNukeData, behind RequireOwner. *)

\* The mark; a failure is an error to the client, whether or not it was set.
MarkDeleted ==
    /\ nuke.pc = "idle"
    /\ nukes < MaxNukes
    /\ nukes' = nukes + 1
    /\ \E m \in Miners :
          /\ keyed[m]
          /\ deleted' = [deleted EXCEPT ![m] = TRUE]
          /\ \/ /\ nuke' = [pc |-> "hashrate", miner |-> m]
                /\ UNCHANGED faults
             \/ Fault /\ UNCHANGED nuke
    /\ UNCHANGED <<now, grace, keyed, held, left, tables, pass, export, grants, history>>

\* The deletes at once, "for responsiveness".  Failures are logged.
DeleteHashrate ==
    /\ nuke.pc = "hashrate"
    /\ \/ hashrate' = [hashrate EXCEPT ![nuke.miner] = {}] /\ UNCHANGED faults
       \/ Fault /\ UNCHANGED hashrate
    /\ nuke' = [nuke EXCEPT !.pc = "payments"]
    /\ UNCHANGED <<now, columns, payments, pass, export, nukes, grants, history>>

DeletePayments ==
    /\ nuke.pc = "payments"
    /\ \/ payments' = [payments EXCEPT ![nuke.miner] = {}] /\ UNCHANGED faults
       \/ Fault /\ UNCHANGED payments
    /\ nuke' = [nuke EXCEPT !.pc = "reset"]
    /\ UNCHANGED <<now, columns, hashrate, pass, export, nukes, grants, history>>

ResetDeleted ==
    /\ nuke.pc = "reset"
    /\ \/ ResetRow(nuke.miner) /\ UNCHANGED faults
       \/ Fault /\ UNCHANGED <<columns, history>>
    /\ nuke' = IdleNuke
    /\ UNCHANGED <<now, tables, pass, export, nukes, grants>>

Delete == DeleteHashrate \/ DeletePayments \/ ResetDeleted

-----------------------------------------------------------------------------
Scanners == \E m \in Miners : \/ RecordPayment(m) \/ RecordHashrate(m)
                              \/ Activate(m) \/ GenerateKey(m)

Next == Scanners \/ Tick \/ Prune \/ (\E e \in Exports : TaxExport(e))
        \/ MarkDeleted \/ Delete

Spec == Init /\ [][Next]_vars

\* The statements of a deletion request return.  Nobody has to ask for a deletion
\* or an export, and nothing is assumed of the pass, which main.go never starts.
FairSpec == Spec /\ WF_vars(Delete)

-----------------------------------------------------------------------------
\* What phase 2 holds back stays as long as downloads are left: no later pass,
\* export, lapse or activation deletes a payment of the held year.  A miner that
\* asks for deletion gives it up.
HeldPaymentsKept ==
    \A m \in Miners : left[m] > 0 /\ ~deleted[m] => owed[m] \subseteq payments[m]

\* A held year is downloaded twice, and once more for each request that read the
\* counter while another one took the last download, or whose UPDATE failed.
ExportsBounded ==
    \A m \in Miners : served[m] <= 2 + (Cardinality(Exports) - 1) + faults

\* Why the first holds: downloads are left only of a year that is held and owed,
\* and only a miner that asked for it is erased.
HoldsAreLinked ==
    \A m \in Miners : left[m] > 0 => /\ held[m] # 0
                                     /\ \A t \in owed[m] : YearOf(t) = held[m]

OnlyDeletedAreErased ==
    /\ \A m \in pass.todo : deleted[m]
    /\ pass.pc \in {"erase hashrate", "erase payments", "reset"} => deleted[pass.miner]
    /\ nuke.pc # "idle" => deleted[nuke.miner]

\* Why the second holds: a request counts before the last download is taken, or
\* was let through before and is one of those still on their way.
Counting(m) == {e \in Exports : export[e].pc = "count" /\ export[e].miner = m}

Tracked(m) ==
    IF left[m] > 0
    THEN served[m] + left[m] <= 2 + faults
    ELSE served[m] + Cardinality(Counting(m)) <= 2 + (Cardinality(Exports) - 1) + faults

ExportsTracked == \A m \in Miners : Tracked(m)

\* What a deletion request erases by itself, if none of its statements fails, and
\* for good: the rows older than it, the held year and its downloads.  Whether the
\* pass runs or not, it holds no year again of a miner that is marked.
RowTimes == 0..LastPayment \cup 0..LastBucket

DeletedForGood ==
    \A m \in Miners, t \in RowTimes :
        nuke.pc = "hashrate" /\ nuke.miner = m /\ t < now
        ~> \/ faults > 0
           \/ [](t \notin payments[m] \cup hashrate[m] /\ held[m] = 0 /\ left[m] = 0)

\* Documented in handleNukeData: the mark is enough, since the pruner handles the
\* removal, whatever of the handler's own statements failed.
DeletionTakesEffect ==
    \A m \in Miners : /\ deleted[m] ~> payments[m] = {}
                      /\ deleted[m] ~> hashrate[m] = {}
                      /\ deleted[m] ~> grace[m] = 0 /\ ~keyed[m]

\* Documented on the subscription page: while a miner pays, its payments and its
\* tier are kept.  (Where no statement fails, the row of a miner that asked for
\* deletion is free when the handler is done, and paid again only if it paid again.)
PaidDataKept == [][\A m \in Miners : Active(m) /\ nuke.pc = "idle" =>
                       payments[m] \subseteq payments'[m] /\ grace'[m] # 0]_vars

=============================================================================
