----------------------------- MODULE UsageLedger -----------------------------
(***************************************************************************)
(* The usage ledger and the Agent 3 budget guard (pipeline/usage.py and    *)
(* its callers in pipeline/agents/agent3.py).  Several processes call the  *)
(* model, each around the loop                                             *)
(*                                                                         *)
(*     _check_budget();  response = _create(...);  log_usage(...)          *)
(*                                                                         *)
(* on one shared, unlocked ledger, while an operator runs the maintenance  *)
(* commands on it: reprice, migrate and baseline.  A row keeps what        *)
(* agent_cost reads.  The day files are one sequence (reprice and migrate  *)
(* treat each of them alike and no day is special to agent_cost); the      *)
(* legacy monolith is the other, empty when it does not exist.  Rates do   *)
(* not change, so repricing a row gives the cost it has, and the estimate  *)
(* is what the provider charges.                                           *)
(***************************************************************************)
EXTENDS Integers, FiniteSets, SequencesExt

CONSTANTS Processes,     \* how many call the model as agent3
          Cap, Reserve,  \* AGENT3_BUDGET_USD, AGENT3_BUDGET_RESERVE_USD
          MaxCost,       \* what one call can cost at most
          OldRows,       \* the legacy ledger, not yet migrated
          MaxUpsets,     \* bound: unlogged calls and maintenance commands together
          Ceiling        \* bound: the ghost counter of charges saturates here

Row == [ts : Nat, usd : Nat, baseline : BOOLEAN]

ASSUME LedgerAssumption ==
  /\ {Processes, Cap, Reserve, MaxCost, MaxUpsets, Ceiling} \subseteq Nat
  /\ OldRows \in Seq(Row)

VARIABLES day,      \* rows of artifacts/usage/*.jsonl
          legacy,   \* rows of artifacts/usage_log.jsonl
          now,      \* the latest timestamp taken
          pc,       \* where each caller is
          seen,     \* what a caller inside agent_cost has read so far
          owed,     \* charged to a caller's call and not yet logged
          job,      \* the maintenance command in progress
          held,     \* the rows reprice has read
          console,  \* the figure the operator read off the provider console
          charged,  \* ghost: what the provider has charged in all
          drift,    \* ghost: the most the ledger ever fell short of it
          upsets    \* counts against MaxUpsets

ledger == <<day, legacy, now>>
callers == <<pc, seen, owed>>
operator == <<job, held, console>>
vars == <<ledger, callers, operator, charged, drift, upsets>>

Callers == 1..Processes

------------------------------------------------------------------------------
(* What the ledger says. *)

PartialSums(u) ==
  LET sum[n \in 0..Len(u)] == IF n = 0 THEN 0 ELSE sum[n-1] + u[n] IN sum

Total(u) == PartialSums(u)[Len(u)]

Baselines(rows) == {r \in ToSet(rows) : r.baseline}

\* Calls as late as the newest baseline or earlier are covered by it.
BaselineTs(rows) == Max({0} \cup {r.ts : r \in Baselines(rows)})

BaselineUsd(rows) ==
  Max({0} \cup {r.usd : r \in {b \in Baselines(rows) : b.ts = BaselineTs(rows)}})

\* Mutant: the baseline is added to every call, the ones it covers included.
CountedAlways(r, rows) == ~r.baseline

\* A call counts when it was logged after the newest baseline.
Counted(r, rows) == ~r.baseline /\ r.ts > BaselineTs(rows)

AgentCost(rows) ==
  BaselineUsd(rows)
    + Total([i \in DOMAIN rows |-> IF Counted(rows[i], rows) THEN rows[i].usd ELSE 0])

ASSUME OldCostAssumption == AgentCost(OldRows) <= Ceiling

\* Every file an aggregation reads: the day files, then the legacy ledger.
RecordFiles == day \o legacy

InFlight == Total(owed)

\* How far the ledger falls short of what was charged and is not in flight;
\* negative when it counts something twice.
Shortfall == charged - InFlight - AgentCost(RecordFiles)

------------------------------------------------------------------------------
Init ==
  /\ day = <<>>
  /\ legacy = OldRows
  /\ now = Max({0} \cup {r.ts : r \in ToSet(OldRows)})
  /\ pc = [c \in Callers |-> "check"]
  /\ seen = [c \in Callers |-> <<>>]
  /\ owed = [c \in Callers |-> 0]
  /\ job = "none"
  /\ held = <<>>
  /\ console = 0
  /\ charged = AgentCost(OldRows)
  /\ drift = 0
  /\ upsets = 0

------------------------------------------------------------------------------
(* A caller.  agent_cost reads the files one after the other, unlocked. *)

Upset == upsets < MaxUpsets /\ upsets' = upsets + 1

At(c, here, there) == pc[c] = here /\ pc' = [pc EXCEPT ![c] = there]

ReadDays(c) ==
  /\ At(c, "check", "checking")
  /\ seen' = [seen EXCEPT ![c] = day]
  /\ UNCHANGED <<ledger, owed, operator, charged, upsets>>

\* Mutant: no reserve for the call in flight.
WithinCap(spent) == spent < Cap

WithinBudget(spent) == spent + Reserve < Cap

\* Refused, BudgetExceeded is raised; what catches it may well call again.
CheckBudget(c) ==
  LET spent == AgentCost(seen[c] \o legacy) IN
  /\ At(c, "checking", IF WithinBudget(spent) THEN "call" ELSE "check")
  /\ seen' = [seen EXCEPT ![c] = <<>>]
  /\ UNCHANGED <<ledger, owed, operator, charged, upsets>>

Call(c) ==
  /\ At(c, "call", "log")
  /\ \E cost \in 1..MaxCost :
       /\ owed' = [owed EXCEPT ![c] = cost]
       /\ charged' = Min({charged + cost, Ceiling})
  /\ UNCHANGED <<ledger, seen, operator, upsets>>

\* The request raises before anything is charged.
CallFails(c) ==
  /\ At(c, "call", "check")
  /\ UNCHANGED <<ledger, seen, owed, operator, charged, upsets>>

\* One step: the code takes the timestamp and appends a moment later, unlocked.
\* Mutant: a call's row carries a timestamp taken before the call.
AppendedStale(usd, isBaseline) ==
  Append(day, [ts |-> IF isBaseline THEN now + 1 ELSE now, usd |-> usd, baseline |-> isBaseline])

Appended(usd, isBaseline) ==
  Append(day, [ts |-> now + 1, usd |-> usd, baseline |-> isBaseline])

\* Mutant: the row goes to a file no aggregation reads (a CWD-relative path).
LogUsageElsewhere(c) ==
  /\ At(c, "log", "check")
  /\ owed' = [owed EXCEPT ![c] = 0]
  /\ UNCHANGED <<ledger, seen, operator, charged, upsets>>

\* log_usage appends one row; then the tool loop turns, or the next call begins.
LogUsage(c) ==
  /\ At(c, "log", "check")
  /\ day' = Appended(owed[c], FALSE)
  /\ now' = now + 1
  /\ owed' = [owed EXCEPT ![c] = 0]
  /\ UNCHANGED <<legacy, seen, operator, charged, upsets>>

\* Mutant: a cost that was not logged stays with the caller.
LogFailsOwing(c) ==
  /\ At(c, "log", "check")
  /\ Upset
  /\ UNCHANGED <<ledger, seen, owed, operator, charged>>

\* log_usage swallows every error, and a response without usage data logs 0.
\* A full disk or an endpoint that never sends usage data would make every call
\* such a call; MaxUpsets leaves that out.
LogFails(c) ==
  /\ At(c, "log", "check")
  /\ Upset
  /\ owed' = [owed EXCEPT ![c] = 0]
  /\ UNCHANGED <<ledger, seen, operator, charged>>

------------------------------------------------------------------------------
(* The operator, one command at a time, each of which may be killed. *)

Start(command) ==
  /\ job = "none" /\ job' = command
  /\ Upset

RepriceReads ==
  /\ Start("reprice")
  /\ held' = day
  /\ UNCHANGED <<ledger, callers, console, charged>>

\* os.replace puts the rows read back, whatever the file holds by now.
RepriceReplaces ==
  /\ job = "reprice" /\ job' = "none"
  /\ day' = held
  /\ held' = <<>>
  /\ UNCHANGED <<legacy, now, callers, console, charged, upsets>>

MigrateSplits ==
  /\ legacy # <<>>
  /\ Start("migrate")
  /\ day' = day \o legacy
  /\ UNCHANGED <<legacy, now, callers, held, console, charged>>

MigrateArchives ==
  /\ job = "migrate" /\ job' = "none"
  /\ legacy' = <<>>
  /\ UNCHANGED <<day, now, callers, held, console, charged, upsets>>

ReadConsole ==
  /\ Start("baseline")
  /\ console' = charged
  /\ UNCHANGED <<ledger, callers, held, charged>>

RecordBaseline ==
  /\ job = "baseline" /\ job' = "none"
  /\ day' = Appended(console, TRUE)
  /\ now' = now + 1
  /\ console' = 0
  /\ UNCHANGED <<legacy, callers, held, charged, upsets>>

Killed ==
  /\ job # "none" /\ job' = "none"
  /\ held' = <<>> /\ console' = 0
  /\ UNCHANGED <<ledger, callers, charged, upsets>>

------------------------------------------------------------------------------
CallerStep(c) ==
  ReadDays(c) \/ CheckBudget(c) \/ Call(c) \/ CallFails(c) \/ LogUsage(c) \/ LogFails(c)

Maintenance ==
  RepriceReads \/ RepriceReplaces \/ MigrateSplits \/ MigrateArchives
    \/ ReadConsole \/ RecordBaseline \/ Killed

Next == /\ (\E c \in Callers : CallerStep(c)) \/ Maintenance
        /\ drift' = Max({drift, Shortfall'})

Spec == Init /\ [][Next]_vars

------------------------------------------------------------------------------
(* Types: a caller owes money only between its call and its log. *)
TypeOK ==
  /\ day \in Seq(Row) /\ legacy \in Seq(Row) /\ held \in Seq(Row)
  /\ now \in Nat /\ charged \in 0..Ceiling /\ drift \in Nat
  /\ pc \in [Callers -> {"check", "checking", "call", "log"}]
  /\ owed \in [Callers -> 0..MaxCost]
  /\ seen \in [Callers -> Seq(Row)]
  /\ \A c \in Callers : owed[c] > 0 <=> pc[c] = "log"
  /\ \A c \in Callers : seen[c] # <<>> => pc[c] = "checking"
  /\ job \in {"none", "reprice", "migrate", "baseline"}
  /\ console \in Nat /\ upsets \in 0..MaxUpsets

(* How hard the cap is.  The check and the charge it allows are steps      *)
(* apart and nothing locks the ledger, so every process may be past the    *)
(* check at once: spending passes Cap - Reserve by less than one call per  *)
(* process, what the ledger ever missed, and, once migrate has run, what   *)
(* it moved (agent_cost may read the day files before the move and the     *)
(* legacy file after it).  With one process, calls within the reserve and  *)
(* a ledger that misses nothing this is: never past Cap.                   *)
Migrated == IF legacy = OldRows THEN 0 ELSE AgentCost(OldRows)

OvershootBounded ==
  charged < Max({Cap - Reserve, AgentCost(OldRows) + 1})
              + Processes * MaxCost + drift + Migrated

(* No interleaving of callers makes the ledger drift from what was         *)
(* charged: away from maintenance only a failed append does, by the cost   *)
(* of that call (the design contract of log_usage; the ghost counter of    *)
(* charges short of its bound).                                            *)
OnlyFaultsDrift ==
  [][~Maintenance /\ charged' < Ceiling
       => \/ Shortfall' = Shortfall
          \/ upsets' # upsets /\ \E c \in Callers : Shortfall' = Shortfall + owed[c]]_vars

(* record_baseline brings the guard to the figure the operator read,       *)
(* whatever was lost, or written twice by an interrupted migrate, before.  *)
BaselineReconciles ==
  [][RecordBaseline => AgentCost(RecordFiles)' = console]_vars

(* If only finitely many calls go unlogged, a model that asks for tools    *)
(* for ever is stopped: no tool loop of agent3.py has a turn limit, and    *)
(* only the budget ends the spending, whatever refused callers do and      *)
(* however the ledger is maintained.  (Nothing ends it when every call     *)
(* goes unlogged, and MaxUpsets excludes that: the ledger never grows.)    *)
SpendingStops == <>[][~ \E c \in Callers : Call(c)]_vars
==============================================================================
