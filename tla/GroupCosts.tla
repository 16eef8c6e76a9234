----------------------------- MODULE GroupCosts -----------------------------
(***************************************************************************)
(* The costs of the groups, CommunityGroups.js: the editable cost breakdown  *)
(* (CBS) table of each group of the tab shown, and estimateWorkGroupCosts,   *)
(* which asks the service for estimates, batch after batch, and writes them  *)
(* into the tables.  Amounts are whole dollars.                              *)
(***************************************************************************)
EXTENDS Integers, Sequences, FiniteSets, FiniteSetsExt

CONSTANTS
    CostTabs,        \* group types with a tab
    TabGroups,       \* of a tab: its groups, a sequence of [group, id, activities]
    EstimateOf,      \* what the service estimates, [cost, breakdown], of the ids it does
    COST_BATCH, MAX_COST_RETRIES,
    EditedValues, HighestValue,        \* what is typed, and the most that is taken
    MaxTabShows, MaxCostEdits, MaxJobs     \* bounds

\* The groups of a tab are the properties of one object, so no two have one name.
ASSUME CostsAssumption ==
    /\ COST_BATCH \in Nat \ {0} /\ "none" \notin CostTabs
    /\ \A t \in CostTabs : /\ DOMAIN TabGroups[t] \subseteq Nat /\ IsFiniteSet(DOMAIN TabGroups[t])
                           /\ \A i, h \in DOMAIN TabGroups[t] : TabGroups[t][i].group = TabGroups[t][h].group => i = h

VARIABLES groupCBSData, costValue, projectTotal, shownTab, jobs, costButton, shows, costEdits

costVars == <<groupCBSData, costValue, projectTotal, shownTab, jobs, costButton, shows, costEdits>>

-----------------------------------------------------------------------------
DirectCost(cbs) == cbs.labor + cbs.material + cbs.equipment + cbs.subcontracts
Overhead(cbs) == (DirectCost(cbs) * cbs.percentage) \div 100
WithTotal(cbs) == [cbs EXCEPT !.total = DirectCost(cbs) + cbs.indirect]
\* inferCBSFromActivities: each activity counts by what its name says it is.
inferCBSFromActivities(activities) ==
    LET days(kind) == MapThenSumSet(LAMBDA k : IF activities[k].kind = kind THEN activities[k].duration ELSE 0, DOMAIN activities)
        count(kind) == Cardinality({k \in DOMAIN activities : activities[k].kind = kind})
        hours == 8 * days("install") + 4 * days("other")
        direct == [hours |-> hours, rate |-> 75, quantity |-> count("material"), unitCost |-> 100,
                   days |-> days("equipment"), dayRate |-> 500, percentage |-> 10,
                   labor |-> 75 * hours, material |-> count("material") * 100 * 100, equipment |-> 500 * days("equipment"),
                   subcontracts |-> 10000 * count("subcontract"), indirect |-> 0, total |-> 0]
    IN  WithTotal([direct EXCEPT !.indirect = Overhead(direct)])

\* handleCBSInputChange.  A value out of range is refused when it changes, and
\* the bound that is written in its place is entered when the field is left.
Entered(v) == IF v < 0 THEN 0 ELSE IF v > HighestValue THEN HighestValue ELSE v
Recalculated(cbs) ==
    LET direct == [cbs EXCEPT !.labor = cbs.hours * cbs.rate, !.material = cbs.quantity * cbs.unitCost,
                              !.equipment = cbs.days * cbs.dayRate]
    IN  WithTotal([direct EXCEPT !.indirect = Overhead(direct)])
EditableFields == {"hours", "rate", "quantity", "unitCost", "days", "dayRate", "subcontracts", "percentage"}
Edited(cbs, field, v) == Recalculated([cbs EXCEPT ![field] = Entered(v)])

\* updateAllCBSTables: the categories an estimate names are taken from it.
OrDefault(v, default) == IF v = 0 THEN default ELSE v
Labored(cbs, b) ==
    IF "labor" \in DOMAIN b
    THEN [cbs EXCEPT !.hours = b.labor.count, !.rate = OrDefault(b.labor.rate, 75), !.labor = b.labor.amount] ELSE cbs
Supplied(cbs, b) ==
    IF "material" \in DOMAIN b
    THEN [cbs EXCEPT !.quantity = b.material.count, !.unitCost = OrDefault(b.material.rate, 100), !.material = b.material.amount]
    ELSE cbs
Equipped(cbs, b) ==
    IF "equipment" \in DOMAIN b
    THEN [cbs EXCEPT !.days = b.equipment.count, !.dayRate = OrDefault(b.equipment.rate, 500), !.equipment = b.equipment.amount]
    ELSE cbs
Subcontracted(cbs, b) == IF "subcontracts" \in DOMAIN b THEN [cbs EXCEPT !.subcontracts = b.subcontracts.amount] ELSE cbs
Overheaded(cbs, b) ==
    IF "indirect" \in DOMAIN b
    THEN [cbs EXCEPT !.percentage = OrDefault(b.indirect.rate, 10), !.indirect = b.indirect.amount] ELSE cbs
WithEstimate(cbs, b) == WithTotal(Overheaded(Subcontracted(Equipped(Supplied(Labored(cbs, b), b), b), b), b))

-----------------------------------------------------------------------------
\* gatherWorkGroupDataFromDisplay, of the groups by their numbers: those without
\* activities are skipped; the id is the WBS of the group's first activity, which
\* two groups may share.
WorkGroups(t) == {i \in DOMAIN TabGroups[t] : TabGroups[t][i].activities # <<>>}
KeyOf(t, i) == <<t, TabGroups[t][i].group>>
IdOf(t, i) == TabGroups[t][i].id
TablesOf(t) == {KeyOf(t, i) : i \in WorkGroups(t)}
Hidden == -1
SumOfTotals(tables) == MapThenSumSet(LAMBDA k : tables[k].total, DOMAIN tables)

\* createEditableCBSTable, for each group of the tab drawn: what was in the
\* group's table before is inferred anew.  Tables of other tabs stay.
InferredTables(t) ==
    [k \in TablesOf(t) |->
        LET i == CHOOSE i \in WorkGroups(t) : KeyOf(t, i) = k IN inferCBSFromActivities(TabGroups[t][i].activities)]
ShowCostTab(t) ==
    /\ shows < MaxTabShows /\ t # shownTab
    /\ shows' = shows + 1 /\ shownTab' = t
    /\ groupCBSData' = [k \in TablesOf(t) \cup DOMAIN groupCBSData |->
                            IF k \in TablesOf(t) THEN InferredTables(t)[k] ELSE groupCBSData[k]]
    /\ costValue' = [k \in TablesOf(t) |-> Hidden]
    /\ projectTotal' = Hidden /\ costButton' = TRUE
    /\ UNCHANGED <<jobs, costEdits>>

EditCost(k, field, v) ==
    /\ costEdits < MaxCostEdits /\ costEdits' = costEdits + 1
    /\ groupCBSData' = [groupCBSData EXCEPT ![k] = Edited(@, field, v)]
    /\ costValue' = [costValue EXCEPT ![k] = groupCBSData'[k].total]
    /\ projectTotal' = SumOfTotals(groupCBSData')
    /\ UNCHANGED <<shownTab, jobs, costButton, shows>>

-----------------------------------------------------------------------------
NoJob == [state |-> "idle", tab |-> "none", drawn |-> 0, batch |-> 0, attempt |-> 0, lists |-> 0, got |-> {}]
Live(j) == jobs[j].state \in {"asking", "reading", "backoff", "pause"}
Size(t) == Cardinality(WorkGroups(t))
AsksInBatches(t) == Size(t) > COST_BATCH
Batches(t) == IF AsksInBatches(t) THEN (Size(t) + COST_BATCH - 1) \div COST_BATCH ELSE 1
Place(t, i) == Cardinality({h \in WorkGroups(t) : h < i})
\* Mutant: a batch begins one group late.
BatchOneLate(t, n) ==
    {i \in WorkGroups(t) : AsksInBatches(t) => (n - 1) * COST_BATCH < Place(t, i) /\ Place(t, i) < n * COST_BATCH}
Batch(t, n) ==
    {i \in WorkGroups(t) : AsksInBatches(t) => (n - 1) * COST_BATCH <= Place(t, i) /\ Place(t, i) < n * COST_BATCH}

\* The button of the tab shown: a job of a tab that was left goes on.
EstimateCosts(j) ==
    /\ costButton /\ jobs[j].state = "idle" /\ \A i \in 1..(j - 1) : jobs[i].state # "idle"
    /\ WorkGroups(shownTab) # {}
    /\ costButton' = FALSE
    /\ jobs' = [jobs EXCEPT ![j] = [NoJob EXCEPT !.state = "asking", !.tab = shownTab, !.drawn = shows, !.batch = 1]]
    /\ UNCHANGED <<groupCBSData, costValue, projectTotal, shownTab, shows, costEdits>>
\* fetchWithRetry: the headers arrive in time, or the attempt fails.
Answers(j) ==
    /\ jobs[j].state = "asking"
    /\ jobs' = [jobs EXCEPT ![j].state = "reading"]
    /\ UNCHANGED <<groupCBSData, costValue, projectTotal, shownTab, costButton, shows, costEdits>>
\* The button that a job enables again is its own, of that drawing of the tab.
ButtonFreed(j) == costButton \/ jobs[j].drawn = shows
AttemptFails(j) ==
    /\ jobs[j].state \in {"asking", "reading"}
    /\ IF jobs[j].attempt < MAX_COST_RETRIES
       THEN jobs' = [jobs EXCEPT ![j].state = "backoff", ![j].attempt = @ + 1] /\ costButton' = costButton
       ELSE jobs' = [jobs EXCEPT ![j].state = "failed"] /\ costButton' = ButtonFreed(j)
    /\ UNCHANGED <<groupCBSData, costValue, projectTotal, shownTab, shows, costEdits>>
AskAgain(j) ==
    /\ jobs[j].state \in {"backoff", "pause"}
    /\ jobs' = [jobs EXCEPT ![j].state = "asking"]
    /\ UNCHANGED <<groupCBSData, costValue, projectTotal, shownTab, costButton, shows, costEdits>>

-----------------------------------------------------------------------------
\* updateGroupCostDisplays and updateAllCBSTables: an estimate goes to the first
\* group with its id, and to the group's display and table if they are on the page.
\* An estimate that comes twice writes the same again.
GroupFor(t, id) == Min({i \in WorkGroups(t) : IdOf(t, i) = id})
Receivers(t, got) == {KeyOf(t, GroupFor(t, IdOf(t, i))) : i \in got}
Estimated(t, got) ==
    [k \in DOMAIN groupCBSData |->
        IF t # shownTab \/ k \notin Receivers(t, got) THEN groupCBSData[k]
        ELSE LET i == CHOOSE i \in got : KeyOf(t, GroupFor(t, IdOf(t, i))) = k
             IN  WithEstimate(groupCBSData[k], EstimateOf[IdOf(t, i)].breakdown)]
ValueShown(t, got) ==
    [k \in DOMAIN costValue |-> IF t = shownTab /\ k \in Receivers(t, got) THEN Estimated(t, got)[k].total ELSE costValue[k]]
\* The page's total is the service's, over the batches, not that of the tables.
TotalOf(t, got) == MapThenSumSet(LAMBDA i : EstimateOf[IdOf(t, i)].cost, got)
Finish(j, lists, got) ==
    /\ jobs' = [jobs EXCEPT ![j].state = "done", ![j].lists = lists, ![j].got = got]
    /\ groupCBSData' = Estimated(jobs[j].tab, got)
    /\ costValue' = ValueShown(jobs[j].tab, got)
    /\ projectTotal' = TotalOf(jobs[j].tab, got)
    /\ costButton' = ButtonFreed(j)
    /\ UNCHANGED <<shownTab, shows, costEdits>>
NextBatch(j, lists, got) ==
    /\ jobs' = [jobs EXCEPT ![j].state = "pause", ![j].batch = @ + 1, ![j].attempt = 0, ![j].lists = lists, ![j].got = got]
    /\ UNCHANGED <<groupCBSData, costValue, projectTotal, shownTab, costButton, shows, costEdits>>
Received(j, lists, got) ==
    IF jobs[j].batch < Batches(jobs[j].tab) THEN NextBatch(j, lists, got) ELSE Finish(j, lists, got)
\* The answer lists what the service estimates of the groups it was asked about.
Estimates(j) ==
    LET t == jobs[j].tab
        listed == {i \in Batch(t, jobs[j].batch) : IdOf(t, i) \in DOMAIN EstimateOf}
    IN  jobs[j].state = "reading" /\ Received(j, jobs[j].lists + 1, jobs[j].got \cup listed)
\* An answer without a list: a batch counts for none, a whole answer throws.
BatchWithoutList(j) ==
    /\ jobs[j].state = "reading" /\ AsksInBatches(jobs[j].tab)
    /\ Received(j, jobs[j].lists, jobs[j].got)
WholeWithoutList(j) ==
    /\ jobs[j].state = "reading" /\ ~AsksInBatches(jobs[j].tab)
    /\ jobs' = [jobs EXCEPT ![j].state = "failed"] /\ costButton' = ButtonFreed(j)
    /\ UNCHANGED <<groupCBSData, costValue, projectTotal, shownTab, shows, costEdits>>

\* exportCBSToCSV, of a finished job: no work group has a table of its own there,
\* so each row is the first estimate with its id, and no category has an amount.
ExportedRows(j) ==
    LET t == jobs[j].tab
    IN  [i \in WorkGroups(t) |->
            IF \E h \in jobs[j].got : IdOf(t, h) = IdOf(t, i) THEN EstimateOf[IdOf(t, i)].cost ELSE 0]

-----------------------------------------------------------------------------
CostInit ==
    /\ groupCBSData = <<>> /\ costValue = <<>> /\ projectTotal = Hidden /\ shownTab = "none"
    /\ jobs = [j \in 1..MaxJobs |-> NoJob] /\ costButton = FALSE /\ shows = 0 /\ costEdits = 0
CostNext ==
    \/ \E t \in CostTabs : ShowCostTab(t)
    \/ \E k \in DOMAIN costValue, f \in EditableFields, v \in EditedValues : EditCost(k, f, v)
    \/ \E j \in DOMAIN jobs : EstimateCosts(j) \/ Answers(j) \/ AttemptFails(j) \/ AskAgain(j)
    \/ \E j \in DOMAIN jobs : Estimates(j) \/ BatchWithoutList(j) \/ WholeWithoutList(j)
CostSpec == CostInit /\ [][CostNext]_costVars

-----------------------------------------------------------------------------
\* A group that shares its id with no other, and what of an estimate a table takes.
OwnId(t, i) == \A h \in WorkGroups(t) : IdOf(t, h) = IdOf(t, i) => h = i
Taken(cbs, b) ==
    /\ "labor" \in DOMAIN b => cbs.labor = b.labor.amount
    /\ "material" \in DOMAIN b => cbs.material = b.material.amount
\* The two halves of the property, of one job.
NothingBeforeTheLast(j) == Live(j) /\ jobs'[j] # jobs[j] /\ jobs'[j].state # "done" => groupCBSData' = groupCBSData
AllWhenAnswered(j) ==
    Live(j) /\ jobs'[j].state = "done" /\ jobs[j].tab = shownTab /\ jobs'[j].lists = Batches(shownTab) =>
        \A i \in WorkGroups(shownTab) :
            LET k == KeyOf(shownTab, i)
                id == IdOf(shownTab, i)
            IN  OwnId(shownTab, i) =>
                    IF id \in DOMAIN EstimateOf
                    THEN /\ Taken(groupCBSData'[k], EstimateOf[id].breakdown)
                         /\ costValue'[k] = DirectCost(groupCBSData'[k]) + groupCBSData'[k].indirect
                         /\ ExportedRows(j)'[i] = EstimateOf[id].cost
                    ELSE groupCBSData'[k] = groupCBSData[k] /\ ExportedRows(j)'[i] = 0
\* An estimate is written as a whole and to its own groups: nothing of it is in a
\* table before its last batch is answered, whatever failed and was retried; when
\* all its batches are, every group of the tab that no other shares an id with has
\* the service's amounts, if the service estimates it, and else what it had; what
\* it shows is the total of its table, and the export has the same cost for it.
EstimatesKeepTheirGroup == [][\A j \in DOMAIN jobs : NothingBeforeTheLast(j) /\ AllWhenAnswered(j)]_costVars
=============================================================================
