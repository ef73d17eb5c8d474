------------------------------- MODULE BoardMC -------------------------------
(***************************************************************************)
(* Small instances of the modules of kit-board's server, its pages and its *)
(* browser collector.  They share no row that both sides of a property     *)
(* read, so a behaviour keeps to one of them, its scope; the others stay   *)
(* as they were filled.                                                    *)
(***************************************************************************)
EXTENDS UsageLedger, Installs, UsageRead, ReadPath, QuotaCollector, TLC

VARIABLE scope
-----------------------------------------------------------------------------
(* The ledger: revisions of three requests and of a tool call, names and a *)
(* catalog, in three bodies of two runs.                                   *)

Rec(kind, id, key, observed, channel, basis, project, facts, clock_) ==
    [kind |-> kind, id |-> id, binding |-> "b1", browser |-> FALSE, provider |-> "claude",
     key |-> key, channel |-> channel, session |-> "provider", observed |-> observed,
     ended |-> observed, basis |-> basis, project |-> project, facts |-> facts,
     clock |-> clock_, text |-> facts]
PostedRecords ==
    [e1 |-> {Rec("request", 1, 1, 2, "local_file", "working_directory", "p", 1, FALSE),
             Rec("invocation", 2, 1, 3, "local_file", "none", "", 1, FALSE),
             Rec("label", 3, 1, 1, "", "none", "", 1, FALSE),
             Rec("label", 4, 1, 2, "", "none", "", 2, FALSE),
             Rec("request", 5, 2, 2, "local_db", "native", "n", 1, TRUE)},
     e2 |-> {Rec("result", 1, 1, 1, "local_file", "none", "", 1, FALSE),
             Rec("invocation", 2, 1, 2, "local_file", "none", "", 2, FALSE),
             Rec("request", 3, 3, 2, "local_file", "working_directory", "q", 1, FALSE)},
     e3 |-> {Rec("request", 1, 1, 1, "provider_api", "none", "", 3, FALSE),
             Rec("catalog", 2, 1, 1, "", "none", "x", 1, FALSE),
             Rec("label", 3, 1, 1, "", "none", "", 3, FALSE),
             Rec("request", 4, 2, 1, "local_db", "working_directory", "q", 1, TRUE)}]
PostedRuns == [e1 |-> "r1", e2 |-> "r1", e3 |-> "r2"]
OwnedBindings ==
    [b \in Bindings |-> [enabled |-> TRUE, unset |-> FALSE, reset |-> FALSE, provider |-> "claude"]]
-----------------------------------------------------------------------------
(* The read: two zones, one with a short and a long day; every preset and  *)
(* every single filter over three contents of the tables.                  *)

TwoZones == [chicago |-> <<0, 8, 14, 22, 30, 38>>, utc |-> <<-4, 4, 12, 20, 28, 36>>]
MonthDates == <<1, 3, 5>>

Local(id, account, source, start, model, count, amount) ==
    [id |-> id, origin |-> "local", account |-> account, source |-> source, session |-> "s1",
     start |-> start, end |-> start + 2, model |-> model, calls |-> count,
     tokens |-> amount, observed |-> id, refreshed |-> 0]
Reported(id, start, end, model, amount, refreshed) ==
    [id |-> id, origin |-> "provider", account |-> "a2", source |-> "m2", session |-> "",
     start |-> start, end |-> end, model |-> model, calls |-> 1, tokens |-> amount,
     observed |-> id, refreshed |-> refreshed]
Call(id, account, source, install, session, at, model, folder, agent, class, depth) ==
    [id |-> id, account |-> account, source |-> source, install |-> install,
     session |-> session, at |-> at, model |-> model, tokens |-> id + 2,
     effort |-> IF id % 2 = 0 THEN "high" ELSE "unknown", surface |-> "cli",
     basis |-> IF folder = "" THEN "none" ELSE "working_directory", folder |-> folder,
     agent |-> agent, class |-> class, depth |-> depth, identified |-> agent # "",
     name |-> IF depth > 0 THEN "explore" ELSE ""]
ToolUse(id, account, source, at, tool, class, parent, caller, agent) ==
    [id |-> id, account |-> account, source |-> source, at |-> at, tool |-> tool,
     class |-> class, parent |-> parent, caller |-> caller, agent |-> agent]
Month(subject, month, status, produced, daily) ==
    [subject |-> subject, month |-> month, status |-> status, produced |-> produced,
     total |-> MapThenSumSet(LAMBDA d : daily[d], DOMAIN daily), daily |-> daily]

SomeCalls ==
    {Call(1, "a1", "m1", "i1", "s1", 13, "x", "f1", "ag1", "main", 0),
     Call(2, "a1", "m1", "i1", "s2", 15, "x", "f1", "ag2", "builtin", 1),
     Call(3, "a1", "m1", "i1", "s2", 9, "y", "", "ag1", "main", 0),
     Call(4, "a2", "m2", "i2", "s3", 20, "x", "f2", "ag3", "custom", 1),
     Call(5, "a2", "m2", "", "s3", 19, "unknown", "f1", "", "", -1),
     Call(6, "a1", "m3", "i3", "s4", 17, "x", "f3", "ag4", "main", 0),
     Call(7, "a1", "m3", "i4", "s5", 16, "x", "f4", "ag4", "main", 0)}
SomeBuckets ==
    {Local(1, "a1", "m1", 12, "x", 1, 3), Local(2, "a1", "m1", 12, "x", 2, 9),
     Local(3, "a1", "m1", 14, "y", 1, 4), Local(4, "a1", "m1", 8, "x", 3, 5),
     Local(5, "a1", "m1", 20, "x", 1, 6),
     Reported(6, 12, 20, "x", 11, 1), Reported(7, 12, 20, "x", 13, 2),
     Reported(8, 10, 12, "unknown", 2, 2)}
Tables ==
    [accounts |-> [a1 |-> "codex", a2 |-> "cursor"], buckets |-> SomeBuckets,
     requests |-> SomeCalls,
     snapshots |-> {Month("j1", 1, "complete", 1, (1 :> 10) @@ (2 :> 20)),
                    Month("j1", 1, "partial", 2, 1 :> 7),
                    Month("j2", 1, "complete", 1, 2 :> 4),
                    Month("j1", 2, "partial", 1, 3 :> 9)},
     subjects |-> [j1 |-> [account |-> "a1", zone |-> "chicago"],
                   j2 |-> [account |-> "a2", zone |-> ""]],
     members |-> (<<"i1", "session", "s2">> :> [resolution |-> "projectless", project |-> ""])
        @@ (<<"i1", "working_directory", "f1">> :> [resolution |-> "project", project |-> "k1"])
        @@ (<<"i2", "session", "s3">> :> [resolution |-> "project", project |-> "gone"]),
     apps |-> <<"i1", "k1">> :> "P", reported |-> {"i1"},
     labels |-> [ag2 |-> [label |-> "helper", role |-> "subagent"]],
     invocations |-> {ToolUse(1, "a1", "m1", 15, "exec", "builtin", 0, 2, "ag2"),
                      ToolUse(2, "a1", "m1", 16, "search", "mcp", 1, 2, "ag2"),
                      ToolUse(3, "a1", "m1", 12, "search", "mcp", 9, 1, "ag1"),
                      ToolUse(4, "a2", "m2", 20, "web", "builtin", 0, 4, "ag3"),
                      ToolUse(5, "a1", "m1", 13, "exec", "builtin", 0, 1, "ag1")}]
SomeDatabases ==
    {Tables, [Tables EXCEPT !.buckets = {b \in @ : b.account = "a2"}],
     [Tables EXCEPT !.requests = {r \in @ : r.id <= 3}, !.buckets = {b \in @ : b.start >= 14},
                    !.members = Empty]}

Asked(preset, from, to, zone, resolution, section) ==
    [preset |-> preset, from |-> from, to |-> to, zone |-> zone, resolution |-> resolution,
     section |-> section, accounts |-> {}, providers |-> {}, models |-> {}, machines |-> {},
     efforts |-> {}, surfaces |-> {}, projects |-> {}, agents |-> {}, scope |-> "all"]
Spans ==
    {Asked(preset, 0, 0, zone, resolution, "") :
        preset \in {"today", "last_days", "month_to_date", "previous_month"},
        zone \in DOMAIN TwoZones, resolution \in {"day", "hour"}}
      \cup {Asked("custom", from, to, zone, "day", section) :
               from \in {0, 3, 11}, to \in {14, 19, 30}, zone \in DOMAIN TwoZones,
               section \in {"", "overview", "requests"}}
SomeQueries ==
    UNION {{q, [q EXCEPT !.accounts = {"a1"}], [q EXCEPT !.providers = {"cursor"}],
            [q EXCEPT !.models = {"x"}], [q EXCEPT !.machines = {"m1"}],
            [q EXCEPT !.efforts = {"high"}], [q EXCEPT !.scope = "main"],
            [q EXCEPT !.projects = {<<"not_reported", "">>, <<"project", "P">>}]} : q \in Spans}
-----------------------------------------------------------------------------
(* Pairing, identities, settings and mappings.                             *)

OwnAccounts == [x |-> "claude", y |-> "claude", z |-> "codex"]
TwoCodes == [c1 |-> "p", c2 |-> "p"]
Held(h) == [hash |-> h, enabled |-> TRUE, reset |-> FALSE]
BoundRows == (<<"i1", "x">> :> Held("h1")) @@ (<<"i1", "z">> :> Held(""))
-----------------------------------------------------------------------------
(* The pages and the queue before the database.                            *)

PageBounds(refreshes, edits, polls, filters, faults, expiries) ==
    [refreshes |-> refreshes, edits |-> edits, polls |-> polls, filters |-> filters,
     faults |-> faults, expiries |-> expiries]
-----------------------------------------------------------------------------
(* The browser collector: from nothing, bound, and bound with an old       *)
(* connection beside it.                                                   *)

Row(window, value, valid) == [window |-> window, value |-> value, valid |-> valid]
SomeUsages ==
    {[limits |-> <<Row("five_hour", 1, TRUE)>>,
      top |-> <<Row("five_hour", 2, TRUE), Row("seven_day", 3, TRUE)>>,
      extra |-> <<Row("extra_usage", 4, TRUE)>>],
     [limits |-> <<>>, top |-> <<Row("five_hour", 2, FALSE)>>, extra |-> <<Row("extra_usage", 4, TRUE)>>]}
Profile == [install |-> 1, binding |-> [hash |-> "a", confirmed |-> TRUE], pin |-> "a"]
Known == <<[disabled |-> FALSE, stop |-> "none", hash |-> "a"]>>
CollectorBounds(collections, setups, switches, decisions, faults) ==
    [collections |-> collections, setups |-> setups, switches |-> switches,
     decisions |-> decisions, faults |-> faults]
-----------------------------------------------------------------------------
Untold == [k \in {} |-> 0]
LedgerParked == Fill(OwnedBindings, 0, 0)
ReadParked == db = Tables /\ query = {} /\ answer = NoAnswer
RowsParked == FillInstalls({"i1"}, BoundRows)
PageParked == OpenPages("q1", Untold)
QuotaParked == FillProfile(Untold, <<>>, Untold) /\ tab = "a"

\* Each component in its scope: the bounds are spent on one question at a time.
LedgerFilled == Fill(OwnedBindings, 0, MaxChanges) \/ Fill(OwnedBindings, 1, 0)
PageFilled ==
    \E bounds \in {PageBounds(2, 1, 0, 0, 1, 0), PageBounds(0, 1, 2, 0, 0, 1),
                   PageBounds(0, 0, 2, 1, 1, 1)} : OpenPages("q1", bounds)
QuotaFilled ==
    \/ FillProfile(Untold, <<>>, CollectorBounds(1, 3, 1, 0, 1))
    \/ FillProfile(Profile, Known, CollectorBounds(2, 1, 1, 1, 1))
    \/ FillProfile([connection |-> TRUE] @@ Profile, Known, CollectorBounds(2, 1, 1, 0, 1))

RowScopes == {"pairing", "identities", "settings", "mapping"}
Init ==
    /\ RowsParked
    /\ \/ scope = "ledger" /\ LedgerFilled /\ ReadParked /\ PageParked /\ QuotaParked
       \/ scope = "read" /\ LedgerParked /\ FillTables /\ PageParked /\ QuotaParked
       \/ scope \in RowScopes /\ LedgerParked /\ ReadParked /\ PageParked /\ QuotaParked
       \/ scope = "pages" /\ LedgerParked /\ ReadParked /\ PageFilled /\ QuotaParked
       \/ scope = "quota" /\ LedgerParked /\ ReadParked /\ PageParked /\ QuotaFilled

Next ==
    /\ UNCHANGED scope
    /\ \/ /\ scope = "ledger" /\ LedgerNext
          /\ UNCHANGED <<queryVars, installVars, pathVars, collectorVars>>
       \/ /\ scope = "read" /\ UsageQuery
          /\ UNCHANGED <<ledgerVars, installVars, pathVars, collectorVars>>
       \/ /\ \/ scope = "pairing" /\ PairingNext
             \/ scope = "identities" /\ BindingNext
             \/ scope = "settings" /\ SettingsNext
             \/ scope = "mapping" /\ MappingNext
          /\ UNCHANGED <<ledgerVars, queryVars, pathVars, collectorVars>>
       \/ /\ scope = "pages" /\ ReadNext
          /\ UNCHANGED <<ledgerVars, queryVars, installVars, collectorVars>>
       \/ /\ scope = "quota" /\ CollectorNext
          /\ UNCHANGED <<ledgerVars, queryVars, installVars, pathVars>>

vars == <<scope, ledgerVars, queryVars, installVars, pathVars, collectorVars>>
Spec == Init /\ [][Next]_vars
==============================================================================
