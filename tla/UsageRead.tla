------------------------------ MODULE UsageRead ------------------------------
(***************************************************************************)
(* The read behind the Tokens page, kit-board/lib/usage-query.ts: which    *)
(* rows of the ledgers a query selects, how they add up in its cards, how  *)
(* a request finds its project (usage-project-map.ts) and its agent group, *)
(* and when a monthly snapshot may fill in for hours nobody collected.     *)
(*                                                                         *)
(* Dates and months are numbered; a zone says at which instant each date   *)
(* begins, so days may be shorter or longer (usage-periods.ts).  Tokens    *)
(* stand for the whole composition of a row.                               *)
(***************************************************************************)
EXTENDS Integers, Sequences, FiniteSets, FiniteSetsExt

CONSTANTS
    Hour,           \* instants in an hour
    DayStarts,      \* [zones -> the instants at which the dates 1, 2, ... begin]
    FirstDate,      \* the first date of the months 1, 2, ...
    BackDays,       \* bound: days before today in the "last days" preset
    Now,            \* the instant of the query
    BuiltinAgents,  \* the display names tagged built-in
    Databases,      \* the contents of the tables
    Queries         \* the queries asked

VARIABLES db, query, answer

queryVars == <<db, query, answer>>

Total(f) == MapThenSumSet(LAMBDA x : f[x], DOMAIN f)
TokensOf(rows) == Total([r \in rows |-> r.tokens])
Exceeds(s, t) == \E i \in DOMAIN s : s[i] > t[i] /\ \A j \in 1..(i - 1) : s[j] = t[j]
-----------------------------------------------------------------------------
(* Periods.                                                                *)

DateAt(t, z) == Max({d \in DOMAIN DayStarts[z] : DayStarts[z][d] <= t})
MonthOf(d) == Max({m \in DOMAIN FirstDate : FirstDate[m] <= d})
MonthStart(m, z) == DayStarts[z][FirstDate[m]]
MonthAt(t, z) == MonthOf(DateAt(t, z))

\* resolveRange.
ResolvedRange(q) ==
    LET today == DateAt(Now, q.zone)
        month == MonthAt(Now, q.zone)
        local(d) == DayStarts[q.zone][d]
    IN  CASE q.preset = "today" -> [start |-> local(today), end |-> Now]
          [] q.preset = "last_days" -> [start |-> local(today - BackDays), end |-> Now]
          [] q.preset = "month_to_date" -> [start |-> MonthStart(month, q.zone), end |-> Now]
          [] q.preset = "previous_month" ->
               [start |-> MonthStart(month - 1, q.zone), end |-> MonthStart(month, q.zone)]
          [] q.preset = "custom" -> [start |-> q.from, end |-> Min({q.to, Now})]

Anchored(q) == ResolvedRange(q).end >= Now

\* The instants periods are aligned to, and the next of them.
Boundaries(q) ==
    LET days == {DayStarts[q.zone][d] : d \in DOMAIN DayStarts[q.zone]}
    IN  IF q.resolution = "day" THEN days
        ELSE {t \in Min(days)..Max(days) : t % Hour = 0}
After(t, q) == Min({b \in Boundaries(q) : b > t})
AlignedAt(t, q) == Max({b \in Boundaries(q) : b <= t})

\* periodsWithin: the aligned intervals that meet the range.
Periods(q) ==
    LET range == ResolvedRange(q)
        met == {b \in Boundaries(q) : b < range.end /\ b >= AlignedAt(range.start, q)}
    IN  {[start |-> Max({b, range.start}), end |-> Min({After(b, q), range.end}),
          aligned |-> b, clipped |-> b < range.start \/ After(b, q) > range.end] : b \in met}

Months(q) ==
    MonthAt(ResolvedRange(q).start, q.zone)..MonthAt(ResolvedRange(q).end - 1, q.zone)
-----------------------------------------------------------------------------
(* Buckets.                                                                *)

BucketKey(b) ==
    IF b.origin = "local" THEN <<b.account, b.session, b.start, b.end, b.model>>
                          ELSE <<b.account, "", b.start, b.end, b.model>>
BucketOrder(b) ==
    IF b.origin = "local" THEN <<b.calls, b.tokens, b.observed, b.id>>
                          ELSE <<b.refreshed, b.observed, b.id>>

\* canonicalBucketCte: one row of each key, of the two ledgers apart.
CanonicalBuckets(accounts) ==
    LET rows == {b \in db.buckets : b.account \in accounts}
        rival(b) == {c \in rows \ {b} : c.origin = b.origin /\ BucketKey(c) = BucketKey(b)}
    IN  {b \in rows : \A c \in rival(b) : Exceeds(BucketOrder(b), BucketOrder(c))}

Accounts(q) ==
    {a \in DOMAIN db.accounts :
        /\ q.accounts # {} => a \in q.accounts
        /\ q.providers # {} => db.accounts[a] \in q.providers}

\* The hour being collected counts while the range ends now.
BucketEnd(q) ==
    IF Anchored(q) THEN -((-Now) \div Hour) * Hour ELSE ResolvedRange(q).end

\* Mutant: whatever meets the range.
Meeting(b, start, end) == b.start < end /\ b.end > start
Within(b, start, end) == b.start >= start /\ b.end <= end
OfModel(q, row) == q.models # {} => row.model \in q.models
OfMachine(q, row) == q.machines # {} => row.source \in q.machines

Buckets(q) ==
    {b \in CanonicalBuckets(Accounts(q)) :
        Within(b, ResolvedRange(q).start, BucketEnd(q)) /\ OfModel(q, b) /\ OfMachine(q, b)}

\* Mutant: only the months before the last.
CoveredBeforeLast(q) ==
    LET from == MonthStart(Min(Months(q)), q.zone)
        to == MonthStart(Max(Months(q)), q.zone)
    IN  {<<b.account, MonthAt(b.start, q.zone)>> :
            b \in {c \in CanonicalBuckets(Accounts(q)) : Within(c, from, to)}}
\* The (account, month) pairs the hourly ledgers cover, whatever the filters.
CoveredMonths(q) ==
    LET from == MonthStart(Min(Months(q)), q.zone)
        to == MonthStart(Max(Months(q)) + 1, q.zone)
    IN  {<<b.account, MonthAt(b.start, q.zone)>> :
            b \in {c \in CanonicalBuckets(Accounts(q)) : Within(c, from, to)}}
-----------------------------------------------------------------------------
(* Requests, their project and their agent.                                *)

\* projectMapCtes: the session's membership decides, then the folder's.
MembershipOf(r) ==
    LET session == <<r.install, "session", r.session>>
        folder == <<r.install, "working_directory", r.folder>>
        found == {session} \cap DOMAIN db.members
        fallback == IF r.basis = "working_directory" THEN {folder} \cap DOMAIN db.members ELSE {}
        keys == IF found # {} THEN found ELSE fallback
    IN  {db.members[k] : k \in keys}

NoInstall == ""
ProjectState(r) ==
    LET member == MembershipOf(r)
        catalog(m) == <<r.install, m.project>> \in DOMAIN db.apps
    IN  CASE r.install = NoInstall -> "unknown"
          [] r.install # NoInstall /\ r.basis = "none" -> "no_project"
          [] r.install # NoInstall /\ r.basis # "none" /\ member = {} ->
               IF r.install \in db.reported THEN "unknown" ELSE "not_reported"
          [] OTHER ->
               IF \E m \in member : m.resolution = "projectless" THEN "projectless"
               ELSE IF \E m \in member : catalog(m) THEN "project" ELSE "unassigned"

\* project_filter: the value a row of the card applies.
ProjectFilter(r) ==
    LET state == ProjectState(r)
    IN  CASE state = "project" -> <<state, db.apps[<<r.install, (CHOOSE m \in MembershipOf(r) : TRUE).project>>]>>
          [] state = "not_reported" -> <<state, r.install>>
          [] OTHER -> <<state, "">>
AllNotReported == <<"not_reported", "">>

\* AGENT_ROLE_SQL, and the labels that come before it.
EvidenceRole(r) ==
    CASE ~r.identified -> "unattributed"
      [] r.identified /\ (r.class = "main" \/ r.depth = 0) -> "main"
      [] r.identified /\ r.class # "main" /\ r.depth > 0 -> "subagent"
      [] OTHER -> "unattributed"

LabelsOf(r) == {r.agent} \cap DOMAIN db.labels
DisplayRole(r) ==
    IF \E k \in LabelsOf(r) : db.labels[k].role # ""
    THEN db.labels[r.agent].role ELSE EvidenceRole(r)
DisplayName(r) ==
    IF LabelsOf(r) # {} THEN db.labels[r.agent].label
    ELSE IF r.name # "" THEN r.name
    ELSE IF r.class = "main" THEN "main" ELSE "unattributed"
AgentGroup(r) ==
    <<db.accounts[r.account], DisplayRole(r), DisplayName(r),
      r.class = "builtin" \/ DisplayName(r) \in BuiltinAgents>>

\* createRequestGroups: what the range, model and machine filters leave.
Requests(q) ==
    {r \in db.requests :
        /\ r.account \in Accounts(q)
        /\ ResolvedRange(q).start <= r.at /\ r.at < ResolvedRange(q).end
        /\ OfModel(q, r) /\ OfMachine(q, r)}

DetailFilters(q) ==
    q.efforts # {} \/ q.surfaces # {} \/ q.projects # {} \/ q.agents # {} \/ q.scope # "all"

\* Mutant: a project row is matched by its state alone.
MatchesByState(q, r) ==
    /\ q.efforts # {} => r.effort \in q.efforts
    /\ q.surfaces # {} => r.surface \in q.surfaces
    /\ q.scope # "all" => DisplayRole(r) = q.scope
    /\ q.agents # {} => AgentGroup(r) \in q.agents
    /\ q.projects # {} => \E k \in q.projects : k[1] = ProjectState(r)
\* requestCte, its matches column.
Matches(q, r) ==
    /\ q.efforts # {} => r.effort \in q.efforts
    /\ q.surfaces # {} => r.surface \in q.surfaces
    /\ q.scope # "all" => DisplayRole(r) = q.scope
    /\ q.agents # {} => AgentGroup(r) \in q.agents
    /\ q.projects # {} =>
         \/ ProjectFilter(r) \in q.projects
         \/ AllNotReported \in q.projects /\ ProjectState(r) = "not_reported"

Matching(q) == {r \in Requests(q) : Matches(q, r)}
-----------------------------------------------------------------------------
(* Monthly snapshots.  One revision of a month and subject is read: for a  *)
(* month that is over a complete one first, then the newest.               *)

Closed(m, q) == MonthStart(m + 1, q.zone) <= Now
SnapshotOrder(s, q) ==
    <<IF Closed(s.month, q) /\ s.status = "complete" THEN 1 ELSE 0, s.produced>>
Snapshots(q) ==
    LET read == {s \in db.snapshots : s.status # "failed" /\ s.month \in Months(q)}
    IN  {s \in read : \A o \in read \ {s} :
            (o.subject = s.subject /\ o.month = s.month) =>
                Exceeds(SnapshotOrder(s, q), SnapshotOrder(o, q))}

SameZone(q, s) == db.subjects[s.subject].zone = q.zone /\ q.resolution = "day"
WholeMonth(q, s) ==
    /\ MonthStart(s.month, q.zone) >= ResolvedRange(q).start
    /\ MonthStart(s.month + 1, q.zone) <= ResolvedRange(q).end

\* What keeps a snapshot out before its dates are looked at.
Excluded(q, s) ==
    \/ s.subject \notin DOMAIN db.subjects
    \/ db.subjects[s.subject].account \notin Accounts(q)
    \/ DetailFilters(q) \/ q.models # {} \/ q.machines # {}
    \/ <<db.subjects[s.subject].account, s.month>> \in CoveredMonths(q)

\* The dates of a snapshot that have a point of their own; of a month selected
\* in part, only the whole ones.
PlacedDates(q, s) ==
    LET begins(d) == DayStarts[q.zone][d]
    IN  IF Excluded(q, s) \/ ~SameZone(q, s) THEN {}
        ELSE {d \in DOMAIN s.daily : \E p \in Periods(q) :
                 p.aligned = begins(d) /\ (WholeMonth(q, s) \/ ~p.clipped)}

DailySum(s, dates) == Total([d \in dates |-> s.daily[d]])
MergedTokens(q, s) ==
    IF Excluded(q, s) THEN 0
    ELSE IF WholeMonth(q, s) THEN s.total ELSE DailySum(s, PlacedDates(q, s))

\* Counted in the headline, at no point of the series.
Unplaced(q, s) ==
    CASE Excluded(q, s) \/ ~WholeMonth(q, s) -> 0
      [] ~Excluded(q, s) /\ WholeMonth(q, s) /\ SameZone(q, s) ->
           DailySum(s, DOMAIN s.daily \ PlacedDates(q, s))
      [] OTHER -> s.total

SnapshotTokens(q) == Total([s \in Snapshots(q) |-> MergedTokens(q, s)])
-----------------------------------------------------------------------------
(* The cards.                                                              *)

Overview(q) == q.section \in {"", "overview"}
Detail(q) == q.section \in {"", "requests"}

\* The rows the headline adds up, with the instant a period groups them by.
HeadlineRows(q) ==
    IF DetailFilters(q)
    THEN {[id |-> r.id, at |-> r.at, model |-> r.model, tokens |-> r.tokens, calls |-> 1] :
             r \in IF Overview(q) \/ Detail(q) THEN Matching(q) ELSE {}}
    ELSE {[id |-> b.id, at |-> b.start, model |-> b.model, tokens |-> b.tokens, calls |-> b.calls] :
             b \in IF Overview(q) \/ Detail(q) THEN Buckets(q) ELSE {}}

Point(q, p) ==
    LET rows == {r \in HeadlineRows(q) : AlignedAt(r.at, q) = p.aligned}
        snaps == IF Overview(q) THEN Snapshots(q) ELSE {}
        placed(s) == DailySum(s, {d \in PlacedDates(q, s) : DayStarts[q.zone][d] = p.aligned})
    IN  TokensOf(rows) + Total([s \in snaps |-> placed(s)])

ByModel(q) ==
    [m \in {r.model : r \in HeadlineRows(q)} |->
        TokensOf({r \in HeadlineRows(q) : r.model = m})]

Headline(q) ==
    LET snaps == IF Overview(q) THEN SnapshotTokens(q) ELSE 0
        buckets == TokensOf(Buckets(q))
        examined == TokensOf(Requests(q))
    IN  [tokens |-> TokensOf(HeadlineRows(q)) + snaps,
         snapshot |-> snaps,
         excluded |-> IF Overview(q) THEN Total([s \in Snapshots(q) |-> Unplaced(q, s)]) ELSE 0,
         unfilterable |-> IF DetailFilters(q) THEN Max({0, buckets - examined}) ELSE 0,
         uncovered |-> IF DetailFilters(q) THEN Max({0, examined - buckets}) ELSE 0]

Card(q, Key(_)) ==
    [k \in {Key(r) : r \in Matching(q)} |-> TokensOf({r \in Matching(q) : Key(r) = k})]
ProjectCard(q) == IF Detail(q) THEN Card(q, ProjectFilter) ELSE [k \in {} |-> 0]
AgentCard(q) == IF Detail(q) THEN Card(q, AgentGroup) ELSE [k \in {} |-> 0]

\* Tool calls.  They carry the key of their caller's agent and request.
AgentKeys(q) == {<<r.account, r.agent>> : r \in {x \in db.requests :
                    /\ x.account \in Accounts(q) /\ x.at >= ResolvedRange(q).start
                    /\ x.at < ResolvedRange(q).end /\ OfMachine(q, x)
                    /\ AgentGroup(x) \in q.agents}}
InScope(q, i) ==
    /\ i.account \in Accounts(q)
    /\ ResolvedRange(q).start <= i.at /\ i.at < ResolvedRange(q).end
    /\ OfMachine(q, i)
    /\ q.agents # {} => <<i.account, i.agent>> \in AgentKeys(q)
Invocations(q) ==
    {i \in db.invocations :
        /\ InScope(q, i)
        /\ DetailFilters(q) => \E r \in Matching(q) : r.account = i.account /\ r.id = i.caller}

ParentOf(i) == {p \in db.invocations : p.account = i.account /\ p.id = i.parent}
IsExec(p) == p.tool = "exec" /\ db.accounts[p.account] = "codex"
Nesting(q, i) ==
    IF i.parent = 0 THEN "top"
    ELSE IF ParentOf(i) = {}
    THEN IF db.accounts[i.account] = "codex" /\ i.class = "mcp" THEN "orphan" ELSE "top"
    ELSE IF \A p \in ParentOf(i) : ~IsExec(p) THEN "top"
    ELSE IF \A p \in ParentOf(i) : InScope(q, p) THEN "child" ELSE "orphan"

\* A child is shown under an exec row, or under the synthetic one.
Synthetic == <<"exec (outside range)", "builtin">>
ToolRow(q, i) ==
    LET execs == {x \in Invocations(q) : Nesting(q, x) = "top" /\ IsExec(x)}
    IN  IF Nesting(q, i) = "top" THEN <<i.tool, i.class>>
        ELSE IF Nesting(q, i) = "child" /\ execs # {}
        THEN LET x == CHOOSE x \in execs : TRUE IN <<x.tool, x.class>>
        ELSE Synthetic
ToolCard(q) ==
    [k \in {ToolRow(q, i) : i \in Invocations(q)} |->
        LET under == {i \in Invocations(q) : ToolRow(q, i) = k}
        IN  [own |-> Cardinality({i \in under : Nesting(q, i) = "top"}),
             children |-> Cardinality({i \in under : Nesting(q, i) # "top"})]]
-----------------------------------------------------------------------------
(* What the constants are like.                                            *)

Ascending(s) == \A i, j \in DOMAIN s : i < j => s[i] < s[j]

\* Dates and months follow one another.
CalendarAssumption ==
    /\ Hour \in Nat \ {0} /\ Now \in Int
    /\ FirstDate \in Seq(Nat) /\ Ascending(FirstDate)
    /\ \A z \in DOMAIN DayStarts :
          /\ DayStarts[z] \in Seq(Int) /\ Ascending(DayStarts[z])
          /\ \A m \in DOMAIN FirstDate : FirstDate[m] \in DOMAIN DayStarts[z]

Presets == {"today", "last_days", "month_to_date", "previous_month", "custom"}
QueryFields ==
    {"preset", "from", "to", "zone", "resolution", "section", "accounts", "providers", "models",
     "machines", "efforts", "surfaces", "projects", "agents", "scope"}

\* The range of a query lies in the calendar.
QueryIsSound(q) ==
    LET range == ResolvedRange(q)
    IN  /\ DOMAIN q = QueryFields /\ q.preset \in Presets /\ q.zone \in DOMAIN DayStarts
        /\ q.to \in Int /\ MonthStart(1, q.zone) <= Now
        /\ 1 \in DOMAIN FirstDate /\ range.start \in Int /\ range.end \in Int
        /\ MonthStart(1, q.zone) <= range.start
        /\ range.end <= MonthStart(Len(FirstDate), q.zone)
        /\ \E b \in Boundaries(q) : b <= range.start

\* Buckets begin on the hour (telemetry-contract.ts:9, and what the companion makes
\* of a provider's); rows have ids; the days of a report add up to its total.
TablesAreSound(tables) ==
    /\ \A b \in tables.buckets :
          b.start \in Int /\ b.end \in Int /\ b.start < b.end /\ b.start % Hour = 0 /\ b.tokens \in Nat
    /\ \A r, o \in tables.requests : r.at \in Int /\ r.tokens \in Nat /\ (r.id = o.id => r = o)
    /\ \A i \in tables.invocations : i.tool # Synthetic[1]
    /\ \A s \in tables.snapshots :
          /\ IsFiniteSet(DOMAIN s.daily) /\ \A d \in DOMAIN s.daily : s.daily[d] \in Nat
          /\ s.total = Total([d \in DOMAIN s.daily |-> s.daily[d]])
    /\ IsFiniteSet(tables.buckets) /\ IsFiniteSet(tables.requests)
    /\ IsFiniteSet(tables.invocations) /\ IsFiniteSet(tables.snapshots)

ASSUME ReadAssumption ==
    /\ CalendarAssumption
    /\ \A q \in Queries : QueryIsSound(q)
    /\ \A tables \in Databases : TablesAreSound(tables)
-----------------------------------------------------------------------------
NoAnswer == [done |-> FALSE]

FillTables == db \in Databases /\ query \in Queries /\ answer = NoAnswer

\* usageQuery: one query, one answer.
UsageQuery ==
    /\ ~answer.done
    /\ answer' = [done |-> TRUE, headline |-> Headline(query),
                  points |-> [p \in Periods(query) |-> Point(query, p)],
                  models |-> ByModel(query), projects |-> ProjectCard(query),
                  agents |-> AgentCard(query), tools |-> ToolCard(query)]
    /\ UNCHANGED <<db, query>>

ReadSpec == FillTables /\ [][UsageQuery]_queryVars
-----------------------------------------------------------------------------
(* Properties.                                                             *)

\* The bars of the series, with the snapshot tokens said to be left out, and the
\* models, with the snapshot tokens, each add up to the headline: no row falls
\* between two periods, out of the clipped first one or past the current hour.
\* A nested call counts once, under its exec or the synthetic row, never as both.
CardsAddUp ==
    answer.done =>
        LET points == answer.points
            models == answer.models
            total == answer.headline.tokens
            tools == answer.tools
            calls == [k \in DOMAIN tools |-> tools[k].own + tools[k].children]
        IN  /\ Total(points) + answer.headline.excluded = total
            /\ Total(models) + answer.headline.snapshot = total
            /\ Total(calls) = Cardinality(Invocations(query))
            /\ Synthetic \in DOMAIN tools => tools[Synthetic].own = 0

\* A query with one of its filters replaced.
Narrowed(q, field, v) == [q EXCEPT ![field] = v]

\* "Each card row applies exactly the requests it shows": asking again with the
\* filter value of a project row or an agent group gives its tokens and no other
\* (PROJECT_STATES' comment), and a role filter gives the rows of that role.
RowsSelectThemselves ==
    answer.done =>
        LET one(field, v) == Headline(Narrowed(query, field, v)).tokens
            role(r) == {k \in DOMAIN answer.agents : k[2] = r}
        IN  /\ \A k \in DOMAIN answer.projects :
                  one("projects", {k}) = answer.projects[k]
            /\ \A k \in DOMAIN answer.agents :
                  one("agents", {k}) = answer.agents[k]
            /\ (query.scope = "all" /\ Detail(query)) =>
                  \A r \in {"main", "subagent"} :
                      one("scope", r) = Total([k \in role(r) |-> answer.agents[k]])

\* A snapshot fills in only where the hourly ledger has nothing: no month of an
\* account is counted from both, whatever the model, machine or detail filters
\* hide of the ledger.
SnapshotsNeverDouble ==
    answer.done =>
        \A s \in Snapshots(query) : MergedTokens(query, s) > 0 =>
            \A b \in Buckets(query) :
                b.account = db.subjects[s.subject].account =>
                    MonthAt(b.start, query.zone) # s.month

=============================================================================
