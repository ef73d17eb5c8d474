----------------------------- MODULE UsageLedger -----------------------------
(***************************************************************************)
(* One ingest on the server, kit-board/lib/usage-store.ts, ingestUsage: a  *)
(* READ COMMITTED transaction per envelope, several of them overlapping.   *)
(* The ledgers only grow; canonical_requests and canonical_tool_invocations*)
(* (usage-canonical.ts) are recomputed from the whole history of every key *)
(* an envelope carries; side records (usage-side-records.ts) come last, in *)
(* savepoints of their own.                                                *)
(*                                                                         *)
(* A statement takes effect in one step, except the two projections, which *)
(* read their snapshot first and then lock one key at a time.  A statement *)
(* that meets a row another transaction has written waits; lock_timeout    *)
(* ends the wait, and the transaction.                                     *)
(***************************************************************************)
EXTENDS Integers, Sequences, FiniteSets, FiniteSetsExt

CONSTANTS
    Bindings,       \* the bindings of the install that posts
    Envelopes,      \* the names of the envelopes it posts
    Records,        \* [Envelopes -> sets of records]
    RunOf,          \* [Envelopes -> runs]: a run is posted in several bodies
    Browser,        \* BOOLEAN: the install is a browser, not a companion
    Slots,          \* transactions that may be open at once
    MaxAttempts,    \* bound: transactions begun
    MaxChanges      \* bound: changes the owner makes to bindings

Kinds == {"request", "invocation", "result", "reading", "money", "bucket", "label", "catalog"}

\* Keys and texts are numbered as they sort; an envelope names no record twice.
ASSUME RecordsAssumption ==
    \A e \in Envelopes :
       /\ IsFiniteSet(Records[e])
       /\ \A r \in Records[e] :
             /\ r.kind \in Kinds /\ r.key \in Nat /\ r.id \in Int
             /\ r.observed \in Int /\ r.ended \in Int /\ r.text \in Int
       /\ \A r, q \in Records[e] : r.id = q.id => r = q

VARIABLES
    bindings,       \* companion_bindings
    requests,       \* activity_requests: the rows committed
    events,         \* tool_events
    others,         \* the remaining ledgers: inserted, read by nobody here
    canonical,      \* canonical_requests, by semantic key
    invocations,    \* canonical_tool_invocations, by invocation key
    identities,     \* usage_project_identities, by evidence key
    side,           \* usage_projects, usage_app_projects, usage_name_labels
    runs,           \* companion_runs
    tx,             \* the open transactions
    receipts,       \* the answers sent
    clock, changes

ledgerVars == <<bindings, requests, events, others, canonical, invocations,
                identities, side, runs, tx, receipts, clock, changes>>
stored == <<requests, events, others, canonical, invocations, identities,
            side, runs, receipts>>

\* A table is a function from its keys to its rows.
Empty == [k \in {} |-> {}]
Over(new, old) ==
    [k \in DOMAIN new \cup DOMAIN old |-> IF k \in DOMAIN new THEN new[k] ELSE old[k]]
-----------------------------------------------------------------------------
(* The canonical order.                                                    *)

ChannelRank(channel) ==
    CASE channel = "provider_api" -> 0
      [] channel = "app_server" -> 1
      [] channel \in {"local_file", "local_db"} -> 2
      [] OTHER -> 3

IdentityRank(identity) ==
    CASE identity = "provider" -> 0 [] identity = "derived" -> 1 [] OTHER -> 2

\* rankBy, every column turned so that larger is better.
Rank(row) == <<-ChannelRank(row.rec.channel), -IdentityRank(row.rec.session),
               row.rec.observed, row.at, row.rec.id>>

BasisRank(row) ==
    CASE row.rec.basis = "native" -> 0
      [] row.rec.basis = "working_directory" -> 1
      [] row.rec.basis = "none" -> 2
      [] OTHER -> 3
ProjectRank(row) == <<-BasisRank(row)>> \o Rank(row)

Recency(row) == <<row.rec.observed, row.at, row.rec.id>>

Above(s, t) ==
    \E i \in DOMAIN s : s[i] > t[i] /\ \A j \in 1..(i - 1) : s[j] = t[j]

\* r has rank 1 among the rows.
First(r, rows, Measure(_)) ==
    r \in rows /\ \A q \in rows : q = r \/ Above(Measure(r), Measure(q))

\* What the projection carries of the project-preferred revision.
Evidence(row) == [basis |-> row.rec.basis, key |-> row.rec.project,
                  binding |-> row.rec.binding]

\* Mutant: a change detector in place of the strict comparison.
DisplacesWhatDiffers(candidate, old) == candidate # old
\* CANONICAL_GUARD against the row as it was last committed.
Displaces(candidate, old) ==
    \/ Above(Rank(candidate.row), Rank(old.row))
    \/ candidate.row = old.row /\ candidate.evidence # old.evidence

\* A register is empty or holds its latest revision, and registerGuard moves
\* each of the two forward on its own.
Latest(rows) == {r \in rows : First(r, rows, Recency)}
Newer(candidate, old) ==
    \E c \in candidate : \A o \in old : Above(Recency(c), Recency(o))
Registers(rows) ==
    [inv |-> Latest({r \in rows : r.rec.kind = "invocation"}),
     res |-> Latest({r \in rows : r.rec.kind = "result"})]
\* Mutant: one comparison for both.
MergedAsOne(candidate, old) ==
    IF \E reg \in {"inv", "res"} : Newer(candidate[reg], old[reg]) THEN candidate ELSE old
MergedRegisters(candidate, old) ==
    [reg \in {"inv", "res"} |->
        IF Newer(candidate[reg], old[reg]) THEN candidate[reg] ELSE old[reg]]
-----------------------------------------------------------------------------
(* What an envelope holds and what of it is refused.                       *)

IsSide(r) == r.kind \in {"label", "catalog"}

Acceptable(b) == b.enabled /\ ~(b.unset /\ b.reset)

\* rejection and sideRejection, against the bindings read at the start.
Rejected(owned, r) ==
    \/ r.binding \notin DOMAIN owned
    \/ IsSide(r) /\ Browser
    \/ /\ ~IsSide(r)
       /\ \/ ~Acceptable(owned[r.binding])
          \/ r.browser # Browser
          \/ Browser /\ r.kind # "reading"
          \/ r.provider # owned[r.binding].provider

Kept(s) == {r \in Records[tx[s].env] : ~Rejected(tx[s].owned, r)}
KeptOf(s, kinds) == {r \in Kept(s) : r.kind \in kinds}
RowsOf(s, kinds) == {[rec |-> r, at |-> tx[s].at] : r \in KeptOf(s, kinds)}
KeysOf(s, kinds) == {r.key : r \in KeptOf(s, kinds)}

\* The unique key of a ledger row.  Content is what content_hash covers: the
\* facts and the end of the request, not the time of the sighting.
Revision(row) == <<row.rec.kind, row.rec.key, row.rec.channel, row.rec.facts, row.rec.ended>>

\* The rows INSERT ... ON CONFLICT DO NOTHING adds to those stored: one for
\* every revision that is not there yet.
Fresh(rows, there) ==
    LET new == {r \in rows : \A q \in there : Revision(q) # Revision(r)}
    IN  {r \in new : \A q \in new : Revision(q) = Revision(r) => r.rec.id <= q.rec.id}

\* The producer that stamped its own clock into the record: compared by its
\* facts alone, and the earliest sighting stays.
SameFacts(r, q) == r.rec.key = q.rec.key /\ r.rec.facts = q.rec.facts
FirstSightings(rows, there) ==
    {r \in rows : r.rec.clock =>
        /\ \A q \in there : ~SameFacts(r, q)
        /\ \A q \in rows : q.rec.clock /\ SameFacts(r, q) =>
               <<r.rec.observed, r.rec.id>> = <<q.rec.observed, q.rec.id>>
                 \/ Above(<<q.rec.observed, q.rec.id>>, <<r.rec.observed, r.rec.id>>)}
-----------------------------------------------------------------------------
(* The transaction.                                                        *)

Idle == [pc |-> "idle"]
Open(s) == tx[s].pc # "idle"
Peers(s) == {t \in Slots \ {s} : Open(t)}
Step(s, pc) == tx[s].pc = pc

Blocked(s, field, keys) ==
    \E t \in Peers(s) : keys \cap DOMAIN tx[t][field] # {}
BlockedRows(s, field, rows) ==
    \E t \in Peers(s) : \E r \in rows, q \in tx[t][field] : Revision(r) = Revision(q)

Begin(s, e) ==
    /\ ~Open(s) /\ clock < MaxAttempts
    /\ clock' = clock + 1
    /\ tx' = [tx EXCEPT ![s] =
          [pc |-> "identities", env |-> e, at |-> clock, owned |-> bindings,
           seen |-> Empty, rows |-> {}, ev |-> {}, more |-> {},
           wrote |-> Empty, cand |-> Empty, regs |-> Empty, names |-> Empty,
           accepted |-> 0, deferred |-> {}]]
    /\ UNCHANGED <<bindings, stored, changes>>

\* observeProjectIdentity and its upsert: least of the first, greatest of the
\* last sightings.
Sighted(s) == {r \in KeptOf(s, {"request"}) : r.basis \in {"native", "working_directory"}}
SightingsOf(s, k) == {r.ended : r \in {q \in Sighted(s) : q.project = k}}
\* Mutant: the envelope's own sightings replace the stored ones.
SpanOfEnvelope(s, k) == [first |-> Min(SightingsOf(s, k)), last |-> Max(SightingsOf(s, k))]
Span(s, k) ==
    LET all == SightingsOf(s, k) \cup
          (IF k \in DOMAIN identities THEN {identities[k].first, identities[k].last} ELSE {})
    IN  [first |-> Min(all), last |-> Max(all)]
ObserveIdentities(s) ==
    /\ Step(s, "identities")
    /\ LET keys == {r.project : r \in Sighted(s)}
       IN  /\ ~Blocked(s, "seen", keys)
           /\ tx' = [tx EXCEPT ![s].pc = "requests",
                               ![s].seen = [k \in keys |-> Span(s, k)]]
    /\ UNCHANGED <<bindings, stored, clock, changes>>

\* insertRequests, its insert.
InsertRequests(s) ==
    /\ Step(s, "requests")
    /\ LET rows == FirstSightings(RowsOf(s, {"request"}), requests)
           fresh == Fresh(rows, requests)
       IN  /\ ~BlockedRows(s, "rows", fresh)
           /\ tx' = [tx EXCEPT ![s].pc = "project", ![s].rows = fresh,
                               ![s].accepted = Cardinality(fresh)]
    /\ UNCHANGED <<bindings, stored, clock, changes>>

\* The recompute reads its snapshot: every key the envelope carried, its whole
\* history, and what this transaction inserted.
StartProjection(s) ==
    /\ Step(s, "project")
    /\ LET keys == KeysOf(s, {"request"})
           rows(k) == {r \in requests \cup tx[s].rows : r.rec.key = k}
           winners(k) == {r \in rows(k) : First(r, rows(k), Rank)}
           best(k) == {r \in rows(k) : First(r, rows(k), ProjectRank)}
       IN  \E winner \in [keys -> UNION {winners(k) : k \in keys}],
             preferred \in [keys -> UNION {best(k) : k \in keys}] :
              /\ \A k \in keys : winner[k] \in winners(k) /\ preferred[k] \in best(k)
              /\ tx' = [tx EXCEPT ![s].pc = "upsert",
                    ![s].cand = [k \in keys |-> [row |-> winner[k],
                                                evidence |-> Evidence(preferred[k])]]]
    /\ UNCHANGED <<bindings, stored, clock, changes>>

\* ON CONFLICT DO UPDATE locks the row even where the guard keeps it.
UpsertCanonical(s) ==
    /\ Step(s, "upsert")
    /\ LET left == DOMAIN tx[s].cand \ DOMAIN tx[s].wrote
       IN  IF left = {}
           THEN tx' = [tx EXCEPT ![s].pc = "ledgers"]
           ELSE LET k == Min(left)
                    new == IF k \in DOMAIN canonical /\ ~Displaces(tx[s].cand[k], canonical[k])
                           THEN canonical[k] ELSE tx[s].cand[k]
                IN  /\ ~Blocked(s, "wrote", {k})
                    /\ tx' = [tx EXCEPT ![s].wrote = Over([x \in {k} |-> new], @)]
    /\ UNCHANGED <<bindings, stored, clock, changes>>

\* insert, for the ledgers that have no projection and for tool_events.
InsertLedgers(s) ==
    /\ Step(s, "ledgers")
    /\ LET ev == Fresh(RowsOf(s, {"invocation", "result"}), events)
           more == Fresh(RowsOf(s, {"reading", "money", "bucket"}), others)
       IN  /\ ~BlockedRows(s, "ev", ev) /\ ~BlockedRows(s, "more", more)
           /\ tx' = [tx EXCEPT ![s].pc = "registers", ![s].ev = ev, ![s].more = more,
                               ![s].accepted = @ + Cardinality(ev) + Cardinality(more)]
    /\ UNCHANGED <<bindings, stored, clock, changes>>

\* The tool projection: one statement, both registers of a key under one lock.
StartRegisters(s) ==
    /\ Step(s, "registers")
    /\ tx' = [tx EXCEPT ![s].pc = "tools",
          ![s].cand = [k \in KeysOf(s, {"invocation", "result"}) |->
             Registers({r \in events \cup tx[s].ev : r.rec.key = k})]]
    /\ UNCHANGED <<bindings, stored, clock, changes>>

UpsertRegisters(s) ==
    /\ Step(s, "tools")
    /\ LET left == DOMAIN tx[s].cand \ DOMAIN tx[s].regs
       IN  IF left = {}
           THEN tx' = [tx EXCEPT ![s].pc = "side"]
           ELSE LET k == Min(left)
                IN  /\ ~Blocked(s, "regs", {k})
                    /\ tx' = [tx EXCEPT ![s].regs =
                          Over([x \in {k} |->
                                  IF k \in DOMAIN invocations
                                  THEN MergedRegisters(tx[s].cand[k], invocations[k])
                                  ELSE tx[s].cand[k]], @)]
    /\ UNCHANGED <<bindings, stored, clock, changes>>
-----------------------------------------------------------------------------
(* Side records.  A group is the records of one target row; its winner is  *)
(* the newest, on a tie the one with the smaller text.                     *)

GroupsOf(s) ==
    {<<"label", r.key>> : r \in KeptOf(s, {"label"})}
      \cup UNION {{<<"project", r.project>>, <<"app_project", r.key>>} :
                     r \in KeptOf(s, {"catalog"})}

MembersOf(s, g) ==
    {r \in Kept(s) :
        \/ g[1] = "label" /\ r.kind = "label" /\ r.key = g[2]
        \/ g[1] = "project" /\ r.kind = "catalog" /\ r.project = g[2]
        \/ g[1] = "app_project" /\ r.kind = "catalog" /\ r.key = g[2]}

WinnerOf(s, g) ==
    CHOOSE r \in MembersOf(s, g) :
        First(r, MembersOf(s, g), LAMBDA q : <<q.observed, -q.text, -q.id>>)

TargetRow(s, g) ==
    LET w == WinnerOf(s, g)
    IN  [text |-> w.text, observed |-> w.observed,
         project |-> w.project]

\* The upsert of the three tables moves a row only forward; usage_projects is
\* insert-only.
SideRow(s, g) ==
    LET new == TargetRow(s, g)
        forward == g[1] # "project" /\ new.observed >= side[g].observed
    IN  IF g \in DOMAIN side /\ ~forward THEN side[g] ELSE new

\* An app project refers to its project: without it the row is refused.
Orphan(s, g, bad) ==
    /\ g[1] = "app_project"
    /\ LET p == <<"project", WinnerOf(s, g).project>>
       IN  p \in bad /\ p \notin DOMAIN side

\* Mutant: only the record that won its row.
WinnersDeferred(s, bad) == {WinnerOf(s, g).id : g \in bad}
DeferredBy(s, bad) == UNION {{r.id : r \in MembersOf(s, g)} : g \in bad}

\* A table is written in one savepoint, then row by row: either way every row
\* the database takes is written, and every record of a row it does not take
\* is deferred.  A row another transaction holds is not taken: the wait ends in
\* lock_timeout, inside the savepoint.
ApplySide(s) ==
    /\ Step(s, "side")
    /\ \E refused \in SUBSET GroupsOf(s) :
          LET held == {g \in GroupsOf(s) : Blocked(s, "names", {g})}
              bad == refused \cup {g \in GroupsOf(s) : Orphan(s, g, refused)}
              good == GroupsOf(s) \ bad
          IN  /\ held \subseteq bad
              /\ tx' = [tx EXCEPT ![s].pc = "commit",
                                  ![s].names = [g \in good |-> SideRow(s, g)],
                                  ![s].deferred = DeferredBy(s, bad)]
    /\ UNCHANGED <<bindings, stored, clock, changes>>

\* Mutant: the latest body replaces the counts of the run.
AcceptedLast(s) ==
    [accepted |-> tx[s].accepted, refused |-> Cardinality(Records[tx[s].env] \ Kept(s))]
\* The bodies of a run add up in its row; then everything becomes visible.
Accumulated(s) ==
    LET run == RunOf[tx[s].env]
        old == IF run \in DOMAIN runs THEN runs[run] ELSE [accepted |-> 0, refused |-> 0]
    IN  [accepted |-> old.accepted + tx[s].accepted,
         refused |-> old.refused + Cardinality(Records[tx[s].env] \ Kept(s))]

Commit(s) ==
    /\ Step(s, "commit")
    /\ requests' = requests \cup tx[s].rows
    /\ events' = events \cup tx[s].ev
    /\ others' = others \cup tx[s].more
    /\ canonical' = Over(tx[s].wrote, canonical)
    /\ invocations' = Over(tx[s].regs, invocations)
    /\ identities' = Over(tx[s].seen, identities)
    /\ side' = Over(tx[s].names, side)
    /\ runs' = Over([x \in {RunOf[tx[s].env]} |-> Accumulated(s)], runs)
    /\ receipts' = receipts \cup
          {[env |-> tx[s].env, deferred |-> tx[s].deferred,
            rejected |-> {r.id : r \in Records[tx[s].env] \ Kept(s)}]}
    /\ tx' = [tx EXCEPT ![s] = Idle]
    /\ UNCHANGED <<bindings, clock, changes>>

\* lock_timeout, a lost connection or a server that dies: nothing is kept, and
\* the companion posts the envelope again from its outbox.
Abort(s) ==
    /\ Open(s)
    /\ tx' = [tx EXCEPT ![s] = Idle]
    /\ UNCHANGED <<bindings, stored, clock, changes>>

\* The owner disables, enables or resets a binding, or the companion confirms it.
ChangeBinding(b) ==
    /\ changes < MaxChanges
    /\ changes' = changes + 1
    /\ \E new \in {[bindings[b] EXCEPT !.enabled = ~@],
                   [bindings[b] EXCEPT !.unset = TRUE, !.reset = TRUE],
                   [bindings[b] EXCEPT !.unset = FALSE, !.reset = FALSE]} :
          new # bindings[b] /\ bindings' = [bindings EXCEPT ![b] = new]
    /\ UNCHANGED <<stored, tx, clock>>
-----------------------------------------------------------------------------
\* What the bounds leave is up to the instance.
Fill(initial, begun, changed) ==
    /\ bindings = initial
    /\ requests = {} /\ events = {} /\ others = {}
    /\ canonical = Empty /\ invocations = Empty /\ identities = Empty
    /\ side = Empty /\ runs = Empty
    /\ tx = [s \in Slots |-> Idle]
    /\ receipts = {} /\ clock = begun /\ changes = changed

StepOf(s) ==
    \/ \E e \in Envelopes : Begin(s, e)
    \/ ObserveIdentities(s) \/ InsertRequests(s)
    \/ StartProjection(s) \/ UpsertCanonical(s)
    \/ InsertLedgers(s)
    \/ StartRegisters(s) \/ UpsertRegisters(s)
    \/ ApplySide(s) \/ Commit(s) \/ Abort(s)

LedgerNext == (\E s \in Slots : StepOf(s)) \/ (\E b \in Bindings : ChangeBinding(b))
-----------------------------------------------------------------------------
(* Properties.                                                             *)

\* One of the rows, above all others.
StandsOver(winners, rows, Measure(_)) ==
    \E w \in winners : First(w, rows, Measure)

\* Whatever the order and the overlap in which revisions arrive, late and
\* replayed ones included, the projection holds for every key of the ledger the
\* revision the canonical order prefers (CANONICAL_GUARD, arm 1).
WinnersStand ==
    \A row \in requests :
        LET k == row.rec.key
        IN  /\ k \in DOMAIN canonical
            /\ StandsOver({canonical[k].row}, {r \in requests : r.rec.key = k}, Rank)

\* The two registers of a tool call move independently: an envelope that saw
\* the newer invocation but not the newer result never takes the result back.
RegistersStand ==
    \A row \in events :
        LET k == row.rec.key
            of(kind) == {r \in events : r.rec.key = k /\ r.rec.kind = kind}
        IN  /\ k \in DOMAIN invocations
            /\ of("invocation") # {} => StandsOver(invocations[k].inv, of("invocation"), Recency)
            /\ of("result") # {} => StandsOver(invocations[k].res, of("result"), Recency)

StoredRow(r, rows) ==
    \E q \in rows : \/ Revision(q) = Revision([rec |-> r])
                    \/ r.kind = "request" /\ r.clock /\ SameFacts(q, [rec |-> r])
ShownAt(g, r) == g \in DOMAIN side /\ side[g].observed >= r.observed

\* The companion forgets what a receipt neither rejects nor defers; so all of it
\* is in a ledger, or a row of its target at least as new is: nothing about a
\* name costs a ledger record, and a record whose row the database refused is
\* deferred even when another record of the same row was the winner.
AcknowledgedIsStored ==
    \A c \in receipts : \A r \in Records[c.env] :
        \/ r.id \in c.rejected \cup c.deferred
        \/ StoredRow(r, requests \cup events \cup others)
        \/ r.kind = "label" /\ ShownAt(<<"label", r.key>>, r)
        \/ /\ r.kind = "catalog" /\ ShownAt(<<"app_project", r.key>>, r)
           /\ <<"project", side[<<"app_project", r.key>>].project>> \in DOMAIN side

\* The run rows count what was stored: bodies of one run add up, a replayed or
\* overlapping body counts nothing twice, and an aborted one counts nothing.
RunsCountRows ==
    MapThenSumSet(LAMBDA run : runs[run].accepted, DOMAIN runs)
      = Cardinality(requests) + Cardinality(events) + Cardinality(others)

\* A project identity spans every sighting of it in the ledger, whichever
\* envelope came first.
IdentitiesSpan ==
    \A row \in requests :
        row.rec.basis \in {"native", "working_directory"} =>
            /\ row.rec.project \in DOMAIN identities
            /\ identities[row.rec.project].first <= row.rec.ended
            /\ row.rec.ended <= identities[row.rec.project].last

\* The comment of CANONICAL_GUARD on arm 2, "keeps the evidence fresh": with no
\* ingest open, the evidence of a key is that of its project-preferred row.
EvidenceFresh ==
    (\A s \in Slots : ~Open(s)) =>
        \A k \in DOMAIN canonical :
            \E r \in requests : /\ First(r, {q \in requests : q.rec.key = k}, ProjectRank)
                                 /\ canonical[k].evidence = Evidence(r)
==============================================================================
