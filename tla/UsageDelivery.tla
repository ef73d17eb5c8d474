---------------------------- MODULE UsageDelivery ----------------------------
(***************************************************************************)
(* How one companion publishes what it collected and how the Observatory   *)
(* takes it: the local rows and their publication marks (state.rs), the    *)
(* run that rebuilds and uploads the outbox (run.rs, outbox.rs), a network *)
(* that loses and delays requests, and the ingest transaction of the       *)
(* server (usage-store.ts).                                                *)
(*                                                                         *)
(* An item is a ledger record or an hourly bucket.  Its content stands for *)
(* the content hash of a record or the digest of a bucket, so an entry     *)
(* <<item, content>> is one revision, and an item may return to a content  *)
(* it had before.                                                          *)
(***************************************************************************)
EXTENDS Naturals, Sequences, FiniteSets

CONSTANTS
    Records,      \* ledger records, one per record_id
    Buckets,      \* hourly buckets, one per published key
    Content,      \* the revisions an item may have
    Redact,       \* what apply_current_privacy_policy makes of a revision
    None,         \* no revision, no configuration, no run
    Bindings,
    BindingOf,    \* the binding every item belongs to
    Settings,     \* the collection settings and deny lists in use:
                  \* which records stay home, which leave redacted, and
                  \* which revisions an older resource configuration stamped
    Defaults,     \* CollectionSettings::defaults()
    Poison,       \* entries the server refuses a whole body for (a 4xx)
    Unwelcome,    \* records it rejects whatever the state of their binding
    Runs,         \* run ids; one is free again once no body carries it
    RecordCap, BucketCap, \* RECORDS_PER_ENVELOPE, BUCKETS_PER_ENVELOPE
    SplitBudget,  \* MAX_SPLITS_PER_BODY
    MaxChanges,   \* bound on collected revisions and owner changes
    MaxFaults     \* bound on crashes, timeouts and failed requests

Items == Records \cup Buckets
Entry == Items \X Content
Body == [run: Runs, coverage: BOOLEAN, entries: SUBSET Entry]
Config == [settings: Settings, open: SUBSET Bindings]
StartingConfig == [settings |-> Defaults, open |-> Bindings]

ASSUME SetsAssumption ==
    /\ Records \cap Buckets = {}
    /\ None \notin Content \cup Runs \cup Config
    /\ Redact \in [Content -> Content]
    /\ \A c \in Content : Redact[Redact[c]] = Redact[c]
    /\ BindingOf \in [Items -> Bindings]
    /\ \A s \in Settings :
          /\ s \in [hold: SUBSET Records, redact: SUBSET Records,
                    stale: SUBSET (Records \X Content)]
          /\ \A e \in s.stale : e[1] \notin s.redact
    /\ Defaults \in Settings
    /\ Poison \subseteq Entry
    /\ Unwelcome \subseteq Records
    /\ IsFiniteSet(Items) /\ IsFiniteSet(Content)

ASSUME BoundsAssumption ==
    /\ RecordCap \in Nat \ {0} /\ BucketCap \in Nat \ {0}
    /\ SplitBudget \in Nat \ {0}
    /\ MaxChanges \in Nat /\ MaxFaults \in Nat

VARIABLES
    content,    \* companion rows: the current revision of every item
    published,  \* companion rows: the revision last marked published
    rejected,   \* companion rows: records refused, never to be retried
    superseded, \* companion rows: records marked superseded_configuration
    outbox,     \* companion rows: the queued bodies
    cached,     \* companion rows: the cached config document
    phase,      \* what the run that holds the lock is doing
    run,        \* its run id
    ctx,        \* its configuration, fixed by prepare
    carried,    \* coverage of earlier runs it has yet to post
    queue,      \* the bodies it built and has yet to post
    halves,     \* halves of the row being posted, to post before the rest
    budget,     \* splits left for that row: budgets[origin]
    call,       \* the request it is waiting on
    late,       \* requests it gave up on that may still arrive
    ledger,     \* server: every revision it stored
    live,       \* server: the settings and the acceptable bindings now
    observed,   \* history: every revision the companion ever held
    dropped,    \* history: bucket revisions the server passed over
    isolated,   \* history: bucket revisions isolated after a refusal
    owed,       \* history: runs whose built coverage is not recorded yet
    changes, faults

rows == <<content, published, rejected, superseded, outbox, cached>>
process == <<phase, run, ctx, carried, queue, halves, budget, call>>
server == <<ledger, live>>
history == <<observed, dropped, isolated, owed>>
vars == <<rows, process, late, server, history, changes, faults>>

NoCall == [status |-> "none"]
Sent(b) == [status |-> "sent", body |-> b]
Accepted(b, rej) == [status |-> "accepted", body |-> b, rejections |-> rej]
Refused(b) == [status |-> "refused", body |-> b]
Acknowledged(b) == [status |-> "acknowledged", body |-> b]

Call == {NoCall}
        \cup [status: {"sent", "refused", "acknowledged"}, body: Body]
        \cup [status: {"accepted"}, body: Body, rejections: SUBSET Records]

Elements(s) == {s[k] : k \in DOMAIN s}
ToPost == carried \cup Elements(queue) \cup Elements(halves)
RecordsIn(b) == {e[1] : e \in b.entries} \cap Records
RecordEntries(b) == {e \in b.entries : e[1] \in Records}
BucketEntries(b) == {e \in b.entries : e[1] \in Buckets}

Init ==
    /\ content = [i \in Items |-> None]
    /\ published = [i \in Items |-> None]
    /\ rejected = {} /\ superseded = {}
    /\ outbox = {}
    /\ cached = None
    /\ phase = "idle" /\ run = None /\ ctx = None
    /\ carried = {} /\ queue = <<>> /\ halves = <<>>
    /\ budget = 0
    /\ call = NoCall
    /\ late = {}
    /\ ledger = {}
    /\ live \in {[settings |-> s, open |-> Bindings] : s \in Settings}
    /\ observed = {} /\ dropped = {} /\ isolated = {} /\ owed = {}
    /\ changes = 0 /\ faults = 0

-----------------------------------------------------------------------------
(* The run: prepare, collect, rebuild the outbox.                          *)

CarriedRuns == {b.run : b \in outbox \cup late}

\* prepare with the lock held.  The document is fetched, or the cached one is
\* used, or with no cache the defaults and the local bindings are.
StartRun(r) ==
    /\ phase = "idle"
    /\ r \notin CarriedRuns
    /\ phase' = "collect"
    /\ run' = r
    /\ \/ /\ ctx' = live
          /\ cached' = live
          /\ UNCHANGED faults
       \/ /\ faults < MaxFaults
          /\ faults' = faults + 1
          /\ ctx' = IF cached = None THEN StartingConfig ELSE cached
          /\ UNCHANGED cached
    /\ UNCHANGED <<content, published, rejected, superseded, outbox, carried,
                   queue, halves, budget, call, late, server, history, changes>>

\* An adapter of a runnable binding stores a revision, stamped with the
\* configuration of this run.  Publication and rejection marks survive; only
\* superseded_configuration is lifted, which alone makes a re-emission of the
\* same content a change.
Collect(i, c) ==
    /\ phase = "collect"
    /\ changes < MaxChanges
    /\ BindingOf[i] \in ctx.open
    /\ <<i, c>> \notin ctx.settings.stale
    /\ content[i] # c \/ i \in superseded
    /\ content' = [content EXCEPT ![i] = c]
    /\ superseded' = superseded \ {i}
    /\ observed' = observed \cup {<<i, c>>}
    /\ changes' = changes + 1
    /\ UNCHANGED <<published, rejected, outbox, cached, process, late, server,
                   dropped, isolated, owed, faults>>

\* Fault: rejection is forgotten and the record is pending again.
PendingThoughRejected ==
    {i \in Records \ superseded : content[i] # None /\ content[i] # published[i]}

\* Fault: a record published once is never pending again.
PendingOnce ==
    {i \in Records \ (rejected \cup superseded) :
        content[i] # None /\ published[i] = None}

\* pending_records_after: unpublished content that was never rejected.
PendingRecords ==
    {i \in Records \ (rejected \cup superseded) :
        content[i] # None /\ content[i] # published[i]}

\* Pending rows an older resource configuration stamped; they never leave.
StaleRecords == {i \in PendingRecords : <<i, content[i]>> \in ctx.settings.stale}

\* The row as the privacy settings of this run rewrite it in place.
Revised(i) ==
    IF i \in (PendingRecords \ StaleRecords) \cap ctx.settings.redact
      THEN Redact[content[i]]
      ELSE content[i]

\* What may leave now: buckets of runnable bindings whose digest changed since
\* the last receipt, and the pending records the settings admit.
Outgoing ==
    {<<i, Revised(i)>> : i \in (PendingRecords \ StaleRecords) \ ctx.settings.hold}
    \cup
    {<<i, content[i]>> :
        i \in {b \in Buckets : /\ content[b] # None
                               /\ content[b] # published[b]
                               /\ BindingOf[b] \in ctx.open}}

\* The ways build_bodies may lay the outgoing entries out in n bodies.  Which
\* entries share a body follows row order and size in bytes; kept are the caps
\* and that only the first body may be empty, when nothing is to be sent.
Layouts(n) ==
    {place \in [Outgoing -> 1..n] :
        \A k \in 1..n :
            LET placed == {e \in Outgoing : place[e] = k} IN
            /\ placed = {} => Outgoing = {}
            /\ Cardinality({e \in placed : e[1] \in Records}) <= RecordCap
            /\ Cardinality({e \in placed : e[1] \in Buckets}) <= BucketCap}

\* The bodies of one layout: the first carries the coverage of the run.
Bodies(n, place) ==
    [k \in 1..n |-> [run |-> run, coverage |-> k = 1,
                     entries |-> {e \in Outgoing : place[e] = k}]]

\* Fault: the bodies of earlier runs are carried over whole.
WholeBody(b) == b

CoverageOnly(b) == [b EXCEPT !.entries = {}]

\* The privacy policy of this run on some of the pending rows, one at a time:
\* redacted rows are rewritten, stale ones marked superseded.
Revise(done) ==
    /\ content' = [i \in Items |-> IF i \in done THEN Revised(i) ELSE content[i]]
    /\ observed' = observed \cup {<<i, Revised(i)>> : i \in done \cap ctx.settings.redact}
    /\ superseded' = superseded \cup (done \cap StaleRecords)

\* The pending rows are revised and built into bodies; one transaction replaces
\* the outbox by them and the coverage of earlier runs; upload reads it back.
Rebuild ==
    /\ phase = "collect"
    /\ phase' = "upload"
    /\ Revise(PendingRecords)
    /\ carried' = {CoverageOnly(b) : b \in {x \in outbox : x.coverage}}
    /\ \E n \in 1..(Cardinality(Outgoing) + 1) : \E place \in Layouts(n) :
          queue' = Bodies(n, place)
    /\ outbox' = carried' \cup Elements(queue')
    /\ owed' = owed \cup {run}
    /\ UNCHANGED <<published, rejected, cached, run, ctx, halves, budget, call,
                   late, server, dropped, isolated, changes, faults>>

-----------------------------------------------------------------------------
(* upload                                                                  *)

\* Pop the next body and post it.  The halves of a refused row come before the
\* rows after it, the coverage of earlier runs before the bodies of this one;
\* a row starts with a full split budget, its halves share what is left.
Post ==
    /\ phase = "upload"
    /\ call = NoCall
    /\ \/ /\ halves # <<>>
          /\ call' = Sent(Head(halves))
          /\ halves' = Tail(halves)
          /\ UNCHANGED <<carried, queue, budget>>
       \/ /\ halves = <<>>
          /\ \E b \in carried : call' = Sent(b) /\ carried' = carried \ {b}
          /\ budget' = SplitBudget
          /\ UNCHANGED <<queue, halves>>
       \/ /\ halves = <<>> /\ carried = {} /\ queue # <<>>
          /\ call' = Sent(Head(queue))
          /\ queue' = Tail(queue)
          /\ budget' = SplitBudget
          /\ UNCHANGED <<carried, halves>>
    /\ UNCHANGED <<rows, phase, run, ctx, late, server, history, changes, faults>>

\* The receipt came back: mark what was published and what was rejected, in
\* one transaction.
Acknowledge ==
    /\ call.status = "accepted"
    /\ LET sent == call.body.entries IN
       published' = [i \in Items |->
           IF i \notin call.rejections /\ \E e \in sent : e[1] = i
             THEN (CHOOSE e \in sent : e[1] = i)[2]
             ELSE published[i]]
    /\ rejected' = rejected \cup call.rejections
    /\ call' = Acknowledged(call.body)
    /\ UNCHANGED <<content, superseded, outbox, cached, phase, run, ctx, carried,
                   queue, halves, budget, late, server, history, changes, faults>>

\* Only then is the row deleted, outside that transaction.
DeleteAcknowledged ==
    /\ call.status = "acknowledged"
    /\ outbox' = outbox \ {call.body}
    /\ call' = NoCall
    /\ UNCHANGED <<content, published, rejected, superseded, cached, phase, run,
                   ctx, carried, queue, halves, budget, late, server, history,
                   changes, faults>>

\* Fault: the second half is the whole of the body.
WholeTail(b) == {b.entries}

\* The tails of a refused body: everything but the coverage, else the second
\* half of its records or of its buckets, whichever are more.
Tails(b) ==
    LET larger == IF Cardinality(RecordEntries(b)) >= Cardinality(BucketEntries(b))
                    THEN RecordEntries(b) ELSE BucketEntries(b)
    IN  IF b.coverage
          THEN {b.entries}
          ELSE {t \in SUBSET larger :
                   Cardinality(t) = Cardinality(larger) - (Cardinality(larger) \div 2)}

\* Fault: coverage does not count as a part of its own.
SplittableEntries(b) == Cardinality(b.entries) > 1

Splittable(b) == b.entries # {} /\ (b.coverage \/ Cardinality(b.entries) > 1)

\* A refused body with budget left: the row is replaced by its two halves,
\* which are posted next.
Split ==
    /\ call.status = "refused"
    /\ Splittable(call.body)
    /\ budget > 0
    /\ budget' = budget - 1
    /\ \E tail \in Tails(call.body) :
          LET left == [call.body EXCEPT !.entries = @ \ tail]
              right == [call.body EXCEPT !.coverage = FALSE, !.entries = tail]
          IN  /\ outbox' = (outbox \ {call.body}) \cup {left, right}
              /\ halves' = <<left, right>> \o halves
    /\ call' = NoCall
    /\ UNCHANGED <<content, published, rejected, superseded, cached, phase, run,
                   ctx, carried, queue, late, server, history, changes, faults>>

\* Fault: the row out of budget is given up.
DeferAndForget ==
    /\ call.status = "refused"
    /\ Cardinality(call.body.entries) > 1
    /\ budget = 0
    /\ outbox' = outbox \ {call.body}
    /\ call' = NoCall
    /\ UNCHANGED <<content, published, rejected, superseded, cached, phase, run,
                   ctx, carried, queue, halves, budget, late, server, history,
                   changes, faults>>

\* Fault: the row out of budget is posted again at once.
DeferAndRetry ==
    /\ call.status = "refused"
    /\ Cardinality(call.body.entries) > 1
    /\ budget = 0
    /\ halves' = <<call.body>> \o halves
    /\ call' = NoCall
    /\ UNCHANGED <<rows, phase, run, ctx, carried, queue, budget, late, server,
                   history, changes, faults>>

\* A refused body of several items without budget keeps its row for the next run.
Defer ==
    /\ call.status = "refused"
    /\ Cardinality(call.body.entries) > 1
    /\ budget = 0
    /\ call' = NoCall
    /\ UNCHANGED <<rows, phase, run, ctx, carried, queue, halves, budget, late,
                   server, history, changes, faults>>

\* A refused body of at most one item: a record is marked rejected, a bucket is
\* marked published at its refused digest, and the row goes with the mark.
Isolate ==
    /\ call.status = "refused"
    /\ Cardinality(call.body.entries) <= 1
    /\ ~ (Splittable(call.body) /\ budget > 0)
    /\ published' = [i \in Items |->
           IF i \in Buckets /\ \E e \in call.body.entries : e[1] = i
             THEN (CHOOSE e \in call.body.entries : e[1] = i)[2]
             ELSE published[i]]
    /\ isolated' = isolated \cup BucketEntries(call.body)
    /\ rejected' = rejected \cup RecordsIn(call.body)
    /\ outbox' = outbox \ {call.body}
    /\ call' = NoCall
    /\ UNCHANGED <<content, superseded, cached, phase, run, ctx, carried, queue,
                   halves, budget, late, server, observed, dropped, owed,
                   changes, faults>>

\* The process of the run is gone; its rows stay.
RunGone ==
    /\ phase' = "idle" /\ run' = None /\ ctx' = None
    /\ carried' = {} /\ queue' = <<>> /\ halves' = <<>>
    /\ budget' = 0
    /\ call' = NoCall

EndRun ==
    /\ phase = "upload"
    /\ call = NoCall
    /\ ToPost = {}
    /\ RunGone
    /\ UNCHANGED <<rows, late, server, history, changes, faults>>

\* A request unanswered when its run ends may still reach the server.
Abandoned ==
    \/ UNCHANGED late
    \/ call.status = "sent" /\ late' = late \cup {call.body}

\* A transport failure, a timeout, 401, 403, 408, 429, 5xx or an unreadable
\* receipt stops the run and retains the queue.
RequestFails ==
    /\ call.status = "sent"
    /\ faults < MaxFaults
    /\ faults' = faults + 1
    /\ RunGone
    /\ Abandoned
    /\ UNCHANGED <<rows, server, history, changes>>

\* The process dies; the operating system releases the run lock.
Crash ==
    /\ phase # "idle"
    /\ faults < MaxFaults
    /\ faults' = faults + 1
    /\ RunGone
    /\ Abandoned
    /\ UNCHANGED <<rows, server, history, changes>>

\* It dies before Rebuild is done, with some of the rows revised.
CrashWhileRevising ==
    /\ phase = "collect"
    /\ faults < MaxFaults
    /\ faults' = faults + 1
    /\ \E done \in SUBSET PendingRecords : Revise(done)
    /\ RunGone
    /\ UNCHANGED <<published, rejected, outbox, cached, late, server, dropped,
                   isolated, owed, changes>>

-----------------------------------------------------------------------------
(* The server                                                              *)

Welcome(b) == {e \in b.entries : BindingOf[e[1]] \in live.open /\ e[1] \notin Unwelcome}

\* ingestUsage in one transaction: entries of acceptable bindings are stored
\* once, records of the others are rejected, buckets of the others passed over,
\* and the coverage of the run is recorded from a body that carries it.
Ingest(b) ==
    /\ ledger' = ledger \cup Welcome(b)
    /\ dropped' = dropped \cup (BucketEntries(b) \ Welcome(b))
    /\ owed' = IF b.coverage THEN owed \ {b.run} ELSE owed
    /\ UNCHANGED <<live, observed, isolated>>

\* Fault: the receipt does not name the records of closed bindings.
RejectionsOfUnwelcome(b) == RecordsIn(b) \cap Unwelcome

\* Fault: the receipt names buckets among the rejected records.
RejectionsOfAll(b) == {e[1] : e \in b.entries \ Welcome(b)}

Rejections(b) == {e[1] : e \in RecordEntries(b) \ Welcome(b)}

ServerAccepts ==
    /\ call.status = "sent"
    /\ call.body.entries \cap Poison = {}
    /\ Ingest(call.body)
    /\ call' = Accepted(call.body, Rejections(call.body))
    /\ UNCHANGED <<rows, phase, run, ctx, carried, queue, halves, budget, late,
                   changes, faults>>

ServerRefuses ==
    /\ call.status = "sent"
    /\ call.body.entries \cap Poison # {}
    /\ call' = Refused(call.body)
    /\ UNCHANGED <<rows, phase, run, ctx, carried, queue, halves, budget, late,
                   server, history, changes, faults>>

\* A request whose client is gone arrives after all, or never does.
LateArrival ==
    \E b \in late :
        /\ late' = late \ {b}
        /\ \/ b.entries \cap Poison = {} /\ Ingest(b)
           \/ UNCHANGED <<server, history>>
        /\ UNCHANGED <<rows, process, changes, faults>>

\* The owner edits the settings, or a binding is disabled, re-enabled, reset
\* or confirmed again.
OwnerChanges ==
    /\ changes < MaxChanges
    /\ changes' = changes + 1
    /\ live' \in Config \ {live}
    /\ UNCHANGED <<rows, process, late, ledger, history, faults>>

-----------------------------------------------------------------------------
RunStep ==
    \/ \E r \in Runs : StartRun(r)
    \/ Rebuild
    \/ Post
    \/ Acknowledge
    \/ DeleteAcknowledged
    \/ Split
    \/ Defer
    \/ Isolate
    \/ EndRun

ServerStep == ServerAccepts \/ ServerRefuses

Next ==
    \/ RunStep
    \/ ServerStep
    \/ \E i \in Items, c \in Content : Collect(i, c)
    \/ RequestFails
    \/ Crash
    \/ CrashWhileRevising
    \/ LateArrival
    \/ OwnerChanges

Spec == Init /\ [][Next]_vars

\* The schedule starts runs again and again, a run goes on, and the server
\* answers what reaches it.  Nothing is assumed of what the user or the owner
\* does, and nothing of a request the client gave up on.
FairSpec == Spec /\ WF_vars(RunStep) /\ WF_vars(ServerStep)

-----------------------------------------------------------------------------
(* Properties                                                              *)

RowsOK ==
    /\ content \in [Items -> Content \cup {None}]
    /\ published \in [Items -> Content \cup {None}]
    /\ rejected \subseteq Records
    /\ superseded \subseteq Records
    /\ outbox \subseteq Body
    /\ cached \in Config \cup {None}

RunOK ==
    /\ phase \in {"idle", "collect", "upload"}
    /\ run \in IF phase = "idle" THEN {None} ELSE Runs
    /\ ctx \in IF phase = "idle" THEN {None} ELSE Config
    /\ carried \subseteq Body
    /\ queue \in Seq(Body)
    /\ halves \in Seq(Body)
    /\ budget \in 0..SplitBudget
    /\ call \in Call
    /\ phase # "upload" =>
          carried = {} /\ queue = <<>> /\ halves = <<>> /\ call = NoCall

ServerOK ==
    /\ late \subseteq Body
    /\ ledger \subseteq Entry
    /\ live \in Config
    /\ observed \subseteq Entry
    /\ dropped \subseteq Entry
    /\ isolated \subseteq Entry
    /\ owed \subseteq Runs
    /\ changes \in 0..MaxChanges
    /\ faults \in 0..MaxFaults

\* Every variable has its type, and there is a run id, a context and bodies to
\* post only while there is a run to use them.
TypeOK == RowsOK /\ RunOK /\ ServerOK

\* Whatever is lost, repeated, split or interrupted, a record is marked
\* published only at a revision the server stored, and a bucket only at one it
\* stored, passed over with its receipt, or refused alone: the marks decide what
\* is never sent again (acknowledge and isolate in outbox.rs).
MarkedIsSettled ==
    \A i \in Items :
        published[i] # None =>
            \/ <<i, published[i]>> \in ledger
            \/ i \in Buckets /\ <<i, published[i]>> \in dropped \cup isolated

\* What upload documents: it marks "what the server acknowledged".  A bucket
\* marked published, other than one isolated after a refusal, is on the server.
MarkedBucketsAreStored ==
    \A b \in Buckets :
        published[b] # None => <<b, published[b]>> \in ledger \cup isolated

\* The bodies of a run up to their receipt.
Posting ==
    ToPost \cup
    IF call.status \in {"sent", "accepted", "refused"} THEN {call.body} ELSE {}

Admitted(b) ==
    \A e \in b.entries :
        IF e[1] \in Buckets
          THEN BindingOf[e[1]] \in ctx.open
          ELSE /\ e[1] \notin ctx.settings.hold
               /\ e[1] \in ctx.settings.redact => Redact[e[2]] = e[2]
               /\ e \notin ctx.settings.stale

\* A run posts nothing its own settings keep home: no record they hold, none
\* unredacted that they redact, none stamped by an older resource configuration
\* and no bucket of a binding that is not runnable, though the outbox it found
\* was built under other settings (execute and
\* rebuild_outbox_preserving_coverage in run.rs).
PostsAreAdmitted == \A b \in Posting : Admitted(b)

\* A record the server rejected or refused is in no body still to be posted,
\* whatever was split or rebuilt meanwhile ("never retried", outbox.rs).
RejectedIsNeverRetried == \A b \in Posting : RecordsIn(b) \cap rejected = {}

\* While a run uploads, every entry it still owes the server is in a body of
\* the outbox: no split, deferral or isolation loses one (upload in outbox.rs).
NothingFallsOut ==
    phase = "upload" =>
        \A e \in Outgoing : \E b \in outbox : e \in b.entries

\* The coverage a run built stays in the outbox until the server recorded it:
\* rebuilds, splits and isolation never drop the evidence of an offline run.
CoverageIsKept == \A r \in owed : \E b \in outbox : b.run = r /\ b.coverage

\* A refused body never stops the run: every upload ends, by itself or by a
\* fault, and the lock is free again.
RunsEnd == phase # "idle" ~> phase = "idle"

Delivered(i) ==
    \/ content[i] = None
    \/ <<i, content[i]>> \in ledger \cup dropped \cup isolated
    \/ i \in rejected \cup superseded
    \/ i \in Buckets /\ BindingOf[i] \notin live.open
    \/ i \in live.settings.hold

\* Once the user, the owner and the network come to rest, everything the
\* settings admit reaches the server or is refused on its own: nothing is stuck
\* behind a refused body, a lost receipt or an interrupted run.
EverythingIsDelivered == <>[](\A i \in Items : Delivered(i))

\* What delivery promises whoever reads the marks: see Publication.
Promise == INSTANCE Publication WITH
    stored <- ledger,
    waived <- dropped \cup isolated,
    mark <- published,
    refused <- rejected

ImplementsPublication == Promise!Spec
=============================================================================
