------------------------------- MODULE PrWatch -------------------------------
(***************************************************************************)
(* Review watches: the rows on the site (pr-watch-store.ts), the runner    *)
(* that ticks on the owner's machine (pr-watch.mjs, decide in              *)
(* pr-watch-core.mjs), the pull requests, which change between any two of  *)
(* its reads, and the background sessions it starts and never waits for.   *)
(*                                                                         *)
(* A commit is its number in the pushes of its pull request, a review is   *)
(* the commit it covers, a session is its number in the order of launches. *)
(***************************************************************************)
EXTENDS Integers, Sequences, FiniteSets

CONSTANTS
    Watches,    \* watches the owner may add, numbered in the order of adding
    Pulls,
    PullOf,     \* the pull request of every watch
    ActiveCap,  \* MAX_ACTIVE_WATCHES
    SlotCap,    \* max_concurrent
    None,       \* nothing yet, and a field that a report leaves out
    MaxPushes,  \* bound on pushes and closings
    MaxActs,    \* bound on what the owner does
    MaxFaults   \* bound on crashes and failed calls

\* A launch as the state file keeps it.
Pending == [session: Nat, target: Nat, since: Nat, print: Nat]

ASSUME WatchAssumption ==
    /\ Watches \subseteq Nat \ {0} /\ IsFiniteSet(Watches)
    /\ PullOf \in [Watches -> Pulls]
    /\ ActiveCap \in Nat \ {0} /\ SlotCap \in Nat \ {0}
    /\ None \notin Nat \cup Watches \cup Pending \cup {"started", "posted", "failed"}
    /\ MaxPushes \in Nat /\ MaxActs \in Nat /\ MaxFaults \in Nat

VARIABLES
    pushes,   \* GitHub: what every push to a pull request was
    reviews,  \* GitHub: the AI reviews of the owner, oldest first
    open,     \* GitHub: the pull requests neither merged nor closed
    rows,     \* site: the row of every watch
    launched, \* pr-watch-state.json: launches the site has not confirmed
    step,     \* what the tick does next; "none" between ticks
    todo,     \* watches of its list it has not come to
    listed,   \* the rows as the site listed them
    slots,    \* launches it may still make
    agents,   \* sessions `claude agents` called finished, once it was asked
    current,  \* the watch it is at
    seen,     \* the pull request as pull() returned it
    plan,     \* the report and the action it decided on
    sessions, \* every session launched
    strays,   \* history: sessions nobody keeps track of any more
    changes, acts, faults

github == <<pushes, reviews, open>>
volatile == <<step, todo, listed, slots, agents, current, seen, plan>>
vars == <<github, rows, launched, volatile, sessions, strays, changes, acts, faults>>

PushKind == {"edit", "rebase", "foreign"}

HeadOf(p) == Len(pushes[p])
\* diffFingerprint: what changes the diff changes it, a rebase does not.
Diff(p, n) == Cardinality({k \in 1..n : pushes[p][k] # "rebase"})
\* newCommits and isAuthorCommit: has the author pushed between two heads?
AuthorPushed(p, from, to) == \E k \in from + 1..to : pushes[p][k] # "foreign"

Absent ==
    [status |-> "absent", state |-> "idle", session |-> None, since |-> None,
     head |-> None, print |-> None, reviewed |-> None, requested |-> FALSE]

Nothing ==
    [event |-> None, session |-> None, since |-> None, head |-> None,
     print |-> None, reviewed |-> None, closed |-> FALSE]
NoAction == [type |-> "none", target |-> None]
StopSession == [type |-> "stop", target |-> None]
Review(n) == [type |-> "review", target |-> n]
NoPlan == [report |-> Nothing, action |-> NoAction]

\* Fault: only live watches are listed.
LiveOnly == {w \in Watches : rows[w].status = "watching"}

\* runnerWork: also a watch stopped while its session runs.
Listable == {w \in Watches : rows[w].status = "watching" \/ rows[w].state = "running"}
Live(p) == {w \in Watches : rows[w].status = "watching" /\ PullOf[w] = p}
Ended == {s \in DOMAIN sessions : sessions[s].state = "ended"}

Between ==
    /\ step' = "none" /\ todo' = {} /\ listed' = None /\ slots' = 0
    /\ agents' = None /\ current' = None /\ seen' = None /\ plan' = NoPlan

Init ==
    /\ pushes = [p \in Pulls |-> <<"edit">>]
    /\ reviews \in [Pulls -> {<<>>, <<1>>}]
    /\ open = Pulls
    /\ rows = [w \in Watches |-> Absent]
    /\ launched = [w \in Watches |-> None]
    /\ step = "none" /\ todo = {} /\ listed = None /\ slots = 0
    /\ agents = None /\ current = None /\ seen = None /\ plan = NoPlan
    /\ sessions = <<>> /\ strays = {}
    /\ changes = 0 /\ acts = 0 /\ faults = 0

-----------------------------------------------------------------------------
(* GitHub, the owner and the sessions                                      *)

Push(p, kind) ==
    /\ p \in open /\ changes < MaxPushes
    /\ changes' = changes + 1
    /\ pushes' = [pushes EXCEPT ![p] = Append(@, kind)]
    /\ UNCHANGED <<reviews, open, rows, launched, volatile, sessions, strays,
                   acts, faults>>

Close(p) ==
    /\ p \in open /\ changes < MaxPushes
    /\ changes' = changes + 1
    /\ open' = open \ {p}
    /\ UNCHANGED <<pushes, reviews, rows, launched, volatile, sessions, strays,
                   acts, faults>>

OwnerActs ==
    /\ acts < MaxActs
    /\ acts' = acts + 1
    /\ UNCHANGED <<github, launched, volatile, sessions, strays, changes, faults>>

\* A new row, unless the pull request has a live watch or the cap is reached;
\* the advisory lock makes the check and the insert one step.
Add(w) ==
    /\ OwnerActs
    /\ rows[w].status = "absent"
    /\ \A v \in Watches : v < w => rows[v].status # "absent"
    /\ Live(PullOf[w]) = {}
    /\ Cardinality({v \in Watches : rows[v].status = "watching"}) < ActiveCap
    /\ rows' = [rows EXCEPT ![w].status = "watching"]

Stop(w) ==
    /\ OwnerActs
    /\ rows[w].status = "watching"
    /\ rows' = [rows EXCEPT ![w].status = "stopped", ![w].requested = FALSE]

ReviewNow(w) ==
    /\ OwnerActs
    /\ rows[w].status = "watching" /\ rows[w].state # "running"
    /\ rows' = [rows EXCEPT ![w].requested = TRUE]

SessionStep ==
    UNCHANGED <<pushes, open, rows, launched, volatile, strays, changes, acts, faults>>

\* A session reviews the head it finds once it is at work, and then ends.
PostReview(s, n) ==
    LET p == PullOf[sessions[s].watch] IN
    /\ SessionStep
    /\ sessions[s].state \in {"working", "overdue"}
    /\ n \in sessions[s].target..HeadOf(p)
    /\ reviews' = [reviews EXCEPT ![p] = Append(@, n)]
    /\ sessions' = [sessions EXCEPT ![s].state = "posted"]

EndSession(s) ==
    /\ SessionStep
    /\ sessions[s].state # "ended"
    /\ sessions' = [sessions EXCEPT ![s].state = "ended"]
    /\ UNCHANGED reviews

\* review_timeout_minutes have passed for the session a row waits for.
Overdue(w) ==
    /\ SessionStep
    /\ rows[w].state = "running"
    /\ sessions[rows[w].session].state = "working"
    /\ sessions' = [sessions EXCEPT ![rows[w].session].state = "overdue"]
    /\ UNCHANGED reviews

-----------------------------------------------------------------------------
(* The tick                                                                *)

\* The list is read once.  Launches of watches no longer in it are forgotten,
\* and the sessions it calls running take their slots.
StartTick ==
    /\ step = "none"
    /\ Listable # {}
    /\ step' = "next"
    /\ todo' = Listable
    /\ listed' = rows
    /\ slots' = SlotCap - Cardinality({w \in Listable : rows[w].state = "running"})
    /\ launched' = [w \in Watches |-> IF w \in Listable THEN launched[w] ELSE None]
    /\ UNCHANGED <<github, rows, agents, current, seen, plan, sessions, strays,
                   changes, acts, faults>>

NextWatch(w) ==
    /\ step = "next"
    /\ w \in todo /\ \A v \in todo : w <= v
    /\ todo' = todo \ {w}

\* pull() is the first of its reads.  A launch the site has since confirmed is
\* struck from the file before.
Look(w) ==
    /\ NextWatch(w)
    /\ launched[w] # None => listed[w].state = "running"
    /\ launched' = [launched EXCEPT ![w] = None]
    /\ step' = "decide"
    /\ current' = w
    /\ seen' = [head |-> HeadOf(PullOf[w]), open |-> PullOf[w] \in open]
    /\ UNCHANGED <<github, rows, listed, slots, agents, plan, sessions, strays,
                   changes, acts, faults>>

\* What report() makes of a row: a conditional update that does nothing when
\* a session may not start, or none is running to finish.
Takes(row, r) ==
    /\ r.event = "started" => row.status = "watching" /\ row.state # "running"
    /\ r.event \in {"posted", "failed"} => row.state = "running"

Or(new, old) == IF new = None THEN old ELSE new

Reported(row, r) ==
    [row EXCEPT
        !.status = IF @ = "watching" /\ r.closed THEN "closed" ELSE @,
        !.state = CASE r.event = "started" -> "running"
                    [] r.event = "posted" -> "idle"
                    [] r.event = "failed" -> "failed"
                    [] OTHER -> @,
        !.session = Or(r.session, @),
        !.since = Or(r.since, @),
        !.head = Or(r.head, @),
        !.print = Or(r.print, @),
        !.reviewed = Or(r.reviewed, @),
        !.requested = @ /\ r.event # "started"]

\* Fault: the launch is reported again without its session.
StartedUnnamed(w) ==
    [Nothing EXCEPT !.event = "started", !.since = launched[w].since,
                    !.head = launched[w].target, !.print = launched[w].print]

\* Fault: the launch is reported again without the head it takes on.
StartedHeadless(w) ==
    [Nothing EXCEPT !.event = "started", !.session = launched[w].session,
                    !.since = launched[w].since]

Started(w) ==
    [Nothing EXCEPT !.event = "started", !.session = launched[w].session,
                    !.since = launched[w].since, !.head = launched[w].target,
                    !.print = launched[w].print]

\* The site has the report, or refuses it; and the runner knows, or does not.
Deliver(w, r, known) ==
    /\ \/ rows' = IF Takes(rows[w], r)
                    THEN [rows EXCEPT ![w] = Reported(@, r)] ELSE rows
       \/ ~ known /\ UNCHANGED rows
    /\ IF known THEN UNCHANGED faults
                ELSE faults < MaxFaults /\ faults' = faults + 1

\* A launch the site has not confirmed is reported again and nothing else is
\* done with the watch; a 409 counts as confirmed.
ReportAgain(w) ==
    /\ NextWatch(w)
    /\ launched[w] # None /\ listed[w].state # "running"
    /\ \E known \in BOOLEAN :
          /\ Deliver(w, Started(w), known)
          /\ launched' = IF known THEN [launched EXCEPT ![w] = None] ELSE launched
          /\ slots' = IF known THEN slots - 1 ELSE slots
    /\ UNCHANGED <<github, step, listed, agents, current, seen, plan, sessions,
                   strays, changes, acts>>

\* A running session is judged by the agent list, which is read once a tick.
ReadAgents ==
    /\ step = "decide"
    /\ listed[current].state = "running"
    /\ agents = None
    /\ agents' = Ended
    /\ UNCHANGED <<github, rows, launched, step, todo, listed, slots, current,
                   seen, plan, sessions, strays, changes, acts, faults>>

Idle(report) == [report |-> report, action |-> NoAction]

\* Fault: the head is taken on though the review has to wait for a slot.
HeadBeforeSlot(report, fingerprint) ==
    LET taken == [report EXCEPT !.head = seen.head, !.print = fingerprint] IN
    IF slots > 0 THEN [report |-> taken, action |-> Review(seen.head)] ELSE Idle(taken)

\* start(): the head of the pull request is taken on only when a slot is free.
Starting(report, fingerprint) ==
    IF slots > 0
      THEN [report |-> [report EXCEPT !.head = seen.head, !.print = fingerprint],
            action |-> Review(seen.head)]
      ELSE Idle(report)

DecideRunning(row, p, fingerprint) ==
    LET ended == row.session \in agents
        late == sessions[row.session].state = "overdue"
        posted == Len(reviews[p]) > row.since
        last == reviews[p][Len(reviews[p])]
    IN  CASE posted ->
               [report |-> IF last = seen.head
                             THEN [Nothing EXCEPT !.event = "posted", !.reviewed = last,
                                      !.head = seen.head, !.print = fingerprint]
                             ELSE [Nothing EXCEPT !.event = "posted", !.reviewed = last],
                action |-> IF ended THEN NoAction ELSE StopSession]
          [] ~ posted /\ ended -> Idle([Nothing EXCEPT !.event = "failed"])
          [] ~ posted /\ ~ ended /\ late ->
               [report |-> [Nothing EXCEPT !.event = "failed"], action |-> StopSession]
          [] ~ posted /\ ~ ended /\ ~ late -> Idle(Nothing)

Baseline(p) ==
    IF reviews[p] = <<>> THEN Nothing
    ELSE [Nothing EXCEPT !.reviewed = reviews[p][Len(reviews[p])]]

Watching(report, fingerprint) ==
    Idle([report EXCEPT !.head = seen.head, !.print = fingerprint])

DecideFirst(row, p, fingerprint) ==
    LET base == Baseline(p) IN
    IF \/ row.requested
       \/ base.reviewed # None /\ AuthorPushed(p, base.reviewed, seen.head)
      THEN Starting(base, fingerprint)
      ELSE Watching(base, fingerprint)

\* Fault: an unchanged head is looked at before a request is.
DecideHeadFirst(row, p, fingerprint) ==
    IF seen.head = row.head THEN Idle(Nothing)
    ELSE IF ~ row.requested /\ (fingerprint = row.print
                                 \/ ~ AuthorPushed(p, row.head, seen.head))
      THEN Watching(Nothing, fingerprint)
      ELSE Starting(Nothing, fingerprint)

DecideNext(row, p, fingerprint) ==
    CASE row.requested -> Starting(Nothing, fingerprint)
      [] ~ row.requested /\ seen.head = row.head -> Idle(Nothing)
      [] ~ row.requested /\ seen.head # row.head ->
           IF fingerprint = row.print \/ ~ AuthorPushed(p, row.head, seen.head)
             THEN Watching(Nothing, fingerprint)
             ELSE Starting(Nothing, fingerprint)

\* decide, for the pull request it has seen, with the diff and the reviews as
\* they are by now.
Decide ==
    LET row == listed[current]
        p == PullOf[current]
        fingerprint == Diff(p, HeadOf(p))
    IN  /\ step = "decide"
        /\ row.state = "running" => agents # None
        /\ step' = "act"
        /\ plan' = CASE row.state = "running" -> DecideRunning(row, p, fingerprint)
                     [] row.state # "running" /\ ~ seen.open ->
                          Idle([Nothing EXCEPT !.closed = TRUE])
                     [] row.state # "running" /\ seen.open ->
                          IF row.head = None THEN DecideFirst(row, p, fingerprint)
                                             ELSE DecideNext(row, p, fingerprint)
        /\ UNCHANGED <<github, rows, launched, todo, listed, slots, agents,
                       current, seen, sessions, strays, changes, acts, faults>>

\* claude stop; a failure is logged and the report goes out all the same.
StopAction ==
    /\ step = "act" /\ plan.action.type = "stop"
    /\ LET s == listed[current].session IN
       \/ /\ sessions' = [sessions EXCEPT ![s].state = "ended"]
          /\ UNCHANGED <<strays, faults>>
       \/ /\ faults < MaxFaults
          /\ faults' = faults + 1
          /\ strays' = strays \cup {s}
          /\ UNCHANGED sessions
    /\ step' = "report"
    /\ UNCHANGED <<github, rows, launched, todo, listed, slots, agents, current,
                   seen, plan, changes, acts>>

NewSession ==
    [watch |-> current, target |-> plan.action.target,
     since |-> Len(reviews[PullOf[current]]),
     asked |-> listed[current].requested,
     state |-> "working"]

\* claude --bg has started the session, of which nothing is written down yet.
Launch ==
    /\ step = "act" /\ plan.action.type = "review"
    /\ sessions' = Append(sessions, NewSession)
    /\ step' = "record"
    /\ slots' = slots - 1
    /\ UNCHANGED <<github, rows, launched, todo, listed, agents, current, seen,
                   plan, strays, changes, acts, faults>>

\* Fault: the report takes the head on all the same.
HeadTakenOn == Idle(plan.report)

\* The report after a launch that failed leaves the head where it was.
HeadLeft == Idle(Nothing)

\* claude --bg has started nothing, or a session without saying so.
LaunchFails ==
    /\ step = "act" /\ plan.action.type = "review"
    /\ faults < MaxFaults
    /\ faults' = faults + 1
    /\ \/ UNCHANGED <<sessions, strays>>
       \/ /\ sessions' = Append(sessions, NewSession)
          /\ strays' = strays \cup {Len(sessions')}
    /\ step' = "report"
    /\ plan' = HeadLeft
    /\ UNCHANGED <<github, rows, launched, todo, listed, slots, agents, current,
                   seen, changes, acts>>

\* Fault: nothing is written before the site has the report.
RecordedLater(s) == launched

Recorded(s) ==
    [launched EXCEPT ![current] =
        [session |-> s, target |-> plan.action.target,
         since |-> sessions[s].since, print |-> plan.report.print]]

\* The launch is written to the state file.
Record ==
    LET s == Len(sessions) IN
    /\ step = "record"
    /\ launched' = Recorded(s)
    /\ plan' = [plan EXCEPT !.report.event = "started", !.report.session = s,
                            !.report.since = sessions[s].since]
    /\ step' = "report"
    /\ UNCHANGED <<github, rows, todo, listed, slots, agents, current, seen,
                   sessions, strays, changes, acts, faults>>

ToNextWatch ==
    /\ step' = "next"
    /\ current' = None /\ seen' = None /\ plan' = NoPlan

\* Fault: the launch is struck from the file whatever comes of its report.
Struck(w, known) == [launched EXCEPT ![w] = None]

Confirmed(w, known) ==
    IF known THEN [launched EXCEPT ![w] = None] ELSE launched

\* The report goes out; only an answer strikes the launch from the file, and a
\* 409 is an error here.
Report ==
    /\ step = "report" \/ (step = "act" /\ plan.action.type = "none")
    /\ ToNextWatch
    /\ \E known \in BOOLEAN :
          /\ Deliver(current, plan.report, known)
          /\ launched' = Confirmed(current, known /\ Takes(rows[current], plan.report))
    /\ UNCHANGED <<github, todo, listed, slots, agents, sessions, strays, changes, acts>>

\* A read fails: the error is reported and the watch is left for the next tick.
ReadFails ==
    /\ step = "decide"
    /\ faults < MaxFaults
    /\ faults' = faults + 1
    /\ ToNextWatch
    /\ UNCHANGED <<github, rows, launched, todo, listed, slots, agents, sessions,
                   strays, changes, acts>>

EndTick ==
    /\ step = "next" /\ todo = {}
    /\ Between
    /\ UNCHANGED <<github, rows, launched, sessions, strays, changes, acts, faults>>

\* The tick dies.  A session launched and not recorded is known to nobody.
Crash ==
    /\ step # "none"
    /\ faults < MaxFaults
    /\ faults' = faults + 1
    /\ strays' = IF step = "record" THEN strays \cup {Len(sessions)} ELSE strays
    /\ Between
    /\ UNCHANGED <<github, rows, launched, sessions, changes, acts>>

-----------------------------------------------------------------------------
TickStep ==
    \/ StartTick
    \/ \E w \in Watches : Look(w) \/ ReportAgain(w)
    \/ ReadAgents
    \/ Decide
    \/ StopAction
    \/ Launch
    \/ Record
    \/ Report
    \/ EndTick

OverdueStep == \E w \in Watches : Overdue(w)

Next ==
    \/ TickStep
    \/ OverdueStep
    \/ \E s \in DOMAIN sessions :
          EndSession(s) \/ \E n \in 1..MaxPushes + 1 : PostReview(s, n)
    \/ \E p \in Pulls : Close(p) \/ \E kind \in PushKind : Push(p, kind)
    \/ \E w \in Watches : Add(w) \/ Stop(w) \/ ReviewNow(w)
    \/ LaunchFails
    \/ ReadFails
    \/ Crash

Spec == Init /\ [][Next]_vars

\* launchd starts tick after tick, a tick goes on, and time passes for sessions.
\* No session is assumed to post or to end, and nothing is assumed of the owner.
FairSpec == Spec /\ WF_vars(TickStep) /\ WF_vars(OverdueStep)

-----------------------------------------------------------------------------
(* Properties                                                              *)

Field == Nat \cup {None}
Row == [status: {"absent", "watching", "stopped", "closed"},
        state: {"idle", "running", "failed"}, session: Field, since: Field,
        head: Field, print: Field, reviewed: Field, requested: BOOLEAN]
Plan == [report: [event: {None, "started", "posted", "failed"}, session: Field,
                  since: Field, head: Field, print: Field, reviewed: Field,
                  closed: BOOLEAN],
         action: [type: {"none", "stop", "review"}, target: Field]]
Session == [watch: Watches, target: Nat, since: Nat, asked: BOOLEAN,
            state: {"working", "overdue", "posted", "ended"}]

\* Every variable has its type; a running row names a session and its start
\* (pr_watches_running_shape), a tick at a watch has seen its pull request, and
\* what it is to start, stop or record exists.
TypeOK ==
    /\ pushes \in [Pulls -> Seq(PushKind)]
    /\ reviews \in [Pulls -> Seq(Nat)]
    /\ open \subseteq Pulls
    /\ rows \in [Watches -> Row]
    /\ \A w \in Watches : rows[w].state = "running" =>
          rows[w].session \in DOMAIN sessions /\ rows[w].since \in Nat
    /\ launched \in [Watches -> Pending \cup {None}]
    /\ \A w \in Watches : launched[w] # None => launched[w].session \in DOMAIN sessions
    /\ step \in {"none", "next", "decide", "act", "record", "report"}
    /\ todo \subseteq Watches
    /\ IF step = "none" THEN listed = None ELSE listed \in [Watches -> Row]
    /\ slots \in Int
    /\ agents = None \/ agents \subseteq DOMAIN sessions
    /\ IF step \in {"none", "next"}
         THEN current = None /\ seen = None /\ plan = NoPlan
         ELSE current \in Watches /\ seen \in [head: Nat, open: BOOLEAN] /\ plan \in Plan
    /\ step = "record" => sessions # <<>> /\ plan.action.type = "review"
    /\ sessions \in Seq(Session)
    /\ strays \subseteq DOMAIN sessions
    /\ changes \in 0..MaxPushes /\ acts \in 0..MaxActs /\ faults \in 0..MaxFaults

\* Sessions of a watch that are at work and that somebody keeps track of.
AtWork(w) ==
    {s \in DOMAIN sessions \ strays : sessions[s].watch = w /\ sessions[s].state # "ended"}

\* However reports are lost and ticks die, a watch has one session at work,
\* not counting those whose launch or stop failed or was never written down
\* (the "three ways" of docs/pr-watch.md).
OneSessionPerWatch == \A w \in Watches : Cardinality(AtWork(w)) <= 1

\* Every session at work is the one its row names, or is recorded for the next
\* tick to report, or is about to be; only of a watch stopped meanwhile not.
SessionsAreTracked ==
    \A w \in Watches : \A s \in AtWork(w) :
        \/ rows[w].state = "running" /\ rows[w].session = s
        \/ launched[w] # None /\ launched[w].session = s
        \/ step = "record" /\ s = Len(sessions)
        \/ rows[w].status = "stopped"

\* No head is reviewed twice for a watch unless the owner asked for it.
HeadsReviewedOnce ==
    \A s, t \in DOMAIN sessions \ strays :
        s < t /\ sessions[s].watch = sessions[t].watch
              /\ sessions[s].target = sessions[t].target => sessions[t].asked

\* A running row is finished in the end: its session posts, ends or is stopped,
\* also when the owner stopped the watch.
RunningEnds ==
    \A w \in Watches : rows[w].state = "running" ~> rows[w].state # "running"

\* Review now has a review started, or the watch ends.
RequestsAreAnswered ==
    \A w \in Watches :
        rows[w].status = "watching" /\ rows[w].requested
            ~> rows[w].status # "watching" \/ ~ rows[w].requested

\* The stored fingerprint is that of a later diff than the stored head.
Torn(w) == rows[w].head # None /\ rows[w].print # Diff(PullOf[w], rows[w].head)

NewEdit(w, n) ==
    /\ rows[w].status = "watching" /\ rows[w].head # None
    /\ n \in rows[w].head + 1..HeadOf(PullOf[w])
    /\ pushes[PullOf[w]][n] = "edit"

Taken(w, n) ==
    \/ rows[w].status # "watching"
    \/ PullOf[w] \notin open
    \/ \E s \in DOMAIN sessions : sessions[s].watch = w /\ sessions[s].target >= n
    \/ \E k \in DOMAIN reviews[PullOf[w]] : reviews[PullOf[w]][k] >= n

\* Every edit the author pushes is reviewed, or a review of it is started.
EveryPushIsReviewed ==
    \A w \in Watches : \A n \in 2..MaxPushes + 1 : NewEdit(w, n) ~> Taken(w, n)

\* And it is, unless it fell between the reading of the head and of the diff.
PushesAreTaken ==
    \A w \in Watches : \A n \in 2..MaxPushes + 1 :
        NewEdit(w, n) ~> Taken(w, n) \/ Torn(w)

\* "it finishes, and nothing new starts" (pr-watch-store.ts): no session is
\* launched for a watch that was stopped.
NothingStartsAfterStop ==
    [][\A s \in DOMAIN sessions' \ DOMAIN sessions :
          rows[sessions'[s].watch].status = "watching"]_vars
=============================================================================
