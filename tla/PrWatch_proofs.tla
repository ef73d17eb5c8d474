---------------------------- MODULE PrWatch_proofs ----------------------------
(***************************************************************************)
(* What holds of PrWatch for every set of watches and pull requests, every *)
(* cap and any number of pushes, acts and faults.                          *)
(***************************************************************************)
EXTENDS PrWatch, FiniteSetTheorems, SequenceTheorems, TLAPS

-----------------------------------------------------------------------------
(* Types.                                                                  *)

ReportType ==
    [event: {None, "started", "posted", "failed"}, session: Field, since: Field,
     head: Field, print: Field, reviewed: Field, closed: BOOLEAN]
ActionType == [type: {"none", "stop", "review"}, target: Field]

AtWatch == step \in {"decide", "act", "record", "report"}

\* A row that runs names its session and when it started.
Runs(row) == row.state = "running" => row.session \in DOMAIN sessions /\ row.since \in Nat

\* The plan of a watch, by how far the tick has come with it.
PlanFits ==
    /\ plan.report.event # "started" => plan.report.session = None /\ plan.report.since = None
    /\ plan.report.event = "started" =>
          step = "report" /\ plan.report.session \in DOMAIN sessions /\ plan.report.since \in Nat
    /\ step = "act" /\ plan.action.type = "stop" => listed[current].state = "running"
    /\ step \in {"act", "record"} /\ plan.action.type = "review" =>
          plan.report.event = None /\ plan.action.target \in Nat /\ plan.report.print \in Nat

TypeInv ==
    /\ TypeOK
    /\ step # "none" => \A w \in Watches : Runs(listed[w])
    /\ step \in {"act", "record", "report"} => PlanFits
    /\ agents = None \/ agents \subseteq Ended

LEMMA NoneIsNothingElse ==
    /\ None \notin Nat /\ None \notin Watches /\ None \notin Pending
    /\ None # "started" /\ None # "posted" /\ None # "failed"
    BY WatchAssumption

LEMMA DiffIsNat ==
    ASSUME NEW p \in Pulls, NEW n \in Nat
    PROVE  Diff(p, n) \in Nat
<1>1. IsFiniteSet(1..n)
    BY FS_Interval
<1>2. {k \in 1..n : pushes[p][k] # "rebase"} \subseteq 1..n
    OBVIOUS
<1>3. IsFiniteSet({k \in 1..n : pushes[p][k] # "rebase"})
    BY <1>1, <1>2, FS_Subset
<1>. QED  BY <1>3, FS_CardinalityType DEF Diff

LEMMA NothingIsReport ==
    /\ Nothing \in ReportType
    /\ Nothing.event = None /\ Nothing.session = None /\ Nothing.since = None
    /\ Nothing.head = None /\ Nothing.closed = FALSE
    BY DEF Nothing, ReportType, Field

LEMMA PlanParts ==
    ASSUME NEW r \in ReportType, NEW a \in ActionType
    PROVE  [report |-> r, action |-> a] \in Plan
    BY DEF ReportType, ActionType, Plan

LEMMA PlanHasParts ==
    ASSUME NEW pl \in Plan
    PROVE  pl.report \in ReportType /\ pl.action \in ActionType
    BY DEF ReportType, ActionType, Plan

\* A reported row is a row, with what the report says and else what it said.
LEMMA ReportedRow ==
    ASSUME NEW row \in Row, NEW r \in ReportType
    PROVE  /\ Reported(row, r) \in Row
           /\ Reported(row, r).state =
                (IF r.event = "started" THEN "running"
                 ELSE IF r.event = "posted" THEN "idle"
                 ELSE IF r.event = "failed" THEN "failed" ELSE row.state)
           /\ Reported(row, r).status =
                (IF row.status = "watching" /\ r.closed THEN "closed" ELSE row.status)
           /\ Reported(row, r).session = Or(r.session, row.session)
           /\ Reported(row, r).since = Or(r.since, row.since)
           /\ Reported(row, r).head = Or(r.head, row.head)
<1>. DEFINE new == Reported(row, r)
<1>1. /\ Or(r.session, row.session) \in Field /\ Or(r.since, row.since) \in Field
      /\ Or(r.head, row.head) \in Field /\ Or(r.print, row.print) \in Field
      /\ Or(r.reviewed, row.reviewed) \in Field
    BY DEF Or, Row, ReportType
<1>2. (row.requested /\ r.event # "started") \in BOOLEAN
    BY Zenon
<1>3. Reported(row, r).requested \in BOOLEAN
    BY <1>2 DEF Reported, Row
<1>4. /\ Reported(row, r).state =
            (IF r.event = "started" THEN "running"
             ELSE IF r.event = "posted" THEN "idle"
             ELSE IF r.event = "failed" THEN "failed" ELSE row.state)
    BY DEF Reported, Row, ReportType
<1>5. /\ Reported(row, r).status =
            (IF row.status = "watching" /\ r.closed THEN "closed" ELSE row.status)
      /\ Reported(row, r).session = Or(r.session, row.session)
      /\ Reported(row, r).since = Or(r.since, row.since)
      /\ Reported(row, r).head = Or(r.head, row.head)
      /\ Reported(row, r).print = Or(r.print, row.print)
      /\ Reported(row, r).reviewed = Or(r.reviewed, row.reviewed)
    BY DEF Reported, Row, ReportType
<1>6. /\ Reported(row, r).status \in {"absent", "watching", "stopped", "closed"}
      /\ Reported(row, r).state \in {"idle", "running", "failed"}
    BY <1>4, <1>5 DEF Row, ReportType
<1>7. Reported(row, r) \in Row
    BY <1>1, <1>3, <1>5, <1>6 DEF Reported, Row
<1>. QED  BY <1>4, <1>5, <1>7

-----------------------------------------------------------------------------
(* What the owner, the sessions and GitHub may change.                     *)

\* The owner changes the status and the request of a row, and of no other.
OwnerMoves(w) ==
    /\ rows' \in [Watches -> Row]
    /\ \A v \in Watches : /\ rows'[v].state = rows[v].state
                          /\ rows'[v].session = rows[v].session
                          /\ rows'[v].since = rows[v].since
                          /\ rows'[v].head = rows[v].head
    /\ \A v \in Watches : \/ rows'[v].status = rows[v].status
                          \/ rows[v].status = "absent" /\ rows'[v].status = "watching"
                          \/ rows[v].status = "watching" /\ rows'[v].status = "stopped"
    /\ acts' \in 0..MaxActs
    /\ UNCHANGED <<pushes, reviews, open, launched, step, todo, listed, slots, agents,
                   current, seen, plan, sessions, strays, changes, faults>>

LEMMA OwnerChanges ==
    ASSUME TypeOK, NEW w \in Watches, Add(w) \/ Stop(w) \/ ReviewNow(w)
    PROVE  OwnerMoves(w)
<1>1. acts' \in 0..MaxActs
    BY WatchAssumption DEF TypeOK, Add, Stop, ReviewNow, OwnerActs
<1>2. UNCHANGED <<pushes, reviews, open, launched, step, todo, listed, slots, agents,
                  current, seen, plan, sessions, strays, changes, faults>>
    BY DEF Add, Stop, ReviewNow, OwnerActs, github, volatile
<1>3. rows \in [Watches -> Row] /\ rows[w] \in Row
    BY DEF TypeOK
<1>4. CASE Add(w)
    <2>. DEFINE new == [rows[w] EXCEPT !.status = "watching"]
    <2>1. new \in Row /\ new.state = rows[w].state /\ new.session = rows[w].session
             /\ new.since = rows[w].since /\ new.head = rows[w].head
             /\ new.status = "watching"
        BY <1>3 DEF Row
    <2>2. rows' = [rows EXCEPT ![w] = new] /\ rows[w].status = "absent"
        BY <1>4 DEF Add
    <2>. HIDE DEF new
    <2>. QED  BY <1>1, <1>2, <1>3, <2>1, <2>2 DEF OwnerMoves
<1>5. CASE Stop(w)
    <2>. DEFINE new == [rows[w] EXCEPT !.status = "stopped", !.requested = FALSE]
    <2>1. new \in Row /\ new.state = rows[w].state /\ new.session = rows[w].session
             /\ new.since = rows[w].since /\ new.head = rows[w].head
             /\ new.status = "stopped"
        BY <1>3 DEF Row
    <2>2. rows' = [rows EXCEPT ![w] = new] /\ rows[w].status = "watching"
        BY <1>3, <1>5 DEF Stop
    <2>. HIDE DEF new
    <2>. QED  BY <1>1, <1>2, <1>3, <2>1, <2>2 DEF OwnerMoves
<1>6. CASE ReviewNow(w)
    <2>. DEFINE new == [rows[w] EXCEPT !.requested = TRUE]
    <2>1. new \in Row /\ new.state = rows[w].state /\ new.session = rows[w].session
             /\ new.since = rows[w].since /\ new.head = rows[w].head
             /\ new.status = rows[w].status
        BY <1>3 DEF Row
    <2>2. rows' = [rows EXCEPT ![w] = new]
        BY <1>6 DEF ReviewNow
    <2>. HIDE DEF new
    <2>. QED  BY <1>1, <1>2, <1>3, <2>1, <2>2 DEF OwnerMoves
<1>. QED  BY <1>4, <1>5, <1>6

\* Sessions stay whose they are; one that has ended stays so.
SessionsMove ==
    /\ sessions' \in Seq(Session) /\ DOMAIN sessions' = DOMAIN sessions
    /\ Len(sessions') = Len(sessions)
    /\ \A t \in DOMAIN sessions :
          /\ sessions'[t].watch = sessions[t].watch /\ sessions'[t].target = sessions[t].target
          /\ sessions'[t].asked = sessions[t].asked
          /\ sessions[t].state = "ended" => sessions'[t].state = "ended"

LEMMA SessionChanges ==
    ASSUME TypeOK, NEW s \in DOMAIN sessions,
           NEW state \in {"working", "overdue", "posted", "ended"},
           sessions[s].state # "ended" \/ state = "ended",
           sessions' = [sessions EXCEPT ![s].state = state]
    PROVE  SessionsMove /\ (state = "ended" => sessions'[s].state = "ended")
<1>. DEFINE new == [sessions[s] EXCEPT !.state = state]
<1>1. sessions \in Seq(Session) /\ sessions[s] \in Session
    BY DEF TypeOK
<1>2. new \in Session /\ new.watch = sessions[s].watch /\ new.target = sessions[s].target
         /\ new.asked = sessions[s].asked /\ new.state = state
    BY <1>1 DEF Session
<1>3. sessions' = [sessions EXCEPT ![s] = new]
    OBVIOUS
<1>. HIDE DEF new
<1>4. sessions' \in Seq(Session) /\ Len(sessions') = Len(sessions)
    BY <1>1, <1>2, <1>3, ExceptSeq
<1>5. DOMAIN sessions' = DOMAIN sessions
    BY <1>3
<1>6. sessions'[s] = new /\ \A t \in DOMAIN sessions \ {s} : sessions'[t] = sessions[t]
    BY <1>3
<1>. QED  BY <1>2, <1>4, <1>5, <1>6 DEF SessionsMove

LEMMA SessionActs ==
    ASSUME TypeOK, NEW s \in DOMAIN sessions,
           EndSession(s) \/ \E n \in 1..MaxPushes + 1 : PostReview(s, n)
    PROVE  /\ SessionsMove /\ reviews' \in [Pulls -> Seq(Nat)]
           /\ UNCHANGED <<pushes, open, rows, launched, step, todo, listed, slots, agents,
                          current, seen, plan, strays, changes, acts, faults>>
<1>1. UNCHANGED <<pushes, open, rows, launched, step, todo, listed, slots, agents,
                  current, seen, plan, strays, changes, acts, faults>>
    BY DEF EndSession, PostReview, SessionStep, volatile
<1>2. reviews \in [Pulls -> Seq(Nat)]
    BY DEF TypeOK
<1>3. CASE EndSession(s)
    BY <1>1, <1>2, <1>3, SessionChanges DEF EndSession
<1>4. CASE \E n \in 1..MaxPushes + 1 : PostReview(s, n)
    <2>1. PICK n \in 1..MaxPushes + 1 : PostReview(s, n)
        BY <1>4
    <2>2. SessionsMove
        BY <2>1, SessionChanges DEF PostReview
    <2>. DEFINE p == PullOf[sessions[s].watch]
    <2>. sessions[s] \in Session
        BY DEF TypeOK
    <2>3. p \in Pulls
        BY WatchAssumption DEF Session
    <2>4. n \in Nat
        BY WatchAssumption
    <2>5. reviews' = [reviews EXCEPT ![p] = Append(@, n)]
        BY <2>1 DEF PostReview
    <2>6. Append(reviews[p], n) \in Seq(Nat)
        BY <1>2, <2>3, <2>4, AppendProperties
    <2>. QED  BY <1>1, <1>2, <2>2, <2>3, <2>5, <2>6
<1>. QED  BY <1>3, <1>4

LEMMA OverdueActs ==
    ASSUME TypeOK, NEW w \in Watches, Overdue(w)
    PROVE  /\ SessionsMove /\ reviews' = reviews
           /\ UNCHANGED <<pushes, open, rows, launched, step, todo, listed, slots, agents,
                          current, seen, plan, strays, changes, acts, faults>>
<1>1. UNCHANGED <<reviews, pushes, open, rows, launched, step, todo, listed, slots, agents,
                  current, seen, plan, strays, changes, acts, faults>>
    BY DEF Overdue, SessionStep, volatile
<1>2. rows[w].session \in DOMAIN sessions /\ sessions[rows[w].session].state = "working"
      /\ sessions' = [sessions EXCEPT ![rows[w].session].state = "overdue"]
    BY DEF Overdue, TypeOK
<1>. QED  BY <1>1, <1>2, SessionChanges

LEMMA GitHubActs ==
    ASSUME TypeOK, NEW p \in Pulls, Close(p) \/ \E kind \in PushKind : Push(p, kind)
    PROVE  /\ pushes' \in [Pulls -> Seq(PushKind)] /\ open' \subseteq Pulls
           /\ changes' \in 0..MaxPushes
           /\ \A q \in Pulls : Len(pushes[q]) \in Nat /\ Len(pushes'[q]) >= Len(pushes[q])
           /\ UNCHANGED <<reviews, rows, launched, step, todo, listed, slots, agents,
                          current, seen, plan, sessions, strays, acts, faults>>
<1>1. UNCHANGED <<reviews, rows, launched, step, todo, listed, slots, agents,
                  current, seen, plan, sessions, strays, acts, faults>>
    BY DEF Push, Close, volatile
<1>2. changes' \in 0..MaxPushes
    BY WatchAssumption DEF TypeOK, Push, Close
<1>3. pushes \in [Pulls -> Seq(PushKind)]
    BY DEF TypeOK
<1>4. CASE Close(p)
    BY <1>1, <1>2, <1>3, <1>4 DEF Close, TypeOK
<1>5. CASE \E kind \in PushKind : Push(p, kind)
    <2>1. PICK kind \in PushKind : Push(p, kind)
        BY <1>5
    <2>2. pushes' = [pushes EXCEPT ![p] = Append(@, kind)] /\ open' = open
        BY <2>1 DEF Push
    <2>3. Append(pushes[p], kind) \in Seq(PushKind)
          /\ Len(Append(pushes[p], kind)) = Len(pushes[p]) + 1
        BY <1>3, AppendProperties
    <2>4. open' \subseteq Pulls
        BY <2>2 DEF TypeOK
    <2>. QED  BY <1>1, <1>2, <1>3, <2>2, <2>3, <2>4
<1>. QED  BY <1>4, <1>5

-----------------------------------------------------------------------------
(* Types are kept.                                                         *)

LEMMA TypeOfOwner ==
    ASSUME TypeInv, NEW w \in Watches, Add(w) \/ Stop(w) \/ ReviewNow(w)
    PROVE  TypeInv'
<1>1. OwnerMoves(w)
    BY OwnerChanges DEF TypeInv
<1>. QED  BY <1>1 DEF OwnerMoves, TypeInv, TypeOK, PlanFits, Runs, Ended

LEMMA TypeOfGitHub ==
    ASSUME TypeInv, NEW p \in Pulls, Close(p) \/ \E kind \in PushKind : Push(p, kind)
    PROVE  TypeInv'
    BY GitHubActs DEF TypeInv, TypeOK, PlanFits, Runs, Ended

\* Sessions move, and nothing else but reviews.
LEMMA TypeOfSessions ==
    ASSUME TypeInv, SessionsMove, reviews' \in [Pulls -> Seq(Nat)],
           UNCHANGED <<pushes, open, rows, launched, step, todo, listed, slots, agents,
                       current, seen, plan, strays, changes, acts, faults>>
    PROVE  TypeInv'
<1>1. Ended \subseteq Ended'
    BY DEF Ended, SessionsMove
<1>. QED  BY <1>1 DEF SessionsMove, TypeInv, TypeOK, PlanFits, Runs

-----------------------------------------------------------------------------
(* What decide comes to.                                                   *)

\* The watch the tick is at: its row as listed, and its pull request as seen.
Deciding ==
    /\ current \in Watches /\ PullOf[current] \in Pulls
    /\ listed[current] \in Row /\ Runs(listed[current])
    /\ seen.head \in Nat /\ reviews[PullOf[current]] \in Seq(Nat)
    /\ agents = None \/ agents \subseteq Ended

\* A report that starts nothing and takes on no other head than the one seen.
Modest(r) ==
    /\ r \in ReportType
    /\ r.event \in {None, "posted", "failed"} /\ r.session = None /\ r.since = None
    /\ r.head \in {None, seen.head}

\* What a plan may be for a row.
Sensible(pl, row) ==
    /\ Modest(pl.report) /\ pl.action \in ActionType
    /\ pl = [report |-> pl.report, action |-> pl.action]
    /\ pl.action.type = "stop" => row.state = "running"
    /\ pl.report.event # None =>
          row.state = "running" /\ (pl.action.type = "none" => row.session \in agents)
                                /\ pl.action.type \in {"none", "stop"}
    /\ pl.report.closed => row.state # "running" /\ pl.action.type = "none"
    /\ pl.action.type = "review" =>
          /\ row.state # "running"
          /\ pl.action.target = seen.head
          /\ pl.report.head = seen.head /\ pl.report.print \in Nat
          /\ row.requested \/ row.head = None \/ row.head # seen.head

LEMMA RunningIsSensible ==
    ASSUME Deciding, NEW fingerprint \in Nat, listed[current].state = "running"
    PROVE  Sensible(DecideRunning(listed[current], PullOf[current], fingerprint), listed[current])
<1>. DEFINE row == listed[current]
            p == PullOf[current]
            last == reviews[p][Len(reviews[p])]
            posted == Len(reviews[p]) > row.since
            ended == row.session \in agents
            late == sessions[row.session].state = "overdue"
            pl == DecideRunning(row, p, fingerprint)
<1>. USE NoneIsNothingElse
<1>. SUFFICES Sensible(pl, row)
    OBVIOUS
<1>1. CASE posted
    <2>1. last \in Nat
        BY <1>1 DEF Deciding, Runs
    <2>. DEFINE short == [Nothing EXCEPT !.event = "posted", !.reviewed = last]
                full == [Nothing EXCEPT !.event = "posted", !.reviewed = last,
                                        !.head = seen.head, !.print = fingerprint]
                r == IF last = seen.head THEN full ELSE short
                a == IF ended THEN NoAction ELSE StopSession
    <2>2. pl = [report |-> r, action |-> a]
        BY <1>1 DEF DecideRunning
    <2>3. Modest(r) /\ r.event = "posted" /\ r.closed = FALSE
        BY <2>1 DEF Modest, Nothing, ReportType, Field, Deciding
    <2>4. a \in ActionType /\ a.type \in {"none", "stop"} /\ (a.type = "none" => ended)
        BY DEF NoAction, StopSession, ActionType, Field
    <2>. HIDE DEF r, a, pl
    <2>. QED  BY <2>2, <2>3, <2>4 DEF Sensible
<1>2. CASE ~posted
    <2>. DEFINE failed == [Nothing EXCEPT !.event = "failed"]
    <2>1. Modest(failed) /\ failed.event = "failed" /\ failed.closed = FALSE
        BY DEF Modest, Nothing, ReportType, Field
    <2>2. Modest(Nothing) /\ Nothing.event = None /\ Nothing.closed = FALSE
        BY DEF Modest, Nothing, ReportType, Field
    <2>3. NoAction \in ActionType /\ NoAction.type = "none"
          /\ StopSession \in ActionType /\ StopSession.type = "stop"
        BY DEF NoAction, StopSession, ActionType, Field
    <2>4. CASE ended
        <3>1. pl = [report |-> failed, action |-> NoAction]
            BY <1>2, <2>4 DEF DecideRunning, Idle
        <3>. HIDE DEF pl, failed
        <3>. QED  BY <2>1, <2>3, <2>4, <3>1 DEF Sensible
    <2>5. CASE ~ended /\ late
        <3>1. pl = [report |-> failed, action |-> StopSession]
            BY <1>2, <2>5 DEF DecideRunning
        <3>. HIDE DEF pl, failed
        <3>. QED  BY <2>1, <2>3, <3>1 DEF Sensible
    <2>6. CASE ~ended /\ ~late
        <3>1. pl = [report |-> Nothing, action |-> NoAction]
            BY <1>2, <2>6 DEF DecideRunning, Idle
        <3>. HIDE DEF pl
        <3>. QED  BY <2>2, <2>3, <3>1 DEF Sensible
    <2>. QED  BY <2>4, <2>5, <2>6
<1>. QED  BY <1>1, <1>2

\* A report of no event, before a head is added to it.
Silent(r) == Modest(r) /\ r.event = None /\ r.closed = FALSE

LEMMA WatchingIsSensible ==
    ASSUME Deciding, NEW row, NEW fingerprint \in Nat, NEW r, Silent(r)
    PROVE  Sensible(Watching(r, fingerprint), row)
<1>. DEFINE with == [r EXCEPT !.head = seen.head, !.print = fingerprint]
<1>1. Silent(with)
    BY DEF Silent, Modest, ReportType, Field, Deciding
<1>2. NoAction \in ActionType /\ NoAction.type = "none"
    BY DEF NoAction, ActionType, Field
<1>3. Watching(r, fingerprint) = [report |-> with, action |-> NoAction]
    BY DEF Watching, Idle
<1>. HIDE DEF with
<1>. QED  BY <1>1, <1>2, <1>3 DEF Sensible, Silent

LEMMA IdleIsSensible ==
    ASSUME NEW row, NEW r, Silent(r)
    PROVE  Sensible(Idle(r), row)
<1>2. NoAction \in ActionType /\ NoAction.type = "none"
    BY DEF NoAction, ActionType, Field
<1>. QED  BY <1>2 DEF Sensible, Silent, Idle

LEMMA StartingIsSensible ==
    ASSUME Deciding, NEW row, NEW fingerprint \in Nat, NEW r, Silent(r),
           row.state # "running",
           row.requested \/ row.head = None \/ row.head # seen.head
    PROVE  Sensible(Starting(r, fingerprint), row)
<1>. DEFINE with == [r EXCEPT !.head = seen.head, !.print = fingerprint]
<1>1. Silent(with) /\ with.head = seen.head /\ with.print = fingerprint
    BY DEF Silent, Modest, ReportType, Field, Deciding
<1>2. Review(seen.head) \in ActionType /\ Review(seen.head).type = "review"
      /\ Review(seen.head).target = seen.head
    BY DEF Review, ActionType, Field, Deciding
<1>3. CASE slots > 0
    <2>1. Starting(r, fingerprint) = [report |-> with, action |-> Review(seen.head)]
        BY <1>3 DEF Starting
    <2>. HIDE DEF with
    <2>. QED  BY <1>1, <1>2, <2>1 DEF Sensible, Silent
<1>4. CASE ~(slots > 0)
    BY <1>4, IdleIsSensible DEF Starting
<1>. QED  BY <1>3, <1>4

LEMMA NothingIsSilent == Silent(Nothing)
    BY DEF Silent, Modest, Nothing, ReportType, Field

LEMMA BaselineIsSilent ==
    ASSUME Deciding
    PROVE  Silent(Baseline(PullOf[current]))
<1>. DEFINE past == reviews[PullOf[current]]
<1>1. CASE past = <<>>
    BY <1>1, NothingIsSilent DEF Baseline
<1>2. CASE past # <<>>
    <2>1. past[Len(past)] \in Nat
        BY <1>2 DEF Deciding
    <2>2. Baseline(PullOf[current]) = [Nothing EXCEPT !.reviewed = past[Len(past)]]
        BY <1>2 DEF Baseline
    <2>. QED  BY <2>1, <2>2 DEF Silent, Modest, Nothing, ReportType, Field
<1>. QED  BY <1>1, <1>2

LEMMA FirstIsSensible ==
    ASSUME Deciding, NEW fingerprint \in Nat, listed[current].state # "running",
           listed[current].head = None
    PROVE  Sensible(DecideFirst(listed[current], PullOf[current], fingerprint), listed[current])
<1>1. DecideFirst(listed[current], PullOf[current], fingerprint) \in
        {Starting(Baseline(PullOf[current]), fingerprint),
         Watching(Baseline(PullOf[current]), fingerprint)}
    BY DEF DecideFirst
<1>. QED  BY <1>1, BaselineIsSilent, StartingIsSensible, WatchingIsSensible

LEMMA NextIsSensible ==
    ASSUME Deciding, NEW fingerprint \in Nat, listed[current].state # "running"
    PROVE  Sensible(DecideNext(listed[current], PullOf[current], fingerprint), listed[current])
<1>. DEFINE row == listed[current]
            pl == DecideNext(row, PullOf[current], fingerprint)
<1>. USE NothingIsSilent, StartingIsSensible, WatchingIsSensible, IdleIsSensible
<1>1. CASE row.requested
    <2>1. pl = Starting(Nothing, fingerprint)
        BY <1>1 DEF DecideNext
    <2>. QED  BY <1>1, <2>1
<1>2. CASE ~row.requested /\ seen.head = row.head
    <2>1. pl = Idle(Nothing)
        BY <1>2 DEF DecideNext
    <2>. QED  BY <2>1
<1>3. CASE ~row.requested /\ seen.head # row.head
    <2>1. pl \in {Starting(Nothing, fingerprint), Watching(Nothing, fingerprint)}
        BY <1>3 DEF DecideNext
    <2>. QED  BY <1>3, <2>1
<1>. QED  BY <1>1, <1>2, <1>3

LEMMA AtWatchDecides ==
    ASSUME TypeInv, step = "decide"
    PROVE  Deciding
<1>1. current \in Watches /\ seen.head \in Nat /\ listed[current] \in Row
    BY DEF TypeInv, TypeOK
<1>2. PullOf[current] \in Pulls
    BY <1>1, WatchAssumption
<1>3. Runs(listed[current]) /\ (agents = None \/ agents \subseteq Ended)
      /\ reviews[PullOf[current]] \in Seq(Nat)
    BY <1>1, <1>2 DEF TypeInv, TypeOK
<1>. QED  BY <1>1, <1>2, <1>3 DEF Deciding

LEMMA DecideIsSensible ==
    ASSUME TypeInv, Decide
    PROVE  /\ Sensible(plan', listed[current]) /\ plan' \in Plan
           /\ listed[current].state = "running" => agents # None
           /\ plan'.report.closed => listed[current].state # "running"
<1>. DEFINE p == PullOf[current]
            row == listed[current]
            fingerprint == Diff(p, HeadOf(p))
<1>1. Deciding
    BY AtWatchDecides DEF Decide
<1>2. HeadOf(p) \in Nat /\ p \in Pulls
    BY <1>1 DEF TypeInv, TypeOK, HeadOf, Deciding
<1>3. fingerprint \in Nat
    BY <1>2, DiffIsNat
<1>4. row.state = "running" => agents # None
    BY DEF Decide
<1>. HIDE DEF fingerprint
<1>5. Sensible(plan', row)
    <2>1. CASE row.state = "running"
        <3>1. plan' = DecideRunning(row, p, fingerprint)
            BY <2>1 DEF Decide, fingerprint
        <3>. QED  BY <1>1, <1>3, <2>1, <3>1, RunningIsSensible
    <2>2. CASE row.state # "running" /\ ~seen.open
        <3>. DEFINE shut == [Nothing EXCEPT !.closed = TRUE]
        <3>1. plan' = [report |-> shut, action |-> NoAction]
            BY <2>2 DEF Decide, Idle
        <3>2. Modest(shut) /\ shut.event = None
            BY DEF Modest, Nothing, ReportType, Field
        <3>3. NoAction \in ActionType /\ NoAction.type = "none"
            BY DEF NoAction, ActionType, Field
        <3>. HIDE DEF shut
        <3>. QED  BY <2>2, <3>1, <3>2, <3>3 DEF Sensible
    <2>3. CASE row.state # "running" /\ seen.open /\ row.head = None
        <3>1. plan' = DecideFirst(row, p, fingerprint)
            BY <2>3 DEF Decide, fingerprint
        <3>. QED  BY <1>1, <1>3, <2>3, <3>1, FirstIsSensible
    <2>4. CASE row.state # "running" /\ seen.open /\ row.head # None
        <3>1. plan' = DecideNext(row, p, fingerprint)
            BY <2>4 DEF Decide, fingerprint
        <3>. QED  BY <1>1, <1>3, <2>4, <3>1, NextIsSensible
    <2>. QED  BY <2>1, <2>2, <2>3, <2>4
<1>6. plan' \in Plan
    BY <1>5, PlanParts DEF Sensible, Modest
<1>. QED  BY <1>4, <1>5, <1>6 DEF Sensible

-----------------------------------------------------------------------------
(* What a report does to the rows.                                         *)

\* A report that names the session it says has started, and no other.
Proper(r) ==
    /\ r \in ReportType
    /\ r.event # "started" => r.session = None /\ r.since = None
    /\ r.event = "started" => r.session \in DOMAIN sessions /\ r.since \in Nat

\* The row of w is as it was, or as the report makes it; the others are left alone.
Delivered(w, r, known) ==
    /\ rows' \in [Watches -> Row]
    /\ \A v \in Watches : Runs(rows'[v])
    /\ \A v \in Watches \ {w} : rows'[v] = rows[v]
    /\ \/ rows'[w] = rows[w] /\ (known => ~Takes(rows[w], r))
       \/ rows'[w] = Reported(rows[w], r) /\ Takes(rows[w], r)

LEMMA DeliverDelivers ==
    ASSUME TypeOK, NEW w \in Watches, NEW r, Proper(r), NEW known \in BOOLEAN,
           Deliver(w, r, known)
    PROVE  Delivered(w, r, known) /\ faults' \in 0..MaxFaults
<1>1. faults' \in 0..MaxFaults
    BY WatchAssumption DEF TypeOK, Deliver
<1>2. rows \in [Watches -> Row] /\ \A v \in Watches : Runs(rows[v])
    BY DEF TypeOK, Runs
<1>3. r \in ReportType
    BY DEF Proper
<1>4. CASE rows' = rows /\ (known => ~Takes(rows[w], r))
    BY <1>1, <1>2, <1>4 DEF Delivered
<1>5. CASE rows' = [rows EXCEPT ![w] = Reported(@, r)] /\ Takes(rows[w], r)
    <2>. DEFINE new == Reported(rows[w], r)
    <2>1. new \in Row
        BY <1>2, <1>3, ReportedRow
    <2>2. new.session = Or(r.session, rows[w].session) /\ new.since = Or(r.since, rows[w].since)
        BY <1>2, <1>3, ReportedRow
    <2>3. new.state = "running" => r.event = "started" \/ (r.event = None /\ rows[w].state = "running")
        <3>1. new.state = (IF r.event = "started" THEN "running"
                           ELSE IF r.event = "posted" THEN "idle"
                           ELSE IF r.event = "failed" THEN "failed" ELSE rows[w].state)
            BY <1>2, <1>3, ReportedRow
        <3>. HIDE DEF new
        <3>. QED  BY <1>3, <3>1 DEF ReportType
    <2>4. Runs(new)
        BY <1>2, <2>2, <2>3, NoneIsNothingElse DEF Runs, Or, Proper, TypeOK
    <2>5. rows' = [rows EXCEPT ![w] = new]
        BY <1>5
    <2>. HIDE DEF new
    <2>6. rows' \in [Watches -> Row] /\ rows'[w] = new /\ \A v \in Watches \ {w} : rows'[v] = rows[v]
        BY <1>2, <2>1, <2>5
    <2>7. \A v \in Watches : Runs(rows'[v])
        BY <1>2, <2>4, <2>6
    <2>. QED  BY <1>1, <1>5, <2>6, <2>7 DEF Delivered, new
<1>6. \/ rows' = rows /\ (known => ~Takes(rows[w], r))
      \/ rows' = [rows EXCEPT ![w] = Reported(@, r)] /\ Takes(rows[w], r)
    BY DEF Deliver
<1>. QED  BY <1>4, <1>5, <1>6

-----------------------------------------------------------------------------
(* Types are kept by the tick.                                             *)

LEMMA NoPlanIsPlan ==
    /\ NoPlan \in Plan /\ NoAction \in ActionType /\ NoAction.type = "none"
    /\ NoPlan.report = Nothing /\ NoPlan.action = NoAction
<1>1. NoAction \in ActionType /\ NoAction.type = "none"
    BY DEF NoAction, ActionType, Field
<1>. QED  BY <1>1, NothingIsReport, PlanParts DEF NoPlan

LEMMA CountIsNat ==
    ASSUME NEW S \in SUBSET Watches
    PROVE  Cardinality(S) \in Nat
    BY WatchAssumption, FS_Subset, FS_CardinalityType

LEMMA TypeOfStart ==
    ASSUME TypeInv, StartTick
    PROVE  TypeInv'
<1>1. Listable \subseteq Watches /\ {w \in Listable : rows[w].state = "running"} \in SUBSET Watches
    BY DEF Listable
<1>2. slots' \in Int
    BY <1>1, CountIsNat, WatchAssumption DEF StartTick
<1>3. launched' \in [Watches -> Pending \cup {None}]
      /\ \A w \in Watches : launched'[w] # None => launched'[w].session \in DOMAIN sessions
    BY DEF StartTick, TypeInv, TypeOK
<1>4. UNCHANGED <<pushes, reviews, open, rows, agents, current, seen, plan, sessions, strays,
                  changes, acts, faults>>
    BY DEF StartTick, github
<1>5. step = "none" /\ step' = "next" /\ todo' = Listable /\ listed' = rows
    BY DEF StartTick
<1>. QED  BY <1>1, <1>2, <1>3, <1>4, <1>5 DEF TypeInv, TypeOK, Runs, Ended

LEMMA TypeOfLook ==
    ASSUME TypeInv, NEW w \in Watches, Look(w)
    PROVE  TypeInv'
<1>1. launched' \in [Watches -> Pending \cup {None}]
      /\ \A v \in Watches : launched'[v] # None => launched'[v].session \in DOMAIN sessions
    BY DEF Look, TypeInv, TypeOK
<1>2. PullOf[w] \in Pulls
    BY WatchAssumption
<1>3. HeadOf(PullOf[w]) \in Nat
    BY <1>2 DEF HeadOf, TypeInv, TypeOK
<1>4. seen' \in [head: Nat, open: BOOLEAN]
    BY <1>3 DEF Look
<1>5. UNCHANGED <<pushes, reviews, open, rows, listed, slots, agents, plan, sessions, strays,
                  changes, acts, faults>>
    BY DEF Look, github
<1>6. step = "next" /\ step' = "decide" /\ current' = w /\ todo' = todo \ {w}
    BY DEF Look, NextWatch
<1>7. plan' \in Plan
    BY <1>5, <1>6, NoPlanIsPlan DEF TypeInv, TypeOK
<1>. QED  BY <1>1, <1>4, <1>5, <1>6, <1>7 DEF TypeInv, TypeOK, Runs, Ended

LEMMA StartedIsProper ==
    ASSUME TypeOK, NEW w \in Watches, launched[w] # None
    PROVE  /\ Proper(Started(w)) /\ Started(w).event = "started"
           /\ Started(w).session = launched[w].session /\ Started(w).head = launched[w].target
           /\ Started(w).closed = FALSE
<1>1. launched[w] \in Pending /\ launched[w].session \in DOMAIN sessions
    BY DEF TypeOK
<1>2. /\ launched[w].session \in Nat /\ launched[w].since \in Nat
      /\ launched[w].target \in Nat /\ launched[w].print \in Nat
    BY <1>1 DEF Pending
<1>3. /\ Started(w) \in ReportType /\ Started(w).event = "started"
      /\ Started(w).session = launched[w].session /\ Started(w).head = launched[w].target
      /\ Started(w).since = launched[w].since /\ Started(w).closed = FALSE
    BY <1>2 DEF Started, Nothing, ReportType, Field
<1>. QED  BY <1>1, <1>2, <1>3 DEF Proper

\* The report went out, and an answer may strike the launch from the file.
LEMMA ReportedAgain ==
    ASSUME TypeInv, NEW w \in Watches, ReportAgain(w)
    PROVE  /\ w \in todo /\ step = "next" /\ todo' = todo \ {w}
           /\ launched[w] # None /\ listed[w].state # "running"
           /\ faults' \in 0..MaxFaults /\ slots' \in Int
           /\ UNCHANGED <<pushes, reviews, open, step, listed, agents, current, seen, plan,
                          sessions, strays, changes, acts>>
           /\ \E known \in BOOLEAN :
                 /\ Delivered(w, Started(w), known)
                 /\ launched' = IF known THEN [launched EXCEPT ![w] = None] ELSE launched
<1>1. /\ w \in todo /\ step = "next" /\ todo' = todo \ {w}
      /\ launched[w] # None /\ listed[w].state # "running"
      /\ UNCHANGED <<pushes, reviews, open, step, listed, agents, current, seen, plan,
                     sessions, strays, changes, acts>>
    BY DEF ReportAgain, NextWatch, github
<1>2. TypeOK
    BY DEF TypeInv
<1>3. PICK known \in BOOLEAN :
          /\ Deliver(w, Started(w), known)
          /\ launched' = (IF known THEN [launched EXCEPT ![w] = None] ELSE launched)
          /\ slots' = (IF known THEN slots - 1 ELSE slots)
    BY DEF ReportAgain
<1>4. Delivered(w, Started(w), known) /\ faults' \in 0..MaxFaults
    BY <1>1, <1>2, <1>3, StartedIsProper, DeliverDelivers
<1>5. slots' \in Int
    BY <1>2, <1>3 DEF TypeOK
<1>. QED  BY <1>1, <1>3, <1>4, <1>5

LEMMA TypeOfReportAgain ==
    ASSUME TypeInv, NEW w \in Watches, ReportAgain(w)
    PROVE  TypeInv'
<1>1. rows' \in [Watches -> Row] /\ \A v \in Watches : Runs(rows'[v])
    BY ReportedAgain DEF Delivered
<1>2. launched' \in [Watches -> Pending \cup {None}]
      /\ \A v \in Watches : launched'[v] # None => launched'[v].session \in DOMAIN sessions
    BY ReportedAgain DEF TypeInv, TypeOK
<1>. QED  BY <1>1, <1>2, ReportedAgain DEF TypeInv, TypeOK, Runs, Ended

LEMMA TypeOfReadAgents ==
    ASSUME TypeInv, ReadAgents
    PROVE  TypeInv'
<1>1. agents' = Ended /\ Ended \subseteq DOMAIN sessions /\ step = "decide"
      /\ UNCHANGED <<pushes, reviews, open, rows, launched, step, todo, listed, slots, current,
                     seen, plan, sessions, strays, changes, acts, faults>>
    BY DEF ReadAgents, github, Ended
<1>. QED  BY <1>1 DEF TypeInv, TypeOK, Runs, Ended

LEMMA TypeOfDecide ==
    ASSUME TypeInv, Decide
    PROVE  TypeInv'
<1>1. /\ step = "decide" /\ step' = "act"
      /\ UNCHANGED <<pushes, reviews, open, rows, launched, todo, listed, slots, agents,
                     current, seen, sessions, strays, changes, acts, faults>>
    BY DEF Decide, github
<1>2. Sensible(plan', listed[current]) /\ plan' \in Plan
    BY DecideIsSensible
<1>3. PlanFits'
    BY <1>1, <1>2, NoneIsNothingElse DEF PlanFits, Sensible, Modest, TypeInv, TypeOK
<1>. QED  BY <1>1, <1>2, <1>3 DEF TypeInv, TypeOK, Runs, Ended

\* A session more, of the watch the tick is at.
Grown ==
    /\ sessions' \in Seq(Session) /\ Len(sessions) \in Nat
    /\ DOMAIN sessions = 1..Len(sessions) /\ DOMAIN sessions' = 1..Len(sessions')
    /\ Len(sessions') = Len(sessions) + 1
    /\ \A s \in DOMAIN sessions : sessions'[s] = sessions[s]
    /\ sessions'[Len(sessions')].watch = current
    /\ sessions'[Len(sessions')].target = plan.action.target
    /\ sessions'[Len(sessions')].asked = listed[current].requested

LEMMA LaunchGrows ==
    ASSUME TypeInv, step = "act", plan.action.type = "review",
           sessions' = Append(sessions, NewSession)
    PROVE  Grown
<1>1. current \in Watches /\ listed[current] \in Row /\ sessions \in Seq(Session)
    BY DEF TypeInv, TypeOK
<1>2. plan.action.target \in Nat
    BY DEF TypeInv, PlanFits
<1>3. Len(reviews[PullOf[current]]) \in Nat
    BY <1>1, WatchAssumption DEF TypeInv, TypeOK
<1>4. listed[current].requested \in BOOLEAN
    BY <1>1 DEF Row
<1>5. /\ NewSession \in Session /\ NewSession.watch = current
      /\ NewSession.target = plan.action.target
      /\ NewSession.asked = listed[current].requested
    BY <1>1, <1>2, <1>3, <1>4 DEF NewSession, Session
<1>. HIDE DEF NewSession
<1>6. /\ sessions' \in Seq(Session) /\ Len(sessions') = Len(sessions) + 1
      /\ \A i \in 1..Len(sessions) : sessions'[i] = sessions[i]
      /\ sessions'[Len(sessions) + 1] = NewSession
    BY <1>1, <1>5, AppendProperties
<1>7. Len(sessions) \in Nat /\ DOMAIN sessions = 1..Len(sessions) /\ DOMAIN sessions' = 1..Len(sessions')
    BY <1>1, <1>6
<1>. QED  BY <1>5, <1>6, <1>7 DEF Grown

LEMMA GrownKeeps ==
    ASSUME Grown
    PROVE  DOMAIN sessions \subseteq DOMAIN sessions' /\ Ended \subseteq Ended' /\ sessions' # <<>>
<1>1. DOMAIN sessions \subseteq DOMAIN sessions' /\ sessions' # <<>>
    BY DEF Grown
<1>. QED  BY <1>1 DEF Grown, Ended

LEMMA TypeOfLaunch ==
    ASSUME TypeInv, Launch
    PROVE  TypeInv'
<1>1. /\ step = "act" /\ plan.action.type = "review" /\ step' = "record"
      /\ UNCHANGED <<pushes, reviews, open, rows, launched, todo, listed, agents,
                     current, seen, plan, strays, changes, acts, faults>>
      /\ slots' = slots - 1
    BY DEF Launch, github
<1>2. Grown
    BY LaunchGrows DEF Launch
<1>3. DOMAIN sessions \subseteq DOMAIN sessions' /\ Ended \subseteq Ended' /\ sessions' # <<>>
    BY <1>2, GrownKeeps
<1>4. PlanFits'
    BY <1>1, <1>3 DEF TypeInv, PlanFits
<1>5. sessions' \in Seq(Session)
    BY <1>2 DEF Grown
<1>. QED  BY <1>1, <1>3, <1>4, <1>5 DEF TypeInv, TypeOK, Runs

LEMMA HeadLeftIsPlan ==
    /\ HeadLeft \in Plan /\ HeadLeft.report = Nothing
    /\ HeadLeft.action.type = "none"
<1>1. HeadLeft = [report |-> Nothing, action |-> NoAction]
    BY DEF HeadLeft, Idle
<1>. QED  BY <1>1, NoPlanIsPlan, NothingIsReport, PlanParts

\* Nothing has started, or a session nobody knows.
LEMMA FailedLaunch ==
    ASSUME TypeInv, LaunchFails
    PROVE  /\ step = "act" /\ plan.action.type = "review" /\ step' = "report" /\ plan' = HeadLeft
           /\ faults' \in 0..MaxFaults
           /\ UNCHANGED <<pushes, reviews, open, rows, launched, todo, listed, slots, agents,
                          current, seen, changes, acts>>
           /\ \/ UNCHANGED <<sessions, strays>>
              \/ Grown /\ strays' = strays \cup {Len(sessions')}
<1>1. /\ step = "act" /\ plan.action.type = "review" /\ step' = "report" /\ plan' = HeadLeft
      /\ UNCHANGED <<pushes, reviews, open, rows, launched, todo, listed, slots, agents,
                     current, seen, changes, acts>>
    BY DEF LaunchFails, github
<1>2. faults' \in 0..MaxFaults
    BY WatchAssumption DEF LaunchFails, TypeInv, TypeOK
<1>3. CASE UNCHANGED <<sessions, strays>>
    BY <1>1, <1>2, <1>3
<1>4. CASE sessions' = Append(sessions, NewSession) /\ strays' = strays \cup {Len(sessions')}
    BY <1>1, <1>2, <1>4, LaunchGrows
<1>. QED  BY <1>3, <1>4 DEF LaunchFails

LEMMA TypeOfLaunchFails ==
    ASSUME TypeInv, LaunchFails
    PROVE  TypeInv'
<1>1. /\ step = "act" /\ plan.action.type = "review" /\ step' = "report" /\ plan' = HeadLeft
      /\ faults' \in 0..MaxFaults
      /\ UNCHANGED <<pushes, reviews, open, rows, launched, todo, listed, slots, agents,
                     current, seen, changes, acts>>
    BY FailedLaunch
<1>2. plan' \in Plan /\ PlanFits'
    BY <1>1, HeadLeftIsPlan, NothingIsReport, NoneIsNothingElse DEF PlanFits
<1>3. /\ sessions' \in Seq(Session) /\ strays' \subseteq DOMAIN sessions'
      /\ DOMAIN sessions \subseteq DOMAIN sessions' /\ Ended \subseteq Ended'
    <2>1. CASE UNCHANGED <<sessions, strays>>
        BY <2>1 DEF TypeInv, TypeOK, Ended
    <2>2. CASE Grown /\ strays' = strays \cup {Len(sessions')}
        <3>1. Len(sessions') \in DOMAIN sessions'
            BY <2>2 DEF Grown
        <3>. QED  BY <2>2, <3>1, GrownKeeps DEF Grown, TypeInv, TypeOK
    <2>. QED  BY <2>1, <2>2, FailedLaunch
<1>. QED  BY <1>1, <1>2, <1>3 DEF TypeInv, TypeOK, Runs

\* claude stop has ended the session, or lost it.
LEMMA Stopped ==
    ASSUME TypeInv, StopAction
    PROVE  /\ step = "act" /\ plan.action.type = "stop" /\ step' = "report"
           /\ listed[current].state = "running"
           /\ listed[current].session \in DOMAIN sessions
           /\ faults' \in 0..MaxFaults
           /\ UNCHANGED <<pushes, reviews, open, rows, launched, todo, listed, slots, agents,
                          current, seen, plan, changes, acts>>
           /\ SessionsMove
           /\ \/ strays' = strays /\ sessions'[listed[current].session].state = "ended"
              \/ strays' = strays \cup {listed[current].session} /\ UNCHANGED sessions
<1>1. /\ step = "act" /\ plan.action.type = "stop" /\ step' = "report"
      /\ UNCHANGED <<pushes, reviews, open, rows, launched, todo, listed, slots, agents,
                     current, seen, plan, changes, acts>>
    BY DEF StopAction, github
<1>2. current \in Watches /\ listed[current].state = "running"
    BY <1>1 DEF TypeInv, TypeOK, PlanFits
<1>. DEFINE s == listed[current].session
<1>3. s \in DOMAIN sessions
    BY <1>1, <1>2 DEF TypeInv, Runs
<1>4. faults' \in 0..MaxFaults
    BY WatchAssumption DEF StopAction, TypeInv, TypeOK
<1>5. CASE sessions' = [sessions EXCEPT ![s].state = "ended"] /\ UNCHANGED strays
    <2>1. TypeOK
        BY DEF TypeInv
    <2>2. SessionsMove /\ sessions'[s].state = "ended"
        BY <1>3, <1>5, <2>1, SessionChanges
    <2>. QED  BY <1>1, <1>2, <1>3, <1>4, <1>5, <2>2
<1>6. CASE strays' = strays \cup {s} /\ UNCHANGED sessions
    <2>1. SessionsMove
        BY <1>6 DEF SessionsMove, TypeInv, TypeOK
    <2>. QED  BY <1>1, <1>2, <1>3, <1>4, <1>6, <2>1
<1>. QED  BY <1>5, <1>6 DEF StopAction

LEMMA TypeOfStop ==
    ASSUME TypeInv, StopAction
    PROVE  TypeInv'
<1>1. Ended \subseteq Ended'
    BY Stopped DEF Ended, SessionsMove
<1>2. PlanFits'
    BY Stopped DEF TypeInv, PlanFits, SessionsMove
<1>3. strays' \subseteq DOMAIN sessions'
    BY Stopped DEF SessionsMove, TypeInv, TypeOK
<1>. QED  BY <1>1, <1>2, <1>3, Stopped DEF SessionsMove, TypeInv, TypeOK, Runs

\* The session is written down, and the report is to say that it has started.
LEMMA RecordRecords ==
    ASSUME TypeInv, Record
    PROVE  /\ step = "record" /\ step' = "report" /\ Len(sessions) \in DOMAIN sessions
           /\ plan.action.type = "review"
           /\ UNCHANGED <<pushes, reviews, open, rows, todo, listed, slots, agents, current,
                          seen, sessions, strays, changes, acts, faults>>
           /\ launched' \in [Watches -> Pending \cup {None}]
           /\ launched'[current].session = Len(sessions) /\ launched'[current] # None
           /\ launched'[current].target = plan.action.target
           /\ \A w \in Watches \ {current} : launched'[w] = launched[w]
           /\ plan' \in Plan /\ plan'.report.event = "started"
           /\ plan'.report.session = Len(sessions) /\ plan'.report.since \in Nat
           /\ plan'.report.head = plan.report.head /\ plan'.report.closed = plan.report.closed
<1>1. /\ step = "record" /\ step' = "report"
      /\ UNCHANGED <<pushes, reviews, open, rows, todo, listed, slots, agents, current,
                     seen, sessions, strays, changes, acts, faults>>
    BY DEF Record, github
<1>2. /\ current \in Watches /\ plan \in Plan /\ sessions \in Seq(Session) /\ sessions # <<>>
      /\ plan.action.type = "review"
    BY <1>1 DEF TypeInv, TypeOK
<1>. DEFINE s == Len(sessions)
<1>3. s \in DOMAIN sessions /\ s \in Nat
    BY <1>2
<1>4. sessions[s].since \in Nat
    <2>1. sessions[s] \in Session
        BY <1>2, <1>3
    <2>. QED  BY <2>1 DEF Session
<1>5. plan.action.target \in Nat /\ plan.report.print \in Nat
    BY <1>1, <1>2 DEF TypeInv, PlanFits
<1>. DEFINE pending == [session |-> s, target |-> plan.action.target,
                        since |-> sessions[s].since, print |-> plan.report.print]
<1>6. pending \in Pending
    BY <1>3, <1>4, <1>5 DEF Pending
<1>7. launched' = [launched EXCEPT ![current] = pending]
    BY DEF Record, Recorded
<1>8. launched \in [Watches -> Pending \cup {None}]
    BY DEF TypeInv, TypeOK
<1>9. pending # None
    BY <1>6, NoneIsNothingElse
<1>10. pending.session = s /\ pending.target = plan.action.target
    OBVIOUS
<1>. HIDE DEF pending
<1>11. /\ launched' \in [Watches -> Pending \cup {None}] /\ launched'[current] = pending
       /\ \A w \in Watches \ {current} : launched'[w] = launched[w]
    BY <1>2, <1>6, <1>7, <1>8
<1>. DEFINE r == [plan.report EXCEPT !.event = "started", !.session = s,
                                     !.since = sessions[s].since]
<1>12. plan.report \in ReportType /\ plan.action \in ActionType
    BY <1>2, PlanHasParts
<1>13. r \in ReportType /\ r.event = "started" /\ r.session = s /\ r.since = sessions[s].since
       /\ r.head = plan.report.head /\ r.closed = plan.report.closed
    BY <1>3, <1>4, <1>12 DEF ReportType, Field
<1>14. plan' = [plan EXCEPT !.report = r]
    BY <1>2, <1>12 DEF Record, Plan, ReportType
<1>15. plan = [report |-> plan.report, action |-> plan.action]
    BY <1>2 DEF Plan
<1>. HIDE DEF r
<1>16. plan' = [report |-> r, action |-> plan.action]
    BY <1>14, <1>15
<1>17. plan' \in Plan /\ plan'.report = r
    BY <1>12, <1>13, <1>16, PlanParts
<1>. QED  BY <1>1, <1>2, <1>3, <1>4, <1>9, <1>10, <1>11, <1>13, <1>17

LEMMA TypeOfRecord ==
    ASSUME TypeInv, Record
    PROVE  TypeInv'
<1>1. current \in Watches /\ step = "record"
    BY DEF TypeInv, TypeOK, Record
<1>2. \A w \in Watches : launched'[w] # None => launched'[w].session \in DOMAIN sessions
    <2>. TAKE w \in Watches
    <2>1. CASE w = current
        BY <2>1, RecordRecords
    <2>2. CASE w # current
        BY <2>2, RecordRecords DEF TypeInv, TypeOK
    <2>. QED  BY <2>1, <2>2
<1>3. PlanFits'
    BY RecordRecords DEF PlanFits
<1>. QED  BY <1>1, <1>2, <1>3, RecordRecords DEF TypeInv, TypeOK, Runs, Ended

\* The report of the tick goes out.
LEMMA ReportReports ==
    ASSUME TypeInv, Report
    PROVE  /\ step = "report" \/ (step = "act" /\ plan.action.type = "none")
           /\ current \in Watches /\ Proper(plan.report)
           /\ step' = "next" /\ current' = None /\ seen' = None /\ plan' = NoPlan
           /\ faults' \in 0..MaxFaults
           /\ UNCHANGED <<pushes, reviews, open, todo, listed, slots, agents, sessions, strays,
                          changes, acts>>
           /\ \E known \in BOOLEAN :
                 /\ Delivered(current, plan.report, known)
                 /\ launched' = IF known /\ Takes(rows[current], plan.report)
                                  THEN [launched EXCEPT ![current] = None] ELSE launched
<1>1. /\ step = "report" \/ (step = "act" /\ plan.action.type = "none")
      /\ step' = "next" /\ current' = None /\ seen' = None /\ plan' = NoPlan
      /\ UNCHANGED <<pushes, reviews, open, todo, listed, slots, agents, sessions, strays,
                     changes, acts>>
    BY DEF Report, ToNextWatch, github
<1>2. TypeOK /\ current \in Watches /\ plan \in Plan /\ PlanFits
    BY <1>1 DEF TypeInv, TypeOK
<1>3. Proper(plan.report)
    BY <1>2, PlanHasParts DEF Proper, PlanFits
<1>4. PICK known \in BOOLEAN :
          /\ Deliver(current, plan.report, known)
          /\ launched' = Confirmed(current, known /\ Takes(rows[current], plan.report))
    BY DEF Report
<1>5. Delivered(current, plan.report, known) /\ faults' \in 0..MaxFaults
    BY <1>2, <1>3, <1>4, DeliverDelivers
<1>6. launched' = IF known /\ Takes(rows[current], plan.report)
                    THEN [launched EXCEPT ![current] = None] ELSE launched
    BY <1>4 DEF Confirmed
<1>. QED  BY <1>1, <1>2, <1>3, <1>5, <1>6

LEMMA TypeOfReport ==
    ASSUME TypeInv, Report
    PROVE  TypeInv'
<1>1. rows' \in [Watches -> Row] /\ \A v \in Watches : Runs(rows'[v])
    BY ReportReports DEF Delivered
<1>2. launched' \in [Watches -> Pending \cup {None}]
      /\ \A v \in Watches : launched'[v] # None => launched'[v].session \in DOMAIN sessions
    <2>1. launched \in [Watches -> Pending \cup {None}]
          /\ \A v \in Watches : launched[v] # None => launched[v].session \in DOMAIN sessions
        BY DEF TypeInv, TypeOK
    <2>2. launched' = launched \/ launched' = [launched EXCEPT ![current] = None]
        BY ReportReports
    <2>3. current \in Watches
        BY ReportReports
    <2>. QED  BY <2>1, <2>2, <2>3
<1>. QED  BY <1>1, <1>2, ReportReports DEF TypeInv, TypeOK, Runs, Ended

LEMMA TypeOfReadFails ==
    ASSUME TypeInv, ReadFails
    PROVE  TypeInv'
<1>1. faults' \in 0..MaxFaults
    BY WatchAssumption DEF ReadFails, TypeInv, TypeOK
<1>2. /\ step = "decide" /\ step' = "next" /\ current' = None /\ seen' = None /\ plan' = NoPlan
      /\ UNCHANGED <<pushes, reviews, open, rows, launched, todo, listed, slots, agents, sessions,
                     strays, changes, acts>>
    BY DEF ReadFails, ToNextWatch, github
<1>. QED  BY <1>1, <1>2 DEF TypeInv, TypeOK, Runs, Ended

LEMMA TypeOfEnd ==
    ASSUME TypeInv, EndTick \/ Crash
    PROVE  TypeInv'
<1>1. faults' \in 0..MaxFaults
    BY WatchAssumption DEF EndTick, Crash, TypeInv, TypeOK
<1>2. strays' \subseteq DOMAIN sessions
    BY DEF EndTick, Crash, TypeInv, TypeOK
<1>3. /\ Between
      /\ UNCHANGED <<pushes, reviews, open, rows, launched, sessions, changes, acts>>
    BY DEF EndTick, Crash, github
<1>. QED  BY <1>1, <1>2, <1>3 DEF Between, TypeInv, TypeOK, Runs, Ended

LEMMA TypeInitially ==
    ASSUME Init
    PROVE  TypeInv
<1>1. pushes \in [Pulls -> Seq(PushKind)] /\ reviews \in [Pulls -> Seq(Nat)]
    <2>1. <<"edit">> \in Seq(PushKind) /\ {<<>>, <<1>>} \subseteq Seq(Nat)
        BY DEF PushKind
    <2>. QED  BY <2>1 DEF Init
<1>2. Absent \in Row /\ Absent.state = "idle"
    BY DEF Absent, Row, Field
<1>3. sessions \in Seq(Session) /\ strays \subseteq DOMAIN sessions
    BY DEF Init
<1>. HIDE DEF Absent
<1>4. 0 \in 0..MaxPushes /\ 0 \in 0..MaxActs /\ 0 \in 0..MaxFaults
    BY WatchAssumption
<1>. QED  BY <1>1, <1>2, <1>3, <1>4 DEF Init, TypeInv, TypeOK

\* The steps of Next, and the step that changes nothing.
LEMMA TypeKept ==
    ASSUME TypeInv, [Next]_vars
    PROVE  TypeInv'
<1>1. CASE StartTick
    BY <1>1, TypeOfStart
<1>2. CASE \E w \in Watches : Look(w)
    BY <1>2, TypeOfLook
<1>3. CASE \E w \in Watches : ReportAgain(w)
    BY <1>3, TypeOfReportAgain
<1>4. CASE ReadAgents
    BY <1>4, TypeOfReadAgents
<1>5. CASE Decide
    BY <1>5, TypeOfDecide
<1>6. CASE StopAction
    BY <1>6, TypeOfStop
<1>7. CASE Launch
    BY <1>7, TypeOfLaunch
<1>8. CASE LaunchFails
    BY <1>8, TypeOfLaunchFails
<1>9. CASE Record
    BY <1>9, TypeOfRecord
<1>10. CASE Report
    BY <1>10, TypeOfReport
<1>11. CASE ReadFails
    BY <1>11, TypeOfReadFails
<1>12. CASE EndTick \/ Crash
    BY <1>12, TypeOfEnd
<1>13. CASE OverdueStep
    <2>1. PICK w \in Watches : Overdue(w)
        BY <1>13 DEF OverdueStep
    <2>. QED  BY <2>1, OverdueActs, TypeOfSessions DEF TypeInv, TypeOK
<1>14. CASE \E s \in DOMAIN sessions :
              EndSession(s) \/ \E n \in 1..MaxPushes + 1 : PostReview(s, n)
    <2>1. PICK s \in DOMAIN sessions :
              EndSession(s) \/ \E n \in 1..MaxPushes + 1 : PostReview(s, n)
        BY <1>14
    <2>2. TypeOK
        BY DEF TypeInv
    <2>. QED  BY <2>1, <2>2, SessionActs, TypeOfSessions
<1>15. CASE \E p \in Pulls : Close(p) \/ \E kind \in PushKind : Push(p, kind)
    BY <1>15, TypeOfGitHub
<1>16. CASE \E w \in Watches : Add(w) \/ Stop(w) \/ ReviewNow(w)
    BY <1>16, TypeOfOwner
<1>17. CASE UNCHANGED vars
    BY <1>17 DEF TypeInv, TypeOK, PlanFits, Runs, Ended, vars, github, volatile
<1>. QED  BY <1>1, <1>2, <1>3, <1>4, <1>5, <1>6, <1>7, <1>8, <1>9, <1>10, <1>11, <1>12,
             <1>13, <1>14, <1>15, <1>16, <1>17 DEF Next, TickStep

-----------------------------------------------------------------------------
(* Which sessions are at work, and who knows of them.                      *)

Here(w) == AtWatch /\ current = w

\* The row is as it was when the tick listed it.
Same(w) ==
    /\ rows[w].state = listed[w].state /\ rows[w].session = listed[w].session
    /\ rows[w].head = listed[w].head

ByRow(w, s) == rows[w].state = "running" /\ rows[w].session = s
ByFile(w, s) == launched[w] # None /\ launched[w].session = s

Tracked(w, s) ==
    \/ ByRow(w, s) \/ ByFile(w, s)
    \/ step = "record" /\ s = Len(sessions)
    \/ rows[w].status = "stopped"

\* A watch has one session at work; a row that runs, or a launch on file, is of
\* that one; a row that may still run was not closed; and from the list to its
\* turn nothing happens to a row but what the owner does.
WatchTracked(w) ==
    /\ \A s, t \in AtWork(w) : s = t
    /\ rows[w].state = "running" => \A s \in AtWork(w) : s = rows[w].session
    /\ launched[w] # None => \A s \in AtWork(w) : s = launched[w].session
    /\ \A s \in AtWork(w) : Tracked(w, s)
    /\ rows[w].state = "running" \/ launched[w] # None \/ w \in todo \/ Here(w) =>
          rows[w].status \in {"watching", "stopped"}
    /\ w \in todo => Same(w) /\ \A s \in AtWork(w) : ByRow(w, s) \/ ByFile(w, s)
    /\ Here(w) => Same(w)

\* The watch the tick is at: no session is at work when one is launched, and
\* none when the row is said to have finished.
TurnTracked ==
    /\ current \notin todo
    /\ step \in {"decide", "act", "record"} => launched[current] = None
    /\ step \in {"decide", "act"} /\ listed[current].state # "running" => AtWork(current) = {}
    /\ step \in {"act", "record"} /\ plan.action.type = "review" =>
          listed[current].state # "running"
    /\ step = "record" =>
          AtWork(current) \subseteq {Len(sessions)} /\ sessions[Len(sessions)].watch = current
    /\ step = "report" /\ plan.report.event = "started" =>
          launched[current] # None /\ launched[current].session = plan.report.session
    /\ step = "report" /\ plan.report.event # "started" => launched[current] = None
    /\ step \in {"act", "report"} /\ plan.report.event \in {"posted", "failed"} =>
          /\ listed[current].state = "running"
          /\ step = "report" \/ plan.action.type = "none" => AtWork(current) = {}
    /\ step \in {"act", "record", "report"} /\ plan.report.closed =>
          listed[current].state # "running" /\ plan.action.type = "none"
                                            /\ plan.report.event = None

TrackInv == (\A w \in Watches : WatchTracked(w)) /\ (AtWatch => TurnTracked)

\* Nothing happens to a watch but that sessions end, its turn comes or passes,
\* and the owner acts.
LEMMA WatchFrame ==
    ASSUME NEW w \in Watches, WatchTracked(w),
           AtWork(w)' \subseteq AtWork(w),
           rows'[w].state = rows[w].state, rows'[w].session = rows[w].session,
           rows'[w].head = rows[w].head,
           \/ rows'[w].status = rows[w].status
           \/ rows[w].status = "absent" /\ rows'[w].status = "watching"
           \/ rows[w].status = "watching" /\ rows'[w].status = "stopped",
           launched'[w] = launched[w],
           w \in todo' => w \in todo,
           w \in todo' \/ Here(w)' => listed' = listed,
           Here(w)' => Here(w) \/ w \in todo,
           step = "record" /\ Len(sessions) \in AtWork(w)' =>
              step' = "record" /\ Len(sessions') = Len(sessions)
    PROVE  WatchTracked(w)'
<1>1. \A s \in AtWork(w)' : Tracked(w, s)'
    BY DEF WatchTracked, Tracked, ByRow, ByFile
<1>2. w \in todo' => Same(w)' /\ \A s \in AtWork(w)' : ByRow(w, s)' \/ ByFile(w, s)'
    BY DEF WatchTracked, Same, ByRow, ByFile
<1>3. Here(w)' => Same(w)'
    BY DEF WatchTracked, Same
<1>4. rows'[w].state = "running" \/ launched'[w] # None \/ w \in todo' \/ Here(w)' =>
          rows'[w].status \in {"watching", "stopped"}
    BY DEF WatchTracked
<1>. HIDE DEF AtWork, Here
<1>. QED  BY <1>1, <1>2, <1>3, <1>4 DEF WatchTracked

LEMMA WorkShrinks ==
    ASSUME SessionsMove, strays \subseteq strays', NEW w
    PROVE  AtWork(w)' \subseteq AtWork(w)
    BY DEF SessionsMove, AtWork

LEMMA WorkStays ==
    ASSUME sessions' = sessions, strays \subseteq strays', NEW w
    PROVE  AtWork(w)' \subseteq AtWork(w)
    BY DEF AtWork

LEMMA WorkGrows ==
    ASSUME Grown, strays \subseteq strays', NEW w
    PROVE  AtWork(w)' \subseteq AtWork(w) \cup {Len(sessions')}
           /\ (w # current \/ Len(sessions') \in strays' => AtWork(w)' \subseteq AtWork(w))
    BY DEF Grown, AtWork

LEMMA WorkIsSessions ==
    ASSUME NEW w
    PROVE  AtWork(w) \subseteq DOMAIN sessions
    BY DEF AtWork

\* The tick stays where it is, and the rows as they are but for the owner.
LEMMA TrackFrame ==
    ASSUME TrackInv,
           \A w \in Watches : AtWork(w)' \subseteq AtWork(w),
           \A w \in Watches :
              /\ rows'[w].state = rows[w].state /\ rows'[w].session = rows[w].session
              /\ rows'[w].head = rows[w].head
              /\ \/ rows'[w].status = rows[w].status
                 \/ rows[w].status = "absent" /\ rows'[w].status = "watching"
                 \/ rows[w].status = "watching" /\ rows'[w].status = "stopped",
           Len(sessions') = Len(sessions),
           step = "record" => sessions'[Len(sessions)].watch = sessions[Len(sessions)].watch,
           AtWatch => current \in Watches,
           UNCHANGED <<launched, step, todo, listed, current, plan>>
    PROVE  TrackInv'
<1>1. ASSUME NEW w \in Watches
      PROVE  WatchTracked(w)'
    <2>1. WatchTracked(w)
        BY DEF TrackInv
    <2>2. Here(w)' => Here(w)
        BY DEF Here, AtWatch
    <2>. QED  BY <2>1, <2>2, WatchFrame
<1>2. ASSUME AtWatch'
      PROVE  TurnTracked'
    <2>1. AtWatch /\ TurnTracked /\ current \in Watches
        BY <1>2 DEF AtWatch, TrackInv
    <2>2. AtWork(current)' \subseteq AtWork(current)
        BY <2>1
    <2>. QED  BY <2>1, <2>2 DEF TurnTracked
<1>. QED  BY <1>1, <1>2 DEF TrackInv

LEMMA TrackOfStart ==
    ASSUME TypeInv, TrackInv, StartTick
    PROVE  TrackInv'
<1>1. /\ step = "none" /\ step' = "next" /\ todo' = Listable /\ listed' = rows
      /\ launched' = [w \in Watches |-> IF w \in Listable THEN launched[w] ELSE None]
      /\ UNCHANGED <<rows, sessions, strays>>
    BY DEF StartTick
<1>2. ~AtWatch /\ ~AtWatch'
    BY <1>1 DEF AtWatch
<1>3. ASSUME NEW w \in Watches
      PROVE  WatchTracked(w)'
    <2>1. WatchTracked(w)
        BY DEF TrackInv
    <2>2. AtWork(w)' = AtWork(w)
        BY <1>1 DEF AtWork
    <2>3. ~Here(w) /\ ~Here(w)'
        BY <1>2 DEF Here
    <2>4. CASE w \in Listable
        <3>1. launched'[w] = launched[w] /\ rows'[w] = rows[w]
            BY <1>1, <2>4
        <3>2. \A s \in AtWork(w) : ByRow(w, s) \/ ByFile(w, s)
            BY <1>1, <2>1, <2>4 DEF WatchTracked, Tracked, ByRow, Listable
        <3>3. \A s \in AtWork(w)' : (ByRow(w, s) \/ ByFile(w, s))'
            BY <2>2, <3>1, <3>2 DEF ByRow, ByFile
        <3>4. Same(w)'
            BY <1>1 DEF Same
        <3>5. \A s \in AtWork(w)' : Tracked(w, s)'
            BY <3>3 DEF Tracked
        <3>6. rows[w].status \in {"watching", "stopped"}
            BY <2>1, <2>4 DEF WatchTracked, Listable
        <3>. QED  BY <2>1, <2>2, <2>3, <3>1, <3>3, <3>4, <3>5, <3>6 DEF WatchTracked
    <2>5. CASE w \notin Listable
        <3>1. launched'[w] = None /\ rows'[w] = rows[w] /\ w \notin todo'
            BY <1>1, <2>5
        <3>2. rows[w].state # "running" /\ rows[w].status # "watching"
            BY <2>5 DEF Listable
        <3>3. \A s \in AtWork(w) : rows[w].status = "stopped"
            BY <1>1, <2>1, <3>2 DEF WatchTracked, Tracked, ByRow, ByFile
        <3>4. \A s \in AtWork(w)' : Tracked(w, s)'
            BY <2>2, <3>1, <3>3 DEF Tracked
        <3>. QED  BY <2>1, <2>2, <2>3, <3>1, <3>2, <3>4 DEF WatchTracked
    <2>. QED  BY <2>4, <2>5
<1>. QED  BY <1>2, <1>3 DEF TrackInv

LEMMA TrackOfLook ==
    ASSUME TypeInv, TrackInv, NEW w \in Watches, Look(w)
    PROVE  TrackInv'
<1>1. /\ step = "next" /\ w \in todo /\ todo' = todo \ {w} /\ step' = "decide" /\ current' = w
      /\ launched[w] # None => listed[w].state = "running"
      /\ launched' = [launched EXCEPT ![w] = None]
      /\ UNCHANGED <<rows, listed, plan, sessions, strays>>
    BY DEF Look, NextWatch
<1>2. ~AtWatch /\ AtWatch' /\ launched \in [Watches -> Pending \cup {None}]
    BY <1>1 DEF AtWatch, TypeInv, TypeOK
<1>3. ASSUME NEW v \in Watches
      PROVE  AtWork(v)' = AtWork(v) /\ WatchTracked(v)
    BY <1>1, <1>3 DEF AtWork, TrackInv
<1>4. Same(w) /\ Same(w)'
    BY <1>1, <1>3 DEF WatchTracked, Same
\* A launch the site has confirmed is of a row that runs.
<1>5. /\ \A s \in AtWork(w) : ByRow(w, s)
      /\ rows[w].state # "running" => AtWork(w) = {}
    <2>1. \A s \in AtWork(w) : ByRow(w, s) \/ ByFile(w, s)
        BY <1>1, <1>3 DEF WatchTracked
    <2>2. \A s \in AtWork(w) : ByFile(w, s) => ByRow(w, s)
        BY <1>1, <1>3, <1>4 DEF WatchTracked, ByFile, ByRow, Same
    <2>. QED  BY <2>1, <2>2 DEF ByRow
<1>6. WatchTracked(w)'
    <2>1. \A s \in AtWork(w)' : ByRow(w, s)'
        BY <1>1, <1>3, <1>5 DEF ByRow
    <2>2. \A s \in AtWork(w)' : Tracked(w, s)'
        BY <2>1 DEF Tracked
    <2>3. launched'[w] = None /\ rows' = rows /\ w \notin todo'
        BY <1>1, <1>2
    <2>4. WatchTracked(w) /\ AtWork(w)' = AtWork(w) /\ w \in todo
        BY <1>1, <1>3
    <2>. QED  BY <1>4, <2>2, <2>3, <2>4 DEF WatchTracked
<1>7. ASSUME NEW v \in Watches \ {w}
      PROVE  WatchTracked(v)'
    <2>1. launched'[v] = launched[v] /\ ~Here(v)' /\ (v \in todo' => v \in todo)
        BY <1>1, <1>2 DEF Here
    <2>2. rows' = rows /\ listed' = listed /\ step # "record"
        BY <1>1
    <2>. QED  BY <1>3, <2>1, <2>2, WatchFrame
<1>8. TurnTracked'
    <2>1. current' \notin todo' /\ launched'[current'] = None
        BY <1>1, <1>2
    <2>2. listed'[current'].state # "running" => AtWork(w)' = {}
        BY <1>1, <1>3, <1>4, <1>5 DEF Same
    <2>3. AtWork(current)' = AtWork(w)'
        BY <1>1 DEF AtWork
    <2>. QED  BY <1>1, <2>1, <2>2, <2>3 DEF TurnTracked
<1>. QED  BY <1>6, <1>7, <1>8 DEF TrackInv

\* What becomes of a watch whose launch is reported once more.
LEMMA TrackOfReportAgain ==
    ASSUME TypeInv, TrackInv, NEW w \in Watches, ReportAgain(w)
    PROVE  TrackInv'
<1>1. /\ w \in todo /\ step = "next" /\ todo' = todo \ {w} /\ launched[w] # None
      /\ listed[w].state # "running"
      /\ UNCHANGED <<step, listed, current, plan, sessions, strays>>
    BY ReportedAgain
<1>2. PICK known \in BOOLEAN :
          /\ Delivered(w, Started(w), known)
          /\ launched' = IF known THEN [launched EXCEPT ![w] = None] ELSE launched
    BY ReportedAgain
<1>3. ~AtWatch /\ ~AtWatch'
    BY <1>1 DEF AtWatch
<1>4. ASSUME NEW v \in Watches
      PROVE  AtWork(v)' = AtWork(v) /\ WatchTracked(v)
    BY <1>1, <1>4 DEF AtWork, TrackInv
<1>5. ASSUME NEW v \in Watches \ {w}
      PROVE  WatchTracked(v)'
    <2>1. launched'[v] = launched[v] /\ rows'[v] = rows[v]
        BY <1>2 DEF Delivered, TypeInv, TypeOK
    <2>2. ~Here(v)' /\ (v \in todo' => v \in todo) /\ listed' = listed /\ step # "record"
        BY <1>1, <1>3 DEF Here
    <2>. QED  BY <1>4, <2>1, <2>2, WatchFrame
<1>6. WatchTracked(w)'
    <2>. DEFINE s0 == launched[w].session
    <2>1. \A s \in AtWork(w)' : s = s0
        BY <1>1, <1>4 DEF WatchTracked
    <2>2. rows[w].state # "running" /\ rows[w].status \in {"watching", "stopped"}
        BY <1>1, <1>4 DEF WatchTracked, Same
    <2>3. launched'[w] = launched[w] \/ (launched'[w] = None /\ known)
        BY <1>2 DEF TypeInv, TypeOK
    <2>4. ~Here(w)' /\ w \notin todo'
        BY <1>1, <1>3 DEF Here
    <2>5. Proper(Started(w)) /\ Started(w).event = "started" /\ Started(w).session = s0
          /\ Started(w).closed = FALSE
        BY <1>1, StartedIsProper DEF TypeInv
    <2>6. CASE rows'[w] = rows[w] /\ (known => ~Takes(rows[w], Started(w)))
        <3>1. known => rows[w].status = "stopped"
            BY <2>2, <2>5, <2>6 DEF Takes
        <3>2. \A s \in AtWork(w)' : Tracked(w, s)'
            BY <1>1, <2>1, <2>3, <2>6, <3>1 DEF Tracked, ByFile
        <3>. QED  BY <2>1, <2>2, <2>3, <2>4, <2>6, <3>2 DEF WatchTracked
    <2>7. CASE rows'[w] = Reported(rows[w], Started(w)) /\ Takes(rows[w], Started(w))
        <3>1. rows[w] \in Row /\ Started(w) \in ReportType
            BY <2>5 DEF Proper, TypeInv, TypeOK
        <3>2. rows'[w].state = "running" /\ rows'[w].status = rows[w].status
              /\ rows'[w].session = Or(s0, rows[w].session)
            BY <2>5, <2>7, <3>1, ReportedRow
        <3>3. s0 # None
            <4>1. launched[w] \in Pending
                BY <1>1 DEF TypeInv, TypeOK
            <4>. QED  BY <4>1, NoneIsNothingElse DEF Pending
        <3>4. rows'[w].session = s0
            BY <3>2, <3>3 DEF Or
        <3>5. \A s \in AtWork(w)' : Tracked(w, s)'
            BY <2>1, <3>2, <3>4 DEF Tracked, ByRow
        <3>. QED  BY <2>1, <2>2, <2>3, <2>4, <3>2, <3>4, <3>5 DEF WatchTracked
    <2>. QED  BY <1>2, <2>6, <2>7 DEF Delivered
<1>. QED  BY <1>3, <1>5, <1>6 DEF TrackInv

LEMMA TrackOfDecide ==
    ASSUME TypeInv, TrackInv, Decide
    PROVE  TrackInv'
<1>1. /\ step = "decide" /\ step' = "act"
      /\ UNCHANGED <<rows, launched, todo, listed, agents, current, sessions, strays>>
    BY DEF Decide
<1>2. AtWatch /\ AtWatch' /\ current \in Watches /\ TurnTracked
    BY <1>1 DEF AtWatch, TypeInv, TypeOK, TrackInv
<1>3. \A w : AtWork(w)' = AtWork(w) /\ AtWork(current)' = AtWork(current)
    BY <1>1 DEF AtWork
<1>4. ASSUME NEW w \in Watches
      PROVE  WatchTracked(w)'
    <2>1. Here(w)' => Here(w)
        BY <1>1, <1>2 DEF Here
    <2>2. WatchTracked(w)
        BY DEF TrackInv
    <2>. QED  BY <1>1, <1>3, <2>1, <2>2, WatchFrame
<1>5. TurnTracked'
    <2>. DEFINE row == listed[current]
    <2>1. Sensible(plan', row) /\ (row.state = "running" => agents # None)
          /\ (plan'.report.closed => row.state # "running")
        BY DecideIsSensible
    \* A session the agent list called finished has ended, and is of the row.
    <2>2. row.state = "running" /\ row.session \in agents => AtWork(current) = {}
        <3>1. agents # None => agents \subseteq Ended
            BY DEF TypeInv
        <3>2. WatchTracked(current) /\ Same(current)
            BY <1>2 DEF TrackInv, WatchTracked, Here
        <3>3. row.state = "running" => \A s \in AtWork(current) : s = row.session
            BY <3>2 DEF WatchTracked, Same
        <3>4. row.session \in Ended => row.session \notin AtWork(current)
            BY DEF Ended, AtWork
        <3>. QED  BY <2>1, <3>1, <3>3, <3>4
    <2>3. plan'.report.event # "started"
        BY <2>1, NoneIsNothingElse DEF Sensible, Modest
    <2>4. plan'.report.event \in {"posted", "failed"} =>
            row.state = "running" /\ (plan'.action.type = "none" => AtWork(current) = {})
        BY <2>1, <2>2, NoneIsNothingElse DEF Sensible
    <2>5. plan'.report.closed =>
            row.state # "running" /\ plan'.action.type = "none" /\ plan'.report.event = None
        BY <2>1 DEF Sensible
    <2>6. plan'.action.type = "review" => row.state # "running"
        BY <2>1 DEF Sensible
    <2>. HIDE DEF row
    <2>7. /\ current' \notin todo' /\ launched'[current'] = None
          /\ row.state # "running" => AtWork(current) = {}
        BY <1>1, <1>2 DEF TurnTracked, row
    <2>8. row = listed'[current']
        BY <1>1 DEF row
    <2>. QED  BY <1>1, <1>3, <2>3, <2>4, <2>5, <2>6, <2>7, <2>8 DEF TurnTracked
<1>. QED  BY <1>4, <1>5 DEF TrackInv

LEMMA TrackOfStop ==
    ASSUME TypeInv, TrackInv, StopAction
    PROVE  TrackInv'
<1>1. /\ step = "act" /\ plan.action.type = "stop" /\ step' = "report"
      /\ listed[current].state = "running"
      /\ UNCHANGED <<rows, launched, todo, listed, current, plan>>
      /\ SessionsMove /\ strays \subseteq strays'
    BY Stopped
<1>2. AtWatch /\ AtWatch' /\ current \in Watches /\ TurnTracked
    BY <1>1 DEF AtWatch, TypeInv, TypeOK, TrackInv
<1>3. \A w : AtWork(w)' \subseteq AtWork(w)
    BY <1>1, WorkShrinks
<1>4. ASSUME NEW w \in Watches
      PROVE  WatchTracked(w)'
    <2>1. Here(w)' => Here(w)
        BY <1>1, <1>2 DEF Here
    <2>2. WatchTracked(w)
        BY DEF TrackInv
    <2>. QED  BY <1>1, <1>3, <2>1, <2>2, WatchFrame
\* The session was the one its row names, and it has ended or nobody knows it.
<1>5. AtWork(current)' = {}
    <2>. DEFINE s0 == listed[current].session
    <2>1. WatchTracked(current) /\ Same(current)
        BY <1>2 DEF TrackInv, WatchTracked, Here
    <2>2. \A s \in AtWork(current) : s = s0
        BY <1>1, <2>1 DEF WatchTracked, Same
    <2>3. s0 \notin AtWork(current)'
        BY Stopped DEF AtWork
    <2>4. AtWork(current)' \subseteq AtWork(current)
        BY <1>1, WorkShrinks DEF AtWork
    <2>. QED  BY <2>2, <2>3, <2>4
<1>6. TurnTracked'
    <2>1. plan.report.event # "started"
        BY <1>1 DEF TypeInv, PlanFits
    <2>. QED  BY <1>1, <1>2, <1>5, <2>1 DEF TurnTracked
<1>. QED  BY <1>4, <1>6 DEF TrackInv

LEMMA TrackOfLaunch ==
    ASSUME TypeInv, TrackInv, Launch
    PROVE  TrackInv'
<1>1. /\ step = "act" /\ plan.action.type = "review" /\ step' = "record"
      /\ UNCHANGED <<rows, launched, todo, listed, current, plan, strays>>
    BY DEF Launch
<1>2. Grown
    BY <1>1, LaunchGrows DEF Launch
<1>3. AtWatch /\ AtWatch' /\ current \in Watches /\ TurnTracked
    BY <1>1 DEF AtWatch, TypeInv, TypeOK, TrackInv
<1>4. launched[current] = None /\ listed[current].state # "running" /\ AtWork(current) = {}
    BY <1>1, <1>3 DEF TurnTracked
<1>5. AtWork(current)' \subseteq {Len(sessions')}
    <2>1. AtWork(current)' \subseteq AtWork(current) \cup {Len(sessions')}
        BY <1>1, <1>2 DEF Grown, AtWork
    <2>. QED  BY <1>4, <2>1
<1>6. ASSUME NEW w \in Watches \ {current}
      PROVE  WatchTracked(w)'
    <2>1. Here(w)' => Here(w)
        BY <1>1, <1>3 DEF Here
    <2>2. WatchTracked(w)
        BY DEF TrackInv
    <2>3. AtWork(w)' \subseteq AtWork(w)
        BY <1>1, <1>2, WorkGrows
    <2>. QED  BY <1>1, <2>1, <2>2, <2>3, WatchFrame
<1>7. WatchTracked(current)
    BY <1>3 DEF TrackInv
<1>8. ASSUME NEW w, w = current
      PROVE  WatchTracked(w)'
    <2>1. AtWork(w)' \subseteq {Len(sessions')}
        BY <1>1, <1>5, <1>8 DEF AtWork
    <2>2. \A s \in AtWork(w)' : Tracked(w, s)'
        BY <1>1, <2>1 DEF Tracked
    <2>3. WatchTracked(w) /\ Here(w) /\ Same(w) /\ w \notin todo' /\ launched'[w] = None
        BY <1>1, <1>3, <1>4, <1>7, <1>8 DEF WatchTracked, Here, TurnTracked
    <2>4. rows'[w].state # "running" /\ rows' = rows /\ Same(w)'
        BY <1>1, <1>4, <1>8, <2>3 DEF Same
    <2>. QED  BY <2>1, <2>2, <2>3, <2>4 DEF WatchTracked
<1>9. TurnTracked'
    <2>1. sessions'[Len(sessions')].watch = current'
        BY <1>1, <1>2 DEF Grown
    <2>. QED  BY <1>1, <1>3, <1>4, <1>5, <2>1 DEF TurnTracked
<1>. QED  BY <1>6, <1>8, <1>9 DEF TrackInv

LEMMA TrackOfLaunchFails ==
    ASSUME TypeInv, TrackInv, LaunchFails
    PROVE  TrackInv'
<1>1. /\ step = "act" /\ plan.action.type = "review" /\ step' = "report" /\ plan' = HeadLeft
      /\ UNCHANGED <<rows, launched, todo, listed, current>>
    BY FailedLaunch
<1>2. AtWatch /\ AtWatch' /\ current \in Watches /\ TurnTracked
    BY <1>1 DEF AtWatch, TypeInv, TypeOK, TrackInv
<1>3. ASSUME NEW w
      PROVE  AtWork(w)' \subseteq AtWork(w)
    <2>1. CASE UNCHANGED <<sessions, strays>>
        BY <2>1, WorkStays
    <2>2. CASE Grown /\ strays' = strays \cup {Len(sessions')}
        BY <2>2, WorkGrows
    <2>. QED  BY <2>1, <2>2, FailedLaunch
<1>4. ASSUME NEW w \in Watches
      PROVE  WatchTracked(w)'
    <2>1. Here(w)' => Here(w)
        BY <1>1, <1>2 DEF Here
    <2>2. WatchTracked(w)
        BY DEF TrackInv
    <2>. QED  BY <1>1, <1>3, <2>1, <2>2, WatchFrame
<1>5. TurnTracked'
    <2>1. plan'.report.event = None /\ plan'.report.closed = FALSE /\ plan'.action.type = "none"
        BY <1>1, HeadLeftIsPlan, NothingIsReport
    <2>. QED  BY <1>1, <1>2, <2>1, NoneIsNothingElse DEF TurnTracked
<1>. QED  BY <1>4, <1>5 DEF TrackInv

LEMMA TrackOfRecord ==
    ASSUME TypeInv, TrackInv, Record
    PROVE  TrackInv'
<1>1. /\ step = "record" /\ step' = "report" /\ plan.action.type = "review"
      /\ UNCHANGED <<rows, todo, listed, current, sessions, strays>>
      /\ launched'[current].session = Len(sessions) /\ launched'[current] # None
      /\ \A w \in Watches \ {current} : launched'[w] = launched[w]
      /\ plan'.report.event = "started" /\ plan'.report.session = Len(sessions)
      /\ plan'.report.closed = plan.report.closed
    BY RecordRecords
<1>2. AtWatch /\ AtWatch' /\ current \in Watches /\ TurnTracked
    BY <1>1 DEF AtWatch, TypeInv, TypeOK, TrackInv
<1>3. ASSUME NEW w
      PROVE  AtWork(w)' = AtWork(w)
    BY <1>1 DEF AtWork
<1>4. ASSUME NEW w \in Watches \ {current}
      PROVE  WatchTracked(w)'
    <2>1. ~Here(w)'
        BY <1>1 DEF Here
    <2>2. WatchTracked(w)
        BY DEF TrackInv
    <2>3. Len(sessions) \notin AtWork(w)
        BY <1>1, <1>2 DEF TurnTracked, AtWork
    <2>. QED  BY <1>1, <1>3, <2>1, <2>2, <2>3, WatchFrame
<1>5. ASSUME NEW w, w = current
      PROVE  WatchTracked(w)'
    <2>1. \A s \in AtWork(w)' : s = launched'[w].session
        BY <1>1, <1>2, <1>3, <1>5 DEF TurnTracked
    <2>2. \A s \in AtWork(w)' : Tracked(w, s)'
        BY <1>1, <1>5, <2>1 DEF Tracked, ByFile
    <2>3. WatchTracked(w) /\ Here(w) /\ Same(w) /\ w \notin todo'
        BY <1>1, <1>2, <1>5 DEF TrackInv, WatchTracked, Here, TurnTracked
    <2>4. Same(w)' /\ rows' = rows
        BY <1>1, <2>3 DEF Same
    <2>. QED  BY <1>3, <2>1, <2>2, <2>3, <2>4 DEF WatchTracked
<1>6. TurnTracked'
    <2>1. ~plan'.report.closed
        BY <1>1, <1>2 DEF TurnTracked
    <2>. QED  BY <1>1, <1>2, <2>1, NoneIsNothingElse DEF TurnTracked
<1>. QED  BY <1>4, <1>5, <1>6 DEF TrackInv

LEMMA TrackOfReport ==
    ASSUME TypeInv, TrackInv, Report
    PROVE  TrackInv'
<1>1. /\ step = "report" \/ (step = "act" /\ plan.action.type = "none")
      /\ current \in Watches /\ Proper(plan.report) /\ step' = "next"
      /\ UNCHANGED <<todo, listed, sessions, strays>>
    BY ReportReports
<1>2. PICK known \in BOOLEAN :
          /\ Delivered(current, plan.report, known)
          /\ launched' = IF known /\ Takes(rows[current], plan.report)
                           THEN [launched EXCEPT ![current] = None] ELSE launched
    BY ReportReports
<1>3. AtWatch /\ ~AtWatch' /\ TurnTracked
    BY <1>1 DEF AtWatch, TrackInv
<1>4. ASSUME NEW v \in Watches
      PROVE  AtWork(v)' = AtWork(v) /\ WatchTracked(v) /\ ~Here(v)'
    BY <1>1, <1>3, <1>4 DEF AtWork, TrackInv, Here
<1>5. ASSUME NEW v \in Watches \ {current}
      PROVE  WatchTracked(v)'
    <2>1. launched'[v] = launched[v] /\ rows'[v] = rows[v]
        BY <1>2 DEF Delivered, TypeInv, TypeOK
    <2>2. listed' = listed /\ todo' = todo /\ step # "record"
        BY <1>1
    <2>. QED  BY <1>4, <2>1, <2>2, WatchFrame
<1>6. ASSUME NEW w \in Watches, w = current
      PROVE  WatchTracked(w)'
    <2>. DEFINE r == plan.report
    <2>1. WatchTracked(w) /\ Here(w) /\ Same(w) /\ w \notin todo' /\ AtWork(w)' = AtWork(w)
        BY <1>1, <1>3, <1>4, <1>6 DEF WatchTracked, Here, TurnTracked
    <2>2. rows[w].status \in {"watching", "stopped"}
        BY <2>1 DEF WatchTracked
    <2>3. r \in ReportType /\ rows[w] \in Row
        BY <1>1 DEF Proper, TypeInv, TypeOK
    <2>4. rows[w].state = listed[w].state
        BY <2>1 DEF Same
    <2>5. \/ rows'[w] = rows[w] /\ launched'[w] = launched[w]
          \/ /\ rows'[w] = Reported(rows[w], r) /\ Takes(rows[w], r)
             /\ launched'[w] = launched[w] \/ launched'[w] = None
        BY <1>2, <1>6 DEF Delivered, TypeInv, TypeOK
    <2>6. CASE rows'[w] = rows[w] /\ launched'[w] = launched[w]
        BY <1>1, <1>4, <2>1, <2>6, WatchFrame
    <2>7. CASE /\ rows'[w] = Reported(rows[w], r) /\ Takes(rows[w], r)
               /\ launched'[w] = launched[w] \/ launched'[w] = None
        <3>1. /\ rows'[w].state =
                   (IF r.event = "started" THEN "running"
                    ELSE IF r.event = "posted" THEN "idle"
                    ELSE IF r.event = "failed" THEN "failed" ELSE rows[w].state)
              /\ rows'[w].status =
                   (IF rows[w].status = "watching" /\ r.closed THEN "closed" ELSE rows[w].status)
              /\ rows'[w].session = Or(r.session, rows[w].session)
            BY <2>3, <2>7, ReportedRow
        <3>2. r.event \in {None, "started", "posted", "failed"} /\ r.closed \in BOOLEAN
            BY <2>3 DEF ReportType
        <3>3. CASE r.event = "started"
            <4>1. step = "report"
                BY <1>1, <3>3 DEF TypeInv, PlanFits
            <4>2. launched[w] # None /\ launched[w].session = r.session /\ r.closed = FALSE
                BY <1>3, <1>6, <3>2, <3>3, <4>1, NoneIsNothingElse DEF TurnTracked
            <4>3. r.session # None
                BY <1>1, <3>3, NoneIsNothingElse DEF Proper, TypeInv, TypeOK
            <4>4. rows'[w].state = "running" /\ rows'[w].session = r.session
                  /\ rows'[w].status = rows[w].status
                BY <3>1, <3>3, <4>2, <4>3 DEF Or
            <4>5. \A s \in AtWork(w)' : s = r.session
                BY <2>1, <4>2 DEF WatchTracked
            <4>6. \A s \in AtWork(w)' : Tracked(w, s)'
                BY <4>4, <4>5 DEF Tracked, ByRow
            <4>. QED  BY <1>4, <2>1, <2>2, <2>7, <4>2, <4>4, <4>5, <4>6 DEF WatchTracked
        <3>4. CASE r.event \in {"posted", "failed"}
            <4>1. listed[w].state = "running" /\ AtWork(w) = {}
                BY <1>1, <1>3, <1>6, <3>4 DEF TurnTracked
            <4>2. ~r.closed /\ launched[w] = None /\ rows'[w].state # "running"
                BY <1>1, <1>3, <1>6, <3>1, <3>4, NoneIsNothingElse DEF TurnTracked
            <4>. QED  BY <1>4, <2>1, <2>7, <4>1, <4>2 DEF WatchTracked
        <3>5. CASE r.event = None
            <4>1. launched[w] = None /\ launched'[w] = None
                BY <1>1, <1>3, <1>6, <2>7, <3>5, NoneIsNothingElse DEF TurnTracked
            <4>2. rows'[w].state = rows[w].state /\ rows'[w].session = rows[w].session
                BY <1>1, <3>1, <3>5, NoneIsNothingElse DEF Or, Proper
            <4>3. r.closed => rows[w].state # "running"
                BY <1>1, <1>3, <1>6, <2>4 DEF TurnTracked
            <4>4. rows[w].status = "stopped" => rows'[w].status = "stopped"
                BY <3>1
            <4>5. rows'[w].state = "running" => rows'[w].status \in {"watching", "stopped"}
                BY <2>2, <3>1, <4>2, <4>3
            <4>6. \A s \in AtWork(w)' : Tracked(w, s)'
                BY <1>1, <2>1, <4>1, <4>2, <4>4 DEF WatchTracked, Tracked, ByRow, ByFile
            <4>. QED  BY <1>4, <2>1, <4>1, <4>2, <4>5, <4>6 DEF WatchTracked
        <3>. QED  BY <3>2, <3>3, <3>4, <3>5
    <2>. QED  BY <2>5, <2>6, <2>7
<1>. QED  BY <1>3, <1>5, <1>6 DEF TrackInv

\* A tick that dies between the launch and the note of it loses the session.
LEMMA TrackOfEnd ==
    ASSUME TypeInv, TrackInv, EndTick \/ Crash \/ ReadFails
    PROVE  TrackInv'
<1>1. /\ step' \in {"none", "next"} /\ (todo' = {} \/ (todo' = todo /\ listed' = listed))
      /\ UNCHANGED <<rows, launched, sessions>> /\ strays \subseteq strays'
      /\ step = "record" => strays' = strays \cup {Len(sessions)}
    <2>1. CASE EndTick
        BY <2>1 DEF EndTick, Between
    <2>2. CASE Crash
        BY <2>2 DEF Crash, Between
    <2>3. CASE ReadFails
        BY <2>3 DEF ReadFails, ToNextWatch
    <2>. QED  BY <2>1, <2>2, <2>3
<1>2. ~AtWatch'
    BY <1>1 DEF AtWatch
<1>3. ASSUME NEW w \in Watches
      PROVE  WatchTracked(w)'
    <2>1. AtWork(w)' \subseteq AtWork(w)
        BY <1>1, WorkStays
    <2>2. step = "record" => Len(sessions) \notin AtWork(w)'
        BY <1>1 DEF AtWork
    <2>3. WatchTracked(w) /\ ~Here(w)'
        BY <1>2 DEF TrackInv, Here
    <2>. QED  BY <1>1, <2>1, <2>2, <2>3, WatchFrame
<1>. QED  BY <1>2, <1>3 DEF TrackInv

LEMMA TrackInitially ==
    ASSUME Init
    PROVE  TrackInv
<1>1. \A w : AtWork(w) = {}
    BY DEF Init, AtWork
<1>2. \A w \in Watches : rows[w].state # "running" /\ launched[w] = None
                         /\ w \notin todo /\ ~Here(w)
    BY DEF Init, Absent, Here, AtWatch
<1>3. ~AtWatch
    BY DEF Init, AtWatch
<1>. QED  BY <1>1, <1>2, <1>3 DEF TrackInv, WatchTracked

LEMMA TrackKept ==
    ASSUME TypeInv, TrackInv, [Next]_vars
    PROVE  TrackInv'
<1>. TypeOK /\ (AtWatch => current \in Watches)
    BY DEF TypeInv, TypeOK, AtWatch
<1>1. CASE StartTick
    BY <1>1, TrackOfStart
<1>2. CASE \E w \in Watches : Look(w)
    BY <1>2, TrackOfLook
<1>3. CASE \E w \in Watches : ReportAgain(w)
    BY <1>3, TrackOfReportAgain
<1>4. CASE ReadAgents
    <2>1. UNCHANGED <<rows, launched, step, todo, listed, current, plan, sessions, strays>>
        BY <1>4 DEF ReadAgents
    <2>2. \A w \in Watches : AtWork(w)' \subseteq AtWork(w)
        BY <2>1, WorkStays
    <2>. QED  BY <2>1, <2>2, TrackFrame
<1>5. CASE Decide
    BY <1>5, TrackOfDecide
<1>6. CASE StopAction
    BY <1>6, TrackOfStop
<1>7. CASE Launch
    BY <1>7, TrackOfLaunch
<1>8. CASE LaunchFails
    BY <1>8, TrackOfLaunchFails
<1>9. CASE Record
    BY <1>9, TrackOfRecord
<1>10. CASE Report
    BY <1>10, TrackOfReport
<1>11. CASE EndTick \/ Crash \/ ReadFails
    BY <1>11, TrackOfEnd
<1>12. CASE \/ OverdueStep
            \/ \E s \in DOMAIN sessions :
                  EndSession(s) \/ \E n \in 1..MaxPushes + 1 : PostReview(s, n)
    <2>1. /\ SessionsMove
          /\ UNCHANGED <<rows, launched, step, todo, listed, current, plan, strays>>
        BY <1>12, SessionActs, OverdueActs DEF OverdueStep
    <2>2. \A w \in Watches : AtWork(w)' \subseteq AtWork(w)
        BY <2>1, WorkShrinks
    <2>3. Len(sessions') = Len(sessions)
          /\ (step = "record" => sessions'[Len(sessions)].watch = sessions[Len(sessions)].watch)
        BY <2>1 DEF SessionsMove, TypeOK
    <2>. QED  BY <2>1, <2>2, <2>3, TrackFrame
<1>13. CASE \E p \in Pulls : Close(p) \/ \E kind \in PushKind : Push(p, kind)
    <2>1. UNCHANGED <<rows, launched, step, todo, listed, current, plan, sessions, strays>>
        BY <1>13, GitHubActs
    <2>2. \A w \in Watches : AtWork(w)' \subseteq AtWork(w)
        BY <2>1, WorkStays
    <2>. QED  BY <2>1, <2>2, TrackFrame
<1>14. CASE \E w \in Watches : Add(w) \/ Stop(w) \/ ReviewNow(w)
    <2>1. PICK w \in Watches : OwnerMoves(w)
        BY <1>14, OwnerChanges
    <2>2. \A v \in Watches : AtWork(v)' \subseteq AtWork(v)
        BY <2>1, WorkStays DEF OwnerMoves
    <2>. QED  BY <2>1, <2>2, TrackFrame DEF OwnerMoves
<1>15. CASE UNCHANGED vars
    <2>1. UNCHANGED <<rows, launched, step, todo, listed, current, plan, sessions, strays>>
        BY <1>15 DEF vars, volatile
    <2>2. \A w \in Watches : AtWork(w)' \subseteq AtWork(w)
        BY <2>1, WorkStays
    <2>. QED  BY <2>1, <2>2, TrackFrame
<1>. QED  BY <1>1, <1>2, <1>3, <1>4, <1>5, <1>6, <1>7, <1>8, <1>9, <1>10, <1>11,
             <1>12, <1>13, <1>14, <1>15 DEF Next, TickStep

-----------------------------------------------------------------------------
(* Which heads sessions were launched for.                                 *)

\* Sessions of a watch that are not lost, ended or not.
Kept(w) == {s \in DOMAIN sessions \ strays : sessions[s].watch = w}

Behind(w, s) == rows[w].head # None /\ sessions[s].target <= rows[w].head

\* Stopped and finished with: no tick will list it again.
Over(w) ==
    /\ rows[w].status = "stopped" /\ rows[w].state # "running"
    /\ w \notin todo /\ ~Here(w)

\* The head of a row never runs ahead of the pull request, and every session was
\* launched for no later head, but the one whose start the site does not know.
WatchHeads(w) ==
    /\ rows[w].head # None => rows[w].head <= HeadOf(PullOf[w])
    /\ launched[w] # None =>
          /\ launched[w].target <= HeadOf(PullOf[w])
          /\ rows[w].head # None => rows[w].head <= launched[w].target
          /\ sessions[launched[w].session].target = launched[w].target
    /\ \A s \in Kept(w) :
          Behind(w, s) \/ ByFile(w, s) \/ (step = "record" /\ s = Len(sessions)) \/ Over(w)
    /\ rows[w].state = "running" => \A s \in Kept(w) : Behind(w, s)
    /\ \A s, t \in Kept(w) :
          s < t /\ sessions[s].target = sessions[t].target => sessions[t].asked

\* What is launched is launched for the head that was seen, and unasked only for
\* one the row does not have.
TurnHeads ==
    /\ seen.head <= HeadOf(PullOf[current])
    /\ rows[current].head # None => rows[current].head <= seen.head
    /\ step \in {"act", "record", "report"} => plan.report.head \in {None, seen.head}
    /\ step \in {"act", "record"} /\ plan.action.type = "review" =>
          /\ plan.action.target = seen.head /\ plan.report.head = seen.head
          /\ \/ listed[current].requested \/ listed[current].head = None
             \/ listed[current].head # seen.head
    /\ step = "record" => sessions[Len(sessions)].target = seen.head
    /\ step = "report" /\ plan.report.event = "started" =>
          plan.report.head = seen.head /\ launched[current].target = seen.head

HeadInv == (\A w \in Watches : WatchHeads(w)) /\ (AtWatch => TurnHeads)

LEMMA HeadTypes ==
    ASSUME TypeInv, NEW w \in Watches
    PROVE  /\ HeadOf(PullOf[w]) \in Nat /\ rows[w].head \in Nat \cup {None}
           /\ launched[w] # None => launched[w].target \in Nat
           /\ launched[w] # None => launched[w].session \in DOMAIN sessions
           /\ \A s \in DOMAIN sessions : sessions[s].target \in Nat
           /\ AtWatch => current \in Watches /\ seen.head \in Nat
<1>1. PullOf[w] \in Pulls
    BY WatchAssumption
<1>2. HeadOf(PullOf[w]) \in Nat
    BY <1>1 DEF HeadOf, TypeInv, TypeOK
<1>3. rows[w].head \in Nat \cup {None}
    <2>1. rows[w] \in Row
        BY DEF TypeInv, TypeOK
    <2>. QED  BY <2>1 DEF Row, Field
<1>4. launched[w] # None =>
        launched[w].target \in Nat /\ launched[w].session \in DOMAIN sessions
    <2>1. launched[w] # None => launched[w] \in Pending /\ launched[w].session \in DOMAIN sessions
        BY DEF TypeInv, TypeOK
    <2>. QED  BY <2>1 DEF Pending
<1>5. \A s \in DOMAIN sessions : sessions[s].target \in Nat
    <2>1. \A s \in DOMAIN sessions : sessions[s] \in Session
        BY DEF TypeInv, TypeOK
    <2>. QED  BY <2>1 DEF Session
<1>6. AtWatch => current \in Watches /\ seen.head \in Nat
    BY DEF AtWatch, TypeInv, TypeOK
<1>. QED  BY <1>2, <1>3, <1>4, <1>5, <1>6

\* Nothing happens to a watch but that its turn comes or passes, its pull request
\* is pushed to, and the owner acts.
HeadsLeft(w) ==
    /\ Kept(w)' \subseteq Kept(w)
    /\ \A s \in DOMAIN sessions :
          sessions'[s].target = sessions[s].target /\ sessions'[s].asked = sessions[s].asked
    /\ rows'[w].head = rows[w].head /\ rows'[w].state = rows[w].state
    /\ rows[w].status = "stopped" => rows'[w].status = "stopped"
    /\ HeadOf(PullOf[w])' \in Nat /\ HeadOf(PullOf[w])' >= HeadOf(PullOf[w])

LEMMA HeadFrame ==
    ASSUME TypeInv, NEW w \in Watches, WatchHeads(w), HeadsLeft(w),
           launched'[w] = launched[w],
           w \in todo' => w \in todo,
           Here(w)' => Here(w) \/ w \in todo,
           step = "record" /\ Len(sessions) \in Kept(w)' =>
              step' = "record" /\ Len(sessions') = Len(sessions)
    PROVE  WatchHeads(w)'
<1>1. Over(w) => Over(w)'
    BY DEF Over, HeadsLeft
<1>2. \A s \in Kept(w)' : s \in Kept(w) /\ s \in DOMAIN sessions
    BY DEF HeadsLeft, Kept
<1>3. \A s \in Kept(w)' : (Behind(w, s) => Behind(w, s)') /\ (ByFile(w, s) => ByFile(w, s)')
    BY <1>2 DEF HeadsLeft, Behind, ByFile
<1>4. rows'[w].head # None => rows'[w].head <= HeadOf(PullOf[w])'
    BY HeadTypes DEF HeadsLeft, WatchHeads
<1>5. launched'[w] # None =>
          /\ launched'[w].target <= HeadOf(PullOf[w])'
          /\ rows'[w].head # None => rows'[w].head <= launched'[w].target
          /\ sessions'[launched'[w].session].target = launched'[w].target
    BY HeadTypes DEF HeadsLeft, WatchHeads
<1>6. \A s \in Kept(w)' :
          \/ Behind(w, s)' \/ ByFile(w, s)' \/ (step' = "record" /\ s = Len(sessions'))
          \/ Over(w)'
    BY <1>1, <1>2, <1>3 DEF WatchHeads
<1>7. rows'[w].state = "running" => \A s \in Kept(w)' : Behind(w, s)'
    BY <1>2, <1>3 DEF WatchHeads, HeadsLeft
<1>8. \A s, t \in Kept(w)' :
          s < t /\ sessions'[s].target = sessions'[t].target => sessions'[t].asked
    BY <1>2 DEF WatchHeads, HeadsLeft
<1>. HIDE DEF Kept, Behind, ByFile, Over
<1>. QED  BY <1>4, <1>5, <1>6, <1>7, <1>8 DEF WatchHeads

LEMMA KeptShrinks ==
    ASSUME SessionsMove \/ sessions' = sessions, strays \subseteq strays', NEW w
    PROVE  /\ Kept(w)' \subseteq Kept(w)
           /\ \A s \in DOMAIN sessions :
                 sessions'[s].target = sessions[s].target /\ sessions'[s].asked = sessions[s].asked
    BY DEF SessionsMove, Kept

LEMMA KeptGrows ==
    ASSUME Grown, strays \subseteq strays', NEW w
    PROVE  /\ Kept(w)' \subseteq Kept(w) \cup {Len(sessions')}
           /\ w # current \/ Len(sessions') \in strays' => Kept(w)' \subseteq Kept(w)
           /\ \A s \in DOMAIN sessions :
                 sessions'[s].target = sessions[s].target /\ sessions'[s].asked = sessions[s].asked
    BY DEF Grown, Kept

\* GitHub holds still, and so do the heads.
LEMMA SamePushes ==
    ASSUME TypeInv, NEW w \in Watches, pushes' = pushes
    PROVE  HeadOf(PullOf[w])' \in Nat /\ HeadOf(PullOf[w])' >= HeadOf(PullOf[w])
<1>1. HeadOf(PullOf[w])' = HeadOf(PullOf[w])
    BY DEF HeadOf
<1>. QED  BY <1>1, HeadTypes

\* The tick stays where it is, and the rows as they are but for the owner.
LEMMA HeadsFrame ==
    ASSUME TypeInv, HeadInv, \A w \in Watches : HeadsLeft(w),
           DOMAIN sessions' = DOMAIN sessions, Len(sessions') = Len(sessions),
           UNCHANGED <<launched, step, todo, listed, current, seen, plan>>
    PROVE  HeadInv'
<1>1. ASSUME NEW w \in Watches
      PROVE  WatchHeads(w)'
    <2>1. WatchHeads(w) /\ HeadsLeft(w)
        BY DEF HeadInv
    <2>2. Here(w)' => Here(w)
        BY DEF Here, AtWatch
    <2>. QED  BY <2>1, <2>2, HeadFrame
<1>2. ASSUME AtWatch'
      PROVE  TurnHeads'
    <2>1. AtWatch /\ TurnHeads
        BY <1>2 DEF AtWatch, HeadInv
    <2>2. current \in Watches /\ seen.head \in Nat /\ HeadOf(PullOf[current]) \in Nat
        BY <2>1, HeadTypes DEF AtWatch, TypeInv, TypeOK
    <2>3. HeadOf(PullOf[current])' \in Nat /\ HeadOf(PullOf[current])' >= HeadOf(PullOf[current])
          /\ rows'[current].head = rows[current].head
        BY <2>2 DEF HeadsLeft, HeadOf
    <2>4. step = "record" => Len(sessions) \in DOMAIN sessions
        BY DEF TypeInv, TypeOK
    <2>5. step = "record" => sessions'[Len(sessions')].target = sessions[Len(sessions)].target
        BY <2>2, <2>4 DEF HeadsLeft
    <2>6. seen'.head <= HeadOf(PullOf[current])'
        BY <2>1, <2>2, <2>3 DEF TurnHeads
    <2>. QED  BY <2>1, <2>3, <2>5, <2>6 DEF TurnHeads
<1>. QED  BY <1>1, <1>2 DEF HeadInv

LEMMA RowLeft ==
    ASSUME TypeInv, NEW w \in Watches, pushes' = pushes, rows'[w] = rows[w],
           strays \subseteq strays',
           \/ SessionsMove \/ sessions' = sessions
           \/ Grown /\ (w # current \/ Len(sessions') \in strays')
    PROVE  HeadsLeft(w)
<1>1. HeadOf(PullOf[w])' \in Nat /\ HeadOf(PullOf[w])' >= HeadOf(PullOf[w])
    BY SamePushes
<1>2. /\ Kept(w)' \subseteq Kept(w)
      /\ \A s \in DOMAIN sessions :
            sessions'[s].target = sessions[s].target /\ sessions'[s].asked = sessions[s].asked
    BY KeptShrinks, KeptGrows
<1>. QED  BY <1>1, <1>2 DEF HeadsLeft

LEMMA HeadsOfStart ==
    ASSUME TypeInv, TrackInv, HeadInv, StartTick
    PROVE  HeadInv'
<1>1. /\ step = "none" /\ step' = "next" /\ todo' = Listable
      /\ launched' = [w \in Watches |-> IF w \in Listable THEN launched[w] ELSE None]
      /\ UNCHANGED <<pushes, rows, sessions, strays>>
    BY DEF StartTick, github
<1>2. ~AtWatch /\ ~AtWatch'
    BY <1>1 DEF AtWatch
<1>3. ASSUME NEW w \in Watches
      PROVE  WatchHeads(w)'
    <2>1. WatchHeads(w) /\ WatchTracked(w)
        BY DEF HeadInv, TrackInv
    <2>2. Kept(w)' = Kept(w) /\ HeadOf(PullOf[w])' = HeadOf(PullOf[w])
        BY <1>1 DEF Kept, HeadOf
    <2>3. \A s : Behind(w, s)' = Behind(w, s)
        BY <1>1 DEF Behind
    <2>4. ~Here(w) /\ ~Here(w)'
        BY <1>2 DEF Here
    <2>5. CASE w \in Listable
        <3>1. ~Over(w)
            BY <2>5 DEF Over, Listable
        <3>2. launched'[w] = launched[w]
            BY <1>1, <2>5
        <3>3. \A s : ByFile(w, s)' = ByFile(w, s)
            BY <3>2 DEF ByFile
        <3>. QED  BY <1>1, <2>1, <2>2, <2>3, <3>1, <3>2, <3>3 DEF WatchHeads
    <2>6. CASE w \notin Listable
        <3>1. launched'[w] = None /\ w \notin todo'
            BY <1>1, <2>6
        <3>2. launched[w] # None => Over(w)'
            BY <1>1, <2>1, <2>4, <2>6, <3>1 DEF WatchTracked, Over, Listable
        <3>3. Over(w) => Over(w)'
            BY <1>1, <2>4, <3>1 DEF Over
        <3>4. \A s \in Kept(w)' : Behind(w, s)' \/ Over(w)'
            BY <1>1, <2>1, <2>2, <2>3, <3>2, <3>3 DEF WatchHeads, ByFile
        <3>. QED  BY <1>1, <2>1, <2>2, <2>3, <3>1, <3>4 DEF WatchHeads
    <2>. QED  BY <2>5, <2>6
<1>. QED  BY <1>2, <1>3 DEF HeadInv

LEMMA HeadsOfLook ==
    ASSUME TypeInv, TrackInv, HeadInv, NEW w \in Watches, Look(w)
    PROVE  HeadInv'
<1>1. /\ step = "next" /\ w \in todo /\ todo' = todo \ {w} /\ step' = "decide" /\ current' = w
      /\ launched[w] # None => listed[w].state = "running"
      /\ launched' = [launched EXCEPT ![w] = None]
      /\ seen'.head = HeadOf(PullOf[w])
      /\ UNCHANGED <<pushes, rows, sessions, strays>>
    BY DEF Look, NextWatch, github
<1>2. launched \in [Watches -> Pending \cup {None}] /\ ~AtWatch
    BY <1>1 DEF AtWatch, TypeInv, TypeOK
<1>3. ASSUME NEW v \in Watches
      PROVE  HeadsLeft(v) /\ WatchHeads(v)
    BY <1>1, RowLeft DEF HeadInv
<1>4. ASSUME NEW v \in Watches \ {w}
      PROVE  WatchHeads(v)'
    <2>1. launched'[v] = launched[v] /\ ~Here(v)' /\ (v \in todo' => v \in todo) /\ step # "record"
        BY <1>1, <1>2 DEF Here
    <2>. QED  BY <1>3, <2>1, HeadFrame
\* A launch is struck only when the row runs, and then the head was taken on.
<1>5. \A s \in Kept(w) : Behind(w, s)
    <2>1. WatchTracked(w)
        BY DEF TrackInv
    <2>2. launched[w] # None => rows[w].state = "running"
        BY <1>1, <2>1 DEF WatchTracked, Same
    <2>3. ~Over(w) /\ step # "record"
        BY <1>1 DEF Over
    <2>. QED  BY <1>3, <2>2, <2>3 DEF WatchHeads, ByFile
<1>6. WatchHeads(w)'
    <2>1. Kept(w)' = Kept(w) /\ HeadOf(PullOf[w])' = HeadOf(PullOf[w])
        BY <1>1 DEF Kept, HeadOf
    <2>2. \A s : Behind(w, s)' = Behind(w, s)
        BY <1>1 DEF Behind
    <2>3. launched'[w] = None
        BY <1>1, <1>2
    <2>. QED  BY <1>1, <1>3, <1>5, <2>1, <2>2, <2>3 DEF WatchHeads
<1>7. TurnHeads'
    <2>1. HeadOf(PullOf[current])' = HeadOf(PullOf[w]) /\ HeadOf(PullOf[w]) \in Nat
        BY <1>1, HeadTypes DEF HeadOf
    <2>2. rows'[current'].head # None => rows'[current'].head <= seen'.head
        BY <1>1, <1>3 DEF WatchHeads
    <2>. QED  BY <1>1, <2>1, <2>2 DEF TurnHeads
<1>. QED  BY <1>4, <1>6, <1>7 DEF HeadInv

LEMMA HeadsOfReportAgain ==
    ASSUME TypeInv, TrackInv, HeadInv, NEW w \in Watches, ReportAgain(w)
    PROVE  HeadInv'
<1>1. /\ w \in todo /\ step = "next" /\ todo' = todo \ {w} /\ launched[w] # None
      /\ listed[w].state # "running"
      /\ UNCHANGED <<pushes, step, listed, current, sessions, strays>>
    BY ReportedAgain
<1>2. PICK known \in BOOLEAN :
          /\ Delivered(w, Started(w), known)
          /\ launched' = IF known THEN [launched EXCEPT ![w] = None] ELSE launched
    BY ReportedAgain
<1>3. ~AtWatch /\ ~AtWatch'
    BY <1>1 DEF AtWatch
<1>4. ASSUME NEW v \in Watches \ {w}
      PROVE  WatchHeads(v)'
    <2>1. launched'[v] = launched[v] /\ rows'[v] = rows[v]
        BY <1>2 DEF Delivered, TypeInv, TypeOK
    <2>2. HeadsLeft(v) /\ WatchHeads(v)
        BY <1>1, <2>1, RowLeft DEF HeadInv
    <2>3. ~Here(v)' /\ (v \in todo' => v \in todo) /\ step # "record"
        BY <1>1, <1>3 DEF Here
    <2>. QED  BY <2>1, <2>2, <2>3, HeadFrame
<1>5. WatchHeads(w)'
    <2>1. WatchHeads(w) /\ WatchTracked(w)
        BY DEF HeadInv, TrackInv
    <2>2. Kept(w)' = Kept(w) /\ HeadOf(PullOf[w])' = HeadOf(PullOf[w])
          /\ HeadOf(PullOf[w]) \in Nat /\ Kept(w) \subseteq DOMAIN sessions
        BY <1>1, HeadTypes DEF Kept, HeadOf
    <2>3. rows[w].state # "running" /\ rows[w].status \in {"watching", "stopped"}
        BY <1>1, <2>1 DEF WatchTracked, Same
    <2>4. launched'[w] = launched[w] \/ (launched'[w] = None /\ known)
        BY <1>2 DEF TypeInv, TypeOK
    <2>5. \A s \in Kept(w) : Behind(w, s) \/ ByFile(w, s)
        BY <1>1, <2>1 DEF WatchHeads, Over
    <2>6. ~Here(w)' /\ w \notin todo'
        BY <1>1, <1>3 DEF Here
    <2>7. Proper(Started(w)) /\ Started(w).event = "started" /\ Started(w).closed = FALSE
          /\ Started(w).head = launched[w].target
        BY <1>1, StartedIsProper DEF TypeInv
    <2>8. CASE rows'[w] = rows[w] /\ (known => ~Takes(rows[w], Started(w)))
        <3>1. known => rows[w].status = "stopped"
            BY <2>3, <2>7, <2>8 DEF Takes
        <3>2. known => Over(w)'
            BY <2>3, <2>6, <2>8, <3>1 DEF Over
        <3>3. \A s \in Kept(w)' : Behind(w, s)' \/ ByFile(w, s)' \/ Over(w)'
            BY <1>1, <2>2, <2>4, <2>5, <2>8, <3>2 DEF Behind, ByFile
        <3>. QED  BY <1>1, <2>1, <2>2, <2>3, <2>4, <2>8, <3>3 DEF WatchHeads
    <2>9. CASE rows'[w] = Reported(rows[w], Started(w)) /\ Takes(rows[w], Started(w))
        <3>1. rows[w] \in Row /\ Started(w) \in ReportType
            BY <2>7 DEF Proper, TypeInv, TypeOK
        <3>2. launched[w].target \in Nat
            BY <1>1, HeadTypes
        <3>3. rows'[w].head = launched[w].target
            BY <2>7, <2>9, <3>1, <3>2, ReportedRow, NoneIsNothingElse DEF Or
        \* The head taken on is that of the launch, and no earlier one.
        <3>4. \A s \in Kept(w)' : Behind(w, s)'
            <4>. TAKE s \in Kept(w)'
            <4>1. s \in DOMAIN sessions /\ sessions' = sessions /\ sessions[s].target \in Nat
                BY <1>1, <2>2, HeadTypes
            <4>2. CASE Behind(w, s)
                <5>1. rows[w].head \in Nat /\ rows[w].head <= launched[w].target
                    BY <1>1, <2>1, <4>2, HeadTypes DEF WatchHeads, Behind
                <5>. QED  BY <3>2, <3>3, <4>1, <4>2, <5>1, NoneIsNothingElse DEF Behind
            <4>3. CASE ByFile(w, s)
                <5>1. sessions[s].target = launched[w].target
                    BY <1>1, <2>1, <4>3 DEF WatchHeads, ByFile
                <5>. QED  BY <3>2, <3>3, <4>1, <5>1, NoneIsNothingElse DEF Behind
            <4>. QED  BY <2>2, <2>5, <4>2, <4>3
        <3>5. rows'[w].head <= HeadOf(PullOf[w])'
            BY <1>1, <2>1, <2>2, <3>3 DEF WatchHeads
        <3>6. launched'[w] # None =>
                /\ launched'[w].target <= HeadOf(PullOf[w])'
                /\ rows'[w].head <= launched'[w].target
                /\ sessions'[launched'[w].session].target = launched'[w].target
            BY <1>1, <2>1, <2>2, <2>4, <3>2, <3>3 DEF WatchHeads
        <3>. QED  BY <1>1, <2>1, <2>2, <3>4, <3>5, <3>6 DEF WatchHeads
    <2>. QED  BY <1>2, <2>8, <2>9 DEF Delivered
<1>. QED  BY <1>3, <1>4, <1>5 DEF HeadInv

\* The watches are left alone and the tick goes on with the one it is at.
LEMMA HeadsOfTurn ==
    ASSUME TypeInv, HeadInv, AtWatch, pushes' = pushes, rows' = rows, launched' = launched,
           todo' = todo, current' = current, seen' = seen, step # "record",
           strays \subseteq strays',
           \/ SessionsMove \/ sessions' = sessions
           \/ Grown /\ Len(sessions') \in strays'
    PROVE  /\ \A w \in Watches : WatchHeads(w)'
           /\ seen'.head <= HeadOf(PullOf[current])'
           /\ rows'[current'].head # None => rows'[current'].head <= seen'.head
<1>1. ASSUME NEW w \in Watches
      PROVE  WatchHeads(w)'
    <2>1. HeadsLeft(w)
        BY RowLeft
    <2>2. Here(w)' => Here(w)
        BY DEF Here
    <2>3. WatchHeads(w)
        BY DEF HeadInv
    <2>. QED  BY <2>1, <2>2, <2>3, HeadFrame
<1>2. HeadOf(PullOf[current])' = HeadOf(PullOf[current])
    BY DEF HeadOf
<1>. QED  BY <1>1, <1>2 DEF HeadInv, TurnHeads

LEMMA HeadsOfDecide ==
    ASSUME TypeInv, TrackInv, HeadInv, Decide
    PROVE  HeadInv'
<1>1. /\ step = "decide" /\ step' = "act"
      /\ UNCHANGED <<pushes, rows, launched, todo, listed, current, seen, sessions, strays>>
    BY DEF Decide, github
<1>2. AtWatch /\ AtWatch'
    BY <1>1 DEF AtWatch
<1>3. Sensible(plan', listed[current])
    BY DecideIsSensible
<1>4. TurnHeads'
    <2>1. plan'.report.head \in {None, seen.head}
        BY <1>3 DEF Sensible, Modest
    <2>2. plan'.action.type = "review" =>
            /\ plan'.action.target = seen.head /\ plan'.report.head = seen.head
            /\ \/ listed[current].requested \/ listed[current].head = None
               \/ listed[current].head # seen.head
        BY <1>3 DEF Sensible
    <2>. QED  BY <1>1, <1>2, <2>1, <2>2, HeadsOfTurn DEF TurnHeads
<1>. QED  BY <1>1, <1>2, <1>4, HeadsOfTurn DEF HeadInv

LEMMA HeadsOfStop ==
    ASSUME TypeInv, HeadInv, StopAction
    PROVE  HeadInv'
<1>1. /\ step = "act" /\ step' = "report" /\ plan' = plan
      /\ UNCHANGED <<pushes, rows, launched, todo, listed, current, seen>>
      /\ SessionsMove /\ strays \subseteq strays'
    BY Stopped
<1>2. AtWatch /\ AtWatch' /\ TurnHeads
    BY <1>1 DEF AtWatch, HeadInv
<1>3. plan.report.event # "started"
    BY <1>1 DEF TypeInv, PlanFits
<1>4. TurnHeads'
    BY <1>1, <1>2, <1>3, HeadsOfTurn DEF TurnHeads
<1>. QED  BY <1>1, <1>2, <1>4, HeadsOfTurn DEF HeadInv

LEMMA HeadsOfLaunchFails ==
    ASSUME TypeInv, HeadInv, LaunchFails
    PROVE  HeadInv'
<1>1. /\ step = "act" /\ step' = "report" /\ plan' = HeadLeft
      /\ UNCHANGED <<pushes, rows, launched, todo, listed, current, seen>>
      /\ \/ UNCHANGED <<sessions, strays>>
         \/ Grown /\ strays' = strays \cup {Len(sessions')}
    BY FailedLaunch
<1>2. AtWatch /\ AtWatch'
    BY <1>1 DEF AtWatch
<1>3. /\ \A w \in Watches : WatchHeads(w)'
      /\ seen'.head <= HeadOf(PullOf[current])'
      /\ rows'[current'].head # None => rows'[current'].head <= seen'.head
    BY <1>1, <1>2, HeadsOfTurn
<1>4. plan'.report.head = None /\ plan'.report.event = None
    BY <1>1, HeadLeftIsPlan, NothingIsReport
<1>5. TurnHeads'
    BY <1>1, <1>3, <1>4, NoneIsNothingElse DEF TurnHeads
<1>. QED  BY <1>3, <1>5 DEF HeadInv

LEMMA HeadsOfLaunch ==
    ASSUME TypeInv, TrackInv, HeadInv, Launch
    PROVE  HeadInv'
<1>1. /\ step = "act" /\ plan.action.type = "review" /\ step' = "record"
      /\ UNCHANGED <<pushes, rows, launched, todo, listed, current, seen, plan, strays>>
    BY DEF Launch, github
<1>2. Grown
    BY <1>1, LaunchGrows DEF Launch
<1>3. AtWatch /\ AtWatch' /\ current \in Watches /\ TurnHeads /\ TurnTracked
    BY <1>1 DEF AtWatch, TypeInv, TypeOK, TrackInv, HeadInv
<1>4. ASSUME NEW w \in Watches \ {current}
      PROVE  WatchHeads(w)'
    <2>1. HeadsLeft(w) /\ WatchHeads(w)
        BY <1>1, <1>2, RowLeft DEF HeadInv
    <2>2. Here(w)' => Here(w)
        BY <1>1 DEF Here
    <2>. QED  BY <1>1, <2>1, <2>2, HeadFrame
<1>5. WatchHeads(current) /\ WatchTracked(current) /\ Here(current)
    BY <1>3 DEF HeadInv, TrackInv, Here
<1>6. launched[current] = None /\ listed[current].state # "running" /\ Same(current)
    BY <1>1, <1>3, <1>5 DEF TurnTracked, WatchTracked
<1>7. \A s \in Kept(current) : Behind(current, s)
    BY <1>1, <1>5, <1>6 DEF WatchHeads, ByFile, Over
<1>8. ASSUME NEW w, w = current
      PROVE  WatchHeads(w)'
    <2>. DEFINE n == Len(sessions')
    <2>1. Kept(w)' \subseteq Kept(w) \cup {n} /\ Kept(w) \subseteq 1..Len(sessions)
          /\ Len(sessions) \in Nat /\ n = Len(sessions) + 1
        BY <1>1, <1>2, KeptGrows DEF Grown, Kept
    <2>2. /\ \A s \in Kept(w) : sessions'[s] = sessions[s]
          /\ sessions'[n].target = seen.head /\ sessions'[n].asked = listed[w].requested
        BY <1>1, <1>2, <1>3, <1>8, <2>1 DEF Grown, TurnHeads
    <2>3. HeadOf(PullOf[w])' = HeadOf(PullOf[w])
        BY <1>1 DEF HeadOf
    <2>4. \A s \in Kept(w) : Behind(w, s) /\ Behind(w, s)'
        BY <1>1, <1>7, <1>8, <2>2 DEF Behind
    \* What is launched unasked is for a later head than the sessions before.
    <2>5. ASSUME NEW s \in Kept(w), sessions[s].target = seen.head
          PROVE  listed[w].requested
        <3>1. rows[w].head = listed[w].head
            BY <1>6, <1>8 DEF Same
        <3>2. rows[w].head \in Nat /\ rows[w].head <= seen.head /\ seen.head \in Nat
              /\ sessions[s].target <= rows[w].head
            BY <1>3, <1>8, <2>4, HeadTypes DEF Behind, TurnHeads
        <3>3. rows[w].head = seen.head /\ rows[w].head # None
            BY <2>5, <3>2, NoneIsNothingElse
        <3>. QED  BY <1>1, <1>3, <1>8, <3>1, <3>3 DEF TurnHeads
    <2>6. \A s, t \in Kept(w)' :
            s < t /\ sessions'[s].target = sessions'[t].target => sessions'[t].asked
        <3>. SUFFICES ASSUME NEW s \in Kept(w)', NEW t \in Kept(w)',
                             s < t, sessions'[s].target = sessions'[t].target
                      PROVE  sessions'[t].asked
            OBVIOUS
        <3>. HIDE DEF n
        <3>1. s \in Kept(w) /\ (t \in Kept(w) \/ t = n)
            BY <2>1
        <3>2. CASE t \in Kept(w)
            BY <1>5, <1>8, <2>2, <3>1, <3>2 DEF WatchHeads
        <3>3. CASE t = n
            BY <2>2, <2>5, <3>1, <3>3
        <3>. QED  BY <3>1, <3>2, <3>3
    <2>7. \A s \in Kept(w)' : Behind(w, s)' \/ (step' = "record" /\ s = Len(sessions'))
        BY <1>1, <2>1, <2>4
    <2>8. rows'[w].state # "running" /\ launched'[w] = None
        BY <1>1, <1>6, <1>8 DEF Same
    <2>9. rows'[w].head # None => rows'[w].head <= HeadOf(PullOf[w])'
        BY <1>1, <1>5, <1>8, <2>3 DEF WatchHeads
    <2>. QED  BY <2>6, <2>7, <2>8, <2>9 DEF WatchHeads
<1>9. TurnHeads'
    <2>1. HeadOf(PullOf[current])' = HeadOf(PullOf[current])
        BY <1>1 DEF HeadOf
    <2>2. sessions'[Len(sessions')].target = seen.head
        BY <1>1, <1>2, <1>3 DEF Grown, TurnHeads
    <2>. QED  BY <1>1, <1>3, <2>1, <2>2 DEF TurnHeads
<1>. QED  BY <1>4, <1>8, <1>9 DEF HeadInv

LEMMA HeadsOfRecord ==
    ASSUME TypeInv, TrackInv, HeadInv, Record
    PROVE  HeadInv'
<1>1. /\ step = "record" /\ step' = "report" /\ plan.action.type = "review"
      /\ UNCHANGED <<pushes, rows, todo, listed, current, seen, sessions, strays>>
      /\ launched'[current].session = Len(sessions) /\ launched'[current] # None
      /\ launched'[current].target = plan.action.target
      /\ \A w \in Watches \ {current} : launched'[w] = launched[w]
      /\ plan'.report.event = "started" /\ plan'.report.head = plan.report.head
    BY RecordRecords
<1>2. AtWatch /\ AtWatch' /\ current \in Watches /\ TurnHeads /\ TurnTracked
    BY <1>1 DEF AtWatch, TypeInv, TypeOK, TrackInv, HeadInv
<1>3. ASSUME NEW w \in Watches
      PROVE  HeadsLeft(w) /\ WatchHeads(w)
    BY <1>1, RowLeft DEF HeadInv
<1>4. ASSUME NEW w \in Watches \ {current}
      PROVE  WatchHeads(w)'
    <2>1. ~Here(w)' /\ Len(sessions) \notin Kept(w)'
        BY <1>1, <1>2 DEF Here, Kept, TurnTracked
    <2>. QED  BY <1>1, <1>3, <2>1, HeadFrame
<1>5. ASSUME NEW w, w = current
      PROVE  WatchHeads(w)'
    <2>1. Kept(w)' = Kept(w) /\ HeadOf(PullOf[w])' = HeadOf(PullOf[w])
        BY <1>1 DEF Kept, HeadOf
    <2>2. WatchHeads(w) /\ WatchTracked(w) /\ Here(w)
        BY <1>2, <1>3, <1>5 DEF Here, TrackInv
    <2>3. launched[w] = None /\ rows[w].state # "running"
        BY <1>1, <1>2, <1>5, <2>2 DEF TurnTracked, WatchTracked, Same
    <2>4. \A s \in Kept(w) : Behind(w, s) \/ s = Len(sessions)
        BY <1>1, <2>2, <2>3 DEF WatchHeads, ByFile, Over
    <2>5. \A s \in Kept(w)' : Behind(w, s)' \/ ByFile(w, s)'
        BY <1>1, <1>5, <2>1, <2>4 DEF Behind, ByFile
    <2>6. launched'[w].target = seen.head
        BY <1>1, <1>2, <1>5 DEF TurnHeads
    <2>7. /\ launched'[w].target <= HeadOf(PullOf[w])'
          /\ rows'[w].head # None => rows'[w].head <= launched'[w].target
          /\ sessions'[launched'[w].session].target = launched'[w].target
        BY <1>1, <1>2, <1>5, <2>1, <2>6 DEF TurnHeads
    <2>. QED  BY <1>1, <2>1, <2>2, <2>3, <2>5, <2>7 DEF WatchHeads
<1>6. TurnHeads'
    <2>1. HeadOf(PullOf[current])' = HeadOf(PullOf[current])
        BY <1>1 DEF HeadOf
    <2>. QED  BY <1>1, <1>2, <2>1 DEF TurnHeads
<1>. QED  BY <1>4, <1>5, <1>6 DEF HeadInv

LEMMA HeadsOfReport ==
    ASSUME TypeInv, TrackInv, HeadInv, Report
    PROVE  HeadInv'
<1>1. /\ step = "report" \/ (step = "act" /\ plan.action.type = "none")
      /\ current \in Watches /\ Proper(plan.report) /\ step' = "next"
      /\ UNCHANGED <<pushes, todo, listed, sessions, strays>>
    BY ReportReports
<1>2. PICK known \in BOOLEAN :
          /\ Delivered(current, plan.report, known)
          /\ launched' = IF known /\ Takes(rows[current], plan.report)
                           THEN [launched EXCEPT ![current] = None] ELSE launched
    BY ReportReports
<1>3. AtWatch /\ ~AtWatch' /\ TurnTracked /\ TurnHeads
    BY <1>1 DEF AtWatch, TrackInv, HeadInv
<1>4. ASSUME NEW v \in Watches \ {current}
      PROVE  WatchHeads(v)'
    <2>1. launched'[v] = launched[v] /\ rows'[v] = rows[v]
        BY <1>2 DEF Delivered, TypeInv, TypeOK
    <2>2. HeadsLeft(v) /\ WatchHeads(v)
        BY <1>1, <2>1, RowLeft DEF HeadInv
    <2>3. ~Here(v)' /\ step # "record"
        BY <1>1, <1>3 DEF Here
    <2>. QED  BY <1>1, <2>1, <2>2, <2>3, HeadFrame
<1>5. ASSUME NEW w \in Watches, w = current
      PROVE  WatchHeads(w)'
    <2>. DEFINE r == plan.report
    <2>1. WatchHeads(w) /\ WatchTracked(w) /\ Here(w)
        BY <1>3, <1>5 DEF HeadInv, TrackInv, Here
    <2>2. Kept(w)' = Kept(w) /\ HeadOf(PullOf[w])' = HeadOf(PullOf[w])
          /\ HeadOf(PullOf[w]) \in Nat /\ Kept(w) \subseteq DOMAIN sessions
        BY <1>1, HeadTypes DEF Kept, HeadOf
    <2>3. \A s \in Kept(w) : Behind(w, s) \/ ByFile(w, s)
        BY <1>1, <2>1 DEF WatchHeads, Over
    <2>4. \/ rows'[w] = rows[w] /\ launched'[w] = launched[w]
          \/ /\ rows'[w] = Reported(rows[w], r)
             /\ launched'[w] = launched[w] \/ launched'[w] = None
        BY <1>2, <1>5 DEF Delivered, TypeInv, TypeOK
    <2>5. CASE rows'[w] = rows[w] /\ launched'[w] = launched[w]
        <3>1. HeadsLeft(w) /\ ~Here(w)' /\ step # "record"
            BY <1>1, <1>3, <2>5, RowLeft DEF Here
        <3>. QED  BY <1>1, <2>1, <2>5, <3>1, HeadFrame
    <2>6. CASE /\ rows'[w] = Reported(rows[w], r)
               /\ launched'[w] = launched[w] \/ launched'[w] = None
        <3>1. r \in ReportType /\ rows[w] \in Row
            BY <1>1 DEF Proper, TypeInv, TypeOK
        <3>2. rows'[w].head = Or(r.head, rows[w].head)
            BY <2>6, <3>1, ReportedRow
        <3>3. /\ r.head \in {None, seen.head} /\ seen.head \in Nat
              /\ seen.head <= HeadOf(PullOf[w])
              /\ rows[w].head # None => rows[w].head \in Nat /\ rows[w].head <= seen.head
            BY <1>1, <1>3, <1>5, HeadTypes DEF TurnHeads
        <3>4. /\ rows'[w].head # None => rows'[w].head <= HeadOf(PullOf[w])
              /\ rows[w].head # None => rows'[w].head # None /\ rows'[w].head \in Nat
                                        /\ rows[w].head <= rows'[w].head
            BY <2>1, <2>2, <3>2, <3>3, NoneIsNothingElse DEF Or, WatchHeads
        <3>5. \A s \in Kept(w) : Behind(w, s) => Behind(w, s)'
            <4>. SUFFICES ASSUME NEW s \in Kept(w), Behind(w, s)
                          PROVE  Behind(w, s)'
                OBVIOUS
            <4>1. sessions' = sessions /\ sessions[s].target \in Nat
                BY <1>1, <2>2, HeadTypes
            <4>2. rows[w].head # None /\ sessions[s].target <= rows[w].head
                BY DEF Behind
            <4>. QED  BY <3>3, <3>4, <4>1, <4>2 DEF Behind
        <3>6. CASE r.event = "started"
            <4>1. step = "report"
                BY <1>1, <3>6 DEF TypeInv, PlanFits
            <4>2. launched[w] # None /\ launched[w].target = seen.head /\ r.head = seen.head
                BY <1>3, <1>5, <3>6, <4>1 DEF TurnTracked, TurnHeads
            <4>3. rows'[w].head = launched[w].target /\ rows'[w].head # None
                BY <3>2, <3>3, <4>2, NoneIsNothingElse DEF Or
            <4>4. \A s \in Kept(w) : ByFile(w, s) => Behind(w, s)'
                BY <1>1, <2>1, <3>3, <4>2, <4>3 DEF WatchHeads, ByFile, Behind
            <4>5. \A s \in Kept(w)' : Behind(w, s)'
                BY <2>2, <2>3, <3>5, <4>4
            <4>6. launched'[w] # None =>
                    /\ launched'[w].target <= HeadOf(PullOf[w])'
                    /\ rows'[w].head <= launched'[w].target
                    /\ sessions'[launched'[w].session].target = launched'[w].target
                BY <1>1, <2>1, <2>2, <2>6, <3>3, <4>2, <4>3 DEF WatchHeads
            <4>. QED  BY <1>1, <2>1, <2>2, <3>4, <4>5, <4>6 DEF WatchHeads
        <3>7. CASE r.event # "started"
            <4>1. launched[w] = None /\ launched'[w] = None
                BY <1>1, <1>3, <1>5, <2>6, <3>7 DEF TurnTracked
            <4>2. \A s \in Kept(w)' : Behind(w, s)'
                BY <2>2, <2>3, <3>5, <4>1 DEF ByFile
            <4>. QED  BY <1>1, <2>1, <2>2, <3>4, <4>1, <4>2 DEF WatchHeads
        <3>. QED  BY <3>6, <3>7
    <2>. QED  BY <2>4, <2>5, <2>6
<1>. QED  BY <1>3, <1>4, <1>5 DEF HeadInv

LEMMA HeadsOfEnd ==
    ASSUME TypeInv, HeadInv, EndTick \/ Crash \/ ReadFails
    PROVE  HeadInv'
<1>1. /\ step' \in {"none", "next"} /\ (todo' = {} \/ todo' = todo)
      /\ UNCHANGED <<pushes, rows, launched, sessions>> /\ strays \subseteq strays'
      /\ step = "record" => strays' = strays \cup {Len(sessions)}
    <2>1. CASE EndTick
        BY <2>1 DEF EndTick, Between, github
    <2>2. CASE Crash
        BY <2>2 DEF Crash, Between, github
    <2>3. CASE ReadFails
        BY <2>3 DEF ReadFails, ToNextWatch, github
    <2>. QED  BY <2>1, <2>2, <2>3
<1>2. ~AtWatch'
    BY <1>1 DEF AtWatch
<1>3. ASSUME NEW w \in Watches
      PROVE  WatchHeads(w)'
    <2>1. HeadsLeft(w) /\ WatchHeads(w) /\ ~Here(w)'
        BY <1>1, <1>2, RowLeft DEF HeadInv, Here
    <2>2. step = "record" => Len(sessions) \notin Kept(w)'
        BY <1>1 DEF Kept
    <2>. QED  BY <1>1, <2>1, <2>2, HeadFrame
<1>. QED  BY <1>2, <1>3 DEF HeadInv

LEMMA HeadsInitially ==
    ASSUME Init
    PROVE  HeadInv
<1>1. \A w : Kept(w) = {}
    BY DEF Init, Kept
<1>2. \A w \in Watches : rows[w].state # "running" /\ rows[w].head = None /\ launched[w] = None
    BY DEF Init, Absent
<1>3. ~AtWatch
    BY DEF Init, AtWatch
<1>. QED  BY <1>1, <1>2, <1>3 DEF HeadInv, WatchHeads

LEMMA HeadsKept ==
    ASSUME TypeInv, TrackInv, HeadInv, [Next]_vars
    PROVE  HeadInv'
<1>. TypeOK
    BY DEF TypeInv
<1>1. CASE StartTick
    BY <1>1, HeadsOfStart
<1>2. CASE \E w \in Watches : Look(w)
    BY <1>2, HeadsOfLook
<1>3. CASE \E w \in Watches : ReportAgain(w)
    BY <1>3, HeadsOfReportAgain
<1>4. CASE ReadAgents \/ UNCHANGED vars
    <2>1. UNCHANGED <<pushes, rows, launched, step, todo, listed, current, seen, plan,
                      sessions, strays>>
        BY <1>4 DEF ReadAgents, vars, github, volatile
    <2>2. \A w \in Watches : HeadsLeft(w)
        BY <2>1, RowLeft
    <2>. QED  BY <2>1, <2>2, HeadsFrame
<1>5. CASE Decide
    BY <1>5, HeadsOfDecide
<1>6. CASE StopAction
    BY <1>6, HeadsOfStop
<1>7. CASE Launch
    BY <1>7, HeadsOfLaunch
<1>8. CASE LaunchFails
    BY <1>8, HeadsOfLaunchFails
<1>9. CASE Record
    BY <1>9, HeadsOfRecord
<1>10. CASE Report
    BY <1>10, HeadsOfReport
<1>11. CASE EndTick \/ Crash \/ ReadFails
    BY <1>11, HeadsOfEnd
<1>12. CASE \/ OverdueStep
            \/ \E s \in DOMAIN sessions :
                  EndSession(s) \/ \E n \in 1..MaxPushes + 1 : PostReview(s, n)
    <2>1. /\ SessionsMove
          /\ UNCHANGED <<pushes, rows, launched, step, todo, listed, current, seen, plan, strays>>
        BY <1>12, SessionActs, OverdueActs DEF OverdueStep
    <2>2. \A w \in Watches : HeadsLeft(w)
        BY <2>1, RowLeft
    <2>. QED  BY <2>1, <2>2, HeadsFrame DEF SessionsMove
<1>13. CASE \E p \in Pulls : Close(p) \/ \E kind \in PushKind : Push(p, kind)
    <2>1. /\ UNCHANGED <<rows, launched, step, todo, listed, current, seen, plan, sessions, strays>>
          /\ \A q \in Pulls : Len(pushes'[q]) >= Len(pushes[q]) /\ Len(pushes[q]) \in Nat
          /\ pushes' \in [Pulls -> Seq(PushKind)]
        BY <1>13, GitHubActs
    <2>2. ASSUME NEW w \in Watches
          PROVE  HeadsLeft(w)
        <3>1. PullOf[w] \in Pulls
            BY WatchAssumption
        <3>2. HeadOf(PullOf[w])' \in Nat /\ HeadOf(PullOf[w])' >= HeadOf(PullOf[w])
            BY <2>1, <3>1 DEF HeadOf
        <3>. QED  BY <2>1, <3>2, KeptShrinks DEF HeadsLeft
    <2>. QED  BY <2>1, <2>2, HeadsFrame
<1>14. CASE \E w \in Watches : Add(w) \/ Stop(w) \/ ReviewNow(w)
    <2>1. PICK w \in Watches : OwnerMoves(w)
        BY <1>14, OwnerChanges
    <2>2. ASSUME NEW v \in Watches
          PROVE  HeadsLeft(v)
        BY <2>1, SamePushes, KeptShrinks DEF HeadsLeft, OwnerMoves
    <2>. QED  BY <2>1, <2>2, HeadsFrame DEF OwnerMoves
<1>. QED  BY <1>1, <1>2, <1>3, <1>4, <1>5, <1>6, <1>7, <1>8, <1>9, <1>10, <1>11,
             <1>12, <1>13, <1>14 DEF Next, TickStep

-----------------------------------------------------------------------------
(* The theorems.                                                           *)

Inv == TypeInv /\ TrackInv /\ HeadInv

LEMMA InvAlways == Spec => []Inv
<1>1. Init => Inv
    BY TypeInitially, TrackInitially, HeadsInitially DEF Inv
<1>2. Inv /\ [Next]_vars => Inv'
    BY TypeKept, TrackKept, HeadsKept DEF Inv
<1>. QED  BY <1>1, <1>2, PTL DEF Spec

\* Every variable keeps its type, and a row that runs names a session that
\* exists and when it started (pr_watches_running_shape).
THEOREM WatchTypes == Spec => []TypeOK
<1>1. Inv => TypeOK
    BY DEF Inv, TypeInv
<1>. QED  BY <1>1, InvAlways, PTL

\* However many watches there are, and however often reports are lost, ticks die
\* and the owner stops and asks: no watch has two sessions at work.
THEOREM OneSession == Spec => []OneSessionPerWatch
<1>1. Inv => OneSessionPerWatch
    <2>. SUFFICES ASSUME Inv, NEW w \in Watches
                  PROVE  Cardinality(AtWork(w)) <= 1
        BY DEF OneSessionPerWatch
    <2>1. \A s, t \in AtWork(w) : s = t
        BY DEF Inv, TrackInv, WatchTracked
    <2>2. CASE AtWork(w) = {}
        <3>1. Cardinality({}) = 0
            BY FS_EmptySet
        <3>. QED  BY <2>2, <3>1
    <2>3. CASE AtWork(w) # {}
        <3>1. PICK s \in AtWork(w) : TRUE
            BY <2>3
        <3>2. AtWork(w) = {s}
            BY <2>1, <3>1
        <3>3. Cardinality({s}) = 1
            BY FS_Singleton
        <3>. QED  BY <3>2, <3>3
    <2>. QED  BY <2>2, <2>3
<1>. QED  BY <1>1, InvAlways, PTL

\* A session at work is named by its row, kept in the state file for the next
\* tick, or about to be; or its watch was stopped meanwhile.
THEOREM NoSessionIsLost == Spec => []SessionsAreTracked
<1>1. Inv => SessionsAreTracked
    BY DEF Inv, TrackInv, WatchTracked, Tracked, ByRow, ByFile, SessionsAreTracked
<1>. QED  BY <1>1, InvAlways, PTL

\* The head is taken on with the start of its review, so no session is launched
\* for a head an earlier one had, unless the owner asked.
THEOREM NoHeadTwice == Spec => []HeadsReviewedOnce
<1>1. Inv => HeadsReviewedOnce
    <2>. SUFFICES ASSUME Inv, NEW s \in DOMAIN sessions \ strays, NEW t \in DOMAIN sessions \ strays,
                         s < t, sessions[s].watch = sessions[t].watch,
                         sessions[s].target = sessions[t].target
                  PROVE  sessions[t].asked
        BY DEF HeadsReviewedOnce
    <2>1. sessions[s] \in Session
        BY DEF Inv, TypeInv, TypeOK
    <2>. DEFINE w == sessions[s].watch
    <2>2. w \in Watches /\ s \in Kept(w) /\ t \in Kept(w)
        BY <2>1 DEF Session, Kept
    <2>3. WatchHeads(w)
        BY <2>2 DEF Inv, HeadInv
    <2>. QED  BY <2>2, <2>3 DEF WatchHeads
<1>. QED  BY <1>1, InvAlways, PTL
=============================================================================
