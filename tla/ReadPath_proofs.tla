---------------------------- MODULE ReadPath_proofs ----------------------------
(***************************************************************************)
(* What holds of a read of kit-board's pages for every number of filters,  *)
(* sections, jobs and answers kept, and however often pages refresh, edit  *)
(* and retry and the database is late; and of the answer to a query of the *)
(* usage tables, for every calendar, content of the tables and query.      *)
(***************************************************************************)
EXTENDS ReadPath, UsageRead, FiniteSetTheorems, SequenceTheorems, TLAPS

PathSpec(first, bounds) == OpenPages(first, bounds) /\ [][ReadNext]_pathVars

USE DEF Awaiting, Failed, None

-----------------------------------------------------------------------------
(* The shape of the state.                                                 *)

Loads == Nat \cup {None}
Outcomes == Nat \cup {Awaiting, Failed}
Keys == (QueryNames \X Sections) \cup {None}

JobSet == [id : Nat, kind : {"registry", "query", "write"}, key : Keys, at : Loads,
           sources : Loads, generation : Nat, waited : BOOLEAN]
RequestSet == [page : {"registry", "tokens", "edit"}, key : Keys, load : Nat, reply : Outcomes,
               since : Nat, live : BOOLEAN, again : BOOLEAN]
AnswerSet == [key : Keys, load : Nat, fresh : BOOLEAN, place : Nat]
RegistrySet == [generation : Nat, cached : Loads, pending : Nat]

ServerTypes ==
    /\ data \in Nat /\ acked \in Nat
    /\ jobs \in Seq(JobSet)
    /\ results \in Seq(Outcomes)
    /\ registry \in RegistrySet
    /\ answers \subseteq AnswerSet

PartSet == {NoPart} \cup [query : QueryNames, value : Nat]
TokensSet == [query : QueryNames, inFlight : BOOLEAN, base : [Sections -> Loads],
              parts : [Sections -> PartSet], resultQuery : QueryNames \cup {NoQuery},
              pending : SUBSET LaterSections, error : BOOLEAN]
PageTypes ==
    /\ shown \in Nat
    /\ tokens \in TokensSet
    /\ clientCache \in [QueryNames \X Sections -> Loads]

PathTypes == ServerTypes /\ PageTypes /\ sent \in Seq(RequestSet)

\* What a job has read, as far as its caller will see it.
Value(job) == IF job.sources # None THEN job.sources ELSE job.at

-----------------------------------------------------------------------------
(* What the steps of the queue do to it.                                   *)

LEMMA Appended ==
    ASSUME NEW S, NEW s \in Seq(S), NEW e \in S
    PROVE  /\ Append(s, e) \in Seq(S)
           /\ DOMAIN Append(s, e) = DOMAIN s \cup {Len(s) + 1}
           /\ Len(s) + 1 \notin DOMAIN s /\ Len(Append(s, e)) = Len(s) + 1
           /\ \A n \in DOMAIN s : Append(s, e)[n] = s[n]
           /\ Append(s, e)[Len(s) + 1] = e
OBVIOUS

LEMMA Shortened ==
    ASSUME NEW S, NEW s \in Seq(S), s # <<>>
    PROVE  /\ 1 \in DOMAIN s /\ Head(s) = s[1] /\ s[1] \in S
           /\ Tail(s) \in Seq(S) /\ Len(Tail(s)) = Len(s) - 1
           /\ \A n \in DOMAIN Tail(s) : n + 1 \in DOMAIN s /\ Tail(s)[n] = s[n + 1]
OBVIOUS

LEMMA JobIs ==
    ASSUME ServerTypes, NEW kind \in {"registry", "query", "write"}, NEW key \in Keys
    PROVE  /\ Job(kind, key) \in JobSet
           /\ Job(kind, key).id = Len(results) + 1 /\ Job(kind, key).kind = kind
           /\ Job(kind, key).at = None /\ Job(kind, key).sources = None
           /\ Job(kind, key).generation = registry.generation
BY DEF ServerTypes, Job, JobSet, Loads, RegistrySet

\* The queue gains one job at most, which has read nothing yet.
NewJob(job, kind) ==
    /\ job.id = Len(results) + 1 /\ job.kind = kind
    /\ job.at = None /\ job.sources = None /\ job.generation = registry.generation

LEMMA QueueIs ==
    ASSUME ServerTypes, NEW kind \in {"registry", "query", "write"}, NEW key \in Keys,
           Queue(kind, key)
    PROVE  /\ jobs' \in Seq(JobSet) /\ results' \in Seq(Outcomes)
           /\ Len(results') = Len(results) + 1
           /\ DOMAIN results' = DOMAIN results \cup {Len(results')}
           /\ Len(results') \notin DOMAIN results
           /\ \A L \in DOMAIN results : results'[L] = results[L]
           /\ results'[Len(results')] = IF Full THEN Failed ELSE Awaiting
           /\ DOMAIN jobs \subseteq DOMAIN jobs'
           /\ \A n \in DOMAIN jobs : jobs'[n] = jobs[n]
           /\ \A n \in DOMAIN jobs' \ DOMAIN jobs : ~Full /\ NewJob(jobs'[n], kind)
           /\ \A m, n \in DOMAIN jobs' \ DOMAIN jobs : m = n
           /\ jobs # <<>> => jobs' # <<>> /\ Head(jobs') = Head(jobs)
           /\ jobs = <<>> => \A n \in DOMAIN jobs' : n = 1
<1>. DEFINE job == Job(kind, key)
<1>1. job \in JobSet /\ NewJob(job, kind)
    BY JobIs DEF NewJob
<1>2. jobs \in Seq(JobSet) /\ results \in Seq(Outcomes)
    BY DEF ServerTypes
<1>. HIDE DEF job
<1>3. /\ results' = Append(results, IF Full THEN Failed ELSE Awaiting)
      /\ (IF Full THEN Failed ELSE Awaiting) \in Outcomes
    BY DEF Queue, Outcomes
<1>4. /\ results' \in Seq(Outcomes) /\ Len(results') = Len(results) + 1
      /\ DOMAIN results' = DOMAIN results \cup {Len(results')} /\ Len(results') \notin DOMAIN results
      /\ \A L \in DOMAIN results : results'[L] = results[L]
      /\ results'[Len(results')] = IF Full THEN Failed ELSE Awaiting
    BY <1>2, <1>3, Appended
<1>5. CASE Full
    BY <1>2, <1>4, <1>5 DEF Queue
<1>6. CASE ~Full
    <2>1. jobs' = Append(jobs, job)
        BY <1>6 DEF Queue, job
    <2>2. /\ jobs' \in Seq(JobSet) /\ DOMAIN jobs' = DOMAIN jobs \cup {Len(jobs) + 1}
          /\ \A n \in DOMAIN jobs : jobs'[n] = jobs[n]
          /\ jobs'[Len(jobs) + 1] = job
        BY <1>1, <1>2, <2>1, Appended
    <2>3. jobs # <<>> => jobs' # <<>> /\ Head(jobs') = Head(jobs)
        BY <1>2, <2>2, Shortened
    <2>4. jobs = <<>> => \A n \in DOMAIN jobs' : n = 1
        BY <2>2
    <2>. QED  BY <1>1, <1>4, <1>6, <2>2, <2>3, <2>4
<1>. QED  BY <1>5, <1>6

\* The head of the queue is done with.
Done(out) ==
    /\ jobs # <<>>
    /\ \/ out = Failed
       \/ out = Head(jobs).at /\ out # None /\ ~HalfLoaded(Head(jobs))
    /\ Settle(Head(jobs), out)

\* A registry load is half done, and waits again.
Requeued ==
    /\ jobs # <<>> /\ stage = "work"
    /\ Head(jobs).at # None /\ HalfLoaded(Head(jobs))
    /\ QueueIdentities(Head(jobs))

\* Every job is awaited, under a number of its own; only the head is worked on,
\* and what a job has read had committed.
QueueInv ==
    /\ \A n \in DOMAIN jobs :
          /\ jobs[n].id \in DOMAIN results /\ results[jobs[n].id] = Awaiting
          /\ n # 1 => jobs[n].at = None
          /\ Value(jobs[n]) <= data
          /\ jobs[n].kind # "registry" => jobs[n].sources = None
          /\ (jobs[n].at # None /\ jobs[n].sources # None) => jobs[n].at = jobs[n].sources
          /\ jobs[n].generation <= registry.generation
    /\ \A m, n \in DOMAIN jobs : jobs[m].id = jobs[n].id => m = n
    /\ stage \in {"idle", "work", "reset"}
    /\ IF stage = "idle" THEN open = {} /\ \A n \in DOMAIN jobs : jobs[n].at = None
                         ELSE jobs # <<>> /\ open = {Head(jobs).id}

LEMMA DoneIs ==
    ASSUME ServerTypes, QueueInv, NEW out, Done(out)
    PROVE  /\ out \in Nat \cup {Failed} /\ out <= data
           /\ 1 \in DOMAIN jobs /\ Head(jobs) = jobs[1] /\ jobs[1] \in JobSet
           /\ out # Failed => out = Value(jobs[1]) /\ out = jobs[1].at
           /\ jobs' \in Seq(JobSet) /\ results' \in Seq(Outcomes)
           /\ DOMAIN results' = DOMAIN results
           /\ results'[jobs[1].id] = out
           /\ \A L \in DOMAIN results : L # jobs[1].id => results'[L] = results[L]
           /\ \A n \in DOMAIN jobs' : n + 1 \in DOMAIN jobs /\ jobs'[n] = jobs[n + 1]
           /\ stage' = "idle"
<1>1. jobs \in Seq(JobSet) /\ results \in Seq(Outcomes) /\ data \in Nat
    BY DEF ServerTypes
<1>2. /\ 1 \in DOMAIN jobs /\ Head(jobs) = jobs[1] /\ jobs[1] \in JobSet
      /\ Tail(jobs) \in Seq(JobSet)
      /\ \A n \in DOMAIN Tail(jobs) : n + 1 \in DOMAIN jobs /\ Tail(jobs)[n] = jobs[n + 1]
    BY <1>1, Shortened DEF Done
<1>3. jobs[1].at \in Loads /\ jobs[1].sources \in Loads
    BY <1>2 DEF JobSet
<1>4. /\ out \in Nat \cup {Failed} /\ out <= data
      /\ out # Failed => out = Value(jobs[1]) /\ out = jobs[1].at
    <2>1. CASE out = Failed
        BY <1>1, <2>1
    <2>2. CASE out = jobs[1].at /\ out # None /\ ~HalfLoaded(jobs[1])
        <3>1. Value(jobs[1]) = jobs[1].at /\ Value(jobs[1]) <= data
            BY <1>2, <2>2 DEF QueueInv, Value, HalfLoaded
        <3>. QED  BY <1>3, <2>2, <3>1 DEF Loads
    <2>. QED  BY <1>2, <2>1, <2>2 DEF Done
<1>5. jobs' = Tail(jobs) /\ stage' = "idle" /\ results' = [results EXCEPT ![jobs[1].id] = out]
    BY <1>2 DEF Done, Settle
<1>6. jobs[1].id \in DOMAIN results /\ out \in Outcomes
    BY <1>2, <1>4 DEF QueueInv, Outcomes
<1>. QED  BY <1>1, <1>2, <1>4, <1>5, <1>6

LEMMA ExecuteIs ==
    ASSUME ServerTypes, QueueInv, Execute
    PROVE  /\ 1 \in DOMAIN jobs /\ Head(jobs) = jobs[1] /\ jobs[1] \in JobSet
           /\ jobs' \in Seq(JobSet) /\ DOMAIN jobs' = DOMAIN jobs /\ jobs' # <<>>
           /\ data' \in Nat /\ data <= data' /\ (jobs[1].kind = "write" => data' = data + 1)
           /\ jobs[1].at = None /\ stage # "idle"
           /\ \A n \in DOMAIN jobs : n # 1 => jobs'[n] = jobs[n]
           /\ jobs'[1].at = (IF jobs[1].sources = None THEN data' ELSE jobs[1].sources)
           /\ jobs'[1].id = jobs[1].id /\ jobs'[1].kind = jobs[1].kind
           /\ jobs'[1].sources = jobs[1].sources /\ jobs'[1].generation = jobs[1].generation
           /\ Value(jobs'[1]) = (IF jobs[1].sources = None THEN data' ELSE jobs[1].sources)
<1>1. jobs \in Seq(JobSet) /\ data \in Nat
    BY DEF ServerTypes
<1>2. 1 \in DOMAIN jobs /\ Head(jobs) = jobs[1] /\ jobs[1] \in JobSet
    BY <1>1, Shortened DEF Execute
<1>3. jobs[1].sources \in Loads
    BY <1>2 DEF JobSet
<1>4. /\ data' \in Nat /\ data <= data' /\ (jobs[1].kind = "write" => data' = data + 1)
      /\ jobs[1].at = None /\ stage # "idle"
    BY <1>1, <1>2 DEF Execute, QueueInv
<1>. DEFINE read == IF jobs[1].sources = None THEN data' ELSE jobs[1].sources
<1>5. read \in Loads /\ read # None
    BY <1>3, <1>4 DEF Loads
<1>6. jobs' = [jobs EXCEPT ![1] = [jobs[1] EXCEPT !.at = read]]
    BY <1>2 DEF Execute
<1>7. [jobs[1] EXCEPT !.at = read] \in JobSet
    BY <1>2, <1>5 DEF JobSet
<1>8. /\ jobs' \in Seq(JobSet) /\ DOMAIN jobs' = DOMAIN jobs /\ jobs' # <<>>
      /\ jobs'[1] = [jobs[1] EXCEPT !.at = read]
      /\ \A n \in DOMAIN jobs : n # 1 => jobs'[n] = jobs[n]
    BY <1>1, <1>2, <1>6, <1>7
<1>9. /\ jobs'[1].at = read /\ jobs'[1].id = jobs[1].id /\ jobs'[1].kind = jobs[1].kind
      /\ jobs'[1].sources = jobs[1].sources /\ jobs'[1].generation = jobs[1].generation
    BY <1>2, <1>8 DEF JobSet
<1>10. Value(jobs'[1]) = read
    BY <1>9 DEF Value
<1>. QED  BY <1>2, <1>4, <1>8, <1>9, <1>10

LEMMA RequeuedIs ==
    ASSUME ServerTypes, QueueInv, Requeued
    PROVE  /\ 1 \in DOMAIN jobs /\ Head(jobs) = jobs[1] /\ jobs[1] \in JobSet
           /\ jobs[1].kind = "registry" /\ jobs[1].sources = None /\ jobs[1].at \in Nat
           /\ jobs' \in Seq(JobSet) /\ DOMAIN jobs' = DOMAIN jobs /\ stage' = "idle"
           /\ \A n \in DOMAIN jobs' : n # Len(jobs) => n + 1 \in DOMAIN jobs /\ jobs'[n] = jobs[n + 1]
           /\ LET last == jobs'[Len(jobs)]
              IN  /\ last.id = jobs[1].id /\ last.kind = "registry" /\ last.at = None
                  /\ last.sources = jobs[1].at /\ last.generation = jobs[1].generation
                  /\ Value(last) = Value(jobs[1])
<1>1. jobs \in Seq(JobSet)
    BY DEF ServerTypes
<1>2. /\ 1 \in DOMAIN jobs /\ Head(jobs) = jobs[1] /\ jobs[1] \in JobSet
      /\ Tail(jobs) \in Seq(JobSet) /\ Len(Tail(jobs)) = Len(jobs) - 1
      /\ \A n \in DOMAIN Tail(jobs) : n + 1 \in DOMAIN jobs /\ Tail(jobs)[n] = jobs[n + 1]
    BY <1>1, Shortened DEF Requeued
<1>3. jobs[1].at \in Nat /\ jobs[1].kind = "registry" /\ jobs[1].sources = None
    BY <1>2 DEF Requeued, HalfLoaded, JobSet, Loads
<1>. DEFINE waited == Len(jobs) > 1
            last == [jobs[1] EXCEPT !.sources = jobs[1].at, !.at = None, !.waited = waited]
<1>4. jobs' = Append(Tail(jobs), last) /\ stage' = "idle" /\ waited \in BOOLEAN
    BY <1>2 DEF Requeued, QueueIdentities
<1>. HIDE DEF waited
<1>5. /\ last \in JobSet /\ last.id = jobs[1].id /\ last.kind = "registry" /\ last.at = None
      /\ last.sources = jobs[1].at /\ last.generation = jobs[1].generation
    <2>1. jobs[1] \in JobSet /\ jobs[1].at \in Loads /\ None \in Loads /\ waited \in BOOLEAN
        BY <1>2, <1>3, <1>4 DEF Loads
    <2>. QED  BY <1>3, <2>1 DEF JobSet
<1>. HIDE DEF last
<1>6. /\ jobs' \in Seq(JobSet) /\ DOMAIN jobs' = DOMAIN Tail(jobs) \cup {Len(jobs)}
      /\ \A n \in DOMAIN Tail(jobs) : jobs'[n] = Tail(jobs)[n]
      /\ jobs'[Len(jobs)] = last
    BY <1>1, <1>2, <1>4, <1>5, Appended
<1>7. DOMAIN jobs' = DOMAIN jobs
    BY <1>1, <1>2, <1>6
<1>8. Value(last) = Value(jobs[1])
    BY <1>3, <1>5 DEF Value
<1>. QED  BY <1>2, <1>3, <1>4, <1>5, <1>6, <1>7, <1>8

-----------------------------------------------------------------------------
(* The invariants.                                                         *)

\* What waits for a load is connected to one.
Wired ==
    /\ registry.pending \in {0} \cup DOMAIN results
    /\ \A e \in answers : e.load \in DOMAIN results
    /\ \A i \in DOMAIN sent :
          /\ sent[i].load \in {0} \cup DOMAIN results
          /\ sent[i].page = "tokens" => sent[i].key \in QueryNames \X Sections

\* Load L gives nothing older than b, if it gives anything.
Gives(L, b) ==
    /\ results[L] \in Nat => b <= results[L]
    /\ \A n \in DOMAIN jobs : (jobs[n].id = L /\ Value(jobs[n]) # None) => b <= Value(jobs[n])
WillGive(L, b) ==
    /\ results'[L] \in Nat => b <= results'[L]
    /\ \A n \in DOMAIN jobs' : (jobs'[n].id = L /\ Value(jobs'[n]) # None) => b <= Value(jobs'[n])

\* No cache holds, and no load of the present generation gives, what is older
\* than the newest answered write; and no request is connected to a load that
\* gives what is older than the write answered before it.
AckInv ==
    /\ acked <= data
    /\ registry.cached # None => acked <= registry.cached
    /\ \A n \in DOMAIN jobs :
          /\ (/\ jobs[n].kind = "registry" /\ jobs[n].generation = registry.generation
              /\ Value(jobs[n]) # None) => acked <= Value(jobs[n])
          /\ (jobs[n].kind = "write" /\ jobs[n].at # None) => acked <= jobs[n].at
    /\ registry.pending # 0 => Gives(registry.pending, acked)
    /\ \A e \in answers : Gives(e.load, acked)
    /\ \A i \in DOMAIN sent :
          /\ sent[i].since <= acked
          /\ IF sent[i].load # 0 THEN Gives(sent[i].load, sent[i].since)
             ELSE sent[i].reply \in Nat => sent[i].since <= sent[i].reply

Registry(n) == jobs[n].kind = "registry"
HasSources(n) == jobs[n].sources # None

\* The loads of the registry: those that wait for their second read are ahead of
\* the others, and both keep their order; one at most is of this generation.
LoadsInv ==
    /\ \A m, n \in DOMAIN jobs : (Registry(m) /\ Registry(n)) =>
          /\ (m < n /\ (HasSources(m) <=> HasSources(n))) => jobs[m].generation <= jobs[n].generation
          /\ (HasSources(m) /\ ~HasSources(n)) => jobs[m].generation <= jobs[n].generation
          /\ (m < n /\ HasSources(m) /\ HasSources(n)) => jobs[m].sources <= jobs[n].sources
          /\ (HasSources(m) /\ ~HasSources(n) /\ jobs[n].at # None) => jobs[m].sources <= jobs[n].at
    /\ \A n \in DOMAIN jobs :
          /\ (Registry(n) /\ jobs[n].generation = registry.generation) => jobs[n].id = registry.pending
          /\ jobs[n].id = registry.pending => Registry(n)
          /\ registry.cached # None => ~Registry(n)
    /\ registry.pending # 0 => results[registry.pending] = Awaiting
    /\ registry.cached <= data

\* Nothing the registry page may still be shown is older than v.
Low(v) ==
    /\ v <= data
    /\ registry.cached # None => v <= registry.cached
    /\ \A n \in DOMAIN jobs : (Registry(n) /\ Value(jobs[n]) # None) => v <= Value(jobs[n])

Shows(i) == i \in DOMAIN sent /\ sent[i].page = "registry" /\ sent[i].live
ShownInv ==
    /\ Low(shown)
    /\ \A i, j : (Shows(i) /\ Shows(j)) => i = j
    /\ \A i : Shows(i) =>
          /\ Reply(sent[i]) \in Nat => shown <= Reply(sent[i]) /\ Low(Reply(sent[i]))
          /\ \A n \in DOMAIN jobs : jobs[n].id = sent[i].load => Registry(n)

\* The parts that are shown are of one filter, and the live requests of the page
\* are of the present one.
WholeInv ==
    /\ \A s \in Sections : tokens.parts[s] # NoPart => tokens.parts[s].query = tokens.resultQuery
    /\ tokens.resultQuery # NoQuery =>
          \A s \in LaterSections : tokens.parts[s] = NoPart => s \in tokens.pending \/ tokens.error
    /\ \A i \in DOMAIN sent : (sent[i].page = "tokens" /\ sent[i].live) =>
          /\ sent[i].key[1] = tokens.query
          /\ sent[i].key[2] # "overview" => tokens.resultQuery = tokens.query

-----------------------------------------------------------------------------
(* What a load gives, through the steps of the queue.                      *)

LEMMA GivesQueue ==
    ASSUME ServerTypes, NEW kind \in {"registry", "query", "write"}, NEW key \in Keys,
           Queue(kind, key), NEW L \in DOMAIN results, NEW b, Gives(L, b)
    PROVE  WillGive(L, b)
<1>1. results'[L] = results[L]
    BY QueueIs
<1>2. ASSUME NEW n \in DOMAIN jobs', jobs'[n].id = L, Value(jobs'[n]) # None
      PROVE  b <= Value(jobs'[n])
    <2>1. CASE n \in DOMAIN jobs
        BY <1>2, <2>1, QueueIs DEF Gives
    <2>2. CASE n \notin DOMAIN jobs
        <3>1. NewJob(jobs'[n], kind)
            BY <2>2, QueueIs
        <3>. QED  BY <1>2, <3>1 DEF NewJob, Value
    <2>. QED  BY <2>1, <2>2
<1>. QED  BY <1>1, <1>2 DEF Gives, WillGive

LEMMA GivesNew ==
    ASSUME ServerTypes, QueueInv, NEW kind \in {"registry", "query", "write"}, NEW key \in Keys,
           Queue(kind, key), NEW b
    PROVE  WillGive(Len(results'), b)
<1>1. results'[Len(results')] \notin Nat
    BY QueueIs
<1>2. ASSUME NEW n \in DOMAIN jobs', jobs'[n].id = Len(results'), Value(jobs'[n]) # None
      PROVE  b <= Value(jobs'[n])
    <2>1. CASE n \in DOMAIN jobs
        <3>1. jobs'[n].id \in DOMAIN results
            BY <2>1, QueueIs DEF QueueInv
        <3>. QED  BY <1>2, <3>1, QueueIs
    <2>2. CASE n \notin DOMAIN jobs
        <3>1. NewJob(jobs'[n], kind)
            BY <2>2, QueueIs
        <3>. QED  BY <1>2, <3>1 DEF NewJob, Value
    <2>. QED  BY <2>1, <2>2
<1>. QED  BY <1>1, <1>2 DEF Gives, WillGive

LEMMA GivesExecute ==
    ASSUME ServerTypes, QueueInv, Execute, NEW L \in DOMAIN results, NEW b \in Nat, b <= data,
           Gives(L, b)
    PROVE  WillGive(L, b)
<1>1. results' = results
    BY DEF Execute
<1>2. ASSUME NEW n \in DOMAIN jobs', jobs'[n].id = L, Value(jobs'[n]) # None
      PROVE  b <= Value(jobs'[n])
    <2>1. CASE n # 1
        BY <1>2, <2>1, ExecuteIs DEF Gives
    <2>2. CASE n = 1
        <3>1. CASE jobs[1].sources = None
            BY <2>2, <3>1, ExecuteIs DEF ServerTypes
        <3>2. CASE jobs[1].sources # None
            BY <1>2, <2>2, <3>2, ExecuteIs DEF Gives, Value
        <3>. QED  BY <3>1, <3>2
    <2>. QED  BY <2>1, <2>2
<1>. QED  BY <1>1, <1>2 DEF Gives, WillGive

LEMMA GivesRequeued ==
    ASSUME ServerTypes, QueueInv, Requeued, NEW L, NEW b, Gives(L, b)
    PROVE  WillGive(L, b)
<1>1. results' = results
    BY DEF Requeued, QueueIdentities
<1>2. ASSUME NEW n \in DOMAIN jobs', jobs'[n].id = L, Value(jobs'[n]) # None
      PROVE  b <= Value(jobs'[n])
    <2>1. CASE n # Len(jobs)
        BY <1>2, <2>1, RequeuedIs DEF Gives
    <2>2. CASE n = Len(jobs)
        BY <1>2, <2>2, RequeuedIs DEF Gives
    <2>. QED  BY <2>1, <2>2
<1>. QED  BY <1>1, <1>2 DEF Gives, WillGive

LEMMA GivesDone ==
    ASSUME ServerTypes, QueueInv, NEW out, Done(out), NEW L \in DOMAIN results, NEW b, Gives(L, b)
    PROVE  WillGive(L, b)
<1>1. results'[L] \in Nat => b <= results'[L]
    <2>1. CASE L # jobs[1].id
        BY <2>1, DoneIs DEF Gives
    <2>2. CASE L = jobs[1].id
        BY <2>2, DoneIs DEF Gives
    <2>. QED  BY <2>1, <2>2
<1>2. ASSUME NEW n \in DOMAIN jobs', jobs'[n].id = L, Value(jobs'[n]) # None
      PROVE  b <= Value(jobs'[n])
    BY <1>2, DoneIs DEF Gives
<1>. QED  BY <1>1, <1>2 DEF Gives, WillGive

-----------------------------------------------------------------------------
(* The queue keeps its invariant.                                          *)

LEMMA QueueInvQueue ==
    ASSUME ServerTypes, QueueInv, NEW kind \in {"registry", "query", "write"}, NEW key \in Keys,
           Queue(kind, key), UNCHANGED <<stage, open, data>>,
           registry'.generation = registry.generation
    PROVE  QueueInv'
<1>1. ASSUME NEW n \in DOMAIN jobs'
      PROVE  /\ jobs'[n].id \in DOMAIN results' /\ results'[jobs'[n].id] = Awaiting
             /\ n # 1 => jobs'[n].at = None
             /\ Value(jobs'[n]) <= data'
             /\ jobs'[n].kind # "registry" => jobs'[n].sources = None
             /\ (jobs'[n].at # None /\ jobs'[n].sources # None) => jobs'[n].at = jobs'[n].sources
             /\ jobs'[n].generation <= registry'.generation
             /\ stage = "idle" => jobs'[n].at = None
    <2>1. CASE n \in DOMAIN jobs
        BY <2>1, QueueIs DEF QueueInv
    <2>2. CASE n \notin DOMAIN jobs
        <3>1. ~Full /\ NewJob(jobs'[n], kind) /\ Len(results') = Len(results) + 1
              /\ results'[Len(results')] = Awaiting /\ Len(results') \in DOMAIN results'
            BY <2>2, QueueIs
        <3>. QED  BY <3>1 DEF NewJob, Value, ServerTypes, RegistrySet
    <2>. QED  BY <2>1, <2>2
<1>2. ASSUME NEW m \in DOMAIN jobs', NEW n \in DOMAIN jobs', jobs'[m].id = jobs'[n].id
      PROVE  m = n
    <2>1. \A k \in DOMAIN jobs : jobs'[k] = jobs[k] /\ jobs[k].id \in DOMAIN results
        BY QueueIs DEF QueueInv
    <2>2. \A k \in DOMAIN jobs' \ DOMAIN jobs : jobs'[k].id = Len(results')
        BY QueueIs DEF NewJob
    <2>3. Len(results') \notin DOMAIN results
        BY QueueIs
    <2>4. CASE m \in DOMAIN jobs /\ n \in DOMAIN jobs
        BY <1>2, <2>1, <2>4 DEF QueueInv
    <2>5. CASE m \notin DOMAIN jobs /\ n \notin DOMAIN jobs
        BY <2>5, QueueIs
    <2>. QED  BY <1>2, <2>1, <2>2, <2>3, <2>4, <2>5
<1>3. IF stage = "idle" THEN open = {} ELSE jobs' # <<>> /\ open = {Head(jobs').id}
    BY QueueIs DEF QueueInv
<1>. QED  BY <1>1, <1>2, <1>3 DEF QueueInv

LEMMA QueueInvExecute ==
    ASSUME ServerTypes, QueueInv, Execute
    PROVE  QueueInv'
<1>1. UNCHANGED <<stage, open, results, registry>>
    BY DEF Execute
<1>2. jobs' \in Seq(JobSet) /\ jobs' # <<>> /\ Head(jobs').id = Head(jobs).id
    BY ExecuteIs, Shortened
<1>3. ASSUME NEW n \in DOMAIN jobs'
      PROVE  /\ jobs'[n].id = jobs[n].id /\ jobs'[n].kind = jobs[n].kind
             /\ jobs'[n].generation = jobs[n].generation
             /\ n # 1 => jobs'[n].at = None
             /\ Value(jobs'[n]) <= data'
             /\ jobs'[n].sources = jobs[n].sources
             /\ (jobs'[n].at # None /\ jobs'[n].sources # None) => jobs'[n].at = jobs'[n].sources
    <2>1. n \in DOMAIN jobs
        BY ExecuteIs
    <2>2. jobs \in Seq(JobSet) /\ data \in Nat
        BY DEF ServerTypes
    <2>3. jobs[n] \in JobSet
        BY <2>1, <2>2
    <2>4. Value(jobs[n]) \in Loads
        BY <2>3 DEF Value, JobSet
    <2>5. CASE n # 1
        BY <2>1, <2>2, <2>4, <2>5, ExecuteIs DEF QueueInv, Loads
    <2>6. CASE n = 1
        <3>1. CASE jobs[1].sources = None
            BY <2>2, <2>6, <3>1, ExecuteIs
        <3>2. CASE jobs[1].sources # None
            <4>1. Value(jobs[1]) = jobs[1].sources /\ Value(jobs[1]) <= data
                BY <2>1, <2>6, <3>2 DEF QueueInv, Value
            <4>. QED  BY <2>2, <2>4, <2>6, <3>2, <4>1, ExecuteIs DEF Loads
        <3>. QED  BY <3>1, <3>2
    <2>. QED  BY <2>5, <2>6
<1>4. DOMAIN jobs' = DOMAIN jobs /\ stage # "idle"
    BY ExecuteIs
<1>. QED  BY <1>1, <1>2, <1>3, <1>4 DEF QueueInv

LEMMA QueueInvRequeued ==
    ASSUME ServerTypes, QueueInv, Requeued, open' = open \ {Head(jobs).id},
           UNCHANGED <<data, results, registry>>
    PROVE  QueueInv'
<1>1. stage' = "idle" /\ open' = {} /\ DOMAIN jobs' = DOMAIN jobs
    BY RequeuedIs DEF QueueInv, Requeued
<1>. DEFINE from(n) == IF n = Len(jobs) THEN 1 ELSE n + 1
<1>2. ASSUME NEW n \in DOMAIN jobs'
      PROVE  /\ from(n) \in DOMAIN jobs
             /\ jobs'[n].id = jobs[from(n)].id /\ jobs'[n].kind = jobs[from(n)].kind
             /\ jobs'[n].generation = jobs[from(n)].generation
             /\ jobs'[n].at = None /\ Value(jobs'[n]) = Value(jobs[from(n)])
             /\ jobs'[n].kind # "registry" => jobs'[n].sources = None
    <2>1. CASE n # Len(jobs)
        BY <2>1, RequeuedIs DEF QueueInv, ServerTypes
    <2>2. CASE n = Len(jobs)
        BY <2>2, RequeuedIs
    <2>. QED  BY <2>1, <2>2
<1>3. \A m, n \in DOMAIN jobs' : from(m) = from(n) => m = n
    <2>1. jobs \in Seq(JobSet)
        BY DEF ServerTypes
    <2>. QED  BY <1>1, <2>1
<1>. HIDE DEF from
<1>. QED  BY <1>1, <1>2, <1>3 DEF QueueInv

LEMMA QueueInvDone ==
    ASSUME ServerTypes, QueueInv, NEW out, Done(out), open' = open \ {Head(jobs).id}, data' = data,
           registry.generation <= registry'.generation, registry'.generation \in Nat
    PROVE  QueueInv'
<1>1. stage' = "idle" /\ open' = {}
    BY DoneIs DEF QueueInv
<1>2. 1 \in DOMAIN jobs /\ jobs \in Seq(JobSet) /\ registry.generation \in Nat
    BY DoneIs DEF ServerTypes, RegistrySet
<1>3. ASSUME NEW n \in DOMAIN jobs'
      PROVE  /\ n + 1 \in DOMAIN jobs /\ jobs'[n] = jobs[n + 1] /\ n \in Nat
             /\ jobs'[n].id # jobs[1].id
             /\ jobs[n + 1].at = None
    <2>1. n + 1 \in DOMAIN jobs /\ jobs'[n] = jobs[n + 1] /\ jobs' \in Seq(JobSet)
        BY DoneIs
    <2>2. n \in Nat /\ n + 1 # 1
        BY <2>1
    <2>. QED  BY <1>2, <2>1, <2>2 DEF QueueInv
<1>4. ASSUME NEW n \in DOMAIN jobs'
      PROVE  results'[jobs'[n].id] = Awaiting /\ jobs'[n].id \in DOMAIN results'
    BY <1>3, DoneIs DEF QueueInv
<1>5. ASSUME NEW n \in DOMAIN jobs'
      PROVE  jobs'[n].generation <= registry'.generation
    <2>1. jobs[n + 1] \in JobSet
        BY <1>2, <1>3
    <2>2. jobs[n + 1].generation \in Nat
        BY <2>1 DEF JobSet
    <2>3. jobs[n + 1].generation <= registry.generation
        BY <1>3 DEF QueueInv
    <2>. QED  BY <1>2, <1>3, <2>2, <2>3
<1>6. \A m, n \in DOMAIN jobs' : jobs'[m].id = jobs'[n].id => m = n
    BY <1>3 DEF QueueInv
<1>. QED  BY <1>1, <1>3, <1>4, <1>5, <1>6 DEF QueueInv

-----------------------------------------------------------------------------
(* The requests.                                                           *)

LEMMA SequenceOf ==
    ASSUME NEW S, IsFiniteSet(S)
    PROVE  SetToSeq(S) \in Seq(S)
<1>1. Cardinality(S) \in Nat /\ ExistsBijection(1..Cardinality(S), S)
    BY FS_CardinalityType
<1>2. \E f \in [1..Cardinality(S) -> S] : IsInjective(f)
    BY <1>1 DEF ExistsBijection, Bijection, Injection, Surjection, IsInjective
<1>3. SetToSeq(S) \in [1..Cardinality(S) -> S]
    BY <1>2 DEF SetToSeq
<1>. QED  BY <1>1, <1>3

LEMMA RequestIs ==
    ASSUME ServerTypes, NEW page \in {"registry", "tokens", "edit"}, NEW key \in Keys
    PROVE  Request(page, key) \in RequestSet
BY DEF ServerTypes, Request, RequestSet, Outcomes

\* Request i is what it was, up to a change that cannot be taken back.
Same(i) ==
    /\ i \in DOMAIN sent /\ i \in DOMAIN sent'
    /\ sent'[i].page = sent[i].page /\ sent'[i].key = sent[i].key
    /\ sent'[i].since = sent[i].since
    /\ sent'[i].live => sent[i].live

\* It was passed on, or sent again, or is new.
Stays(i) == Same(i) /\ sent'[i].load = sent[i].load /\ sent'[i].reply = sent[i].reply
Again(i) == Same(i) /\ sent'[i].load = 0 /\ sent'[i].reply \in {Awaiting, Failed}
New(i, page, keys) ==
    /\ i \in DOMAIN sent' /\ i \notin DOMAIN sent
    /\ sent'[i].page = page /\ sent'[i].key \in keys /\ sent'[i].load = 0
    /\ sent'[i].reply = Awaiting /\ sent'[i].since = acked

\* The requests are those there were, then those of rs.
Extended(page, keys) ==
    /\ sent' \in Seq(RequestSet) /\ DOMAIN sent \subseteq DOMAIN sent'
    /\ \A i \in DOMAIN sent' : IF i \in DOMAIN sent THEN Stays(i) ELSE New(i, page, keys)

\* A rewriting of the requests that only ends some of them.
Ended(rs) ==
    /\ rs \in Seq(RequestSet) /\ DOMAIN rs = DOMAIN sent
    /\ \A i \in DOMAIN sent :
          /\ rs[i].page = sent[i].page /\ rs[i].key = sent[i].key /\ rs[i].since = sent[i].since
          /\ rs[i].load = sent[i].load /\ rs[i].reply = sent[i].reply
          /\ rs[i].live => sent[i].live

LEMMA AbortedEnds ==
    ASSUME sent \in Seq(RequestSet), NEW page
    PROVE  /\ Ended(Aborted(page))
           /\ \A i \in DOMAIN sent : Aborted(page)[i].live <=> (sent[i].live /\ sent[i].page # page)
<1>. DEFINE end(i) == IF sent[i].page = page THEN [sent[i] EXCEPT !.live = FALSE] ELSE sent[i]
<1>1. ASSUME NEW i \in DOMAIN sent
      PROVE  /\ end(i) \in RequestSet
             /\ end(i).page = sent[i].page /\ end(i).key = sent[i].key /\ end(i).since = sent[i].since
             /\ end(i).load = sent[i].load /\ end(i).reply = sent[i].reply
             /\ end(i).live <=> (sent[i].live /\ sent[i].page # page)
    <2>1. sent[i] \in RequestSet
        BY <1>1
    <2>. QED  BY <2>1 DEF RequestSet
<1>2. Aborted(page) = [i \in DOMAIN sent |-> end(i)]
    BY DEF Aborted
<1>. HIDE DEF end
<1>3. Aborted(page) \in Seq(RequestSet) /\ DOMAIN Aborted(page) = DOMAIN sent
    BY <1>1, <1>2
<1>. QED  BY <1>1, <1>2, <1>3 DEF Ended

LEMMA ConsumedEnds ==
    ASSUME sent \in Seq(RequestSet), NEW i \in DOMAIN sent
    PROVE  /\ Ended(Consumed(i)) /\ ~Consumed(i)[i].live
           /\ \A j \in DOMAIN sent : j # i => Consumed(i)[j] = sent[j]
<1>1. sent[i] \in RequestSet
    OBVIOUS
<1>2. /\ [sent[i] EXCEPT !.live = FALSE] \in RequestSet
      /\ Consumed(i) = [sent EXCEPT ![i] = [sent[i] EXCEPT !.live = FALSE]]
    BY <1>1 DEF RequestSet, Consumed
<1>3. /\ Consumed(i) \in Seq(RequestSet) /\ DOMAIN Consumed(i) = DOMAIN sent
      /\ Consumed(i)[i] = [sent[i] EXCEPT !.live = FALSE]
      /\ \A j \in DOMAIN sent : j # i => Consumed(i)[j] = sent[j]
    BY <1>2
<1>4. \A j \in DOMAIN sent : sent[j] \in RequestSet
    OBVIOUS
<1>. QED  BY <1>1, <1>3, <1>4 DEF Ended, RequestSet

LEMMA AskIs ==
    ASSUME ServerTypes, NEW rs \in Seq(RequestSet), NEW q \in QueryNames,
           NEW ss \in SUBSET Sections
    PROVE  /\ Ask(rs, q, ss) \in Seq(RequestSet) /\ DOMAIN rs \subseteq DOMAIN Ask(rs, q, ss)
           /\ \A i \in DOMAIN rs : Ask(rs, q, ss)[i] = rs[i]
           /\ \A i \in DOMAIN Ask(rs, q, ss) \ DOMAIN rs :
                 \E s \in ss : Ask(rs, q, ss)[i] = Request("tokens", <<q, s>>)
<1>. DEFINE S == {Request("tokens", <<q, s>>) : s \in ss}
            f == [s \in ss |-> Request("tokens", <<q, s>>)]
<1>1. IsFiniteSet(ss)
    BY PathAssumption, FS_AddElement, FS_Subset DEF Sections
<1>2. f \in Surjection(ss, S)
    BY DEF Surjection
<1>3. IsFiniteSet(S)
    BY <1>1, <1>2, FS_Surjection
<1>4. S \subseteq RequestSet
    <2>1. ASSUME NEW s \in ss PROVE <<q, s>> \in Keys
        BY DEF Keys
    <2>. QED  BY <2>1, RequestIs
<1>. HIDE DEF S
<1>5. SetToSeq(S) \in Seq(S)
    BY <1>3, SequenceOf
<1>. DEFINE t == SetToSeq(S)
<1>. HIDE DEF t
<1>6. t \in Seq(S) /\ t \in Seq(RequestSet) /\ Ask(rs, q, ss) = rs \o t
    BY <1>4, <1>5 DEF t, Ask, S
<1>7. /\ rs \o t \in Seq(RequestSet) /\ DOMAIN rs \subseteq DOMAIN (rs \o t)
      /\ \A i \in DOMAIN rs : (rs \o t)[i] = rs[i]
      /\ \A i \in DOMAIN (rs \o t) \ DOMAIN rs : (rs \o t)[i] \in S
    BY <1>6
<1>. QED  BY <1>6, <1>7 DEF S

LEMMA EndedIs ==
    ASSUME NEW rs, Ended(rs), sent' = rs, NEW page, NEW keys
    PROVE  Extended(page, keys)
BY DEF Ended, Extended, Stays, Same

LEMMA AppendedIs ==
    ASSUME ServerTypes, NEW rs, Ended(rs), NEW page \in {"registry", "tokens", "edit"},
           sent' = Append(rs, Request(page, None))
    PROVE  /\ Extended(page, {None})
           /\ \A i \in DOMAIN sent : sent'[i] = rs[i]
           /\ \A i, j \in DOMAIN sent' \ DOMAIN sent : i = j
<1>. DEFINE r == Request(page, None)
<1>1. r \in RequestSet
    BY RequestIs DEF Keys
<1>2. /\ r.page = page /\ r.key = None /\ r.load = 0 /\ r.reply = Awaiting /\ r.since = acked
    BY DEF Request
<1>3. rs \in Seq(RequestSet) /\ DOMAIN rs = DOMAIN sent /\ sent' = Append(rs, r)
    BY DEF Ended
<1>. HIDE DEF r
<1>4. /\ sent' \in Seq(RequestSet) /\ DOMAIN sent' = DOMAIN sent \cup {Len(rs) + 1}
      /\ \A i \in DOMAIN sent : sent'[i] = rs[i]
      /\ sent'[Len(rs) + 1] = r
    BY <1>1, <1>3, Appended
<1>5. ASSUME NEW i \in DOMAIN sent' PROVE IF i \in DOMAIN sent THEN Stays(i) ELSE New(i, page, {None})
    <2>1. CASE i \in DOMAIN sent
        BY <1>4, <2>1 DEF Ended, Stays, Same
    <2>2. CASE i \notin DOMAIN sent
        BY <1>2, <1>4, <2>2 DEF New
    <2>. QED  BY <2>1, <2>2
<1>. QED  BY <1>4, <1>5 DEF Extended

LEMMA AskedIs ==
    ASSUME ServerTypes, NEW rs, Ended(rs), NEW q \in QueryNames, NEW ss \in SUBSET Sections,
           sent' = Ask(rs, q, ss)
    PROVE  /\ Extended("tokens", {q} \X ss)
           /\ \A i \in DOMAIN sent : sent'[i] = rs[i]
<1>1. rs \in Seq(RequestSet) /\ DOMAIN rs = DOMAIN sent
    BY DEF Ended
<1>2. /\ sent' \in Seq(RequestSet) /\ DOMAIN sent \subseteq DOMAIN sent'
      /\ \A i \in DOMAIN sent : sent'[i] = rs[i]
      /\ \A i \in DOMAIN sent' \ DOMAIN sent : \E s \in ss : sent'[i] = Request("tokens", <<q, s>>)
    <2>. DEFINE asked == Ask(rs, q, ss)
    <2>1. /\ asked \in Seq(RequestSet) /\ DOMAIN rs \subseteq DOMAIN asked
          /\ \A i \in DOMAIN rs : asked[i] = rs[i]
          /\ \A i \in DOMAIN asked \ DOMAIN rs : \E s \in ss : asked[i] = Request("tokens", <<q, s>>)
        BY <1>1, AskIs
    <2>. HIDE DEF asked
    <2>2. sent' = asked
        BY DEF asked
    <2>. QED  BY <1>1, <2>1, <2>2
<1>3. ASSUME NEW i \in DOMAIN sent'
      PROVE  IF i \in DOMAIN sent THEN Stays(i) ELSE New(i, "tokens", {q} \X ss)
    <2>1. CASE i \in DOMAIN sent
        BY <1>2, <2>1 DEF Ended, Stays, Same
    <2>2. CASE i \notin DOMAIN sent
        <3>1. PICK s \in ss : sent'[i] = Request("tokens", <<q, s>>)
            BY <1>2, <2>2
        <3>. QED  BY <2>2, <3>1 DEF New, Request
    <2>. QED  BY <2>1, <2>2
<1>. QED  BY <1>2, <1>3 DEF Extended

-----------------------------------------------------------------------------
(* The Tokens page.                                                        *)

LEMMA ReplyIs ==
    ASSUME PathTypes, Wired, NEW i \in DOMAIN sent
    PROVE  Reply(sent[i]) \in Outcomes
<1>1. sent[i] \in RequestSet /\ results \in Seq(Outcomes)
    BY DEF PathTypes, ServerTypes
<1>2. sent[i].load \in {0} \cup DOMAIN results /\ sent[i].reply \in Outcomes
    BY <1>1 DEF Wired, RequestSet
<1>. QED  BY <1>1, <1>2 DEF Reply

\* The page shows an overview of filter q, and what is there of its sections.
Overviewed(q) ==
    /\ tokens' \in TokensSet
    /\ tokens'.query = q /\ tokens'.resultQuery = q
    /\ \A s \in Sections : tokens'.parts[s] # NoPart => tokens'.parts[s].query = q
    /\ \A s \in LaterSections : tokens'.parts[s] = NoPart => s \in tokens'.pending

LEMMA OverviewIs ==
    ASSUME ServerTypes, NEW rs, Ended(rs), NEW q \in QueryNames, NEW base \in [Sections -> Loads],
           NEW overview \in Nat, ShowOverview(rs, q, base, overview)
    PROVE  /\ Overviewed(q) /\ Extended("tokens", {q} \X Sections)
           /\ \A i \in DOMAIN sent : sent'[i] = rs[i]
<1>. DEFINE parts == Overlay(base, q, overview)
            flying == Missing(base) # {}
<1>1. q # NoQuery
    BY PathAssumption
<1>2. ASSUME NEW s \in Sections
      PROVE  /\ parts[s] \in PartSet
             /\ parts[s] # NoPart => parts[s].query = q
             /\ (s # "overview" /\ parts[s] = NoPart) => base[s] = None
             /\ s = "overview" => parts[s] # NoPart
    <2>1. base[s] \in Loads
        OBVIOUS
    <2>2. \A v \in Nat : Part(q, v) \in PartSet /\ Part(q, v).query = q /\ Part(q, v) # NoPart
        BY <1>1 DEF Part, PartSet, NoPart
    <2>3. parts[s] = IF s = "overview" THEN Part(q, overview)
                     ELSE IF base[s] = None THEN NoPart ELSE Part(q, base[s])
        BY DEF Overlay
    <2>4. NoPart \in PartSet
        BY DEF PartSet
    <2>. HIDE DEF parts
    <2>. QED  BY <2>1, <2>2, <2>3, <2>4 DEF Loads
<1>3. parts \in [Sections -> PartSet]
    BY <1>2 DEF Overlay
<1>4. Missing(base) \subseteq LaterSections /\ flying \in BOOLEAN
    BY DEF Missing
<1>5. tokens' = [query |-> q, inFlight |-> flying, base |-> base, parts |-> parts,
                 resultQuery |-> q, pending |-> Missing(base), error |-> FALSE]
    BY DEF ShowOverview
<1>6. \A s \in LaterSections : parts[s] = NoPart => s \in Missing(base)
    BY <1>2 DEF Missing, Sections
<1>. HIDE DEF parts, flying
<1>7. Overviewed(q)
    BY <1>2, <1>3, <1>4, <1>5, <1>6 DEF Overviewed, TokensSet
<1>8. Missing(base) \in SUBSET Sections /\ sent' = Ask(rs, q, Missing(base))
    BY <1>4 DEF Sections, ShowOverview
<1>9. Extended("tokens", {q} \X Missing(base)) /\ \A i \in DOMAIN sent : sent'[i] = rs[i]
    BY <1>8, AskedIs
<1>. QED  BY <1>7, <1>8, <1>9 DEF Extended, New

LEMMA LoadIs ==
    ASSUME PathTypes, NEW rs, Ended(rs), NEW q \in QueryNames, Load(rs, q)
    PROVE  /\ tokens' \in TokensSet /\ tokens'.query = q
           /\ \A i \in DOMAIN sent : sent'[i] = rs[i]
           /\ \/ Overviewed(q) /\ Extended("tokens", {q} \X Sections)
              \/ /\ UNCHANGED <<tokens.parts, tokens.resultQuery, tokens.pending, tokens.error>>
                 /\ Extended("tokens", {q} \X {"overview"})
<1>. DEFINE base == Cached(q)
<1>1. base \in [Sections -> Loads]
    BY DEF PathTypes, PageTypes, Cached
<1>2. "overview" \in Sections
    BY DEF Sections
<1>3. /\ base["overview"] # None => ShowOverview(rs, q, base, base["overview"])
      /\ base["overview"] = None =>
            /\ tokens' = [tokens EXCEPT !.query = q, !.inFlight = TRUE, !.base = base]
            /\ sent' = Ask(rs, q, {"overview"})
    BY DEF Load
<1>. HIDE DEF base
<1>4. CASE base["overview"] # None
    <2>1. base["overview"] \in Nat
        BY <1>1, <1>2, <1>4 DEF Loads
    <2>. QED  BY <1>1, <1>3, <1>4, <2>1, OverviewIs DEF PathTypes, Overviewed
<1>5. CASE base["overview"] = None
    <2>1. /\ tokens' \in TokensSet /\ tokens'.query = q
          /\ UNCHANGED <<tokens.parts, tokens.resultQuery, tokens.pending, tokens.error>>
        BY <1>1, <1>3, <1>5 DEF PathTypes, PageTypes, TokensSet
    <2>2. {"overview"} \in SUBSET Sections
        BY <1>2
    <2>. QED  BY <1>3, <1>5, <2>1, <2>2, AskedIs DEF PathTypes
<1>. QED  BY <1>4, <1>5

\* What the Tokens page needs of a step: it becomes a page of the type, its parts
\* stay together, and its live requests are of its filter.
TokensKept ==
    /\ tokens' \in TokensSet
    /\ WholeInv => WholeInv'

LEMMA OverviewedKeeps ==
    ASSUME NEW q \in QueryNames, Overviewed(q), Extended("tokens", {q} \X Sections),
           \A i \in DOMAIN sent : (sent'[i].page = "tokens" /\ sent'[i].live) => sent[i].key[1] = q
    PROVE  TokensKept
<1>1. ASSUME NEW i \in DOMAIN sent', sent'[i].page = "tokens", sent'[i].live
      PROVE  sent'[i].key[1] = q
    <2>1. CASE i \in DOMAIN sent
        BY <1>1, <2>1 DEF Extended, Stays, Same
    <2>2. CASE i \notin DOMAIN sent
        BY <2>2 DEF Extended, New
    <2>. QED  BY <2>1, <2>2
<1>. QED  BY <1>1 DEF Overviewed, TokensKept, WholeInv

LEMMA RefreshTokensKeeps ==
    ASSUME PathTypes, Wired, RefreshTokens
    PROVE  TokensKept /\ Extended("tokens", QueryNames \X Sections)
<1>. DEFINE q == tokens.query
<1>1. q \in QueryNames /\ sent \in Seq(RequestSet) /\ Load(sent, q)
    BY DEF PathTypes, PageTypes, TokensSet, RefreshTokens
<1>2. Ended(sent)
    BY <1>1 DEF Ended
<1>. HIDE DEF q
<1>3. /\ tokens' \in TokensSet /\ tokens'.query = q
      /\ \A i \in DOMAIN sent : sent'[i] = sent[i]
      /\ \/ Overviewed(q) /\ Extended("tokens", {q} \X Sections)
         \/ /\ UNCHANGED <<tokens.parts, tokens.resultQuery, tokens.pending, tokens.error>>
            /\ Extended("tokens", {q} \X {"overview"})
    BY <1>1, <1>2, LoadIs
<1>4. Extended("tokens", QueryNames \X Sections)
    BY <1>1, <1>3 DEF Extended, New, Sections
<1>5. ASSUME WholeInv PROVE WholeInv'
    <2>1. CASE Overviewed(q) /\ Extended("tokens", {q} \X Sections)
        <3>1. \A i \in DOMAIN sent : (sent'[i].page = "tokens" /\ sent'[i].live) => sent[i].key[1] = q
            BY <1>3, <1>5 DEF WholeInv, q
        <3>. QED  BY <1>1, <1>5, <2>1, <3>1, OverviewedKeeps DEF TokensKept
    <2>2. CASE /\ UNCHANGED <<tokens.parts, tokens.resultQuery, tokens.pending, tokens.error>>
               /\ Extended("tokens", {q} \X {"overview"})
        <3>1. ASSUME NEW i \in DOMAIN sent', sent'[i].page = "tokens", sent'[i].live
              PROVE  /\ sent'[i].key[1] = tokens'.query
                     /\ sent'[i].key[2] # "overview" => tokens'.resultQuery = tokens'.query
            <4>1. CASE i \in DOMAIN sent
                BY <1>3, <1>5, <2>2, <3>1, <4>1 DEF WholeInv, q
            <4>2. CASE i \notin DOMAIN sent
                BY <1>3, <2>2, <4>2 DEF Extended, New
            <4>. QED  BY <4>1, <4>2
        <3>. QED  BY <1>5, <2>2, <3>1 DEF WholeInv
    <2>. QED  BY <1>3, <2>1, <2>2
<1>. QED  BY <1>3, <1>4, <1>5 DEF TokensKept

LEMMA ChangeFilterKeeps ==
    ASSUME PathTypes, Wired, NEW q \in QueryNames, ChangeFilter(q)
    PROVE  TokensKept /\ Extended("tokens", QueryNames \X Sections)
<1>. DEFINE rs == Aborted("tokens")
<1>1. /\ Ended(rs) /\ Load(rs, q)
      /\ \A i \in DOMAIN sent : rs[i].live => sent[i].page # "tokens"
    BY AbortedEnds DEF PathTypes, ChangeFilter
<1>. HIDE DEF rs
<1>2. /\ tokens' \in TokensSet /\ tokens'.query = q
      /\ \A i \in DOMAIN sent : sent'[i] = rs[i]
      /\ \/ Overviewed(q) /\ Extended("tokens", {q} \X Sections)
         \/ /\ UNCHANGED <<tokens.parts, tokens.resultQuery, tokens.pending, tokens.error>>
            /\ Extended("tokens", {q} \X {"overview"})
    BY <1>1, LoadIs
<1>3. \A i \in DOMAIN sent : ~(sent'[i].page = "tokens" /\ sent'[i].live)
    BY <1>1, <1>2 DEF Ended
<1>4. Extended("tokens", QueryNames \X Sections)
    BY <1>2 DEF Extended, New, Sections
<1>5. ASSUME WholeInv PROVE WholeInv'
    <2>1. CASE Overviewed(q) /\ Extended("tokens", {q} \X Sections)
        BY <1>3, <1>5, <2>1, OverviewedKeeps DEF TokensKept
    <2>2. CASE /\ UNCHANGED <<tokens.parts, tokens.resultQuery, tokens.pending, tokens.error>>
               /\ Extended("tokens", {q} \X {"overview"})
        <3>1. ASSUME NEW i \in DOMAIN sent', sent'[i].page = "tokens", sent'[i].live
              PROVE  sent'[i].key[1] = tokens'.query /\ sent'[i].key[2] = "overview"
            BY <1>2, <1>3, <2>2, <3>1 DEF Extended, New
        <3>. QED  BY <1>5, <2>2, <3>1 DEF WholeInv
    <2>. QED  BY <1>2, <2>1, <2>2
<1>. QED  BY <1>2, <1>4, <1>5 DEF TokensKept

LEMMA ShowPartKeeps ==
    ASSUME PathTypes, Wired, WholeInv, NEW i \in DOMAIN sent, ShowPart(i)
    PROVE  /\ TokensKept /\ Extended("tokens", QueryNames \X Sections)
           /\ clientCache' \in [QueryNames \X Sections -> Loads]
<1>. DEFINE key == sent[i].key
            reply == Reply(sent[i])
            awaited == Awaited(i)
<1>1. sent \in Seq(RequestSet) /\ tokens \in TokensSet
    BY DEF PathTypes, PageTypes
<1>2. /\ sent[i].page = "tokens" /\ reply # Awaiting
      /\ (sent[i].live => key[1] = tokens.query /\ (key[2] # "overview" => tokens.resultQuery = tokens.query))
      /\ key \in QueryNames \X Sections /\ key[1] \in QueryNames /\ key[2] \in Sections
    BY DEF ShowPart, Arrived, Wired, WholeInv
<1>3. reply \in Outcomes /\ awaited \in BOOLEAN
    BY ReplyIs DEF Awaited
<1>4. /\ clientCache' = IF reply = Failed THEN clientCache ELSE [clientCache EXCEPT ![key] = reply]
      /\ (key[2] = "overview" /\ reply # Failed) =>
            ShowOverview(Consumed(i), key[1], tokens.base, reply)
      /\ ~(key[2] = "overview" /\ reply # Failed) =>
            /\ sent' = Consumed(i)
            /\ tokens' = [tokens EXCEPT
                  !.inFlight = awaited,
                  !.parts = IF reply = Failed THEN tokens.parts
                            ELSE [tokens.parts EXCEPT ![key[2]] = Part(key[1], reply)],
                  !.pending = tokens.pending \ {key[2]},
                  !.error = tokens.error \/ reply = Failed]
    BY <1>1 DEF ShowPart, TokensSet
<1>5. sent[i].live
    BY DEF ShowPart, Arrived, Live
<1>6. Ended(Consumed(i)) /\ ~Consumed(i)[i].live /\ Ended(sent)
    BY <1>1, ConsumedEnds DEF Ended
<1>. HIDE DEF key, reply, awaited
<1>7. clientCache' \in [QueryNames \X Sections -> Loads]
    <2>1. clientCache \in [QueryNames \X Sections -> Loads]
        BY DEF PathTypes, PageTypes
    <2>2. reply # Failed => reply \in Loads
        BY <1>2, <1>3 DEF Outcomes, Loads
    <2>. QED  BY <1>2, <1>4, <2>1, <2>2
<1>8. CASE key[2] = "overview" /\ reply # Failed
    <2>1. reply \in Nat /\ tokens.base \in [Sections -> Loads]
        BY <1>1, <1>2, <1>3, <1>8 DEF Outcomes, TokensSet
    <2>2. /\ Overviewed(key[1]) /\ Extended("tokens", {key[1]} \X Sections)
          /\ \A j \in DOMAIN sent : sent'[j] = Consumed(i)[j]
        BY <1>2, <1>4, <1>6, <1>8, <2>1, OverviewIs DEF PathTypes
    <2>3. \A j \in DOMAIN sent :
             (sent'[j].page = "tokens" /\ sent'[j].live) => sent[j].key[1] = key[1]
        BY <1>2, <1>5, <1>6, <2>2 DEF WholeInv, Ended
    <2>4. TokensKept
        BY <1>2, <2>2, <2>3, OverviewedKeeps
    <2>5. Extended("tokens", QueryNames \X Sections)
        BY <1>2, <2>2 DEF Extended, New
    <2>. QED  BY <1>7, <2>4, <2>5
<1>9. CASE ~(key[2] = "overview" /\ reply # Failed)
    <2>. DEFINE parts == IF reply = Failed THEN tokens.parts
                         ELSE [tokens.parts EXCEPT ![key[2]] = Part(key[1], reply)]
                error == tokens.error \/ reply = Failed
    <2>1. tokens.parts \in [Sections -> PartSet] /\ tokens.error \in BOOLEAN
        BY <1>1 DEF TokensSet
    <2>2. reply # Failed => Part(key[1], reply) \in PartSet /\ Part(key[1], reply).query = key[1]
        BY <1>2, <1>3 DEF Outcomes, Part, PartSet
    <2>3. parts \in [Sections -> PartSet] /\ error \in BOOLEAN
        BY <1>2, <2>1, <2>2
    <2>4. /\ sent' = Consumed(i)
          /\ tokens' = [tokens EXCEPT !.inFlight = awaited, !.parts = parts,
                                      !.pending = tokens.pending \ {key[2]}, !.error = error]
        BY <1>4, <1>9
    <2>5. \A s \in Sections : parts[s] # tokens.parts[s] => s = key[2] /\ parts[s].query = key[1]
        BY <1>2, <2>1, <2>2
    <2>6. reply # Failed => parts[key[2]] # NoPart
        <3>1. key[1] # NoQuery
            BY <1>2, PathAssumption
        <3>. QED  BY <1>2, <2>1, <3>1 DEF Part, NoPart
    <2>7. (error <=> (tokens.error \/ reply = Failed))
        OBVIOUS
    <2>. HIDE DEF parts, error
    <2>8. /\ tokens' \in TokensSet
          /\ tokens'.query = tokens.query /\ tokens'.resultQuery = tokens.resultQuery
          /\ tokens'.parts = parts /\ tokens'.pending = tokens.pending \ {key[2]}
          /\ tokens'.error = error
        BY <1>1, <1>3, <2>3, <2>4 DEF TokensSet
    <2>9. Extended("tokens", QueryNames \X Sections)
        BY <1>6, <2>4, EndedIs
    <2>10. ASSUME WholeInv PROVE WholeInv'
        <3>1. parts # tokens.parts => key[2] # "overview" /\ tokens.resultQuery = key[1]
            BY <1>2, <1>5, <1>9 DEF parts
        <3>2. ASSUME NEW s \in Sections, parts[s] # NoPart PROVE parts[s].query = tokens.resultQuery
            BY <2>5, <2>10, <3>1, <3>2 DEF WholeInv
        <3>3. ASSUME NEW s \in LaterSections, parts[s] = NoPart, tokens.resultQuery # NoQuery
              PROVE  s \in tokens.pending \ {key[2]} \/ error
            <4>1. s \in Sections /\ (tokens.parts[s] = NoPart \/ s = key[2])
                BY <2>5, <3>3 DEF Sections
            <4>2. tokens.parts[s] = NoPart => s \in tokens.pending \/ tokens.error
                BY <2>10, <3>3 DEF WholeInv
            <4>3. CASE s = key[2]
                BY <2>6, <2>7, <3>3, <4>3
            <4>4. CASE s # key[2]
                BY <2>7, <4>1, <4>2, <4>4
            <4>. QED  BY <4>3, <4>4
        <3>4. ASSUME NEW j \in DOMAIN sent', sent'[j].page = "tokens", sent'[j].live
              PROVE  /\ sent'[j].key[1] = tokens.query
                     /\ sent'[j].key[2] # "overview" => tokens.resultQuery = tokens.query
            BY <1>6, <2>4, <2>10, <3>4 DEF WholeInv, Ended
        <3>. QED  BY <2>8, <3>2, <3>3, <3>4 DEF WholeInv
    <2>. QED  BY <1>7, <2>8, <2>9, <2>10 DEF TokensKept
<1>. QED  BY <1>8, <1>9

-----------------------------------------------------------------------------
(* What a step of the pages does to the requests.                          *)

Joined(i) ==
    /\ i \in DOMAIN sent' /\ i \notin DOMAIN sent
    /\ sent'[i].load = 0 /\ sent'[i].reply = Awaiting /\ sent'[i].since = acked
    /\ sent'[i].page = "tokens" => sent'[i].key \in QueryNames \X Sections

PageStep ==
    /\ UNCHANGED serverVars
    /\ sent' \in Seq(RequestSet) /\ DOMAIN sent \subseteq DOMAIN sent'
    /\ \A i \in DOMAIN sent' : Stays(i) \/ Again(i) \/ Joined(i)

\* The registry page keeps what it shows, or takes the answer it waited for; and
\* one request of its own at most is live.
Watched ==
    \/ shown' = shown /\ \A i : Shows(i)' => Shows(i)
    \/ /\ shown' = shown
       /\ \A i : Shows(i)' => i \notin DOMAIN sent
       /\ \A i, j : (Shows(i)' /\ Shows(j)') => i = j
    \/ \E i : /\ Shows(i) /\ Reply(sent[i]) \in Nat /\ shown' = Reply(sent[i])
              /\ \A j : Shows(j)' => Shows(j) /\ j # i

LEMMA ExtendedStep ==
    ASSUME UNCHANGED serverVars, NEW page, NEW keys, Extended(page, keys),
           page = "tokens" => keys \subseteq QueryNames \X Sections
    PROVE  /\ PageStep
           /\ (page # "registry" /\ shown' = shown) => Watched
           /\ (page # "tokens" /\ tokens' = tokens) => (WholeInv => WholeInv')
<1>1. PageStep
    BY DEF PageStep, Extended, New, Joined
<1>2. ASSUME page # "registry", shown' = shown PROVE Watched
    <2>1. ASSUME NEW i, Shows(i)' PROVE Shows(i)
        BY <1>2, <2>1 DEF Shows, Extended, New, Stays, Same
    <2>. QED  BY <1>2, <2>1 DEF Watched
<1>3. ASSUME page # "tokens", tokens' = tokens, WholeInv PROVE WholeInv'
    <2>1. ASSUME NEW i \in DOMAIN sent', sent'[i].page = "tokens", sent'[i].live
          PROVE  /\ sent'[i].key[1] = tokens.query
                 /\ sent'[i].key[2] # "overview" => tokens.resultQuery = tokens.query
        BY <1>3, <2>1 DEF WholeInv, Extended, New, Stays, Same
    <2>. QED  BY <1>3, <2>1 DEF WholeInv
<1>. QED  BY <1>1, <1>2, <1>3

\* A new request takes the place of those of the registry page.
LEMMA RefreshedStep ==
    ASSUME PathTypes, NEW rs, Ended(rs), \A i \in DOMAIN sent : rs[i].live => sent[i].page # "registry",
           sent' = Append(rs, Request("registry", None)), UNCHANGED serverVars, UNCHANGED pageVars
    PROVE  PageStep /\ Watched /\ TokensKept
<1>1. /\ Extended("registry", {None})
      /\ \A i \in DOMAIN sent : sent'[i] = rs[i]
      /\ \A i, j \in DOMAIN sent' \ DOMAIN sent : i = j
    BY AppendedIs DEF PathTypes
<1>2. tokens \in TokensSet /\ tokens' = tokens /\ shown' = shown
    BY DEF PathTypes, PageTypes, pageVars
<1>3. \A i : Shows(i)' => i \in DOMAIN sent' \ DOMAIN sent
    BY <1>1 DEF Shows, Ended
<1>4. Watched
    BY <1>1, <1>2, <1>3 DEF Watched
<1>. QED  BY <1>1, <1>2, <1>4, ExtendedStep DEF TokensKept

LEMMA RetryStep ==
    ASSUME PathTypes, NEW i \in DOMAIN sent, Retry(i)
    PROVE  PageStep /\ Watched /\ TokensKept
<1>. DEFINE reply == IF sent[i].again THEN Failed ELSE Awaiting
            r == [sent[i] EXCEPT !.again = TRUE, !.load = 0, !.reply = reply]
<1>1. sent \in Seq(RequestSet) /\ sent[i] \in RequestSet /\ reply \in {Awaiting, Failed}
    BY DEF PathTypes
<1>2. sent' = [sent EXCEPT ![i] = r]
    BY <1>1 DEF Retry, RequestSet
<1>. HIDE DEF reply
<1>3. /\ r \in RequestSet /\ r.page = sent[i].page /\ r.key = sent[i].key /\ r.since = sent[i].since
      /\ r.live = sent[i].live /\ r.load = 0 /\ r.reply = reply
    BY <1>1 DEF RequestSet, Outcomes
<1>. HIDE DEF r
<1>4. /\ sent' \in Seq(RequestSet) /\ DOMAIN sent' = DOMAIN sent /\ sent'[i] = r
      /\ \A j \in DOMAIN sent : j # i => sent'[j] = sent[j]
    BY <1>1, <1>2, <1>3
<1>5. UNCHANGED serverVars /\ UNCHANGED <<shown, tokens>>
    BY DEF Retry, pageVars
<1>6. \A j \in DOMAIN sent' : Stays(j) \/ Again(j)
    BY <1>1, <1>3, <1>4 DEF Stays, Again, Same
<1>7. Watched
    BY <1>3, <1>4, <1>5 DEF Watched, Shows
<1>8. TokensKept
    <2>1. tokens' \in TokensSet
        BY <1>5 DEF PathTypes, PageTypes
    <2>2. ASSUME WholeInv, NEW j \in DOMAIN sent', sent'[j].page = "tokens", sent'[j].live
          PROVE  /\ sent'[j].key[1] = tokens.query
                 /\ sent'[j].key[2] # "overview" => tokens.resultQuery = tokens.query
        BY <1>3, <1>4, <2>2 DEF WholeInv
    <2>. QED  BY <1>5, <2>1, <2>2 DEF WholeInv, TokensKept
<1>. QED  BY <1>4, <1>5, <1>6, <1>7, <1>8 DEF PageStep

\* The steps of the pages.
PageNext ==
    \/ RefreshRegistry \/ Submit \/ RefreshTokens
    \/ \E i \in DOMAIN sent : ShowRegistry(i) \/ Saved(i) \/ Retry(i) \/ ShowPart(i)
    \/ \E q \in QueryNames : ChangeFilter(q)
    \/ \E k \in DOMAIN clientCache : ExpirePart(k)

LEMMA PageSteps ==
    ASSUME PathTypes, Wired, WholeInv, PageNext
    PROVE  PageStep /\ Watched /\ PageTypes' /\ WholeInv'
<1>. DEFINE Goal == PageStep /\ Watched /\ PageTypes' /\ WholeInv'
<1>1. sent \in Seq(RequestSet) /\ ServerTypes /\ PageTypes /\ tokens \in TokensSet /\ Ended(sent)
    BY DEF PathTypes, PageTypes, Ended
<1>2. ASSUME PageStep, Watched, TokensKept, UNCHANGED <<shown, clientCache>> PROVE Goal
    BY <1>1, <1>2 DEF TokensKept, PageTypes
<1>3. CASE RefreshRegistry
    <2>1. /\ Ended(Aborted("registry"))
          /\ \A i \in DOMAIN sent : Aborted("registry")[i].live => sent[i].page # "registry"
        BY <1>1, AbortedEnds
    <2>. QED  BY <1>2, <1>3, <2>1, RefreshedStep DEF RefreshRegistry, pageVars
<1>4. CASE Submit
    <2>1. Extended("edit", {None})
        BY <1>1, <1>4, AppendedIs DEF Submit
    <2>2. UNCHANGED serverVars /\ UNCHANGED <<shown, tokens, clientCache>>
        BY <1>4 DEF Submit, pageVars
    <2>. QED  BY <1>1, <1>2, <2>1, <2>2, ExtendedStep DEF TokensKept
<1>5. CASE RefreshTokens
    <2>1. TokensKept /\ Extended("tokens", QueryNames \X Sections)
        BY <1>5, RefreshTokensKeeps
    <2>2. UNCHANGED serverVars /\ UNCHANGED <<shown, clientCache>>
        BY <1>5 DEF RefreshTokens
    <2>. QED  BY <1>2, <2>1, <2>2, ExtendedStep
<1>6. ASSUME NEW i \in DOMAIN sent, ShowRegistry(i) PROVE Goal
    <2>1. /\ sent' = Consumed(i) /\ UNCHANGED serverVars /\ UNCHANGED <<tokens, clientCache>>
          /\ Shows(i) /\ Reply(sent[i]) # Awaiting
          /\ shown' = IF Reply(sent[i]) = Failed THEN shown ELSE Reply(sent[i])
        BY <1>6 DEF ShowRegistry, Arrived, Live, Shows
    <2>2. Ended(Consumed(i)) /\ ~Consumed(i)[i].live
        BY <1>1, ConsumedEnds
    <2>3. Extended("edit", {None})
        BY <2>1, <2>2, EndedIs
    <2>4. PageStep /\ WholeInv'
        BY <2>1, <2>3, ExtendedStep
    <2>5. Reply(sent[i]) \in Outcomes
        BY <1>6, ReplyIs
    <2>6. ASSUME NEW j, Shows(j)' PROVE Shows(j) /\ j # i
        BY <2>1, <2>2, <2>6 DEF Shows, Ended
    <2>7. Watched /\ shown' \in Nat
        <3>1. CASE Reply(sent[i]) = Failed
            BY <1>1, <2>1, <2>6, <3>1 DEF Watched, PageTypes
        <3>2. CASE Reply(sent[i]) # Failed
            <4>1. Reply(sent[i]) \in Nat /\ shown' = Reply(sent[i])
                BY <2>1, <2>5, <3>2 DEF Outcomes
            <4>. QED  BY <2>1, <2>6, <4>1 DEF Watched
        <3>. QED  BY <3>1, <3>2
    <2>. QED  BY <1>1, <2>1, <2>4, <2>7 DEF PageTypes
<1>7. ASSUME NEW i \in DOMAIN sent, Saved(i) PROVE Goal
    <2>1. UNCHANGED serverVars /\ UNCHANGED pageVars /\ UNCHANGED <<shown, tokens, clientCache>>
        BY <1>7 DEF Saved, pageVars
    <2>2. CASE Reply(sent[i]) = Failed
        <3>1. sent' = Consumed(i) /\ Ended(Consumed(i))
            BY <1>1, <1>7, <2>2, ConsumedEnds DEF Saved
        <3>2. Extended("edit", {None})
            BY <3>1, EndedIs
        <3>. QED  BY <1>1, <1>2, <2>1, <3>2, ExtendedStep DEF TokensKept
    <2>3. CASE Reply(sent[i]) # Failed
        <3>. DEFINE ab == Aborted("registry")
                    rs == [ab EXCEPT ![i].live = FALSE]
        <3>1. /\ Ended(ab)
              /\ \A j \in DOMAIN sent : ab[j].live => sent[j].page # "registry"
            BY <1>1, AbortedEnds
        <3>. HIDE DEF ab
        <3>2. Ended(rs) /\ \A j \in DOMAIN sent : rs[j].live => ab[j].live
            <4>1. ab \in Seq(RequestSet) /\ DOMAIN ab = DOMAIN sent /\ ab[i] \in RequestSet
                BY <3>1 DEF Ended
            <4>2. /\ [ab[i] EXCEPT !.live = FALSE] \in RequestSet
                  /\ rs = [ab EXCEPT ![i] = [ab[i] EXCEPT !.live = FALSE]]
                BY <4>1 DEF RequestSet
            <4>3. /\ rs \in Seq(RequestSet) /\ DOMAIN rs = DOMAIN sent
                  /\ rs[i] = [ab[i] EXCEPT !.live = FALSE]
                  /\ \A j \in DOMAIN sent : j # i => rs[j] = ab[j]
                BY <4>1, <4>2
            <4>. QED  BY <3>1, <4>1, <4>3 DEF Ended, RequestSet
        <3>3. sent' = Append(rs, Request("registry", None))
            BY <1>7, <2>3 DEF Saved, ab
        <3>. HIDE DEF rs
        <3>. QED  BY <1>2, <2>1, <3>1, <3>2, <3>3, RefreshedStep
    <2>. QED  BY <2>2, <2>3
<1>8. ASSUME NEW i \in DOMAIN sent, Retry(i) PROVE Goal
    BY <1>2, <1>8, RetryStep DEF Retry, pageVars
<1>9. ASSUME NEW i \in DOMAIN sent, ShowPart(i) PROVE Goal
    <2>1. /\ TokensKept /\ Extended("tokens", QueryNames \X Sections)
          /\ clientCache' \in [QueryNames \X Sections -> Loads]
        BY <1>9, ShowPartKeeps
    <2>2. UNCHANGED serverVars /\ shown' = shown
        BY <1>9 DEF ShowPart
    <2>3. PageStep /\ Watched
        BY <2>1, <2>2, ExtendedStep
    <2>. QED  BY <1>1, <2>1, <2>2, <2>3 DEF TokensKept, PageTypes
<1>10. ASSUME NEW q \in QueryNames, ChangeFilter(q) PROVE Goal
    <2>1. TokensKept /\ Extended("tokens", QueryNames \X Sections)
        BY <1>10, ChangeFilterKeeps
    <2>2. UNCHANGED serverVars /\ UNCHANGED <<shown, clientCache>>
        BY <1>10 DEF ChangeFilter
    <2>. QED  BY <1>2, <2>1, <2>2, ExtendedStep
<1>11. ASSUME NEW k \in DOMAIN clientCache, ExpirePart(k) PROVE Goal
    <2>1. /\ UNCHANGED serverVars /\ UNCHANGED <<sent, shown, tokens>>
          /\ clientCache' = [clientCache EXCEPT ![k] = None]
        BY <1>11 DEF ExpirePart
    <2>2. Extended("edit", {None})
        BY <1>1, <2>1, EndedIs
    <2>3. clientCache' \in [QueryNames \X Sections -> Loads]
        BY <1>1, <2>1 DEF PageTypes, Loads
    <2>. QED  BY <1>1, <2>1, <2>2, <2>3, ExtendedStep DEF PageTypes
<1>. QED  BY <1>3, <1>4, <1>5, <1>6, <1>7, <1>8, <1>9, <1>10, <1>11 DEF PageNext

-----------------------------------------------------------------------------
(* What the steps of the server do.                                        *)

LEMMA DoneEffect ==
    ASSUME ServerTypes, QueueInv, NEW out, Done(out)
    PROVE  /\ jobs[1].kind = "registry" =>
                registry' = Loaded(jobs[1], out) /\ UNCHANGED <<answers, acked>>
           /\ jobs[1].kind = "query" => answers' \subseteq answers /\ UNCHANGED <<registry, acked>>
           /\ (jobs[1].kind = "write" /\ out = Failed) => UNCHANGED <<registry, answers, acked>>
           /\ (jobs[1].kind = "write" /\ out # Failed) =>
                registry' = Invalidated /\ answers' = {} /\ acked' = out
           /\ jobs[1].kind \in {"registry", "query", "write"}
           /\ ServerTypes' <=> data' \in Nat
           /\ registry.generation <= registry'.generation /\ registry'.generation \in Nat
           /\ registry'.pending \in {0, registry.pending}
           /\ answers' \subseteq answers
<1>1. /\ out \in Nat \cup {Failed} /\ jobs[1] \in JobSet /\ Head(jobs) = jobs[1]
      /\ jobs' \in Seq(JobSet) /\ results' \in Seq(Outcomes)
    BY DoneIs
<1>2. jobs[1].kind \in {"registry", "query", "write"}
    BY <1>1 DEF JobSet
<1>3. Settle(jobs[1], out)
    BY <1>1 DEF Done
<1>4. CASE jobs[1].kind = "registry"
    <2>1. registry' = Loaded(jobs[1], out) /\ UNCHANGED <<answers, acked>>
        BY <1>3, <1>4 DEF Settle
    <2>. DEFINE cached == IF Current(jobs[1]) /\ out # Failed THEN out ELSE registry.cached
                pending == IF registry.pending = jobs[1].id THEN 0 ELSE registry.pending
    <2>2. registry \in RegistrySet
        BY DEF ServerTypes
    <2>3. cached \in Loads /\ pending \in {0, registry.pending}
        BY <1>1, <2>2 DEF Loads, RegistrySet
    <2>4. registry' = [registry EXCEPT !.cached = cached, !.pending = pending]
        BY <2>1, <2>2 DEF Loaded, RegistrySet
    <2>. HIDE DEF cached, pending
    <2>5. registry' \in RegistrySet /\ registry'.generation = registry.generation
          /\ registry'.pending = pending
        <3>1. pending \in Nat
            BY <2>2, <2>3 DEF RegistrySet
        <3>. QED  BY <2>2, <2>3, <2>4, <3>1 DEF RegistrySet
    <2>. QED  BY <1>1, <1>4, <2>1, <2>2, <2>3, <2>5 DEF ServerTypes, RegistrySet
<1>5. CASE jobs[1].kind = "query"
    <2>1. answers' \subseteq answers /\ UNCHANGED <<registry, acked>>
        BY <1>3, <1>5 DEF Settle, Without
    <2>. QED  BY <1>1, <1>5, <2>1 DEF ServerTypes, RegistrySet
<1>6. CASE jobs[1].kind = "write" /\ out # Failed
    <2>1. registry' = Invalidated /\ answers' = {} /\ acked' = out
        BY <1>3, <1>6 DEF Settle
    <2>2. registry.generation \in Nat
        BY DEF ServerTypes, RegistrySet
    <2>3. /\ registry' \in RegistrySet /\ registry'.generation = registry.generation + 1
          /\ registry'.pending = 0
        BY <2>1, <2>2 DEF Invalidated, RegistrySet, Loads
    <2>. QED  BY <1>1, <1>6, <2>1, <2>2, <2>3 DEF ServerTypes
<1>7. CASE jobs[1].kind = "write" /\ out = Failed
    <2>1. UNCHANGED <<registry, answers, acked>>
        BY <1>3, <1>7 DEF Settle
    <2>. QED  BY <1>1, <1>7, <2>1 DEF ServerTypes, RegistrySet
<1>. QED  BY <1>2, <1>4, <1>5, <1>6, <1>7

\* Request i is answered, or connected to a load.
Connected(i, load, reply) ==
    /\ sent' \in Seq(RequestSet) /\ DOMAIN sent' = DOMAIN sent
    /\ \A j \in DOMAIN sent : j # i => sent'[j] = sent[j]
    /\ sent'[i].page = sent[i].page /\ sent'[i].key = sent[i].key
    /\ sent'[i].since = sent[i].since /\ sent'[i].live = sent[i].live
    /\ sent'[i].load = load /\ sent'[i].reply = reply

LEMMA ConnectedTo ==
    ASSUME sent \in Seq(RequestSet), NEW i \in DOMAIN sent, NEW load \in Nat,
           sent' = [sent EXCEPT ![i].load = load]
    PROVE  Connected(i, load, sent[i].reply)
<1>. DEFINE r == [sent[i] EXCEPT !.load = load]
<1>1. sent[i] \in RequestSet
    OBVIOUS
<1>2. /\ r \in RequestSet /\ r.page = sent[i].page /\ r.key = sent[i].key /\ r.since = sent[i].since
      /\ r.live = sent[i].live /\ r.load = load /\ r.reply = sent[i].reply
    BY <1>1 DEF RequestSet
<1>3. sent' = [sent EXCEPT ![i] = r]
    BY <1>1 DEF RequestSet
<1>. HIDE DEF r
<1>. QED  BY <1>2, <1>3 DEF Connected

LEMMA AnsweredWith ==
    ASSUME sent \in Seq(RequestSet), NEW i \in DOMAIN sent, NEW reply \in Outcomes,
           sent' = [sent EXCEPT ![i].reply = reply]
    PROVE  Connected(i, sent[i].load, reply)
<1>. DEFINE r == [sent[i] EXCEPT !.reply = reply]
<1>1. sent[i] \in RequestSet
    OBVIOUS
<1>2. /\ r \in RequestSet /\ r.page = sent[i].page /\ r.key = sent[i].key /\ r.since = sent[i].since
      /\ r.live = sent[i].live /\ r.load = sent[i].load /\ r.reply = reply
    BY <1>1 DEF RequestSet
<1>3. sent' = [sent EXCEPT ![i] = r]
    BY <1>1 DEF RequestSet
<1>. HIDE DEF r
<1>. QED  BY <1>2, <1>3 DEF Connected

\* The ways a request that arrives is dealt with.
FromCache(i) ==
    /\ registry.cached # None /\ Connected(i, 0, registry.cached)
    /\ UNCHANGED <<jobs, results, registry, answers>>
Joins(i) ==
    /\ sent[i].page = "registry" /\ registry.pending # 0
    /\ Connected(i, registry.pending, Awaiting)
    /\ UNCHANGED <<jobs, results, registry, answers>>
Hits(i) ==
    /\ sent[i].page = "tokens"
    /\ \E e \in answers : Connected(i, e.load, Awaiting)
    /\ UNCHANGED <<jobs, results, registry, answers>>
Loading(i) ==
    /\ sent[i].page = "registry" /\ registry.cached = None /\ registry.pending = 0
    /\ Queue("registry", None) /\ Connected(i, Len(results'), Awaiting)
    /\ registry' = [registry EXCEPT !.pending = IF Full THEN 0 ELSE Len(results')]
    /\ UNCHANGED answers
Asking(i) ==
    /\ sent[i].page = "tokens"
    /\ Queue("query", sent[i].key) /\ Connected(i, Len(results'), Awaiting)
    /\ answers' \subseteq AnswerSet
    /\ \A e \in answers' : e \in answers \/ e.load = Len(results')
    /\ UNCHANGED registry
Writing(i) ==
    /\ sent[i].page = "edit"
    /\ Queue("write", None) /\ Connected(i, Len(results'), Awaiting)
    /\ UNCHANGED <<registry, answers>>

LEMMA StoredIs ==
    ASSUME answers \subseteq AnswerSet, NEW key \in Keys, NEW load \in Nat,
           NEW e \in Stored(key, load)
    PROVE  e \in AnswerSet /\ (e \in answers \/ e.load = load)
<1>. DEFINE kept == IF Cardinality(answers) >= CacheMax THEN answers \ Oldest ELSE answers
            own == {o.place : o \in {o \in kept : o.key = key}}
            places == IF own = {} THEN {load} ELSE own
<1>1. \/ e \in {o \in kept : o.key # key}
      \/ e \in {[key |-> key, load |-> load, fresh |-> TRUE, place |-> p] : p \in places}
    BY DEF Stored
<1>2. kept \subseteq answers
    OBVIOUS
<1>. HIDE DEF kept
<1>3. own \subseteq Nat
    BY <1>2 DEF AnswerSet
<1>. HIDE DEF own
<1>4. places \subseteq Nat
    BY <1>3
<1>. HIDE DEF places
<1>5. CASE e \in {o \in kept : o.key # key}
    BY <1>2, <1>5
<1>6. CASE e \in {[key |-> key, load |-> load, fresh |-> TRUE, place |-> p] : p \in places}
    <2>1. PICK p \in places : e = [key |-> key, load |-> load, fresh |-> TRUE, place |-> p]
        BY <1>6
    <2>. QED  BY <1>4, <2>1 DEF AnswerSet
<1>. QED  BY <1>1, <1>5, <1>6

LEMMA ArriveIs ==
    ASSUME PathTypes, NEW i \in DOMAIN sent, Arrive(i)
    PROVE  /\ \/ FromCache(i) \/ Joins(i) \/ Hits(i)
              \/ Loading(i) \/ Asking(i) \/ Writing(i)
           /\ UNCHANGED <<data, stage, open, acked, shown, tokens, clientCache>>
           /\ sent[i].key \in Keys
<1>1. /\ sent \in Seq(RequestSet) /\ sent[i] \in RequestSet /\ ServerTypes
      /\ sent[i].load = 0 /\ sent[i].reply = Awaiting
    BY DEF PathTypes, Arrive
<1>2. sent[i].key \in Keys /\ None \in Keys
    BY <1>1 DEF RequestSet, Keys
<1>3. registry \in RegistrySet /\ answers \subseteq AnswerSet
    BY <1>1 DEF ServerTypes
<1>4. CASE GetRegistry(i)
    <2>1. CASE registry.cached # None
        <3>1. registry.cached \in Outcomes
            BY <1>3, <2>1 DEF RegistrySet, Loads, Outcomes
        <3>. QED  BY <1>1, <1>2, <1>4, <2>1, <3>1, AnsweredWith DEF GetRegistry, FromCache, Arrive, pageVars
    <2>2. CASE registry.cached = None /\ registry.pending # 0
        <3>1. registry.pending \in Nat
            BY <1>3 DEF RegistrySet
        <3>. QED  BY <1>1, <1>2, <1>4, <2>2, <3>1, ConnectedTo DEF GetRegistry, Joins, Arrive, pageVars
    <2>3. CASE registry.cached = None /\ registry.pending = 0
        <3>1. /\ Queue("registry", None) /\ sent' = [sent EXCEPT ![i].load = Len(results')]
              /\ registry' = [registry EXCEPT !.pending = IF Full THEN 0 ELSE Len(results')]
              /\ UNCHANGED answers /\ sent[i].page = "registry"
            BY <1>4, <2>3 DEF GetRegistry
        <3>2. Len(results') \in Nat
            BY <1>1, <1>2, <3>1, QueueIs
        <3>3. Connected(i, Len(results'), Awaiting)
            BY <1>1, <3>1, <3>2, ConnectedTo
        <3>. QED  BY <1>2, <2>3, <3>1, <3>3 DEF Loading, Arrive, pageVars
    <2>. QED  BY <2>1, <2>2, <2>3
<1>5. CASE GetAnswer(i)
    <2>. DEFINE hits == {e \in answers : e.key = sent[i].key /\ e.fresh}
    <2>1. CASE hits # {}
        <3>1. PICK e \in hits : sent' = [sent EXCEPT ![i].load = e.load]
            BY <1>5, <2>1 DEF GetAnswer
        <3>2. e \in answers /\ e.load \in Nat
            BY <1>3 DEF AnswerSet
        <3>3. Connected(i, e.load, Awaiting)
            BY <1>1, <3>1, <3>2, ConnectedTo
        <3>. QED  BY <1>2, <1>5, <2>1, <3>2, <3>3 DEF GetAnswer, Hits, Arrive, pageVars
    <2>2. CASE hits = {}
        <3>1. /\ Queue("query", sent[i].key) /\ sent' = [sent EXCEPT ![i].load = Len(results')]
              /\ answers' \subseteq Stored(sent[i].key, Len(results'))
              /\ UNCHANGED registry /\ sent[i].page = "tokens"
            BY <1>5, <2>2 DEF GetAnswer
        <3>2. Len(results') \in Nat
            BY <1>1, <1>2, <3>1, QueueIs
        <3>3. Connected(i, Len(results'), Awaiting)
            BY <1>1, <3>1, <3>2, ConnectedTo
        <3>4. ASSUME NEW e \in answers'
              PROVE  e \in AnswerSet /\ (e \in answers \/ e.load = Len(results'))
            <4>1. e \in Stored(sent[i].key, Len(results'))
                BY <3>1
            <4>. QED  BY <1>2, <1>3, <3>2, <4>1, StoredIs
        <3>. QED  BY <1>2, <3>1, <3>3, <3>4 DEF Asking, Arrive, GetAnswer, pageVars
    <2>. QED  BY <2>1, <2>2
<1>6. CASE PutRegistry(i)
    <2>1. Queue("write", None) /\ sent' = [sent EXCEPT ![i].load = Len(results')]
        BY <1>6 DEF PutRegistry
    <2>2. Len(results') \in Nat
        BY <1>1, <1>2, <2>1, QueueIs
    <2>3. Connected(i, Len(results'), Awaiting)
        BY <1>1, <2>1, <2>2, ConnectedTo
    <2>. QED  BY <1>2, <1>6, <2>1, <2>3 DEF PutRegistry, Writing, Arrive, pageVars
<1>. QED  BY <1>4, <1>5, <1>6 DEF Arrive

-----------------------------------------------------------------------------
(* The kinds of steps there are, and what each leaves of the invariants.   *)

Ends(out) ==
    /\ Done(out) /\ open' = open \ {Head(jobs).id}
    /\ UNCHANGED <<data, sent, shown, tokens, clientCache>>
WaitsAgain ==
    /\ Requeued /\ open' = open \ {Head(jobs).id}
    /\ UNCHANGED <<data, results, registry, answers, acked, sent, shown, tokens, clientCache>>

LEMMA Kinds ==
    ASSUME PathTypes, QueueInv, ReadNext
    PROVE  \/ StartJob \/ Execute \/ TimeOut \/ ExpireRegistry
           \/ WaitsAgain \/ PageNext
           \/ \E out : Ends(out)
           \/ \E i \in DOMAIN sent : Arrive(i)
           \/ \E e \in answers : ExpireAnswer(e)
<1>1. CASE FinishJob
    <2>1. jobs # <<>>
        BY <1>1 DEF FinishJob, QueueInv
    <2>2. CASE HalfLoaded(Head(jobs))
        BY <1>1, <2>1, <2>2 DEF FinishJob, WaitsAgain, Requeued, QueueIdentities, pageVars
    <2>3. CASE ~HalfLoaded(Head(jobs))
        <3>1. Ends(Head(jobs).at)
            BY <1>1, <2>1, <2>3 DEF FinishJob, Ends, Done, pageVars
        <3>. QED  BY <3>1
    <2>. QED  BY <2>2, <2>3
<1>2. CASE FailJob
    <2>1. jobs # <<>>
        BY <1>2 DEF FailJob, QueueInv
    <2>2. Ends(Failed)
        BY <1>2, <2>1 DEF FailJob, Ends, Done, pageVars
    <2>. QED  BY <2>2
<1>3. CASE RefuseJob
    <2>1. jobs # <<>> /\ open = {} /\ open' = open
        BY <1>3 DEF RefuseJob, QueueInv
    <2>2. Ends(Failed)
        BY <1>3, <2>1 DEF RefuseJob, Ends, Done, pageVars
    <2>. QED  BY <2>2
<1>4. CASE ResetDone
    <2>1. jobs # <<>>
        BY <1>4 DEF ResetDone, QueueInv
    <2>2. Ends(Failed)
        BY <1>4, <2>1 DEF ResetDone, Ends, Done, pageVars
    <2>. QED  BY <2>2
<1>. QED  BY <1>1, <1>2, <1>3, <1>4 DEF ReadNext, PageNext

\* The shape of the state.
Shaped == PathTypes /\ Wired

LEMMA ShapedPage ==
    ASSUME Shaped, PageStep, PageTypes'
    PROVE  Shaped'
<1>1. UNCHANGED serverVars /\ sent' \in Seq(RequestSet)
    BY DEF PageStep
<1>2. ServerTypes' /\ PathTypes'
    BY <1>1 DEF Shaped, PathTypes, ServerTypes, serverVars
<1>3. ASSUME NEW i \in DOMAIN sent'
      PROVE  /\ sent'[i].load \in {0} \cup DOMAIN results'
             /\ sent'[i].page = "tokens" => sent'[i].key \in QueryNames \X Sections
    BY <1>1 DEF Shaped, PageStep, Wired, Stays, Again, Same, Joined, serverVars
<1>. QED  BY <1>1, <1>2, <1>3 DEF Shaped, Wired, serverVars

LEMMA ShapedDone ==
    ASSUME Shaped, QueueInv, NEW out, Ends(out)
    PROVE  Shaped'
<1>1. /\ ServerTypes /\ Done(out) /\ UNCHANGED <<data, sent, shown, tokens, clientCache>>
      /\ DOMAIN results' = DOMAIN results
    BY DoneIs DEF Shaped, PathTypes, Ends
<1>2. /\ ServerTypes' <=> data' \in Nat
      /\ registry'.pending \in {0, registry.pending} /\ answers' \subseteq answers
    BY <1>1, DoneEffect
<1>3. data' \in Nat
    BY <1>1 DEF ServerTypes
<1>4. Wired'
    BY <1>1, <1>2 DEF Shaped, Wired
<1>. QED  BY <1>1, <1>2, <1>3, <1>4 DEF Shaped, PathTypes, PageTypes

LEMMA ShapedExecute ==
    ASSUME Shaped, QueueInv, Execute
    PROVE  Shaped'
<1>1. /\ ServerTypes /\ jobs' \in Seq(JobSet) /\ data' \in Nat
    BY ExecuteIs DEF Shaped, PathTypes
<1>2. UNCHANGED <<stage, open, results, registry, answers, acked, sent, shown, tokens, clientCache>>
    BY DEF Execute, pageVars
<1>. QED  BY <1>1, <1>2 DEF Shaped, PathTypes, ServerTypes, PageTypes, Wired

LEMMA ShapedWaitsAgain ==
    ASSUME Shaped, QueueInv, WaitsAgain
    PROVE  Shaped'
<1>1. jobs' \in Seq(JobSet)
    BY RequeuedIs DEF Shaped, PathTypes, WaitsAgain
<1>2. UNCHANGED <<data, results, registry, answers, acked, sent, shown, tokens, clientCache>>
    BY DEF WaitsAgain
<1>. QED  BY <1>1, <1>2 DEF Shaped, PathTypes, ServerTypes, PageTypes, Wired

LEMMA ShapedArrive ==
    ASSUME Shaped, NEW i \in DOMAIN sent, Arrive(i)
    PROVE  Shaped'
<1>1. /\ \/ FromCache(i) \/ Joins(i) \/ Hits(i)
         \/ Loading(i) \/ Asking(i) \/ Writing(i)
      /\ UNCHANGED <<data, stage, open, acked, shown, tokens, clientCache>>
      /\ sent[i].key \in Keys /\ None \in Keys
    BY ArriveIs DEF Shaped, Keys
<1>2. ServerTypes /\ PageTypes' /\ results \in Seq(Outcomes)
    BY <1>1 DEF Shaped, PathTypes, PageTypes, ServerTypes
<1>3. ASSUME NEW load, NEW reply, Connected(i, load, reply),
             load \in {0} \cup DOMAIN results', DOMAIN results \subseteq DOMAIN results'
      PROVE  /\ sent' \in Seq(RequestSet)
             /\ \A j \in DOMAIN sent' :
                   /\ sent'[j].load \in {0} \cup DOMAIN results'
                   /\ sent'[j].page = "tokens" => sent'[j].key \in QueryNames \X Sections
    BY <1>3 DEF Connected, Shaped, Wired
<1>4. CASE FromCache(i) \/ Joins(i) \/ Hits(i)
    <2>1. UNCHANGED <<jobs, results, registry, answers>>
        BY <1>4 DEF FromCache, Joins, Hits
    <2>2. \E load \in {0} \cup DOMAIN results : \E reply : Connected(i, load, reply)
        BY <1>4 DEF FromCache, Joins, Hits, Shaped, Wired
    <2>. QED  BY <1>1, <1>2, <1>3, <2>1, <2>2 DEF Shaped, PathTypes, ServerTypes, Wired
<1>5. ASSUME NEW kind \in {"registry", "query", "write"}, NEW key \in Keys, Queue(kind, key),
             Connected(i, Len(results'), Awaiting),
             registry' \in RegistrySet, registry'.pending \in {0, Len(results'), registry.pending},
             answers' \subseteq AnswerSet, \A e \in answers' : e \in answers \/ e.load = Len(results')
      PROVE  Shaped'
    <2>1. /\ jobs' \in Seq(JobSet) /\ results' \in Seq(Outcomes)
          /\ DOMAIN results' = DOMAIN results \cup {Len(results')}
        BY <1>2, <1>5, QueueIs
    <2>2. ServerTypes'
        BY <1>1, <1>2, <1>5, <2>1 DEF ServerTypes
    <2>3. /\ sent' \in Seq(RequestSet)
          /\ \A j \in DOMAIN sent' :
                /\ sent'[j].load \in {0} \cup DOMAIN results'
                /\ sent'[j].page = "tokens" => sent'[j].key \in QueryNames \X Sections
        BY <1>3, <1>5, <2>1
    <2>. QED  BY <1>2, <1>5, <2>1, <2>2, <2>3 DEF Shaped, PathTypes, Wired
<1>6. registry \in RegistrySet /\ answers \subseteq AnswerSet
    BY <1>2 DEF ServerTypes
<1>7. CASE Loading(i)
    <2>. DEFINE pending == IF Full THEN 0 ELSE Len(results')
    <2>1. Queue("registry", None) /\ registry' = [registry EXCEPT !.pending = pending]
        BY <1>7 DEF Loading
    <2>2. pending \in Nat /\ pending \in {0, Len(results')}
        BY <1>1, <1>2, <2>1, QueueIs
    <2>. HIDE DEF pending
    <2>3. registry' \in RegistrySet /\ registry'.pending = pending
        BY <1>6, <2>1, <2>2 DEF RegistrySet
    <2>. QED  BY <1>1, <1>5, <1>6, <1>7, <2>2, <2>3 DEF Loading
<1>8. CASE Asking(i)
    BY <1>1, <1>5, <1>6, <1>8 DEF Asking
<1>9. CASE Writing(i)
    BY <1>1, <1>5, <1>6, <1>9 DEF Writing
<1>. QED  BY <1>1, <1>4, <1>7, <1>8, <1>9

LEMMA ShapedExpireAnswer ==
    ASSUME Shaped, NEW e \in answers, ExpireAnswer(e)
    PROVE  Shaped' /\ \A a \in answers' : \E o \in answers : a.load = o.load
<1>. DEFINE stale == [e EXCEPT !.fresh = FALSE]
<1>1. e \in AnswerSet
    BY DEF Shaped, PathTypes, ServerTypes
<1>2. stale \in AnswerSet /\ stale.load = e.load
    BY <1>1 DEF AnswerSet
<1>3. /\ answers' = (answers \ {e}) \cup {stale}
      /\ UNCHANGED <<data, jobs, stage, open, results, registry, acked, sent, shown, tokens, clientCache>>
    BY DEF ExpireAnswer, pageVars
<1>. HIDE DEF stale
<1>. QED  BY <1>2, <1>3 DEF Shaped, PathTypes, ServerTypes, PageTypes, Wired

LEMMA ShapedExpireRegistry ==
    ASSUME Shaped, ExpireRegistry
    PROVE  /\ Shaped' /\ registry'.generation = registry.generation
           /\ registry'.pending = registry.pending /\ registry'.cached = None
<1>1. /\ registry' = [registry EXCEPT !.cached = None] /\ registry \in RegistrySet
      /\ UNCHANGED <<data, jobs, stage, open, results, answers, acked, sent, shown, tokens, clientCache>>
    BY DEF ExpireRegistry, pageVars, Shaped, PathTypes, ServerTypes
<1>2. /\ registry' \in RegistrySet /\ registry'.generation = registry.generation
      /\ registry'.pending = registry.pending /\ registry'.cached = None
    BY <1>1 DEF RegistrySet, Loads
<1>. QED  BY <1>1, <1>2 DEF Shaped, PathTypes, ServerTypes, PageTypes, Wired

-----------------------------------------------------------------------------
(* Answered writes are in what is kept, and in what is waited for.         *)

\* A load that gives nothing older than c gives nothing older than b <= c.
LEMMA GivesLess ==
    ASSUME ServerTypes, NEW b \in Nat, NEW c \in Nat, b <= c, NEW L \in DOMAIN results, Gives(L, c)
    PROVE  Gives(L, b)
<1>1. ASSUME NEW n \in DOMAIN jobs, jobs[n].id = L, Value(jobs[n]) # None PROVE b <= Value(jobs[n])
    <2>1. jobs[n] \in JobSet
        BY DEF ServerTypes
    <2>2. Value(jobs[n]) \in Nat
        BY <1>1, <2>1 DEF Value, JobSet, Loads
    <2>. QED  BY <1>1, <2>2 DEF Gives
<1>2. results[L] \in Nat => b <= results[L]
    BY DEF Gives
<1>. QED  BY <1>1, <1>2 DEF Gives

LEMMA SinceIs ==
    ASSUME Shaped, AckInv, NEW i \in DOMAIN sent
    PROVE  sent[i].since \in Nat /\ sent[i].since <= acked /\ sent[i].since <= data
           /\ sent[i] \in RequestSet
<1>1. sent[i] \in RequestSet /\ acked \in Nat /\ data \in Nat
    BY DEF Shaped, PathTypes, ServerTypes
<1>2. sent[i].since \in Nat
    BY <1>1 DEF RequestSet
<1>. QED  BY <1>1, <1>2 DEF AckInv

LEMMA AckPage ==
    ASSUME Shaped, AckInv, PageStep
    PROVE  AckInv'
<1>1. UNCHANGED <<data, jobs, stage, open, results, registry, answers, acked>>
    BY DEF PageStep, serverVars
<1>2. ASSUME NEW i \in DOMAIN sent'
      PROVE  /\ sent'[i].since <= acked
             /\ IF sent'[i].load # 0 THEN Gives(sent'[i].load, sent'[i].since)
                ELSE sent'[i].reply \in Nat => sent'[i].since <= sent'[i].reply
    <2>1. CASE Stays(i)
        BY <2>1 DEF AckInv, Stays, Same
    <2>2. CASE Again(i)
        BY <2>2 DEF AckInv, Again, Same
    <2>3. CASE Joined(i)
        <3>1. acked \in Nat
            BY DEF Shaped, PathTypes, ServerTypes
        <3>. QED  BY <2>3, <3>1 DEF Joined
    <2>. QED  BY <2>1, <2>2, <2>3 DEF PageStep
<1>. QED  BY <1>1, <1>2 DEF AckInv, Gives

LEMMA AckExecute ==
    ASSUME Shaped, QueueInv, AckInv, Execute
    PROVE  AckInv'
<1>1. UNCHANGED <<results, registry, answers, acked, sent>>
    BY DEF Execute
<1>2. ServerTypes /\ acked \in Nat /\ data \in Nat /\ acked <= data
    BY DEF Shaped, PathTypes, ServerTypes, AckInv
<1>3. \A L \in DOMAIN results, b \in Nat : (b <= data /\ Gives(L, b)) => WillGive(L, b)
    BY <1>2, GivesExecute
<1>4. data' \in Nat /\ data <= data'
    BY <1>2, ExecuteIs
<1>5. ASSUME NEW n \in DOMAIN jobs'
      PROVE  /\ (/\ jobs'[n].kind = "registry" /\ jobs'[n].generation = registry.generation
                 /\ Value(jobs'[n]) # None) => acked <= Value(jobs'[n])
             /\ (jobs'[n].kind = "write" /\ jobs'[n].at # None) => acked <= jobs'[n].at
    <2>1. CASE n # 1
        BY <1>2, <2>1, ExecuteIs DEF AckInv
    <2>2. CASE n = 1
        <3>1. CASE jobs[1].sources = None
            BY <1>2, <1>4, <2>2, <3>1, ExecuteIs
        <3>2. CASE jobs[1].sources # None
            <4>1. jobs[1].kind = "registry"
                BY <1>2, <3>2, ExecuteIs DEF QueueInv
            <4>2. Value(jobs[1]) = jobs[1].sources /\ Value(jobs'[1]) = jobs[1].sources
                BY <1>2, <3>2, ExecuteIs DEF Value
            <4>. QED  BY <1>2, <2>2, <3>2, <4>1, <4>2, ExecuteIs DEF AckInv
        <3>. QED  BY <3>1, <3>2
    <2>. QED  BY <2>1, <2>2
<1>6. \A i \in DOMAIN sent : /\ sent[i].since \in Nat /\ sent[i].since <= data
                             /\ sent[i].load \in {0} \cup DOMAIN results
    BY SinceIs DEF Shaped, Wired
<1>7. /\ registry.pending # 0 => WillGive(registry.pending, acked)
      /\ \A e \in answers : WillGive(e.load, acked)
      /\ \A i \in DOMAIN sent : sent[i].load # 0 => WillGive(sent[i].load, sent[i].since)
    BY <1>1, <1>2, <1>3, <1>6 DEF AckInv, Shaped, Wired
<1>. QED  BY <1>1, <1>2, <1>4, <1>5, <1>7 DEF AckInv, Gives, WillGive

LEMMA AckWaitsAgain ==
    ASSUME Shaped, QueueInv, AckInv, WaitsAgain
    PROVE  AckInv'
<1>1. UNCHANGED <<data, results, registry, answers, acked, sent>> /\ ServerTypes /\ Requeued
    BY DEF WaitsAgain, Shaped, PathTypes
<1>2. \A L, b : Gives(L, b) => WillGive(L, b)
    BY <1>1, GivesRequeued
<1>3. ASSUME NEW n \in DOMAIN jobs'
      PROVE  /\ (/\ jobs'[n].kind = "registry" /\ jobs'[n].generation = registry.generation
                 /\ Value(jobs'[n]) # None) => acked <= Value(jobs'[n])
             /\ (jobs'[n].kind = "write" /\ jobs'[n].at # None) => acked <= jobs'[n].at
    <2>1. CASE n # Len(jobs)
        BY <1>1, <2>1, RequeuedIs DEF AckInv
    <2>2. CASE n = Len(jobs)
        BY <1>1, <2>2, RequeuedIs DEF AckInv
    <2>. QED  BY <2>1, <2>2
<1>. QED  BY <1>1, <1>2, <1>3 DEF AckInv, Gives, WillGive

LEMMA AckDone ==
    ASSUME Shaped, QueueInv, AckInv, NEW out, Ends(out)
    PROVE  AckInv'
<1>1. /\ UNCHANGED <<data, sent>> /\ ServerTypes /\ Done(out) /\ acked \in Nat /\ data \in Nat
      /\ registry \in RegistrySet
    BY DEF Ends, Shaped, PathTypes, ServerTypes
<1>2. \A L \in DOMAIN results : \A b : Gives(L, b) => WillGive(L, b)
    BY <1>1, GivesDone
<1>3. /\ out \in Nat \cup {Failed} /\ out <= data /\ 1 \in DOMAIN jobs
      /\ out # Failed => out = Value(jobs[1]) /\ out = jobs[1].at
      /\ \A n \in DOMAIN jobs' : n + 1 \in DOMAIN jobs /\ jobs'[n] = jobs[n + 1]
      /\ jobs' \in Seq(JobSet)
    BY <1>1, DoneIs
<1>4. \A i \in DOMAIN sent :
         /\ sent[i].since \in Nat /\ sent[i].since <= acked
         /\ IF sent[i].load # 0 THEN WillGive(sent[i].load, sent[i].since)
            ELSE sent[i].reply \in Nat => sent[i].since <= sent[i].reply
    BY <1>2, SinceIs DEF AckInv, Shaped, Wired
<1>5. \A n \in DOMAIN jobs' : jobs'[n].at = None
    <2>1. ASSUME NEW n \in DOMAIN jobs' PROVE jobs'[n].at = None
        <3>1. n \in Nat /\ n + 1 # 1 /\ n + 1 \in DOMAIN jobs /\ jobs'[n] = jobs[n + 1]
            BY <1>3
        <3>. QED  BY <3>1 DEF QueueInv
    <2>. QED  BY <2>1
<1>6. CASE UNCHANGED acked /\ registry'.generation = registry.generation
           /\ registry'.pending \in {0, registry.pending} /\ answers' \subseteq answers
           /\ (registry'.cached # None => acked <= registry'.cached)
    <2>1. /\ registry'.pending # 0 => WillGive(registry'.pending, acked)
          /\ \A e \in answers' : WillGive(e.load, acked)
        BY <1>2, <1>6 DEF AckInv, Shaped, Wired
    <2>2. ASSUME NEW n \in DOMAIN jobs', jobs'[n].kind = "registry",
                 jobs'[n].generation = registry.generation, Value(jobs'[n]) # None
          PROVE  acked <= Value(jobs'[n])
        BY <1>3, <2>2 DEF AckInv
    <2>. QED  BY <1>1, <1>4, <1>5, <1>6, <2>1, <2>2 DEF AckInv, Gives, WillGive
<1>7. CASE jobs[1].kind = "registry"
    <2>1. registry' = Loaded(jobs[1], out) /\ UNCHANGED <<answers, acked>>
        BY <1>1, <1>7, DoneEffect
    <2>2. /\ registry'.generation = registry.generation
          /\ registry'.pending \in {0, registry.pending}
          /\ registry'.cached = IF Current(jobs[1]) /\ out # Failed THEN out ELSE registry.cached
        BY <1>1, <2>1 DEF Loaded, RegistrySet
    <2>3. (Current(jobs[1]) /\ out # Failed) => acked <= out
        BY <1>3, <1>7 DEF AckInv, Current
    <2>. QED  BY <1>6, <2>1, <2>2, <2>3 DEF AckInv
<1>8. CASE jobs[1].kind = "write" /\ out # Failed
    <2>1. registry' = Invalidated /\ answers' = {} /\ acked' = out
        BY <1>1, <1>8, DoneEffect
    <2>2. /\ registry'.generation = registry.generation + 1
          /\ registry'.pending = 0 /\ registry'.cached = None
        BY <2>1 DEF Invalidated
    <2>3. acked <= out /\ out \in Nat
        BY <1>3, <1>8 DEF AckInv
    <2>4. ASSUME NEW n \in DOMAIN jobs' PROVE jobs'[n].generation # registry'.generation
        <3>1. /\ jobs[n + 1].generation <= registry.generation /\ jobs'[n] = jobs[n + 1]
              /\ jobs'[n] \in JobSet
            BY <1>3 DEF QueueInv
        <3>. QED  BY <1>1, <2>2, <3>1 DEF JobSet, RegistrySet
    <2>5. \A i \in DOMAIN sent : sent[i].since <= out
        BY <1>1, <1>4, <2>3
    <2>. QED  BY <1>1, <1>3, <1>4, <1>5, <2>1, <2>2, <2>4, <2>5 DEF AckInv, Gives, WillGive
<1>9. CASE jobs[1].kind = "query" \/ (jobs[1].kind = "write" /\ out = Failed)
    <2>1. UNCHANGED <<registry, acked>> /\ answers' \subseteq answers
        BY <1>1, <1>9, DoneEffect
    <2>. QED  BY <1>6, <2>1 DEF AckInv
<1>. QED  BY <1>1, <1>7, <1>8, <1>9, DoneEffect

LEMMA AckArrive ==
    ASSUME Shaped, QueueInv, AckInv, NEW i \in DOMAIN sent, Arrive(i)
    PROVE  AckInv'
<1>1. /\ \/ FromCache(i) \/ Joins(i) \/ Hits(i)
         \/ Loading(i) \/ Asking(i) \/ Writing(i)
      /\ UNCHANGED <<data, acked>> /\ ServerTypes
      /\ sent[i].key \in Keys /\ None \in Keys
    BY ArriveIs DEF Shaped, PathTypes, Keys
<1>2. \A j \in DOMAIN sent :
         /\ sent[j].since \in Nat /\ sent[j].since <= acked /\ acked \in Nat
         /\ sent[j].load \in {0} \cup DOMAIN results
    BY <1>1, SinceIs DEF Shaped, Wired, ServerTypes
<1>3. ASSUME UNCHANGED <<jobs, results, registry, answers>>, NEW load, NEW reply,
             Connected(i, load, reply), load \in {0} \cup DOMAIN results,
             IF load # 0 THEN Gives(load, acked) ELSE reply \in Nat => acked <= reply
      PROVE  AckInv'
    <2>1. ASSUME NEW L, NEW b, Gives(L, b) PROVE WillGive(L, b)
        BY <1>3, <2>1 DEF Gives, WillGive
    <2>2. IF load # 0 THEN Gives(load, sent[i].since) ELSE reply \in Nat => sent[i].since <= reply
        BY <1>1, <1>2, <1>3, GivesLess
    <2>3. ASSUME NEW j \in DOMAIN sent'
          PROVE  /\ sent'[j].since <= acked'
                 /\ IF sent'[j].load # 0 THEN WillGive(sent'[j].load, sent'[j].since)
                    ELSE sent'[j].reply \in Nat => sent'[j].since <= sent'[j].reply
        <3>1. CASE j = i
            BY <1>1, <1>2, <1>3, <2>1, <2>2, <3>1 DEF Connected
        <3>2. CASE j # i
            <4>1. sent'[j] = sent[j] /\ j \in DOMAIN sent
                BY <1>3, <3>2 DEF Connected
            <4>. QED  BY <1>1, <2>1, <4>1 DEF AckInv
        <3>. QED  BY <3>1, <3>2
    <2>4. /\ registry'.pending # 0 => WillGive(registry'.pending, acked)
          /\ \A e \in answers' : WillGive(e.load, acked)
        BY <1>1, <1>3, <2>1 DEF AckInv
    <2>. QED  BY <1>1, <1>3, <2>3, <2>4 DEF AckInv, Gives, WillGive
<1>4. ASSUME NEW kind \in {"registry", "query", "write"}, NEW key \in Keys, Queue(kind, key),
             Connected(i, Len(results'), Awaiting),
             registry'.pending \in {0, Len(results'), registry.pending},
             registry'.cached = registry.cached, registry'.generation = registry.generation,
             \A e \in answers' : e \in answers \/ e.load = Len(results')
      PROVE  AckInv'
    <2>1. ASSUME NEW L \in DOMAIN results, NEW b, Gives(L, b) PROVE WillGive(L, b)
        BY <1>1, <1>4, <2>1, GivesQueue
    <2>2. ASSUME NEW b PROVE WillGive(Len(results'), b)
        BY <1>1, <1>4, GivesNew
    <2>3. ASSUME NEW j \in DOMAIN sent'
          PROVE  /\ sent'[j].since <= acked'
                 /\ IF sent'[j].load # 0 THEN WillGive(sent'[j].load, sent'[j].since)
                    ELSE sent'[j].reply \in Nat => sent'[j].since <= sent'[j].reply
        <3>1. CASE j = i
            BY <1>1, <1>2, <1>4, <2>2, <3>1 DEF Connected
        <3>2. CASE j # i
            <4>1. sent'[j] = sent[j] /\ j \in DOMAIN sent
                BY <1>4, <3>2 DEF Connected
            <4>. QED  BY <1>1, <1>2, <2>1, <4>1 DEF AckInv
        <3>. QED  BY <3>1, <3>2
    <2>4. /\ registry'.pending # 0 => WillGive(registry'.pending, acked)
          /\ \A e \in answers' : WillGive(e.load, acked)
        BY <1>1, <1>4, <2>1, <2>2 DEF AckInv, Shaped, Wired
    <2>5. ASSUME NEW n \in DOMAIN jobs'
          PROVE  /\ (/\ jobs'[n].kind = "registry" /\ jobs'[n].generation = registry.generation
                     /\ Value(jobs'[n]) # None) => acked <= Value(jobs'[n])
                 /\ (jobs'[n].kind = "write" /\ jobs'[n].at # None) => acked <= jobs'[n].at
        <3>1. CASE n \in DOMAIN jobs
            BY <1>1, <1>4, <3>1, QueueIs DEF AckInv
        <3>2. CASE n \notin DOMAIN jobs
            <4>1. NewJob(jobs'[n], kind)
                BY <1>1, <1>4, <3>2, QueueIs
            <4>. QED  BY <4>1 DEF NewJob, Value
        <3>. QED  BY <3>1, <3>2
    <2>. QED  BY <1>1, <1>4, <2>3, <2>4, <2>5 DEF AckInv, Gives, WillGive
<1>5. registry \in RegistrySet
    BY <1>1 DEF ServerTypes
<1>6. CASE FromCache(i)
    BY <1>3, <1>5, <1>6 DEF FromCache, AckInv, RegistrySet, Loads
<1>7. CASE Joins(i)
    BY <1>3, <1>7 DEF Joins, AckInv, Shaped, Wired
<1>8. CASE Hits(i)
    BY <1>3, <1>8 DEF Hits, AckInv, Shaped, Wired
<1>9. CASE Loading(i)
    <2>. DEFINE pending == IF Full THEN 0 ELSE Len(results')
    <2>1. registry' = [registry EXCEPT !.pending = pending] /\ pending \in {0, Len(results')}
        BY <1>9 DEF Loading
    <2>. HIDE DEF pending
    <2>2. /\ registry'.pending = pending /\ registry'.cached = registry.cached
          /\ registry'.generation = registry.generation
        BY <1>5, <2>1 DEF RegistrySet
    <2>. QED  BY <1>1, <1>4, <1>9, <2>1, <2>2 DEF Loading
<1>10. CASE Asking(i)
    BY <1>1, <1>4, <1>10 DEF Asking
<1>11. CASE Writing(i)
    BY <1>1, <1>4, <1>11 DEF Writing
<1>. QED  BY <1>1, <1>6, <1>7, <1>8, <1>9, <1>10, <1>11

-----------------------------------------------------------------------------
(* The loads of the registry keep their order.                             *)

LEMMA JobTypes ==
    ASSUME Shaped, NEW n \in DOMAIN jobs
    PROVE  /\ jobs[n] \in JobSet /\ jobs[n].generation \in Nat /\ n \in Nat /\ 1 <= n
           /\ jobs[n].at \in Nat \/ jobs[n].at = None
           /\ jobs[n].sources \in Nat \/ jobs[n].sources = None
           /\ n <= Len(jobs) /\ Len(jobs) \in Nat
<1>1. jobs \in Seq(JobSet)
    BY DEF Shaped, PathTypes, ServerTypes
<1>2. jobs[n] \in JobSet
    BY <1>1
<1>. QED  BY <1>1, <1>2 DEF JobSet, Loads

LEMMA RegistryTypes ==
    ASSUME Shaped
    PROVE  /\ registry \in RegistrySet /\ registry.generation \in Nat
           /\ registry.cached \in Nat \/ registry.cached = None
           /\ data \in Nat /\ acked \in Nat /\ ServerTypes
BY DEF Shaped, PathTypes, ServerTypes, RegistrySet, Loads

\* Job n, if it loads the registry, comes after job m.
Follows(m, n) ==
    (Registry(m) /\ Registry(n)) =>
       /\ (m < n /\ (HasSources(m) <=> HasSources(n))) => jobs[m].generation <= jobs[n].generation
       /\ (HasSources(m) /\ ~HasSources(n)) => jobs[m].generation <= jobs[n].generation
       /\ (m < n /\ HasSources(m) /\ HasSources(n)) => jobs[m].sources <= jobs[n].sources
       /\ (HasSources(m) /\ ~HasSources(n) /\ jobs[n].at # None) => jobs[m].sources <= jobs[n].at
Present(n) ==
    /\ (Registry(n) /\ jobs[n].generation = registry.generation) => jobs[n].id = registry.pending
    /\ jobs[n].id = registry.pending => Registry(n)
    /\ registry.cached # None => ~Registry(n)

LEMMA LoadsAre ==
    LoadsInv <=> /\ \A m, n \in DOMAIN jobs : Follows(m, n)
                 /\ \A n \in DOMAIN jobs : Present(n)
                 /\ registry.pending # 0 => results[registry.pending] = Awaiting
                 /\ registry.cached <= data
BY DEF LoadsInv, Follows, Present

LEMMA LoadsExecute ==
    ASSUME Shaped, QueueInv, LoadsInv, Execute
    PROVE  LoadsInv'
<1>1. UNCHANGED <<results, registry>>
    BY DEF Execute
<1>2. ServerTypes /\ data \in Nat /\ (registry.cached \in Nat \/ registry.cached = None)
    BY RegistryTypes
<1>3. /\ DOMAIN jobs' = DOMAIN jobs /\ data' \in Nat /\ data <= data'
      /\ \A n \in DOMAIN jobs : n # 1 => jobs'[n] = jobs[n]
      /\ jobs'[1].id = jobs[1].id /\ jobs'[1].kind = jobs[1].kind
      /\ jobs'[1].sources = jobs[1].sources /\ jobs'[1].generation = jobs[1].generation
      /\ jobs[1].sources = None => jobs'[1].at = data'
    BY <1>2, ExecuteIs
<1>4. \A n \in DOMAIN jobs :
         /\ (Registry(n)' <=> Registry(n)) /\ (HasSources(n)' <=> HasSources(n))
         /\ jobs'[n].generation = jobs[n].generation /\ jobs'[n].sources = jobs[n].sources
         /\ jobs'[n].id = jobs[n].id
         /\ n # 1 => jobs'[n].at = jobs[n].at
    BY <1>3 DEF Registry, HasSources
<1>5. ASSUME NEW m \in DOMAIN jobs', NEW n \in DOMAIN jobs' PROVE Follows(m, n)'
    <2>1. m \in DOMAIN jobs /\ n \in DOMAIN jobs /\ Follows(m, n)
        BY <1>3, LoadsAre
    <2>2. ASSUME HasSources(m), ~HasSources(n), n = 1 PROVE jobs[m].sources <= jobs'[n].at
        <3>1. jobs'[n].at = data'
            BY <1>3, <2>2 DEF HasSources
        <3>2. Value(jobs[m]) = jobs[m].sources /\ Value(jobs[m]) <= data
            BY <2>1, <2>2 DEF HasSources, Value, QueueInv
        <3>3. jobs[m].sources \in Nat \/ jobs[m].sources = None
            BY <2>1, JobTypes
        <3>. QED  BY <1>2, <1>3, <3>1, <3>2, <3>3
    <2>. QED  BY <1>4, <2>1, <2>2 DEF Follows
<1>6. ASSUME NEW n \in DOMAIN jobs' PROVE Present(n)'
    BY <1>1, <1>3, <1>4, LoadsAre DEF Present
<1>7. registry.cached <= data'
    BY <1>2, <1>3, LoadsAre
<1>8. registry'.pending # 0 => results'[registry'.pending] = Awaiting
    BY <1>1, LoadsAre
<1>. QED  BY <1>1, <1>5, <1>6, <1>7, <1>8 DEF LoadsInv, Follows, Present

LEMMA LoadsWaitsAgain ==
    ASSUME Shaped, QueueInv, LoadsInv, WaitsAgain
    PROVE  LoadsInv'
<1>1. UNCHANGED <<data, results, registry>> /\ ServerTypes /\ Requeued
    BY RegistryTypes DEF WaitsAgain
<1>. DEFINE from(n) == IF n = Len(jobs) THEN 1 ELSE n + 1
            N == Len(jobs)
<1>2. N \in Nat /\ 1 \in DOMAIN jobs /\ DOMAIN jobs' = DOMAIN jobs /\ jobs[1].at \in Nat
      /\ jobs[1].kind = "registry" /\ jobs[1].sources = None /\ DOMAIN jobs = 1..N
    <2>1. jobs \in Seq(JobSet)
        BY <1>1 DEF ServerTypes
    <2>. QED  BY <1>1, <2>1, RequeuedIs
<1>3. ASSUME NEW n \in DOMAIN jobs'
      PROVE  /\ from(n) \in DOMAIN jobs /\ n \in Nat /\ n <= N
             /\ jobs'[n].id = jobs[from(n)].id /\ jobs'[n].kind = jobs[from(n)].kind
             /\ jobs'[n].generation = jobs[from(n)].generation
             /\ jobs'[n].at = None
             /\ n # N => from(n) = n + 1 /\ jobs'[n].sources = jobs[n + 1].sources
             /\ n = N => from(n) = 1 /\ jobs'[n].sources = jobs[1].at
    <2>1. CASE n # N
        <3>1. n + 1 \in DOMAIN jobs /\ jobs'[n] = jobs[n + 1]
            BY <1>1, <2>1, RequeuedIs
        <3>2. n \in Nat /\ n <= N /\ n + 1 # 1
            BY <1>2
        <3>. QED  BY <2>1, <3>1, <3>2 DEF QueueInv
    <2>2. CASE n = N
        BY <1>1, <1>2, <2>2, RequeuedIs
    <2>. QED  BY <2>1, <2>2
<1>4. \A n \in DOMAIN jobs' :
         /\ (Registry(n)' <=> Registry(from(n)))
         /\ n # N => (HasSources(n)' <=> HasSources(n + 1))
         /\ n = N => HasSources(n)' /\ Registry(n)'
    BY <1>2, <1>3 DEF Registry, HasSources
<1>5. Registry(1) /\ ~HasSources(1)
    BY <1>2 DEF Registry, HasSources
<1>6. ASSUME NEW m \in DOMAIN jobs', NEW n \in DOMAIN jobs' PROVE Follows(m, n)'
    <2>0. jobs'[n].at = None
        BY <1>3
    <2>1. CASE m # N /\ n # N
        <3>1. Follows(m + 1, n + 1) /\ (m < n => m + 1 < n + 1)
            BY <1>3, <2>1, LoadsAre
        <3>2. /\ jobs'[m].sources = jobs[m + 1].sources /\ jobs'[n].sources = jobs[n + 1].sources
              /\ jobs'[m].generation = jobs[m + 1].generation
              /\ jobs'[n].generation = jobs[n + 1].generation
              /\ (Registry(m)' <=> Registry(m + 1)) /\ (Registry(n)' <=> Registry(n + 1))
              /\ (HasSources(m)' <=> HasSources(m + 1)) /\ (HasSources(n)' <=> HasSources(n + 1))
            BY <1>3, <1>4, <2>1
        <3>. QED  BY <2>0, <3>1, <3>2 DEF Follows
    <2>2. CASE m = N /\ n # N
        <3>1. Follows(1, n + 1) /\ ~(m < n) /\ 1 < n + 1
            BY <1>2, <1>3, <2>2, LoadsAre
        <3>2. /\ jobs'[m].generation = jobs[1].generation
              /\ jobs'[n].generation = jobs[n + 1].generation
              /\ (Registry(n)' <=> Registry(n + 1)) /\ (HasSources(n)' <=> HasSources(n + 1))
            BY <1>3, <1>4, <2>2
        <3>. QED  BY <1>5, <2>0, <3>1, <3>2 DEF Follows
    <2>3. CASE m # N /\ n = N
        <3>1. Follows(m + 1, 1) /\ HasSources(n)'
            BY <1>2, <1>3, <1>4, <2>3, LoadsAre
        <3>2. /\ jobs'[m].generation = jobs[m + 1].generation
              /\ jobs'[n].generation = jobs[1].generation
              /\ (Registry(m)' <=> Registry(m + 1)) /\ (HasSources(m)' <=> HasSources(m + 1))
              /\ jobs'[m].sources = jobs[m + 1].sources /\ jobs'[n].sources = jobs[1].at
              /\ jobs[1].at # None
            BY <1>2, <1>3, <1>4, <2>3
        <3>. QED  BY <1>5, <3>1, <3>2 DEF Follows
    <2>4. CASE m = N /\ n = N
        BY <1>2, <1>4, <2>4 DEF Follows
    <2>. QED  BY <2>1, <2>2, <2>3, <2>4
<1>7. ASSUME NEW n \in DOMAIN jobs' PROVE Present(n)'
    <2>1. Present(from(n))
        BY <1>3, LoadsAre
    <2>2. /\ (Registry(n)' <=> Registry(from(n))) /\ jobs'[n].id = jobs[from(n)].id
          /\ jobs'[n].generation = jobs[from(n)].generation
        BY <1>3, <1>4
    <2>. HIDE DEF from
    <2>. QED  BY <1>1, <2>1, <2>2 DEF Present
<1>8. (registry.pending # 0 => results[registry.pending] = Awaiting) /\ registry.cached <= data
    BY LoadsAre
<1>. QED  BY <1>1, <1>6, <1>7, <1>8 DEF LoadsInv, Follows, Present

\* When a load that is of the present generation is done, there is no other.
LEMMA OnlyLoad ==
    ASSUME Shaped, QueueInv, LoadsInv, 1 \in DOMAIN jobs, Registry(1), HasSources(1),
           jobs[1].generation = registry.generation, NEW n \in DOMAIN jobs, Registry(n)
    PROVE  n = 1
<1>1. /\ jobs[1].generation \in Nat /\ jobs[n].generation \in Nat /\ n \in Nat /\ 1 <= n
      /\ jobs[n].generation <= registry.generation
    BY JobTypes DEF QueueInv
<1>2. Follows(1, n) /\ Present(1) /\ Present(n)
    BY LoadsAre
<1>3. CASE n # 1
    <2>1. 1 < n
        BY <1>1, <1>3
    <2>2. jobs[1].generation <= jobs[n].generation
        BY <1>2, <2>1 DEF Follows
    <2>3. jobs[n].generation = registry.generation
        BY <1>1, <2>2
    <2>4. jobs[n].id = jobs[1].id
        BY <1>2, <2>3 DEF Present
    <2>. QED  BY <2>4 DEF QueueInv
<1>. QED  BY <1>3

LEMMA LoadsDone ==
    ASSUME Shaped, QueueInv, LoadsInv, NEW out, Ends(out)
    PROVE  LoadsInv'
<1>1. data' = data /\ ServerTypes /\ Done(out) /\ registry \in RegistrySet
      /\ registry.generation \in Nat /\ data \in Nat
    BY RegistryTypes DEF Ends
<1>2. /\ out \in Nat \cup {Failed} /\ out <= data /\ 1 \in DOMAIN jobs
      /\ jobs[1] \in JobSet /\ Head(jobs) = jobs[1]
      /\ \A n \in DOMAIN jobs' : n + 1 \in DOMAIN jobs /\ jobs'[n] = jobs[n + 1]
      /\ jobs' \in Seq(JobSet)
      /\ results'[jobs[1].id] = out
      /\ \A L \in DOMAIN results : L # jobs[1].id => results'[L] = results[L]
    BY <1>1, DoneIs
<1>3. ASSUME NEW n \in DOMAIN jobs'
      PROVE  /\ n \in Nat /\ n + 1 # 1 /\ n + 1 \in DOMAIN jobs /\ jobs'[n] = jobs[n + 1]
             /\ (Registry(n)' <=> Registry(n + 1)) /\ (HasSources(n)' <=> HasSources(n + 1))
             /\ jobs[n + 1].id # jobs[1].id /\ jobs[n + 1].id \in Nat \ {0}
    <2>1. n \in Nat /\ n + 1 # 1 /\ n + 1 \in DOMAIN jobs /\ jobs'[n] = jobs[n + 1]
        BY <1>2
    <2>2. jobs[n + 1].id # jobs[1].id /\ jobs[n + 1].id \in DOMAIN results
        BY <1>2, <2>1 DEF QueueInv
    <2>3. results \in Seq(Outcomes)
        BY <1>1 DEF ServerTypes
    <2>. QED  BY <2>1, <2>2, <2>3 DEF Registry, HasSources
<1>4. ASSUME NEW m \in DOMAIN jobs', NEW n \in DOMAIN jobs' PROVE Follows(m, n)'
    <2>1. Follows(m + 1, n + 1) /\ (m < n => m + 1 < n + 1)
        BY <1>3, LoadsAre
    <2>. QED  BY <1>3, <2>1 DEF Follows
<1>5. jobs[1].kind \in {"registry", "query", "write"}
    BY <1>2 DEF JobSet
<1>6. CASE jobs[1].kind = "registry"
    <2>1. registry' = Loaded(jobs[1], out)
        BY <1>1, <1>6, DoneEffect
    <2>2. /\ registry'.generation = registry.generation
          /\ registry'.pending = IF registry.pending = jobs[1].id THEN 0 ELSE registry.pending
          /\ registry'.cached = IF Current(jobs[1]) /\ out # Failed THEN out ELSE registry.cached
        BY <1>1, <2>1 DEF Loaded, RegistrySet
    <2>3. Registry(1) /\ registry.cached = None
        BY <1>2, <1>6, LoadsAre DEF Registry, Present
    <2>4. (Current(jobs[1]) /\ out # Failed) => HasSources(1)
        BY <1>1, <1>2, <1>6 DEF Done, HalfLoaded, HasSources
    <2>5. ASSUME NEW n \in DOMAIN jobs' PROVE Present(n)'
        <3>1. Present(n + 1) /\ Present(1)
            BY <1>2, <1>3, LoadsAre
        <3>2. registry'.cached # None => ~Registry(n + 1)
            BY <1>2, <1>3, <2>2, <2>3, <2>4, OnlyLoad DEF Current
        <3>. QED  BY <1>3, <2>2, <3>1, <3>2 DEF Present
    <2>6. registry'.pending # 0 => results'[registry'.pending] = Awaiting
        BY <1>2, <2>2, LoadsAre DEF Shaped, Wired
    <2>7. registry'.cached <= data
        BY <1>1, <1>2, <2>2, LoadsAre
    <2>. QED  BY <1>1, <1>4, <2>5, <2>6, <2>7 DEF LoadsInv, Follows, Present
<1>7. CASE jobs[1].kind = "write" /\ out # Failed
    <2>1. registry' = Invalidated
        BY <1>1, <1>7, DoneEffect
    <2>2. /\ registry'.generation = registry.generation + 1
          /\ registry'.pending = 0 /\ registry'.cached = None
        BY <2>1 DEF Invalidated
    <2>3. ASSUME NEW n \in DOMAIN jobs' PROVE Present(n)'
        <3>1. jobs[n + 1].generation <= registry.generation /\ jobs[n + 1].generation \in Nat
            BY <1>3, JobTypes DEF QueueInv
        <3>. QED  BY <1>1, <1>3, <2>2, <3>1 DEF Present
    <2>4. registry'.cached <= data
        BY <1>1, <2>2
    <2>. QED  BY <1>1, <1>4, <2>2, <2>3, <2>4 DEF LoadsInv, Follows, Present
<1>8. CASE jobs[1].kind = "query" \/ (jobs[1].kind = "write" /\ out = Failed)
    <2>1. UNCHANGED registry
        BY <1>1, <1>8, DoneEffect
    <2>2. jobs[1].id # registry.pending
        BY <1>2, <1>8, LoadsAre DEF Present, Registry
    <2>3. ASSUME NEW n \in DOMAIN jobs' PROVE Present(n)'
        <3>1. Present(n + 1)
            BY <1>3, LoadsAre
        <3>. QED  BY <1>3, <2>1, <3>1 DEF Present
    <2>4. registry.pending # 0 => results'[registry.pending] = Awaiting
        BY <1>2, <2>2, LoadsAre DEF Shaped, Wired
    <2>5. registry.cached <= data
        BY LoadsAre
    <2>. QED  BY <1>1, <1>4, <2>1, <2>3, <2>4, <2>5 DEF LoadsInv, Follows, Present
<1>. QED  BY <1>5, <1>6, <1>7, <1>8

LEMMA LoadsArrive ==
    ASSUME Shaped, QueueInv, LoadsInv, NEW i \in DOMAIN sent, Arrive(i)
    PROVE  LoadsInv'
<1>1. /\ \/ FromCache(i) \/ Joins(i) \/ Hits(i)
         \/ Loading(i) \/ Asking(i) \/ Writing(i)
      /\ UNCHANGED <<data, acked>> /\ ServerTypes
      /\ sent[i].key \in Keys /\ None \in Keys
    BY ArriveIs DEF Shaped, PathTypes, Keys
<1>2. CASE FromCache(i) \/ Joins(i) \/ Hits(i)
    <2>1. UNCHANGED <<jobs, results, registry>>
        BY <1>2 DEF FromCache, Joins, Hits
    <2>. QED  BY <1>1, <2>1 DEF LoadsInv, Registry, HasSources
<1>3. ASSUME NEW kind \in {"registry", "query", "write"}, NEW key \in Keys, Queue(kind, key),
             registry'.cached = registry.cached, registry'.generation = registry.generation,
             IF kind = "registry"
               THEN /\ registry.cached = None /\ registry.pending = 0
                    /\ registry'.pending = IF Full THEN 0 ELSE Len(results')
               ELSE registry'.pending = registry.pending
      PROVE  LoadsInv'
    <2>1. /\ Len(results') = Len(results) + 1 /\ Len(results') \notin DOMAIN results
          /\ \A L \in DOMAIN results : results'[L] = results[L]
          /\ results'[Len(results')] = IF Full THEN Failed ELSE Awaiting
          /\ \A n \in DOMAIN jobs : jobs'[n] = jobs[n]
          /\ \A n \in DOMAIN jobs' \ DOMAIN jobs : ~Full /\ NewJob(jobs'[n], kind)
          /\ \A m, n \in DOMAIN jobs' \ DOMAIN jobs : m = n
          /\ DOMAIN jobs \subseteq DOMAIN jobs'
          /\ jobs \in Seq(JobSet) /\ jobs' \in Seq(JobSet) /\ results \in Seq(Outcomes)
        BY <1>1, <1>3, QueueIs DEF ServerTypes
    <2>2. ASSUME NEW m \in DOMAIN jobs, NEW n \in DOMAIN jobs' \ DOMAIN jobs PROVE m < n
        BY <2>1
    <2>3. \A n \in DOMAIN jobs : /\ (Registry(n)' <=> Registry(n)) /\ (HasSources(n)' <=> HasSources(n))
                                 /\ jobs'[n] = jobs[n] /\ jobs[n].id \in DOMAIN results
                                 /\ jobs[n].generation <= registry.generation
        BY <2>1 DEF Registry, HasSources, QueueInv
    <2>4. \A n \in DOMAIN jobs' \ DOMAIN jobs :
             /\ (Registry(n)' <=> kind = "registry") /\ ~HasSources(n)'
             /\ jobs'[n].generation = registry.generation /\ jobs'[n].at = None
             /\ jobs'[n].id = Len(results') /\ ~Full
        BY <2>1 DEF Registry, HasSources, NewJob
    <2>5. ASSUME NEW m \in DOMAIN jobs', NEW n \in DOMAIN jobs' PROVE Follows(m, n)'
        <3>1. CASE m \in DOMAIN jobs /\ n \in DOMAIN jobs
            <4>1. Follows(m, n)
                BY <3>1, LoadsAre
            <4>. QED  BY <2>3, <3>1, <4>1 DEF Follows
        <3>2. CASE m \in DOMAIN jobs /\ n \notin DOMAIN jobs
            BY <2>3, <2>4, <3>2 DEF Follows
        <3>3. CASE m \notin DOMAIN jobs /\ n \in DOMAIN jobs
            <4>1. n < m /\ m \in Nat /\ n \in Nat
                BY <2>1, <2>2, <3>3
            <4>2. ~(m < n)
                BY <4>1
            <4>. QED  BY <2>4, <3>3, <4>2 DEF Follows
        <3>4. CASE m \notin DOMAIN jobs /\ n \notin DOMAIN jobs
            <4>1. m = n /\ m \in Nat
                BY <2>1, <3>4
            <4>2. ~(m < n)
                BY <4>1
            <4>. QED  BY <2>4, <3>4, <4>2 DEF Follows
        <3>. QED  BY <3>1, <3>2, <3>3, <3>4
    <2>6. ASSUME NEW n \in DOMAIN jobs' PROVE Present(n)'
        <3>1. CASE n \in DOMAIN jobs
            <4>1. Present(n)
                BY <3>1, LoadsAre
            <4>2. jobs[n].id # Len(results') /\ jobs[n].id # 0
                BY <2>1, <2>3, <3>1
            <4>. QED  BY <1>3, <2>3, <3>1, <4>1, <4>2 DEF Present
        <3>2. CASE n \notin DOMAIN jobs
            <4>1. registry.pending # Len(results')
                BY <2>1 DEF Shaped, Wired
            <4>. QED  BY <1>3, <2>4, <3>2, <4>1 DEF Present
        <3>. QED  BY <3>1, <3>2
    <2>7. registry'.pending # 0 => results'[registry'.pending] = Awaiting
        <3>1. CASE kind = "registry"
            BY <1>3, <2>1, <3>1
        <3>2. CASE kind # "registry"
            BY <1>3, <2>1, <3>2, LoadsAre DEF Shaped, Wired
        <3>. QED  BY <3>1, <3>2
    <2>8. registry'.cached <= data
        BY <1>3, LoadsAre
    <2>. QED  BY <1>1, <1>3, <2>5, <2>6, <2>7, <2>8 DEF LoadsInv, Follows, Present
<1>4. CASE Loading(i)
    <2>. DEFINE pending == IF Full THEN 0 ELSE Len(results')
    <2>1. registry' = [registry EXCEPT !.pending = pending] /\ registry \in RegistrySet
        BY <1>4, RegistryTypes DEF Loading
    <2>2. /\ registry'.pending = pending /\ registry'.cached = registry.cached
          /\ registry'.generation = registry.generation
        BY <2>1 DEF RegistrySet
    <2>. QED  BY <1>1, <1>3, <1>4, <2>2 DEF Loading
<1>5. CASE Asking(i)
    BY <1>1, <1>3, <1>5 DEF Asking
<1>6. CASE Writing(i)
    BY <1>1, <1>3, <1>6 DEF Writing
<1>. QED  BY <1>1, <1>2, <1>4, <1>5, <1>6

-----------------------------------------------------------------------------
(* The registry page does not go back.                                     *)

WillLow(v) ==
    /\ v <= data'
    /\ registry'.cached # None => v <= registry'.cached
    /\ \A n \in DOMAIN jobs' : (Registry(n)' /\ Value(jobs'[n]) # None) => v <= Value(jobs'[n])

LEMMA LowExecute ==
    ASSUME Shaped, QueueInv, Execute, NEW v \in Nat, Low(v)
    PROVE  WillLow(v)
<1>1. UNCHANGED registry /\ ServerTypes /\ data \in Nat
    BY RegistryTypes DEF Execute
<1>2. data' \in Nat /\ v <= data'
    BY <1>1, ExecuteIs DEF Low
<1>3. ASSUME NEW n \in DOMAIN jobs', Registry(n)', Value(jobs'[n]) # None PROVE v <= Value(jobs'[n])
    <2>1. CASE n # 1
        BY <1>1, <1>3, <2>1, ExecuteIs DEF Low, Registry
    <2>2. CASE n = 1
        <3>1. CASE jobs[1].sources = None
            BY <1>1, <1>2, <2>2, <3>1, ExecuteIs
        <3>2. CASE jobs[1].sources # None
            <4>1. /\ Value(jobs[1]) = jobs[1].sources /\ Value(jobs'[1]) = jobs[1].sources
                  /\ Registry(1) /\ 1 \in DOMAIN jobs
                BY <1>1, <1>3, <2>2, <3>2, ExecuteIs DEF Value, Registry
            <4>. QED  BY <2>2, <3>2, <4>1 DEF Low
        <3>. QED  BY <3>1, <3>2
    <2>. QED  BY <2>1, <2>2
<1>. QED  BY <1>1, <1>2, <1>3 DEF WillLow, Low

LEMMA LowWaitsAgain ==
    ASSUME Shaped, QueueInv, WaitsAgain, NEW v, Low(v)
    PROVE  WillLow(v)
<1>1. UNCHANGED <<data, registry>> /\ ServerTypes /\ Requeued
    BY RegistryTypes DEF WaitsAgain
<1>2. ASSUME NEW n \in DOMAIN jobs', Registry(n)', Value(jobs'[n]) # None PROVE v <= Value(jobs'[n])
    <2>1. CASE n # Len(jobs)
        BY <1>1, <1>2, <2>1, RequeuedIs DEF Low, Registry
    <2>2. CASE n = Len(jobs)
        BY <1>1, <1>2, <2>2, RequeuedIs DEF Low, Registry
    <2>. QED  BY <2>1, <2>2
<1>. QED  BY <1>1, <1>2 DEF WillLow, Low

LEMMA LowDone ==
    ASSUME Shaped, QueueInv, NEW out, Ends(out), NEW v, Low(v)
    PROVE  WillLow(v)
<1>1. data' = data /\ ServerTypes /\ Done(out) /\ registry \in RegistrySet
    BY RegistryTypes DEF Ends
<1>2. /\ out # Failed => out = Value(jobs[1])
      /\ 1 \in DOMAIN jobs /\ out \in Nat \cup {Failed}
      /\ \A n \in DOMAIN jobs' : n + 1 \in DOMAIN jobs /\ jobs'[n] = jobs[n + 1]
    BY <1>1, DoneIs
<1>3. \A n \in DOMAIN jobs' : (Registry(n)' /\ Value(jobs'[n]) # None) => v <= Value(jobs'[n])
    BY <1>2 DEF Low, Registry
<1>4. registry'.cached # None => v <= registry'.cached
    <2>1. CASE jobs[1].kind = "registry"
        <3>1. registry' = Loaded(jobs[1], out)
            BY <1>1, <2>1, DoneEffect
        <3>2. registry'.cached = IF Current(jobs[1]) /\ out # Failed THEN out ELSE registry.cached
            BY <1>1, <3>1 DEF Loaded, RegistrySet
        <3>3. out # Failed => v <= out
            BY <1>2, <2>1 DEF Low, Registry
        <3>. QED  BY <3>2, <3>3 DEF Low
    <2>2. CASE jobs[1].kind = "write" /\ out # Failed
        BY <1>1, <2>2, DoneEffect DEF Invalidated
    <2>3. CASE jobs[1].kind = "query" \/ (jobs[1].kind = "write" /\ out = Failed)
        BY <1>1, <2>3, DoneEffect DEF Low
    <2>. QED  BY <1>1, <2>1, <2>2, <2>3, DoneEffect
<1>. QED  BY <1>1, <1>3, <1>4 DEF WillLow, Low

LEMMA LowQueue ==
    ASSUME Shaped, NEW kind \in {"registry", "query", "write"}, NEW key \in Keys, Queue(kind, key),
           data' = data, registry'.cached = registry.cached, NEW v, Low(v)
    PROVE  WillLow(v)
<1>1. ASSUME NEW n \in DOMAIN jobs', Registry(n)', Value(jobs'[n]) # None PROVE v <= Value(jobs'[n])
    <2>1. CASE n \in DOMAIN jobs
        BY <1>1, <2>1, QueueIs, RegistryTypes DEF Low, Registry
    <2>2. CASE n \notin DOMAIN jobs
        <3>1. NewJob(jobs'[n], kind)
            BY <2>2, QueueIs, RegistryTypes
        <3>. QED  BY <1>1, <3>1 DEF NewJob, Value
    <2>. QED  BY <2>1, <2>2
<1>. QED  BY <1>1 DEF WillLow, Low

\* A request the registry page waits for keeps its promise.
Promised(i) ==
    /\ Reply(sent[i]) \in Nat => shown <= Reply(sent[i]) /\ Low(Reply(sent[i]))
    /\ \A n \in DOMAIN jobs : jobs[n].id = sent[i].load => Registry(n)

LEMMA ShownExecute ==
    ASSUME Shaped, QueueInv, ShownInv, Execute
    PROVE  ShownInv'
<1>1. UNCHANGED <<results, sent, shown>> /\ ServerTypes
    BY RegistryTypes DEF Execute, pageVars
<1>2. shown \in Nat /\ WillLow(shown)
    BY LowExecute DEF Shaped, PathTypes, PageTypes, ShownInv
<1>3. ASSUME NEW i, Shows(i)
      PROVE  /\ Reply(sent[i]) \in Nat => shown <= Reply(sent[i]) /\ WillLow(Reply(sent[i]))
             /\ \A n \in DOMAIN jobs' : jobs'[n].id = sent[i].load => Registry(n)'
    <2>1. Reply(sent[i]) \in Nat => shown <= Reply(sent[i]) /\ WillLow(Reply(sent[i]))
        BY <1>3, LowExecute DEF ShownInv
    <2>2. \A n \in DOMAIN jobs' : n \in DOMAIN jobs /\ jobs'[n].id = jobs[n].id /\ jobs'[n].kind = jobs[n].kind
        BY <1>1, ExecuteIs
    <2>. QED  BY <1>3, <2>1, <2>2 DEF ShownInv, Registry
<1>4. \A i : Shows(i)' <=> Shows(i)
    BY <1>1 DEF Shows
<1>. QED  BY <1>1, <1>2, <1>3, <1>4 DEF ShownInv, Low, WillLow, Reply

LEMMA ShownWaitsAgain ==
    ASSUME Shaped, QueueInv, ShownInv, WaitsAgain
    PROVE  ShownInv'
<1>1. UNCHANGED <<results, sent, shown>> /\ ServerTypes /\ Requeued
    BY RegistryTypes DEF WaitsAgain
<1>2. WillLow(shown)
    BY LowWaitsAgain DEF ShownInv
<1>3. ASSUME NEW i, Shows(i)
      PROVE  /\ Reply(sent[i]) \in Nat => shown <= Reply(sent[i]) /\ WillLow(Reply(sent[i]))
             /\ \A n \in DOMAIN jobs' : jobs'[n].id = sent[i].load => Registry(n)'
    <2>1. Reply(sent[i]) \in Nat => shown <= Reply(sent[i]) /\ WillLow(Reply(sent[i]))
        BY <1>3, LowWaitsAgain DEF ShownInv
    <2>2. ASSUME NEW n \in DOMAIN jobs', jobs'[n].id = sent[i].load PROVE jobs'[n].kind = "registry"
        <3>1. CASE n # Len(jobs)
            BY <1>1, <1>3, <2>2, <3>1, RequeuedIs DEF ShownInv, Registry
        <3>2. CASE n = Len(jobs)
            BY <1>1, <3>2, RequeuedIs
        <3>. QED  BY <3>1, <3>2
    <2>. QED  BY <2>1, <2>2 DEF Registry
<1>4. \A i : Shows(i)' <=> Shows(i)
    BY <1>1 DEF Shows
<1>. QED  BY <1>1, <1>2, <1>3, <1>4 DEF ShownInv, Low, WillLow, Reply

LEMMA ShownDone ==
    ASSUME Shaped, QueueInv, LoadsInv, ShownInv, NEW out, Ends(out)
    PROVE  ShownInv'
<1>1. UNCHANGED <<data, sent, shown>> /\ ServerTypes /\ Done(out) /\ data \in Nat
      /\ registry \in RegistrySet
    BY RegistryTypes DEF Ends
<1>2. WillLow(shown)
    BY LowDone DEF ShownInv
<1>3. /\ out \in Nat \cup {Failed} /\ out <= data /\ 1 \in DOMAIN jobs /\ Head(jobs) = jobs[1]
      /\ out # Failed => out = Value(jobs[1]) /\ out = jobs[1].at
      /\ \A n \in DOMAIN jobs' : n + 1 \in DOMAIN jobs /\ jobs'[n] = jobs[n + 1]
      /\ jobs' \in Seq(JobSet)
      /\ results'[jobs[1].id] = out
      /\ \A L \in DOMAIN results : L # jobs[1].id => results'[L] = results[L]
    BY <1>1, DoneIs
<1>4. ASSUME Registry(1), out # Failed
      PROVE  shown <= out /\ WillLow(out)
    <2>1. shown <= out
        BY <1>3, <1>4 DEF ShownInv, Low
    <2>2. HasSources(1) /\ out = jobs[1].sources
        BY <1>1, <1>3, <1>4 DEF Done, HalfLoaded, HasSources, Registry, QueueInv
    <2>3. registry.cached = None
        BY <1>3, <1>4, LoadsAre DEF Present
    <2>4. registry' = Loaded(jobs[1], out)
        BY <1>1, <1>4, DoneEffect DEF Registry
    <2>5. registry'.cached \in {None, out}
        BY <1>1, <2>3, <2>4 DEF Loaded, RegistrySet
    <2>6. ASSUME NEW n \in DOMAIN jobs', Registry(n)', Value(jobs'[n]) # None
          PROVE  out <= Value(jobs'[n])
        <3>1. /\ n \in Nat /\ n + 1 # 1 /\ 1 < n + 1 /\ n + 1 \in DOMAIN jobs /\ jobs'[n] = jobs[n + 1]
            <4>1. n \in Nat /\ 1 <= n
                BY <1>3
            <4>. QED  BY <1>3, <4>1
        <3>2. Registry(n + 1) /\ jobs[n + 1].at = None
            BY <2>6, <3>1 DEF Registry, QueueInv
        <3>3. HasSources(n + 1) /\ Value(jobs[n + 1]) = jobs[n + 1].sources
            BY <2>6, <3>1, <3>2 DEF Value, HasSources
        <3>4. Follows(1, n + 1)
            BY <1>3, <3>1, LoadsAre
        <3>. QED  BY <1>4, <2>2, <3>1, <3>2, <3>3, <3>4 DEF Follows
    <2>. QED  BY <1>1, <1>3, <1>4, <2>1, <2>5, <2>6 DEF WillLow
<1>5. ASSUME NEW i, Shows(i), NEW reply, reply = Reply(sent[i])'
      PROVE  /\ reply \in Nat => shown <= reply /\ WillLow(reply)
             /\ \A n \in DOMAIN jobs' : jobs'[n].id = sent[i].load => Registry(n)'
    <2>1. i \in DOMAIN sent /\ sent[i].load \in {0} \cup DOMAIN results
        BY <1>5 DEF Shows, Shaped, Wired
    <2>2. /\ Reply(sent[i]) \in Nat => shown <= Reply(sent[i]) /\ Low(Reply(sent[i]))
          /\ \A n \in DOMAIN jobs : jobs[n].id = sent[i].load => Registry(n)
        BY <1>5 DEF ShownInv
    <2>3. reply = IF sent[i].load = 0 THEN sent[i].reply ELSE results'[sent[i].load]
        BY <1>1, <1>5 DEF Reply
    <2>4. jobs[1].id \in DOMAIN results /\ jobs[1].id # 0
        <3>1. results \in Seq(Outcomes)
            BY <1>1 DEF ServerTypes
        <3>. QED  BY <1>3, <3>1 DEF QueueInv
    <2>5. CASE sent[i].load = jobs[1].id
        BY <1>3, <1>4, <2>2, <2>3, <2>4, <2>5 DEF Registry
    <2>6. CASE sent[i].load # jobs[1].id
        <3>1. reply = Reply(sent[i])
            BY <1>3, <2>1, <2>3, <2>6 DEF Reply
        <3>2. Reply(sent[i]) \in Nat => WillLow(Reply(sent[i]))
            BY <2>2, LowDone
        <3>3. reply \in Nat => shown <= reply /\ WillLow(reply)
            BY <2>2, <3>1, <3>2
        <3>4. \A n \in DOMAIN jobs' : jobs'[n].id = sent[i].load => Registry(n)'
            BY <1>3, <2>2 DEF Registry
        <3>. QED  BY <3>3, <3>4
    <2>. QED  BY <2>5, <2>6
<1>6. \A i : Shows(i)' <=> Shows(i)
    BY <1>1 DEF Shows
<1>. QED  BY <1>1, <1>2, <1>5, <1>6 DEF ShownInv, Low, WillLow

LEMMA ShownArrive ==
    ASSUME Shaped, QueueInv, LoadsInv, ShownInv, NEW i \in DOMAIN sent, Arrive(i)
    PROVE  ShownInv'
<1>1. /\ \/ FromCache(i) \/ Joins(i) \/ Hits(i)
         \/ Loading(i) \/ Asking(i) \/ Writing(i)
      /\ UNCHANGED <<data, acked, shown>> /\ ServerTypes
      /\ sent[i].key \in Keys /\ None \in Keys
    BY ArriveIs DEF Shaped, PathTypes, Keys
<1>2. /\ Low(shown) /\ \A m, n : (Shows(m) /\ Shows(n)) => m = n
      /\ \A j : Shows(j) => Promised(j)
    BY DEF ShownInv, Promised
<1>3. registry \in RegistrySet /\ data \in Nat /\ (registry.cached \in Nat \/ registry.cached = None)
    BY RegistryTypes
<1>4. ASSUME NEW load, NEW reply, Connected(i, load, reply)
      PROVE  /\ \A j : Shows(j)' <=> Shows(j)
             /\ \A j \in DOMAIN sent : j # i => sent'[j] = sent[j]
             /\ sent'[i].load = load /\ sent'[i].reply = reply
    BY <1>4 DEF Connected, Shows
<1>5. ASSUME WillLow(shown), NEW load, NEW reply, Connected(i, load, reply),
             \A j : (Shows(j) /\ j # i) => Promised(j)',
             Shows(i) => Promised(i)'
      PROVE  ShownInv'
    <2>1. \A j : Shows(j)' <=> Shows(j)
        BY <1>4, <1>5
    <2>2. \A j : Shows(j)' => Promised(j)'
        BY <1>5, <2>1
    <2>. QED  BY <1>1, <1>2, <1>5, <2>1, <2>2 DEF ShownInv, Low, WillLow, Promised
<1>6. CASE FromCache(i) \/ Joins(i) \/ Hits(i)
    <2>1. UNCHANGED <<jobs, results, registry>>
        BY <1>6 DEF FromCache, Joins, Hits
    <2>2. WillLow(shown)
        BY <1>1, <1>2, <2>1 DEF Low, WillLow, Registry
    <2>3. ASSUME NEW j, Shows(j), sent'[j] = sent[j] PROVE Promised(j)'
        BY <1>1, <1>2, <2>1, <2>3 DEF Promised, Low, Registry, Reply
    <2>4. CASE FromCache(i)
        <3>1. Connected(i, 0, registry.cached) /\ registry.cached # None
            BY <2>4 DEF FromCache
        <3>2. registry.cached \in Nat /\ shown <= registry.cached /\ registry.cached <= data
              /\ \A n \in DOMAIN jobs : ~Registry(n)
            BY <1>2, <1>3, <3>1, LoadsAre DEF Low, Present
        <3>3. Reply(sent[i])' = registry.cached /\ sent'[i].load = 0
            BY <1>4, <3>1 DEF Reply
        <3>4. Low(registry.cached)
            BY <3>2 DEF Low
        <3>5. 0 \notin DOMAIN results
            BY <1>1 DEF ServerTypes
        <3>6. Promised(i)'
            <4>1. \A n \in DOMAIN jobs' : jobs'[n].id # sent'[i].load
                BY <2>1, <3>3, <3>5 DEF QueueInv
            <4>2. shown' <= Reply(sent[i])'
                BY <1>1, <3>2, <3>3
            <4>3. Low(Reply(sent[i]))'
                BY <1>1, <2>1, <3>2, <3>3 DEF Low, Registry
            <4>. QED  BY <4>1, <4>2, <4>3 DEF Promised
        <3>. QED  BY <1>4, <1>5, <2>2, <2>3, <3>1, <3>6 DEF Shows
    <2>5. CASE Joins(i)
        <3>1. Connected(i, registry.pending, Awaiting) /\ registry.pending # 0
            BY <2>5 DEF Joins
        <3>2. /\ \A n \in DOMAIN jobs : jobs[n].id = registry.pending => Registry(n)
              /\ results[registry.pending] = Awaiting
            BY <3>1, LoadsAre DEF Present
        <3>3. Reply(sent[i])' = Awaiting /\ sent'[i].load = registry.pending
            BY <1>4, <2>1, <3>1, <3>2 DEF Reply
        <3>4. Promised(i)'
            BY <2>1, <3>2, <3>3 DEF Promised, Registry
        <3>. QED  BY <1>4, <1>5, <2>2, <2>3, <3>1, <3>4 DEF Shows
    <2>6. CASE Hits(i)
        <3>1. PICK e \in answers : Connected(i, e.load, Awaiting)
            BY <2>6 DEF Hits
        <3>2. ~Shows(i)
            BY <2>6 DEF Hits, Shows
        <3>. QED  BY <1>4, <1>5, <2>2, <2>3, <3>1, <3>2 DEF Shows
    <2>. QED  BY <1>6, <2>4, <2>5, <2>6
<1>7. ASSUME NEW kind \in {"registry", "query", "write"}, NEW key \in Keys, Queue(kind, key),
             Connected(i, Len(results'), Awaiting),
             registry'.cached = registry.cached, sent[i].page = "registry" => kind = "registry"
      PROVE  ShownInv'
    <2>1. /\ Len(results') \notin DOMAIN results /\ Len(results') # 0
          /\ \A L \in DOMAIN results : results'[L] = results[L]
          /\ results'[Len(results')] \notin Nat
          /\ \A n \in DOMAIN jobs : jobs'[n] = jobs[n]
          /\ \A n \in DOMAIN jobs' \ DOMAIN jobs : NewJob(jobs'[n], kind) /\ jobs'[n].id = Len(results')
          /\ results \in Seq(Outcomes)
        BY <1>1, <1>7, QueueIs DEF ServerTypes, NewJob
    <2>2. ASSUME NEW v, Low(v) PROVE WillLow(v)
        BY <1>1, <1>7, <2>2, LowQueue
    <2>3. ASSUME NEW j, Shows(j), j # i PROVE Promised(j)'
        <3>1. j \in DOMAIN sent /\ sent'[j] = sent[j] /\ sent[j].load \in {0} \cup DOMAIN results
            BY <1>4, <1>7, <2>3 DEF Shows, Shaped, Wired
        <3>2. Reply(sent[j])' = Reply(sent[j])
            BY <2>1, <3>1 DEF Reply
        <3>3. Promised(j)
            BY <1>2, <2>3
        <3>4. Reply(sent[j]) \in Nat => shown' <= Reply(sent[j]) /\ WillLow(Reply(sent[j]))
            BY <1>1, <2>2, <3>3 DEF Promised
        <3>5. \A n \in DOMAIN jobs' : jobs'[n].id = sent'[j].load => Registry(n)'
            <4>1. ASSUME NEW n \in DOMAIN jobs', jobs'[n].id = sent[j].load PROVE jobs'[n].kind = "registry"
                <5>1. CASE n \in DOMAIN jobs
                    BY <2>1, <3>3, <4>1, <5>1 DEF Promised, Registry
                <5>2. CASE n \notin DOMAIN jobs
                    BY <2>1, <3>1, <4>1, <5>2
                <5>. QED  BY <5>1, <5>2
            <4>. QED  BY <3>1, <4>1 DEF Registry
        <3>. QED  BY <3>2, <3>4, <3>5 DEF Promised, Low, WillLow
    <2>4. ASSUME Shows(i) PROVE Promised(i)'
        <3>1. sent'[i].load = Len(results') /\ kind = "registry"
            BY <1>4, <1>7, <2>4 DEF Shows
        <3>2. Reply(sent[i])' = results'[Len(results')]
            BY <2>1, <3>1 DEF Reply
        <3>3. ASSUME NEW n \in DOMAIN jobs', jobs'[n].id = Len(results') PROVE jobs'[n].kind = "registry"
            <4>1. CASE n \in DOMAIN jobs
                BY <2>1, <3>3, <4>1 DEF QueueInv
            <4>2. CASE n \notin DOMAIN jobs
                BY <2>1, <3>1, <4>2 DEF NewJob
            <4>. QED  BY <4>1, <4>2
        <3>. QED  BY <2>1, <3>1, <3>2, <3>3 DEF Promised, Registry
    <2>. QED  BY <1>2, <1>5, <1>7, <2>2, <2>3, <2>4
<1>8. CASE Loading(i)
    <2>. DEFINE pending == IF Full THEN 0 ELSE Len(results')
    <2>1. registry' = [registry EXCEPT !.pending = pending]
        BY <1>8 DEF Loading
    <2>2. registry'.cached = registry.cached
        BY <1>3, <2>1 DEF RegistrySet
    <2>. QED  BY <1>1, <1>7, <1>8, <2>2 DEF Loading
<1>9. CASE Asking(i)
    BY <1>1, <1>7, <1>9 DEF Asking
<1>10. CASE Writing(i)
    BY <1>1, <1>7, <1>10 DEF Writing
<1>. QED  BY <1>1, <1>6, <1>8, <1>9, <1>10

LEMMA ShownPage ==
    ASSUME Shaped, QueueInv, ShownInv, PageStep, Watched, shown' \in Nat
    PROVE  ShownInv' /\ shown <= shown'
<1>1. UNCHANGED <<data, jobs, results, registry>> /\ shown \in Nat /\ ServerTypes
    BY DEF PageStep, serverVars, Shaped, PathTypes, PageTypes
<1>2. ASSUME NEW j, Shows(j)' PROVE Stays(j) \/ Again(j) \/ Joined(j)
    BY <1>2 DEF PageStep, Shows
<1>3. 0 \notin DOMAIN results
    BY <1>1 DEF ServerTypes
<1>4. ASSUME NEW j, Again(j) \/ Joined(j) PROVE Promised(j)'
    <2>1. sent'[j].load = 0 /\ sent'[j].reply \notin Nat
        BY <1>4 DEF Again, Joined
    <2>2. Reply(sent[j])' \notin Nat
        BY <2>1 DEF Reply
    <2>3. \A n \in DOMAIN jobs' : jobs'[n].id # sent'[j].load
        BY <1>1, <1>3, <2>1 DEF QueueInv
    <2>. QED  BY <2>2, <2>3 DEF Promised
<1>5. \A v : Low(v) <=> WillLow(v)
    BY <1>1 DEF Low, WillLow, Registry
<1>6. CASE shown' = shown /\ \A i : Shows(i)' => Shows(i)
    <2>1. ASSUME NEW j, Shows(j)' PROVE Promised(j)'
        <3>1. Promised(j)
            BY <1>6, <2>1 DEF ShownInv, Promised
        <3>2. CASE Stays(j)
            <4>1. Reply(sent[j])' = Reply(sent[j]) /\ sent'[j].load = sent[j].load
                BY <1>1, <3>2 DEF Stays, Reply
            <4>2. Reply(sent[j]) \in Nat => shown' <= Reply(sent[j]) /\ WillLow(Reply(sent[j]))
                BY <1>5, <1>6, <3>1 DEF Promised
            <4>. QED  BY <1>1, <3>1, <4>1, <4>2 DEF Promised, Low, WillLow, Registry
        <3>. QED  BY <1>2, <1>4, <2>1, <3>2
    <2>2. WillLow(shown) /\ shown <= shown'
        BY <1>1, <1>5, <1>6 DEF ShownInv
    <2>. QED  BY <1>6, <2>1, <2>2 DEF ShownInv, Promised, Low, WillLow
<1>7. CASE /\ shown' = shown
           /\ \A i : Shows(i)' => i \notin DOMAIN sent
           /\ \A i, j : (Shows(i)' /\ Shows(j)') => i = j
    <2>1. ASSUME NEW j, Shows(j)' PROVE Promised(j)'
        BY <1>2, <1>4, <1>7, <2>1 DEF Stays, Same
    <2>2. WillLow(shown) /\ shown <= shown'
        BY <1>1, <1>5, <1>7 DEF ShownInv
    <2>. QED  BY <1>7, <2>1, <2>2 DEF ShownInv, Promised, Low, WillLow
<1>8. ASSUME NEW i, Shows(i), Reply(sent[i]) \in Nat, shown' = Reply(sent[i]),
             \A j : Shows(j)' => Shows(j) /\ j # i
      PROVE  ShownInv' /\ shown <= shown'
    <2>1. shown <= shown' /\ Low(Reply(sent[i]))
        BY <1>8 DEF ShownInv
    <2>2. WillLow(shown')
        BY <1>5, <1>8, <2>1
    <2>3. \A j : ~Shows(j)'
        BY <1>8 DEF ShownInv
    <2>. QED  BY <2>1, <2>2, <2>3 DEF ShownInv, Low, WillLow
<1>. QED  BY <1>6, <1>7, <1>8 DEF Watched

-----------------------------------------------------------------------------
(* The invariant, and what follows from it.                                *)

PathInv == Shaped /\ QueueInv /\ AckInv /\ LoadsInv /\ ShownInv /\ WholeInv

LEMMA PathInit ==
    ASSUME NEW first \in QueryNames, NEW bounds, OpenPages(first, bounds)
    PROVE  PathInv
<1>1. /\ data = 0 /\ jobs = <<>> /\ stage = "idle" /\ open = {} /\ results = <<>>
      /\ registry = [generation |-> 0, cached |-> None, pending |-> 0]
      /\ answers = {} /\ sent = <<>> /\ acked = 0 /\ shown = 0
      /\ tokens = [query |-> first, inFlight |-> FALSE,
                   base |-> [s \in Sections |-> None], parts |-> [s \in Sections |-> NoPart],
                   resultQuery |-> NoQuery, pending |-> LaterSections, error |-> FALSE]
      /\ clientCache = [k \in QueryNames \X Sections |-> None]
    BY DEF OpenPages
<1>2. registry \in RegistrySet /\ registry.cached = None /\ registry.pending = 0
    BY <1>1 DEF RegistrySet, Loads
<1>3. tokens \in TokensSet
    BY <1>1 DEF TokensSet, Loads, PartSet
<1>4. clientCache \in [QueryNames \X Sections -> Loads]
    BY <1>1 DEF Loads
<1>5. Shaped
    BY <1>1, <1>2, <1>3, <1>4 DEF Shaped, PathTypes, ServerTypes, PageTypes, Wired
<1>6. QueueInv /\ AckInv /\ LoadsInv
    BY <1>1, <1>2 DEF QueueInv, AckInv, LoadsInv
<1>7. ShownInv
    BY <1>1, <1>2 DEF ShownInv, Low, Shows
<1>8. WholeInv
    BY <1>1 DEF WholeInv
<1>. QED  BY <1>5, <1>6, <1>7, <1>8 DEF PathInv

\* A step of the server leaves the pages as they are, and their requests theirs.
LEMMA WholeServer ==
    ASSUME WholeInv, UNCHANGED tokens, DOMAIN sent' = DOMAIN sent,
           \A i \in DOMAIN sent : /\ sent'[i].page = sent[i].page /\ sent'[i].key = sent[i].key
                                  /\ sent'[i].live = sent[i].live
    PROVE  WholeInv'
BY DEF WholeInv

LEMMA PathStep ==
    ASSUME PathInv, [ReadNext]_pathVars
    PROVE  PathInv' /\ shown <= shown'
<1>. DEFINE Goal == PathInv' /\ shown <= shown'
<1>1. /\ Shaped /\ QueueInv /\ AckInv /\ LoadsInv /\ ShownInv /\ WholeInv
      /\ PathTypes /\ Wired /\ ServerTypes /\ shown \in Nat /\ sent \in Seq(RequestSet)
    BY DEF PathInv, Shaped, PathTypes, PageTypes
<1>2. CASE UNCHANGED pathVars
    <2>1. UNCHANGED <<data, jobs, stage, open, results, registry, answers, sent, acked,
                      shown, tokens, clientCache>>
        BY <1>2 DEF pathVars
    <2>2. Shaped'
        BY <1>1, <2>1 DEF Shaped, PathTypes, ServerTypes, PageTypes, Wired
    <2>3. QueueInv' /\ AckInv' /\ LoadsInv' /\ ShownInv' /\ WholeInv'
        BY <1>1, <2>1 DEF QueueInv, AckInv, Gives, LoadsInv, Registry, HasSources, ShownInv, Shows,
                          Low, Reply, WholeInv
    <2>. QED  BY <1>1, <2>1, <2>2, <2>3 DEF PathInv
<1>3. CASE StartJob \/ TimeOut
    <2>1. UNCHANGED <<data, jobs, results, registry, answers, sent, acked, shown, tokens, clientCache>>
        BY <1>3 DEF StartJob, TimeOut, pageVars
    <2>2. Shaped'
        BY <1>1, <2>1 DEF Shaped, PathTypes, ServerTypes, PageTypes, Wired
    <2>3. QueueInv'
        <3>1. IF stage' = "idle" THEN open' = {} /\ \A n \in DOMAIN jobs : jobs[n].at = None
              ELSE jobs # <<>> /\ open' = {Head(jobs).id}
            BY <1>1, <1>3 DEF StartJob, TimeOut, QueueInv
        <3>2. stage' \in {"idle", "work", "reset"}
            BY <1>3 DEF StartJob, TimeOut
        <3>. QED  BY <1>1, <2>1, <3>1, <3>2 DEF QueueInv
    <2>4. AckInv' /\ LoadsInv' /\ ShownInv' /\ WholeInv'
        BY <1>1, <2>1 DEF AckInv, Gives, LoadsInv, Registry, HasSources, ShownInv, Shows,
                          Low, Reply, WholeInv
    <2>. QED  BY <1>1, <2>1, <2>2, <2>3, <2>4 DEF PathInv
<1>4. CASE Execute
    <2>1. UNCHANGED <<sent, shown, tokens>>
        BY <1>4 DEF Execute, pageVars
    <2>2. WholeInv'
        BY <1>1, <2>1, WholeServer
    <2>. QED  BY <1>1, <1>4, <2>1, <2>2, ShapedExecute, QueueInvExecute, AckExecute, LoadsExecute,
                 ShownExecute DEF PathInv
<1>5. CASE WaitsAgain
    <2>1. /\ UNCHANGED <<data, results, registry, sent, shown, tokens>> /\ Requeued
          /\ open' = open \ {Head(jobs).id}
        BY <1>5 DEF WaitsAgain
    <2>2. WholeInv' /\ QueueInv'
        BY <1>1, <2>1, WholeServer, QueueInvRequeued
    <2>. QED  BY <1>1, <1>5, <2>1, <2>2, ShapedWaitsAgain, AckWaitsAgain, LoadsWaitsAgain,
                 ShownWaitsAgain DEF PathInv
<1>6. ASSUME NEW out, Ends(out) PROVE Goal
    <2>1. UNCHANGED <<data, sent, shown, tokens>> /\ Done(out) /\ open' = open \ {Head(jobs).id}
        BY <1>6 DEF Ends
    <2>2. registry.generation <= registry'.generation /\ registry'.generation \in Nat
        BY <1>1, <2>1, DoneEffect
    <2>3. WholeInv' /\ QueueInv'
        BY <1>1, <2>1, <2>2, WholeServer, QueueInvDone
    <2>. QED  BY <1>1, <1>6, <2>1, <2>3, ShapedDone, AckDone, LoadsDone, ShownDone DEF PathInv
<1>7. ASSUME NEW i \in DOMAIN sent, Arrive(i) PROVE Goal
    <2>1. /\ \/ FromCache(i) \/ Joins(i) \/ Hits(i)
             \/ Loading(i) \/ Asking(i) \/ Writing(i)
          /\ UNCHANGED <<data, stage, open, shown, tokens>>
          /\ sent[i].key \in Keys /\ None \in Keys
        BY <1>1, <1>7, ArriveIs DEF Keys
    <2>2. \E load : \E reply : Connected(i, load, reply)
        BY <2>1 DEF FromCache, Joins, Hits, Loading, Asking, Writing
    <2>3. /\ DOMAIN sent' = DOMAIN sent
          /\ \A j \in DOMAIN sent : /\ sent'[j].page = sent[j].page /\ sent'[j].key = sent[j].key
                                    /\ sent'[j].live = sent[j].live
        BY <2>2 DEF Connected
    <2>4. WholeInv'
        BY <1>1, <2>1, <2>3, WholeServer
    <2>5. QueueInv'
        <3>1. CASE FromCache(i) \/ Joins(i) \/ Hits(i)
            <4>1. UNCHANGED <<jobs, results, registry>>
                BY <3>1 DEF FromCache, Joins, Hits
            <4>. QED  BY <1>1, <2>1, <4>1 DEF QueueInv
        <3>2. CASE Loading(i)
            <4>1. registry'.generation = registry.generation
                BY <1>1, <3>2, RegistryTypes DEF Loading, RegistrySet
            <4>. QED  BY <1>1, <2>1, <3>2, <4>1, QueueInvQueue DEF Loading
        <3>3. CASE Asking(i)
            BY <1>1, <2>1, <3>3, QueueInvQueue DEF Asking
        <3>4. CASE Writing(i)
            BY <1>1, <2>1, <3>4, QueueInvQueue DEF Writing
        <3>. QED  BY <2>1, <3>1, <3>2, <3>3, <3>4
    <2>. QED  BY <1>1, <1>7, <2>1, <2>4, <2>5, ShapedArrive, AckArrive, LoadsArrive, ShownArrive
              DEF PathInv
<1>8. CASE ExpireRegistry
    <2>1. UNCHANGED <<data, jobs, stage, open, results, answers, acked, sent, shown, tokens, clientCache>>
        BY <1>8 DEF ExpireRegistry, pageVars
    <2>2. /\ Shaped' /\ registry'.generation = registry.generation
          /\ registry'.pending = registry.pending /\ registry'.cached = None
        BY <1>1, <1>8, ShapedExpireRegistry
    <2>3. registry'.cached <= data'
        BY <1>1, <2>1, <2>2, RegistryTypes
    <2>4. QueueInv' /\ AckInv' /\ LoadsInv' /\ WholeInv'
        BY <1>1, <2>1, <2>2, <2>3 DEF QueueInv, AckInv, Gives, LoadsInv, Registry, HasSources, WholeInv
    <2>5. \A v : Low(v) => WillLow(v)
        BY <2>1, <2>2 DEF Low, WillLow, Registry
    <2>6. ShownInv'
        BY <1>1, <2>1, <2>5 DEF ShownInv, Shows, Reply, Low, WillLow, Registry
    <2>. QED  BY <1>1, <2>1, <2>2, <2>4, <2>6 DEF PathInv
<1>9. ASSUME NEW e \in answers, ExpireAnswer(e) PROVE Goal
    <2>1. UNCHANGED <<data, jobs, stage, open, results, registry, acked, sent, shown, tokens, clientCache>>
        BY <1>9 DEF ExpireAnswer, pageVars
    <2>2. Shaped' /\ \A a \in answers' : \E o \in answers : a.load = o.load
        BY <1>1, <1>9, ShapedExpireAnswer
    <2>3. \A a \in answers' : Gives(a.load, acked)
        BY <1>1, <2>2 DEF AckInv
    <2>4. QueueInv' /\ LoadsInv' /\ ShownInv' /\ WholeInv'
        BY <1>1, <2>1 DEF QueueInv, LoadsInv, Registry, HasSources, ShownInv, Shows, Low, Reply, WholeInv
    <2>5. AckInv'
        BY <1>1, <2>1, <2>3 DEF AckInv, Gives
    <2>. QED  BY <1>1, <2>1, <2>2, <2>4, <2>5 DEF PathInv
<1>10. CASE PageNext
    <2>1. PageStep /\ Watched /\ PageTypes' /\ WholeInv'
        BY <1>1, <1>10, PageSteps
    <2>2. Shaped' /\ AckInv'
        BY <1>1, <2>1, ShapedPage, AckPage
    <2>3. ShownInv' /\ shown <= shown'
        BY <1>1, <2>1, ShownPage DEF PageTypes
    <2>4. UNCHANGED <<data, jobs, stage, open, results, registry, answers, acked>>
        BY <2>1 DEF PageStep, serverVars
    <2>5. QueueInv' /\ LoadsInv'
        BY <1>1, <2>4 DEF QueueInv, LoadsInv, Registry, HasSources
    <2>. QED  BY <1>10, <2>1, <2>2, <2>3, <2>5 DEF PathInv
<1>11. CASE ReadNext
    BY <1>1, <1>3, <1>4, <1>5, <1>6, <1>7, <1>8, <1>9, <1>10, <1>11, Kinds
<1>. QED  BY <1>2, <1>11

\* At every moment one piece of work at most has a connection to the database,
\* whatever timed out, failed or was refused before (database-queue.ts, db.ts).
THEOREM Alone ==
    ASSUME NEW first \in QueryNames, NEW bounds
    PROVE  PathSpec(first, bounds) => []AloneOnTheConnection
<1>1. PathInv => AloneOnTheConnection
    <2>. SUFFICES ASSUME PathInv PROVE AloneOnTheConnection
        OBVIOUS
    <2>1. open = {} \/ open = {Head(jobs).id}
        BY DEF PathInv, QueueInv
    <2>2. Cardinality(open) \in {0, 1}
        BY <2>1, FS_EmptySet, FS_Singleton
    <2>. QED  BY <2>2 DEF AloneOnTheConnection
<1>2. OpenPages(first, bounds) => PathInv
    BY PathInit
<1>3. PathInv /\ [ReadNext]_pathVars => PathInv'
    BY PathStep
<1>. QED  BY <1>1, <1>2, <1>3, PTL DEF PathSpec

\* A read that was sent after a write was answered returns what includes it,
\* from either cache of the process, a load that had begun, or its own
\* (read-cache.ts, usage-query.ts, updateKnowledgeSources).
THEOREM OwnWrites ==
    ASSUME NEW first \in QueryNames, NEW bounds
    PROVE  PathSpec(first, bounds) => []OwnWritesShown
<1>1. PathInv => OwnWritesShown
    <2>. SUFFICES ASSUME PathInv, NEW i \in DOMAIN sent, Reply(sent[i]) \notin {Awaiting, Failed}
                  PROVE  Reply(sent[i]) >= sent[i].since
        BY DEF OwnWritesShown
    <2>1. Shaped /\ AckInv /\ PathTypes /\ Wired
        BY DEF PathInv, Shaped
    <2>2. Reply(sent[i]) \in Nat /\ sent[i].since \in Nat
        BY <2>1, ReplyIs, SinceIs DEF Outcomes
    <2>3. sent[i].since <= Reply(sent[i])
        BY <2>1, <2>2 DEF AckInv, Gives, Reply
    <2>. QED  BY <2>2, <2>3
<1>2. OpenPages(first, bounds) => PathInv
    BY PathInit
<1>3. PathInv /\ [ReadNext]_pathVars => PathInv'
    BY PathStep
<1>. QED  BY <1>1, <1>2, <1>3, PTL DEF PathSpec

\* The registry page never returns to an earlier registry, however refreshes,
\* edits and retries overlap, and the Tokens page never shows parts of two
\* filters, nor lacks a section nobody fetches (registry.tsx, tokens-overview.tsx).
THEOREM PagesKeepPlace ==
    ASSUME NEW first \in QueryNames, NEW bounds
    PROVE  PathSpec(first, bounds) => PagesKeepTheirPlace
<1>1. PathInv => PageIsWhole
    BY DEF PathInv, WholeInv, PageIsWhole
<1>2. PathInv => shown \in Nat
    BY DEF PathInv, Shaped, PathTypes, PageTypes
<1>3. OpenPages(first, bounds) => PathInv
    BY PathInit
<1>4. PathInv /\ [ReadNext]_pathVars => PathInv' /\ shown <= shown'
    BY PathStep
<1>5. PathInv' => PageIsWhole' /\ shown' \in Nat
    BY DEF PathInv, WholeInv, PageIsWhole, Shaped, PathTypes, PageTypes
<1>6. PathInv /\ [ReadNext]_pathVars => [shown' >= shown /\ PageIsWhole']_<<shown, tokens>>
    BY <1>2, <1>4, <1>5
<1>. QED  BY <1>3, <1>4, <1>6, PTL DEF PathSpec, PagesKeepTheirPlace

-----------------------------------------------------------------------------
(* Sums.                                                                   *)

\* Sums: the operation of a fold, its items, what it picks and what it keeps.
Plus(p, x, y) == x + y
EntryAt(p, x) == p[x]
AnyOf(T) == CHOOSE x \in T : TRUE
Whole(p, y) == y \in Int

Sums == INSTANCE Folds_proofs WITH Op <- Plus, Item <- EntryAt, Pick <- AnyOf, Good <- Whole

Only(f, S) == [x \in S |-> f[x]]
Numbers(f, S) == IsFiniteSet(S) /\ \A x \in S : f[x] \in Int

\* A total is a fold.
LEMMA TotalIs ==
    ASSUME NEW f
    PROVE  Total(f) = Sums!Fold(f, 0, DOMAIN f)
BY DEF Total, MapThenSumSet, Sums!Fold, Sums!MapThenFoldSet, MapThenFoldSet, Plus, EntryAt, AnyOf

LEMMA SumsSound ==
    ASSUME NEW S, IsFiniteSet(S)
    PROVE  Sums!Sound(S)
<1>1. Sums!IsFiniteSet(S)
    BY DEF Sums!IsFiniteSet, IsFiniteSet
<1>2. \A T \in SUBSET S : T # {} => AnyOf(T) \in T
    BY DEF AnyOf
<1>. QED  BY <1>1, <1>2 DEF Sums!Sound

\* Any entry can be taken out of a sum.
LEMMA TotalSplits ==
    ASSUME NEW f, NEW S, Numbers(f, S), NEW k \in S
    PROVE  /\ Total(Only(f, S)) = f[k] + Total(Only(f, S \ {k}))
           /\ Total(Only(f, S)) \in Int /\ Total(Only(f, S \ {k})) \in Int
<1>. DEFINE g == Only(f, S)
            h == Only(f, S \ {k})
<1>0. DOMAIN g = S /\ DOMAIN h = S \ {k} /\ (\A x \in S : g[x] = f[x]) /\ \A x \in S \ {k} : h[x] = f[x]
    BY DEF Only
<1>. HIDE DEF g, h
<1>1. Sums!Sound(S) /\ Sums!Sound(S \ {k})
    BY SumsSound, FS_Subset DEF Numbers
<1>2. Whole(g, 0)
    BY DEF Whole
<1>3. \A x \in S : \A acc : Whole(g, acc) => Whole(g, Plus(g, EntryAt(g, x), acc))
    BY <1>0 DEF Whole, Plus, EntryAt, Numbers
<1>4. \A x, y \in S : \A acc : Whole(g, acc) =>
         Plus(g, EntryAt(g, x), Plus(g, EntryAt(g, y), acc))
            = Plus(g, EntryAt(g, y), Plus(g, EntryAt(g, x), acc))
    BY <1>0 DEF Whole, Plus, EntryAt, Numbers
<1>5. Sums!Fold(g, 0, S) = Plus(g, EntryAt(g, k), Sums!Fold(g, 0, S \ {k}))
    BY <1>1, <1>2, <1>3, <1>4, Sums!FoldAny
<1>6. Whole(g, Sums!Fold(g, 0, S))
    BY <1>1, <1>2, <1>3, Sums!FoldKeeps
<1>7. Whole(g, Sums!Fold(g, 0, S \ {k}))
    BY <1>1, <1>2, <1>3, Sums!FoldKeeps
<1>8. Sums!Fold(g, 0, S \ {k}) = Sums!Fold(h, 0, S \ {k})
    <2>1. \A x \in S \ {k} : EntryAt(g, x) = EntryAt(h, x)
        BY <1>0 DEF EntryAt
    <2>2. \A x, y : Plus(g, x, y) = Plus(h, x, y)
        BY DEF Plus
    <2>. QED  BY <1>1, <2>1, <2>2, Sums!FoldSame
<1>9. Total(g) = Sums!Fold(g, 0, S) /\ Total(h) = Sums!Fold(h, 0, S \ {k})
    BY <1>0, TotalIs
<1>. QED  BY <1>0, <1>5, <1>6, <1>7, <1>8, <1>9 DEF Whole, Plus, EntryAt, g, h

\* A sum of nothing is zero, and a sum of numbers is one.
LEMMA TotalInt ==
    ASSUME NEW f, NEW S, Numbers(f, S)
    PROVE  Total(Only(f, S)) \in Int /\ (S = {} => Total(Only(f, S)) = 0)
<1>1. CASE S = {}
    <2>1. DOMAIN Only(f, S) = {}
        BY <1>1 DEF Only
    <2>2. Total(Only(f, S)) = 0
        BY <2>1, TotalIs, Sums!FoldEmpty
    <2>. QED  BY <2>2
<1>. QED  BY <1>1, TotalSplits

\* One more entry adds its value.
LEMMA TotalMore ==
    ASSUME NEW f, NEW S, Numbers(f, S), NEW k, k \notin S, f[k] \in Int
    PROVE  Numbers(f, S \cup {k}) /\ Total(Only(f, S \cup {k})) = f[k] + Total(Only(f, S))
<1>1. (S \cup {k}) \ {k} = S
    OBVIOUS
<1>2. Numbers(f, S \cup {k})
    BY FS_AddElement DEF Numbers
<1>. QED  BY <1>1, <1>2, TotalSplits

\* Nothing but zeros adds up to zero.
LEMMA TotalZeros ==
    ASSUME NEW f, NEW S, IsFiniteSet(S), \A x \in S : f[x] = 0
    PROVE  Total(Only(f, S)) = 0
<1>. DEFINE F == {T \in SUBSET S : Total(Only(f, T)) = 0}
<1>1. \A T \in SUBSET S : Numbers(f, T)
    BY FS_Subset DEF Numbers
<1>2. {} \in F
    BY <1>1, TotalInt
<1>3. ASSUME NEW T \in SUBSET S, NEW x \in S \ T, T \in F
      PROVE  T \cup {x} \in F
    <2>1. Total(Only(f, T \cup {x})) = f[x] + Total(Only(f, T))
        BY <1>1, TotalMore
    <2>2. Total(Only(f, T \cup {x})) = 0
        BY <1>3, <2>1
    <2>. QED  BY <2>2
<1>4. S \in F
    <2>. HIDE DEF F
    <2>. QED  BY <1>2, <1>3, Sums!Grown DEF Sums!IsFiniteSet, IsFiniteSet
<1>. QED  BY <1>4

\* A single entry is the sum.
LEMMA TotalOne ==
    ASSUME NEW f, NEW k, f[k] \in Int
    PROVE  Total(Only(f, {k})) = f[k]
<1>1. Numbers(f, {})
    BY FS_EmptySet DEF Numbers
<1>2. {} \cup {k} = {k} /\ Total(Only(f, {})) = 0
    BY <1>1, TotalInt
<1>. QED  BY <1>1, <1>2, TotalMore

\* Sums add entry by entry.
LEMMA TotalAdds ==
    ASSUME NEW f, NEW g, NEW h, NEW S, Numbers(f, S), Numbers(g, S), \A x \in S : h[x] = f[x] + g[x]
    PROVE  Total(Only(h, S)) = Total(Only(f, S)) + Total(Only(g, S))
<1>. DEFINE F == {T \in SUBSET S : Total(Only(h, T)) = Total(Only(f, T)) + Total(Only(g, T))}
<1>1. \A T \in SUBSET S : Numbers(f, T) /\ Numbers(g, T) /\ Numbers(h, T)
    BY FS_Subset DEF Numbers
<1>2. {} \in F
    BY <1>1, TotalInt
<1>3. ASSUME NEW T \in SUBSET S, NEW x \in S \ T, T \in F
      PROVE  T \cup {x} \in F
    <2>1. /\ Total(Only(h, T \cup {x})) = h[x] + Total(Only(h, T))
          /\ Total(Only(f, T \cup {x})) = f[x] + Total(Only(f, T))
          /\ Total(Only(g, T \cup {x})) = g[x] + Total(Only(g, T))
        BY <1>1, TotalMore DEF Numbers
    <2>2. Total(Only(f, T)) \in Int /\ Total(Only(g, T)) \in Int /\ f[x] \in Int /\ g[x] \in Int
        BY <1>1, TotalInt DEF Numbers
    <2>3. Total(Only(h, T \cup {x})) = Total(Only(f, T \cup {x})) + Total(Only(g, T \cup {x}))
        BY <1>3, <2>1, <2>2
    <2>. QED  BY <2>3
<1>4. S \in F
    <2>. HIDE DEF F
    <2>. QED  BY <1>2, <1>3, Sums!Grown DEF Numbers, Sums!IsFiniteSet, IsFiniteSet
<1>. QED  BY <1>4

\* The entries of a key.
OfKey(S, key, k) == {x \in S : key[x] = k}

\* Summed by key, and then over the keys, is the sum.
LEMMA TotalByKey ==
    ASSUME NEW f, NEW S, Numbers(f, S), NEW key, NEW K, IsFiniteSet(K), \A x \in S : key[x] \in K,
           NEW g, \A k \in K : g[k] = Total(Only(f, OfKey(S, key, k)))
    PROVE  Total(Only(g, K)) = Total(Only(f, S)) /\ Numbers(g, K)
<1>. DEFINE by(T) == [k \in K |-> Total(Only(f, OfKey(T, key, k)))]
            F == {T \in SUBSET S : Total(by(T)) = Total(Only(f, T))}
<1>1. \A T \in SUBSET S : /\ Numbers(f, T)
                          /\ \A k \in K : Numbers(f, OfKey(T, key, k)) /\ OfKey(T, key, k) \in SUBSET S
    BY FS_Subset DEF Numbers, OfKey
<1>2. \A T \in SUBSET S : Numbers(by(T), K) /\ Only(by(T), K) = by(T)
    BY <1>1, TotalInt DEF Numbers, Only
<1>3. {} \in F
    <2>1. \A k \in K : by({})[k] = 0
        <3>. TAKE k \in K
        <3>1. OfKey({}, key, k) = {}
            BY DEF OfKey
        <3>. QED  BY <1>1, <3>1, TotalInt
    <2>2. Total(by({})) = 0
        <3>. DEFINE n == by({})
        <3>1. Only(n, K) = n
            BY DEF Only
        <3>. HIDE DEF n
        <3>. QED  BY <2>1, <3>1, TotalZeros DEF n
    <2>3. Total(Only(f, {})) = 0
        BY <1>1, TotalInt
    <2>. QED  BY <2>2, <2>3
<1>4. ASSUME NEW T \in SUBSET S, NEW x \in S \ T, T \in F
      PROVE  T \cup {x} \in F
    <2>. DEFINE was == by(T)
                is == by(T \cup {x})
                k0 == key[x]
                more == T \cup {x}
    <2>1. k0 \in K /\ f[x] \in Int
        BY DEF Numbers
    <2>2. \A k \in K \ {k0} : OfKey(more, key, k) = OfKey(T, key, k)
        BY DEF OfKey
    <2>3. OfKey(more, key, k0) = OfKey(T, key, k0) \cup {x} /\ x \notin OfKey(T, key, k0)
        BY DEF OfKey
    <2>4. Total(Only(f, OfKey(more, key, k0))) = f[x] + Total(Only(f, OfKey(T, key, k0)))
        <3>1. Numbers(f, OfKey(T, key, k0))
            BY <1>1, <2>1
        <3>. HIDE DEF more, k0
        <3>. QED  BY <2>1, <2>3, <3>1, TotalMore
    <2>5. is[k0] = f[x] + was[k0] /\ \A k \in K \ {k0} : is[k] = was[k]
        BY <2>1, <2>2, <2>4
    <2>6. Numbers(is, K) /\ Numbers(was, K) /\ Only(is, K) = is /\ Only(was, K) = was
        BY <1>2
    <2>. HIDE DEF is, was
    <2>7. /\ Total(is) = is[k0] + Total(Only(is, K \ {k0}))
          /\ Total(was) = was[k0] + Total(Only(was, K \ {k0}))
          /\ Total(Only(was, K \ {k0})) \in Int /\ was[k0] \in Int
        BY <2>1, <2>6, TotalSplits DEF Numbers
    <2>8. Only(is, K \ {k0}) = Only(was, K \ {k0})
        BY <2>5 DEF Only
    <2>9. Total(is) = f[x] + Total(was)
        BY <2>1, <2>5, <2>7, <2>8
    <2>10. Total(Only(f, more)) = f[x] + Total(Only(f, T))
        BY <1>1, <2>1, TotalMore
    <2>11. Total(by(more)) = Total(Only(f, more))
        BY <1>4, <2>9, <2>10 DEF is, was
    <2>. QED  BY <2>11
<1>5. S \in F
    <2>. HIDE DEF F
    <2>. QED  BY <1>3, <1>4, Sums!Grown DEF Numbers, Sums!IsFiniteSet, IsFiniteSet
<1>6. Only(g, K) = by(S)
    BY DEF Only
<1>7. Total(by(S)) = Total(Only(f, S)) /\ Numbers(by(S), K)
    BY <1>2, <1>5
<1>8. Numbers(g, K)
    BY <1>7 DEF Numbers
<1>. QED  BY <1>6, <1>7, <1>8

\* The values of a function on a finite set are finitely many.
LEMMA ValuesFinite ==
    ASSUME NEW S, IsFiniteSet(S), NEW name
    PROVE  IsFiniteSet({name[x] : x \in S})
<1>. DEFINE T == {name[x] : x \in S}
<1>1. Only(name, S) \in Surjection(S, T)
    BY DEF Only, Surjection
<1>. QED  BY <1>1, FS_Surjection

\* Entries renamed one by one have the same sum.
LEMMA TotalRenamed ==
    ASSUME NEW f, NEW S, Numbers(f, S), NEW g, NEW T, NEW name,
           T = {name[x] : x \in S}, \A x, y \in S : name[x] = name[y] => x = y,
           \A x \in S : g[name[x]] = f[x]
    PROVE  Total(Only(g, T)) = Total(Only(f, S)) /\ Numbers(g, T)
<1>1. IsFiniteSet(T)
    BY ValuesFinite DEF Numbers
<1>2. \A k \in T : g[k] = Total(Only(f, OfKey(S, name, k)))
    <2>. TAKE k \in T
    <2>1. PICK x \in S : k = name[x]
        OBVIOUS
    <2>2. OfKey(S, name, k) = {x}
        BY <2>1 DEF OfKey
    <2>. QED  BY <2>1, <2>2, TotalOne DEF Numbers
<1>3. \A x \in S : name[x] \in T
    OBVIOUS
<1>. QED  BY <1>1, <1>2, <1>3, TotalByKey

\* The number of members is a sum of ones.
LEMMA TotalOnes ==
    ASSUME NEW f, NEW S, IsFiniteSet(S), \A x \in S : f[x] = 1
    PROVE  Total(Only(f, S)) = Cardinality(S)
<1>. DEFINE F == {T \in SUBSET S : Total(Only(f, T)) = Cardinality(T)}
<1>1. \A T \in SUBSET S : Numbers(f, T) /\ IsFiniteSet(T) /\ Cardinality(T) \in Nat
    BY FS_Subset, FS_CardinalityType DEF Numbers
<1>2. {} \in F
    BY <1>1, TotalInt, FS_EmptySet
<1>3. ASSUME NEW T \in SUBSET S, NEW x \in S \ T, T \in F
      PROVE  T \cup {x} \in F
    <2>1. Total(Only(f, T \cup {x})) = 1 + Total(Only(f, T))
        BY <1>1, TotalMore
    <2>2. Cardinality(T \cup {x}) = Cardinality(T) + 1
        BY <1>1, FS_AddElement
    <2>3. Total(Only(f, T \cup {x})) = Cardinality(T \cup {x})
        BY <1>1, <1>3, <2>1, <2>2
    <2>. QED  BY <2>3
<1>4. S \in F
    <2>. HIDE DEF F
    <2>. QED  BY <1>2, <1>3, Sums!Grown DEF Sums!IsFiniteSet, IsFiniteSet
<1>. QED  BY <1>4
-----------------------------------------------------------------------------
(* The calendar.                                                           *)

LEMMA DivMod ==
    ASSUME NEW n \in Int, NEW h \in Nat \ {0}
    PROVE  n = h * (n \div h) + (n % h) /\ n \div h \in Int /\ n % h \in 0..(h - 1)
OBVIOUS

LEMMA LessTimes ==
    ASSUME NEW j \in Int, NEW k \in Int, NEW h \in Nat \ {0}, h * j - h < h * k
    PROVE  j <= k
<1>. SUFFICES ASSUME k <= j - 1 PROVE FALSE
    OBVIOUS
<1>1. h * (j - 1 - k) >= 0
    OBVIOUS
<1>2. h * (j - 1 - k) = h * j - h - h * k
    OBVIOUS
<1>. QED  BY <1>1, <1>2

\* The end of the hour under way is the first full hour that is not before now.
LEMMA Ceiling ==
    ASSUME NEW n \in Int, NEW h \in Nat \ {0}, NEW c, c = -((-n) \div h) * h
    PROVE  c \in Int /\ \A x \in Int : x % h = 0 /\ n <= x => c <= x
<1>. DEFINE j == (-n) \div h
<1>1. -n = h * j + ((-n) % h) /\ j \in Int /\ (-n) % h \in 0..(h - 1)
    <2>1. PICK m \in Int : m = -n
        OBVIOUS
    <2>2. m = h * (m \div h) + (m % h) /\ m \div h \in Int /\ m % h \in 0..(h - 1)
        BY DivMod
    <2>. QED  BY <2>1, <2>2
<1>. HIDE DEF j
<1>2. c = h * (-j) /\ c \in Int
    BY <1>1 DEF j
<1>3. ASSUME NEW x \in Int, x % h = 0, n <= x PROVE c <= x
    <2>1. x = h * (x \div h) /\ x \div h \in Int
        BY <1>3, DivMod
    <2>2. PICK k \in Int : x = h * k
        BY <2>1
    <2>3. h * (-j) - h < h * k
        BY <1>1, <1>2, <1>3, <2>2
    <2>4. -j <= k
        BY <1>1, <2>3, LessTimes
    <2>5. h * (k - (-j)) >= 0
        BY <1>1, <2>4
    <2>6. h * (k - (-j)) = h * k - h * (-j)
        BY <1>1
    <2>. QED  BY <1>1, <1>2, <2>2, <2>5, <2>6
<1>. QED  BY <1>2, <1>3

\* The latest place of an ascending list that is not past t.
LEMMA LatestPlace ==
    ASSUME NEW s \in Seq(Int), Ascending(s), NEW t \in Int, 1 \in DOMAIN s, s[1] <= t,
           NEW d, d = Max({x \in DOMAIN s : s[x] <= t})
    PROVE  /\ d \in DOMAIN s /\ s[d] <= t
           /\ \A x \in DOMAIN s : s[x] <= t <=> x <= d
<1>. DEFINE T == {x \in DOMAIN s : s[x] <= t}
<1>1. DOMAIN s = 1..Len(s) /\ Len(s) \in Nat /\ \A x \in DOMAIN s : s[x] \in Int
    OBVIOUS
<1>2. T \in SUBSET (1..Len(s)) /\ T # {}
    BY <1>1
<1>3. \E x \in T : \A y \in T : y <= x
    <2>. HIDE DEF T
    <2>. QED  BY <1>1, <1>2, Sums!GreatestOf
<1>4. d = CHOOSE x \in T : \A y \in T : x >= y
    BY DEF Max
<1>5. d \in T /\ \A y \in T : y <= d
    <2>. HIDE DEF T
    <2>1. \A x \in T : x \in Int
        BY <1>2
    <2>. QED  BY <1>3, <1>4, <2>1
<1>6. ASSUME NEW x \in DOMAIN s, x <= d PROVE s[x] <= t
    <2>1. d \in DOMAIN s /\ s[d] <= t
        BY <1>5
    <2>. HIDE DEF T
    <2>2. x = d \/ s[x] < s[d]
        BY <1>1, <1>6, <2>1 DEF Ascending
    <2>3. s[x] \in Int /\ s[d] \in Int
        BY <1>1, <2>1
    <2>. QED  BY <2>1, <2>2, <2>3
<1>. QED  BY <1>5, <1>6

\* An instant of the calendar.
InCalendar(t, z) ==
    z \in DOMAIN DayStarts /\ t \in Int /\ 1 \in DOMAIN FirstDate /\ MonthStart(1, z) <= t

\* The month of an instant is the last one that began.
LEMMA MonthIs ==
    ASSUME NEW t, NEW z, InCalendar(t, z)
    PROVE  /\ MonthAt(t, z) \in DOMAIN FirstDate
           /\ \A m \in DOMAIN FirstDate : MonthStart(m, z) <= t <=> m <= MonthAt(t, z)
<1>. DEFINE s == DayStarts[z]
            d == DateAt(t, z)
            m == MonthAt(t, z)
<1>1. /\ s \in Seq(Int) /\ Ascending(s) /\ FirstDate \in Seq(Nat) /\ Ascending(FirstDate)
      /\ \A n \in DOMAIN FirstDate : FirstDate[n] \in DOMAIN s /\ MonthStart(n, z) = s[FirstDate[n]]
    BY ReadAssumption DEF CalendarAssumption, InCalendar, MonthStart
<1>2. DOMAIN s = 1..Len(s) /\ Len(s) \in Nat /\ \A x \in DOMAIN s : s[x] \in Int
    BY <1>1
<1>3. DOMAIN FirstDate = 1..Len(FirstDate) /\ Len(FirstDate) \in Nat /\ FirstDate \in Seq(Int)
      /\ \A x \in DOMAIN FirstDate : FirstDate[x] \in Nat
    BY <1>1
<1>. HIDE DEF s
<1>4. FirstDate[1] \in DOMAIN s /\ s[FirstDate[1]] <= t /\ t \in Int /\ 1 \in DOMAIN FirstDate
    BY <1>1 DEF InCalendar
<1>5. 1 \in DOMAIN s /\ s[1] <= t
    <2>1. PICK k : k = FirstDate[1]
        OBVIOUS
    <2>2. k \in 1..Len(s) /\ s[k] <= t /\ s[1] \in Int /\ s[k] \in Int /\ 1 \in DOMAIN s
        BY <1>2, <1>4, <2>1
    <2>3. k = 1 \/ s[1] < s[k]
        BY <1>1, <1>2, <2>2 DEF Ascending
    <2>. QED  BY <1>4, <2>2, <2>3
<1>6. /\ d \in DOMAIN s /\ s[d] <= t
      /\ \A x \in DOMAIN s : s[x] <= t <=> x <= d
    BY <1>1, <1>4, <1>5, LatestPlace DEF DateAt, s
<1>. HIDE DEF d
<1>7. FirstDate[1] <= d /\ d \in Int
    BY <1>2, <1>4, <1>6
<1>8. m = Max({n \in DOMAIN FirstDate : FirstDate[n] <= d})
    BY DEF MonthAt, MonthOf, d
<1>. HIDE DEF m
<1>9. /\ m \in DOMAIN FirstDate
      /\ \A n \in DOMAIN FirstDate : FirstDate[n] <= d <=> n <= m
    BY <1>1, <1>3, <1>4, <1>7, <1>8, LatestPlace
<1>10. \A n \in DOMAIN FirstDate : MonthStart(n, z) <= t <=> FirstDate[n] <= d
    BY <1>1, <1>6
<1>. QED  BY <1>9, <1>10 DEF m

\* Months begin one after the other.
LEMMA MonthsAscend ==
    ASSUME NEW z \in DOMAIN DayStarts, NEW m \in DOMAIN FirstDate, NEW n \in DOMAIN FirstDate, m <= n
    PROVE  MonthStart(m, z) <= MonthStart(n, z) /\ MonthStart(m, z) \in Int /\ MonthStart(n, z) \in Int
<1>1. /\ DayStarts[z] \in Seq(Int) /\ Ascending(DayStarts[z])
      /\ FirstDate \in Seq(Nat) /\ Ascending(FirstDate)
      /\ \A x \in DOMAIN FirstDate : FirstDate[x] \in DOMAIN DayStarts[z]
    BY ReadAssumption DEF CalendarAssumption
<1>2. \A x \in DOMAIN DayStarts[z] : DayStarts[z][x] \in Int
    BY <1>1
<1>3. m \in Nat /\ n \in Nat /\ (m = n \/ m < n)
    BY <1>1
<1>4. m = n \/ FirstDate[m] < FirstDate[n]
    BY <1>1, <1>3 DEF Ascending
<1>5. m = n \/ DayStarts[z][FirstDate[m]] < DayStarts[z][FirstDate[n]]
    BY <1>1, <1>4 DEF Ascending
<1>. QED  BY <1>1, <1>2, <1>5 DEF MonthStart

\* A range ends no later than now, and then at now when it is anchored.
LEMMA RangeIs ==
    ASSUME NEW q \in Queries, NEW range, range = ResolvedRange(q)
    PROVE  /\ range.start \in Int /\ range.end \in Int /\ Now \in Int
           /\ Anchored(q) => range.end = Now
           /\ q.zone \in DOMAIN DayStarts /\ 1 \in DOMAIN FirstDate
           /\ MonthStart(1, q.zone) <= range.start
           /\ range.end <= MonthStart(Len(FirstDate), q.zone)
<1>1. QueryIsSound(q) /\ Now \in Int
    BY ReadAssumption DEF CalendarAssumption
<1>2. range.end <= Now
    <2>1. CASE q.preset = "previous_month"
        <3>1. InCalendar(Now, q.zone)
            BY <1>1 DEF QueryIsSound, InCalendar
        <3>2. PICK m : m = MonthAt(Now, q.zone)
            OBVIOUS
        <3>3. m \in DOMAIN FirstDate /\ (MonthStart(m, q.zone) <= Now <=> m <= m)
            BY <3>1, <3>2, MonthIs
        <3>4. m \in Nat
            BY <3>3, ReadAssumption DEF CalendarAssumption
        <3>5. range.end = MonthStart(m, q.zone)
            BY <2>1, <3>2 DEF ResolvedRange
        <3>. QED  BY <3>3, <3>4, <3>5
    <2>2. CASE q.preset = "custom"
        <3>1. range.end = Min({q.to, Now}) /\ q.to \in Int /\ Now \in Int
            BY <1>1, <2>2 DEF ResolvedRange, QueryIsSound
        <3>2. \E x \in {q.to, Now} : \A y \in {q.to, Now} : x <= y
            BY <3>1
        <3>. QED  BY <3>1, <3>2 DEF Min
    <2>3. CASE q.preset \notin {"previous_month", "custom"}
        BY <1>1, <2>3 DEF ResolvedRange, QueryIsSound, Presets
    <2>. QED  BY <2>1, <2>2, <2>3
<1>. QED  BY <1>1, <1>2 DEF QueryIsSound, Anchored

\* The tables and the query stay as they were filled.
Asked == db \in Databases /\ query \in Queries

\* The end of the buckets counted: no full hour after the range begins before it.
LEMMA BucketEndIs ==
    ASSUME NEW q \in Queries, NEW range, range = ResolvedRange(q)
    PROVE  /\ BucketEnd(q) \in Int
           /\ \A x \in Int : x % Hour = 0 /\ range.end <= x => BucketEnd(q) <= x
<1>1. range.end \in Int /\ Now \in Int /\ (Anchored(q) => range.end = Now) /\ Hour \in Nat \ {0}
    BY RangeIs, ReadAssumption DEF CalendarAssumption
<1>2. CASE Anchored(q)
    <2>1. BucketEnd(q) = -((-Now) \div Hour) * Hour
        BY <1>2 DEF BucketEnd
    <2>. QED  BY <1>1, <1>2, <2>1, Ceiling
<1>3. CASE ~Anchored(q)
    BY <1>1, <1>3 DEF BucketEnd
<1>. QED  BY <1>2, <1>3

\* A bucket that is counted begins in the range.
LEMMA BucketsIn ==
    ASSUME db \in Databases, NEW q \in Queries, NEW range, range = ResolvedRange(q), NEW b \in Buckets(q)
    PROVE  /\ b \in db.buckets /\ b \in CanonicalBuckets(Accounts(q)) /\ b.start \in Int /\ b.end \in Int
           /\ b.tokens \in Nat
           /\ range.start <= b.start /\ b.start < range.end /\ b.end <= BucketEnd(q)
<1>1. /\ b \in CanonicalBuckets(Accounts(q)) /\ b \in db.buckets
      /\ b.start >= range.start /\ b.end <= BucketEnd(q)
    BY DEF Buckets, CanonicalBuckets, Within
<1>2. b.start \in Int /\ b.end \in Int /\ b.start < b.end /\ b.start % Hour = 0 /\ b.tokens \in Nat
    BY <1>1, ReadAssumption DEF TablesAreSound
<1>3. /\ BucketEnd(q) \in Int /\ range.end \in Int /\ range.start \in Int
      /\ range.end <= b.start => BucketEnd(q) <= b.start
    BY <1>2, BucketEndIs, RangeIs
<1>. QED  BY <1>1, <1>2, <1>3

\* A zone in which months begin on the hour, as in every zone a whole number of hours
\* from UTC.
MonthsOnTheHour ==
    \A z \in DOMAIN DayStarts : \A m \in DOMAIN FirstDate : MonthStart(m, z) % Hour = 0

\* The months of a range, and the first one after them, hold it.
LEMMA MonthsHold ==
    ASSUME NEW q \in Queries, NEW range, range = ResolvedRange(q), range.start < range.end,
           NEW lo, lo = Min(Months(q)), NEW hi, hi = Max(Months(q))
    PROVE  /\ lo \in DOMAIN FirstDate /\ hi \in DOMAIN FirstDate /\ hi + 1 \in DOMAIN FirstDate /\ lo <= hi
           /\ Months(q) = lo..hi
           /\ MonthStart(lo, q.zone) <= range.start /\ range.end <= MonthStart(hi + 1, q.zone)
           /\ MonthStart(lo, q.zone) \in Int /\ MonthStart(hi + 1, q.zone) \in Int
<1>. DEFINE z == q.zone
            l == MonthAt(range.start, z)
            h == MonthAt(range.end - 1, z)
<1>1. /\ range.start \in Int /\ range.end \in Int /\ z \in DOMAIN DayStarts /\ 1 \in DOMAIN FirstDate
      /\ MonthStart(1, z) <= range.start /\ range.end <= MonthStart(Len(FirstDate), z)
    BY RangeIs
<1>2. FirstDate \in Seq(Nat) /\ DOMAIN FirstDate = 1..Len(FirstDate) /\ Len(FirstDate) \in Nat
    BY ReadAssumption DEF CalendarAssumption
<1>3. \A m \in DOMAIN FirstDate : MonthStart(m, z) \in Int
    BY <1>1, MonthsAscend, <1>2
<1>4. InCalendar(range.start, z) /\ InCalendar(range.end - 1, z)
    BY <1>1, <1>2, <1>3 DEF InCalendar
<1>5. /\ l \in DOMAIN FirstDate /\ \A n \in DOMAIN FirstDate : MonthStart(n, z) <= range.start <=> n <= l
      /\ h \in DOMAIN FirstDate /\ \A n \in DOMAIN FirstDate : MonthStart(n, z) <= range.end - 1 <=> n <= h
    BY <1>4, MonthIs
<1>6. Months(q) = l..h
    BY DEF Months
<1>. HIDE DEF l, h
<1>7. l \in Nat /\ h \in Nat /\ Len(FirstDate) \in DOMAIN FirstDate
    BY <1>1, <1>2, <1>5
<1>8. MonthStart(l, z) <= range.start
    BY <1>5, <1>7
<1>9. l <= h
    BY <1>1, <1>3, <1>5, <1>8
<1>10. h < Len(FirstDate)
    <2>1. ~(MonthStart(Len(FirstDate), z) <= range.end - 1)
        BY <1>1, <1>3, <1>7
    <2>. QED  BY <1>2, <1>5, <1>7, <2>1
<1>11. h + 1 \in DOMAIN FirstDate /\ ~(MonthStart(h + 1, z) <= range.end - 1)
    BY <1>2, <1>5, <1>7, <1>10
<1>12. lo = l /\ hi = h
    <2>1. l \in l..h /\ \A y \in l..h : l <= y
        BY <1>7, <1>9
    <2>2. h \in l..h /\ \A y \in l..h : h >= y
        BY <1>7, <1>9
    <2>. QED  BY <1>6, <1>7, <2>1, <2>2 DEF Min, Max
<1>. QED  BY <1>1, <1>3, <1>5, <1>6, <1>8, <1>9, <1>11, <1>12

\* What the hourly ledgers count of a month, they cover.
LEMMA CountedIsCovered ==
    ASSUME MonthsOnTheHour, db \in Databases, NEW q \in Queries, NEW b \in Buckets(q)
    PROVE  <<b.account, MonthAt(b.start, q.zone)>> \in CoveredMonths(q)
<1>1. PICK range : range = ResolvedRange(q)
    OBVIOUS
<1>2. /\ b \in CanonicalBuckets(Accounts(q)) /\ b.start \in Int /\ b.end \in Int
      /\ range.start <= b.start /\ b.start < range.end /\ b.end <= BucketEnd(q)
    BY <1>1, BucketsIn
<1>3. PICK lo, hi : lo = Min(Months(q)) /\ hi = Max(Months(q))
    OBVIOUS
<1>4. range.start \in Int /\ range.end \in Int /\ q.zone \in DOMAIN DayStarts
    BY <1>1, RangeIs
<1>5. /\ hi + 1 \in DOMAIN FirstDate
      /\ MonthStart(lo, q.zone) <= range.start /\ range.end <= MonthStart(hi + 1, q.zone)
      /\ MonthStart(lo, q.zone) \in Int /\ MonthStart(hi + 1, q.zone) \in Int
    BY <1>1, <1>2, <1>3, <1>4, MonthsHold
<1>6. BucketEnd(q) \in Int /\ BucketEnd(q) <= MonthStart(hi + 1, q.zone)
    BY <1>1, <1>4, <1>5, BucketEndIs DEF MonthsOnTheHour
<1>7. Within(b, MonthStart(lo, q.zone), MonthStart(hi + 1, q.zone))
    BY <1>2, <1>4, <1>5, <1>6 DEF Within
<1>. QED  BY <1>2, <1>3, <1>7 DEF CoveredMonths

\* The tables and the query stay.
LEMMA AskedHolds == ReadSpec => []Asked
<1>1. FillTables => Asked
    BY DEF FillTables, Asked
<1>2. Asked /\ [UsageQuery]_queryVars => Asked'
    BY DEF Asked, UsageQuery, queryVars
<1>. QED  BY <1>1, <1>2, PTL DEF ReadSpec

\* In zones whose months begin on the hour no month of an account is counted from its
\* snapshot and from the hourly ledgers, whatever calendar, tables and query.
THEOREM NeverDouble ==
    ASSUME MonthsOnTheHour
    PROVE  ReadSpec => []SnapshotsNeverDouble
<1>1. Asked => SnapshotsNeverDouble
    <2>. SUFFICES ASSUME Asked,
                         NEW s \in Snapshots(query), MergedTokens(query, s) > 0,
                         NEW b \in Buckets(query), b.account = db.subjects[s.subject].account,
                         MonthAt(b.start, query.zone) = s.month
                  PROVE  FALSE
        BY DEF SnapshotsNeverDouble
    <2>1. ~Excluded(query, s)
        BY DEF MergedTokens
    <2>2. <<b.account, MonthAt(b.start, query.zone)>> \in CoveredMonths(query)
        BY CountedIsCovered DEF Asked
    <2>. QED  BY <2>1, <2>2 DEF Excluded
<1>. QED  BY <1>1, AskedHolds, PTL
-----------------------------------------------------------------------------
(* More of sums.                                                           *)

\* A finite set of numbers has a least and a greatest one.
LEMMA Extremes ==
    ASSUME NEW S \in SUBSET Int, IsFiniteSet(S), S # {}
    PROVE  /\ Max(S) \in S /\ \A y \in S : y <= Max(S)
           /\ Min(S) \in S /\ \A y \in S : Min(S) <= y
<1>. DEFINE F == {T \in SUBSET S : T # {} => /\ \E x \in T : \A y \in T : x >= y
                                             /\ \E x \in T : \A y \in T : x <= y}
<1>1. {} \in F
    OBVIOUS
<1>2. ASSUME NEW T \in SUBSET S, NEW x \in S \ T, T \in F
      PROVE  T \cup {x} \in F
    <2>1. CASE T = {}
        BY <2>1
    <2>2. CASE T # {}
        <3>1. PICK u \in T : \A y \in T : u >= y
            BY <1>2, <2>2
        <3>2. PICK l \in T : \A y \in T : l <= y
            BY <1>2, <2>2
        <3>3. \E v \in T \cup {x} : \A y \in T \cup {x} : v >= y
            <4>1. CASE x >= u
                BY <3>1, <4>1
            <4>2. CASE ~(x >= u)
                BY <3>1, <4>2
            <4>. QED  BY <4>1, <4>2
        <3>4. \E v \in T \cup {x} : \A y \in T \cup {x} : v <= y
            <4>1. CASE x <= l
                BY <3>2, <4>1
            <4>2. CASE ~(x <= l)
                BY <3>2, <4>2
            <4>. QED  BY <4>1, <4>2
        <3>. QED  BY <3>3, <3>4
    <2>. QED  BY <2>1, <2>2
<1>3. S \in F
    <2>. HIDE DEF F
    <2>. QED  BY <1>1, <1>2, Sums!Grown DEF Sums!IsFiniteSet, IsFiniteSet
<1>4. PICK u \in S : \A y \in S : u >= y
    BY <1>3
<1>5. PICK l \in S : \A y \in S : l <= y
    BY <1>3
<1>. QED  BY <1>4, <1>5 DEF Min, Max

\* A sum over two parts.
LEMMA TotalParts ==
    ASSUME NEW f, NEW S, Numbers(f, S), NEW T \in SUBSET S
    PROVE  Total(Only(f, S)) = Total(Only(f, T)) + Total(Only(f, S \ T))
<1>. DEFINE part == [x \in S |-> IF x \in T THEN 1 ELSE 2]
            g == [k \in {1, 2} |-> Total(Only(f, OfKey(S, part, k)))]
<1>1. OfKey(S, part, 1) = T /\ OfKey(S, part, 2) = S \ T
    BY DEF OfKey
<1>2. g[1] = Total(Only(f, T)) /\ g[2] = Total(Only(f, S \ T))
    BY <1>1
<1>3. Numbers(f, T) /\ Numbers(f, S \ T)
    BY FS_Subset DEF Numbers
<1>4. g[1] \in Int /\ g[2] \in Int
    BY <1>2, <1>3, TotalInt
<1>5. \A x \in S : part[x] \in {1, 2}
    OBVIOUS
<1>6. \A k \in {1, 2} : g[k] = Total(Only(f, OfKey(S, part, k)))
    OBVIOUS
<1>7. IsFiniteSet({1, 2})
    <2>1. IsFiniteSet({1})
        BY FS_Singleton
    <2>2. IsFiniteSet({1} \cup {2})
        BY <2>1, FS_AddElement
    <2>3. {1} \cup {2} = {1, 2}
        OBVIOUS
    <2>. QED  BY <2>2, <2>3
<1>. HIDE DEF g, part
<1>8. Total(Only(g, {1, 2})) = Total(Only(f, S)) /\ Numbers(g, {1, 2})
    BY <1>5, <1>6, <1>7, TotalByKey
<1>9. Total(Only(g, {1, 2})) = g[2] + Total(Only(g, {1, 2} \ {2}))
    BY <1>8, TotalSplits
<1>10. {1, 2} \ {2} = {1}
    OBVIOUS
<1>11. Total(Only(g, {1, 2} \ {2})) = g[1]
    BY <1>4, <1>10, TotalOne
<1>. QED  BY <1>2, <1>4, <1>8, <1>9, <1>11

Column(a, S, t) == [s \in S |-> a[s][t]]

\* Sums of sums may be taken in either order.
LEMMA TotalSwap ==
    ASSUME NEW S, IsFiniteSet(S), NEW T, IsFiniteSet(T), NEW a, \A s \in S, t \in T : a[s][t] \in Int,
           NEW u, \A s \in S : u[s] = Total(Only(a[s], T)),
           NEW v, \A t \in T : v[t] = Total(Column(a, S, t))
    PROVE  Total(Only(u, S)) = Total(Only(v, T)) /\ Numbers(u, S) /\ Numbers(v, T)
<1>. DEFINE col(t) == Column(a, S, t)
            down(U) == [t \in T |-> Total(Only(col(t), U))]
            F == {U \in SUBSET S : Total(Only(u, U)) = Total(Only(down(U), T))}
<1>1. \A s \in S : Numbers(a[s], T)
    BY DEF Numbers
<1>2. \A U \in SUBSET S : Numbers(u, U) /\ \A t \in T : Numbers(col(t), U)
    BY <1>1, TotalInt, FS_Subset DEF Numbers, Column
<1>3. \A U \in SUBSET S : Numbers(down(U), T)
    BY <1>2, TotalInt DEF Numbers
<1>4. {} \in F
    <2>1. \A t \in T : down({})[t] = 0
        BY <1>2, TotalInt
    <2>2. Total(Only(down({}), T)) = 0
        <3>. DEFINE n == down({})
        <3>. HIDE DEF n
        <3>. QED  BY <2>1, TotalZeros DEF n
    <2>3. Total(Only(u, {})) = 0
        BY <1>2, TotalInt
    <2>. QED  BY <2>2, <2>3
<1>5. ASSUME NEW U \in SUBSET S, NEW x \in S \ U, U \in F
      PROVE  U \cup {x} \in F
    <2>. DEFINE more == U \cup {x}
                was == down(U)
                is == down(more)
                row == a[x]
    <2>1. ASSUME NEW t \in T PROVE is[t] = row[t] + was[t]
        <3>. DEFINE c == col(t)
        <3>1. c[x] = a[x][t] /\ c[x] \in Int
            BY DEF Column
        <3>2. Numbers(c, U)
            BY <1>2
        <3>. HIDE DEF c
        <3>3. Total(Only(c, more)) = c[x] + Total(Only(c, U))
            BY <3>1, <3>2, TotalMore
        <3>. QED  BY <3>1, <3>3 DEF c
    <2>2. Numbers(row, T) /\ Numbers(was, T) /\ Numbers(is, T)
        BY <1>1, <1>3
    <2>. HIDE DEF is, was, row
    <2>3. Total(Only(is, T)) = Total(Only(row, T)) + Total(Only(was, T))
        BY <2>1, <2>2, TotalAdds
    <2>4. u[x] = Total(Only(row, T)) /\ u[x] \in Int
        BY <2>2, TotalInt DEF row
    <2>5. Total(Only(u, more)) = u[x] + Total(Only(u, U))
        BY <1>2, <2>4, TotalMore
    <2>6. Total(Only(u, U)) = Total(Only(was, T))
        BY <1>5 DEF was
    <2>7. Total(Only(u, more)) = Total(Only(is, T))
        BY <2>3, <2>4, <2>5, <2>6
    <2>. QED  BY <2>7 DEF is
<1>6. S \in F
    <2>. HIDE DEF F
    <2>. QED  BY <1>4, <1>5, Sums!Grown DEF Sums!IsFiniteSet, IsFiniteSet
<1>7. \A t \in T : v[t] = down(S)[t]
    <2>. TAKE t \in T
    <2>1. Only(col(t), S) = col(t)
        BY DEF Only, Column
    <2>. QED  BY <2>1
<1>8. Only(v, T) = Only(down(S), T)
    BY <1>7 DEF Only
<1>9. Numbers(v, T) /\ Numbers(u, S)
    BY <1>2, <1>3, <1>7 DEF Numbers
<1>. QED  BY <1>6, <1>8, <1>9
-----------------------------------------------------------------------------
(* The cards add up.                                                       *)

\* The boundaries whose periods meet the range.
Met(q) ==
    {b \in Boundaries(q) : b < ResolvedRange(q).end /\ b >= AlignedAt(ResolvedRange(q).start, q)}

LEMMA BoundariesAre ==
    ASSUME NEW q \in Queries
    PROVE  Boundaries(q) \in SUBSET Int /\ IsFiniteSet(Boundaries(q))
<1>. DEFINE s == DayStarts[q.zone]
            days == {s[d] : d \in DOMAIN s}
<1>1. s \in Seq(Int) /\ q.zone \in DOMAIN DayStarts /\ FirstDate \in Seq(Nat) /\ 1 \in DOMAIN FirstDate
      /\ FirstDate[1] \in DOMAIN s
    BY RangeIs, ReadAssumption DEF CalendarAssumption
<1>2. DOMAIN s = 1..Len(s) /\ Len(s) \in Nat /\ \A d \in DOMAIN s : s[d] \in Int
    BY <1>1
<1>3. days \in SUBSET Int /\ days # {} /\ IsFiniteSet(days)
    <2>1. IsFiniteSet(DOMAIN s)
        BY <1>2, FS_Interval
    <2>. QED  BY <1>1, <1>2, <2>1, ValuesFinite
<1>. HIDE DEF s
<1>4. Boundaries(q) = days \/ Boundaries(q) = {t \in Min(days)..Max(days) : t % Hour = 0}
    BY DEF Boundaries, s
<1>. HIDE DEF days
<1>5. Min(days) \in Int /\ Max(days) \in Int
    BY <1>3, Extremes
<1>6. IsFiniteSet(Min(days)..Max(days)) /\ Min(days)..Max(days) \in SUBSET Int
    BY <1>5, FS_Interval
<1>7. {t \in Min(days)..Max(days) : t % Hour = 0} \in SUBSET (Min(days)..Max(days))
    OBVIOUS
<1>. QED  BY <1>3, <1>4, <1>6, <1>7, FS_Subset

\* Every instant of the range has its boundary.
LEMMA MetIs ==
    ASSUME NEW q \in Queries
    PROVE  /\ IsFiniteSet(Met(q)) /\ Met(q) \in SUBSET Int
           /\ \A t \in Int :
                ResolvedRange(q).start <= t /\ t < ResolvedRange(q).end => AlignedAt(t, q) \in Met(q)
<1>1. PICK range : range = ResolvedRange(q)
    OBVIOUS
<1>2. range.start \in Int /\ range.end \in Int
    BY <1>1, RangeIs
<1>3. Boundaries(q) \in SUBSET Int /\ IsFiniteSet(Boundaries(q)) /\ Met(q) \in SUBSET Boundaries(q)
    BY BoundariesAre DEF Met
<1>4. PICK first \in Boundaries(q) : first <= range.start
    BY <1>1, ReadAssumption DEF QueryIsSound
<1>5. ASSUME NEW t \in Int, range.start <= t
      PROVE  /\ AlignedAt(t, q) \in Boundaries(q) /\ AlignedAt(t, q) <= t
             /\ \A b \in Boundaries(q) : b <= t => b <= AlignedAt(t, q)
    <2>. DEFINE S == {b \in Boundaries(q) : b <= t}
    <2>1. S \in SUBSET Int /\ IsFiniteSet(S) /\ S # {}
        BY <1>2, <1>3, <1>4, <1>5, FS_Subset
    <2>2. AlignedAt(t, q) = Max(S)
        BY DEF AlignedAt
    <2>3. Max(S) \in S /\ \A y \in S : y <= Max(S)
        <3>. HIDE DEF S
        <3>. QED  BY <2>1, Extremes
    <2>. QED  BY <2>2, <2>3
<1>6. ASSUME NEW t \in Int, range.start <= t, t < range.end
      PROVE  AlignedAt(t, q) \in Met(q)
    <2>1. AlignedAt(range.start, q) \in Boundaries(q) /\ AlignedAt(range.start, q) <= range.start
        BY <1>2, <1>5
    <2>2. PICK low \in Int : low = AlignedAt(range.start, q)
        BY <1>3, <2>1
    <2>3. PICK at \in Int : at = AlignedAt(t, q)
        BY <1>3, <1>5, <1>6
    <2>4. low <= at /\ at <= t /\ at \in Boundaries(q)
        BY <1>2, <1>5, <1>6, <2>1, <2>2, <2>3
    <2>. QED  BY <1>1, <1>2, <1>6, <2>2, <2>3, <2>4 DEF Met
<1>. QED  BY <1>1, <1>3, <1>6, FS_Subset

\* The period of a boundary.
PeriodOf(b, q) ==
    [start |-> Max({b, ResolvedRange(q).start}), end |-> Min({After(b, q), ResolvedRange(q).end}),
     aligned |-> b, clipped |-> b < ResolvedRange(q).start \/ After(b, q) > ResolvedRange(q).end]

LEMMA PeriodsAre ==
    ASSUME NEW q
    PROVE  Periods(q) = {PeriodOf(b, q) : b \in Met(q)} /\ \A b : PeriodOf(b, q).aligned = b
BY DEF Periods, Met, PeriodOf

Tokens(rows) == [r \in rows |-> r.tokens]

LEMMA TokensOfIs ==
    ASSUME NEW rows
    PROVE  /\ TokensOf(rows) = Total(Only(Tokens(rows), rows))
           /\ \A some \in SUBSET rows : TokensOf(some) = Total(Only(Tokens(rows), some))
<1>1. \A some \in SUBSET rows : Only(Tokens(rows), some) = [r \in some |-> r.tokens]
    BY DEF Only, Tokens
<1>. QED  BY <1>1 DEF TokensOf

\* The rows of the headline lie in the range.
LEMMA RowsAre ==
    ASSUME db \in Databases, NEW q \in Queries
    PROVE  /\ IsFiniteSet(HeadlineRows(q))
           /\ \A r \in HeadlineRows(q) :
                r.tokens \in Nat /\ r.at \in Int
                /\ ResolvedRange(q).start <= r.at /\ r.at < ResolvedRange(q).end
<1>1. TablesAreSound(db)
    BY ReadAssumption
<1>2. CASE DetailFilters(q)
    <2>. DEFINE S == IF Overview(q) \/ Detail(q) THEN Matching(q) ELSE {}
                row == [r \in S |-> [id |-> r.id, at |-> r.at, model |-> r.model,
                                     tokens |-> r.tokens, calls |-> 1]]
    <2>1. S \in SUBSET db.requests
        BY DEF Matching, Requests
    <2>2. \A r \in S : r.tokens \in Nat /\ r.at \in Int
                       /\ ResolvedRange(q).start <= r.at /\ r.at < ResolvedRange(q).end
        BY <1>1 DEF Matching, Requests, TablesAreSound
    <2>3. IsFiniteSet(S)
        BY <1>1, <2>1, FS_Subset DEF TablesAreSound
    <2>4. HeadlineRows(q) = {row[r] : r \in S}
        BY <1>2 DEF HeadlineRows
    <2>5. IsFiniteSet(HeadlineRows(q))
        <3>. HIDE DEF S, row
        <3>. QED  BY <2>3, <2>4, ValuesFinite
    <2>. HIDE DEF S
    <2>6. \A x \in S : row[x].tokens = x.tokens /\ row[x].at = x.at
        OBVIOUS
    <2>. HIDE DEF row
    <2>7. \A x \in HeadlineRows(q) : \E r \in S : x.tokens = r.tokens /\ x.at = r.at
        BY <2>4, <2>6
    <2>. QED  BY <2>2, <2>5, <2>7
<1>3. CASE ~DetailFilters(q)
    <2>. DEFINE S == IF Overview(q) \/ Detail(q) THEN Buckets(q) ELSE {}
                row == [b \in S |-> [id |-> b.id, at |-> b.start, model |-> b.model,
                                     tokens |-> b.tokens, calls |-> b.calls]]
    <2>1. S \in SUBSET db.buckets
        BY DEF Buckets, CanonicalBuckets
    <2>2. \A b \in S : b.tokens \in Nat /\ b.start \in Int
                       /\ ResolvedRange(q).start <= b.start /\ b.start < ResolvedRange(q).end
        BY BucketsIn
    <2>3. IsFiniteSet(S)
        BY <1>1, <2>1, FS_Subset DEF TablesAreSound
    <2>4. HeadlineRows(q) = {row[b] : b \in S}
        BY <1>3 DEF HeadlineRows
    <2>5. IsFiniteSet(HeadlineRows(q))
        <3>. HIDE DEF S, row
        <3>. QED  BY <2>3, <2>4, ValuesFinite
    <2>. HIDE DEF S
    <2>6. \A x \in S : row[x].tokens = x.tokens /\ row[x].at = x.start
        OBVIOUS
    <2>. HIDE DEF row
    <2>7. \A x \in HeadlineRows(q) : \E b \in S : x.tokens = b.tokens /\ x.at = b.start
        BY <2>4, <2>6
    <2>. QED  BY <2>2, <2>5, <2>7
<1>. QED  BY <1>2, <1>3

\* Rows summed by any key add up.
LEMMA RowsByKey ==
    ASSUME NEW rows, IsFiniteSet(rows), \A r \in rows : r.tokens \in Nat,
           NEW key, NEW K, IsFiniteSet(K), \A r \in rows : key[r] \in K,
           NEW g, \A k \in K : g[k] = TokensOf(OfKey(rows, key, k))
    PROVE  Total(Only(g, K)) = TokensOf(rows) /\ Numbers(g, K)
<1>. DEFINE f == Tokens(rows)
<1>1. Numbers(f, rows)
    BY DEF Numbers, Tokens
<1>2. \A k \in K : g[k] = Total(Only(f, OfKey(rows, key, k)))
    <2>. TAKE k \in K
    <2>1. OfKey(rows, key, k) \in SUBSET rows
        BY DEF OfKey
    <2>. QED  BY <2>1, TokensOfIs
<1>3. TokensOf(rows) = Total(Only(f, rows))
    BY TokensOfIs
<1>. HIDE DEF f
<1>. QED  BY <1>1, <1>2, <1>3, TotalByKey

\* The models are the rows.
LEMMA ModelsAddUp ==
    ASSUME db \in Databases, NEW q \in Queries
    PROVE  Total(ByModel(q)) = TokensOf(HeadlineRows(q))
<1>. DEFINE rows == HeadlineRows(q)
            key == [r \in rows |-> r.model]
            K == {r.model : r \in rows}
            g == ByModel(q)
<1>1. IsFiniteSet(rows) /\ \A r \in rows : r.tokens \in Nat
    BY RowsAre
<1>2. K = {key[r] : r \in rows} /\ \A r \in rows : key[r] \in K
    OBVIOUS
<1>3. \A k \in K : OfKey(rows, key, k) = {r \in rows : r.model = k}
    BY DEF OfKey
<1>4. \A k \in K : g[k] = TokensOf(OfKey(rows, key, k))
    BY <1>3 DEF ByModel
<1>5. Only(g, K) = g
    BY DEF Only, ByModel
<1>. HIDE DEF rows, key, K, g
<1>6. IsFiniteSet(K)
    BY <1>1, <1>2, ValuesFinite
<1>7. Total(Only(g, K)) = TokensOf(rows)
    BY <1>1, <1>2, <1>4, <1>6, RowsByKey
<1>. QED  BY <1>5, <1>7 DEF rows, g
\* The part of a snapshot at a point of the series.
PlacedAt(q, s, b) == DailySum(s, {d \in PlacedDates(q, s) : DayStarts[q.zone][d] = b})

\* What a snapshot adds to the headline is at the points of the series, or left out of it.
LEMMA SnapshotIsPlaced ==
    ASSUME db \in Databases, NEW q \in Queries, NEW s \in Snapshots(q)
    PROVE  /\ \A b : PlacedAt(q, s, b) \in Int
           /\ Unplaced(q, s) \in Int /\ MergedTokens(q, s) \in Int
           /\ MergedTokens(q, s) = Total([b \in Met(q) |-> PlacedAt(q, s, b)]) + Unplaced(q, s)
<1>. DEFINE f == s.daily
            D == DOMAIN f
            P == PlacedDates(q, s)
            starts == [d \in P |-> DayStarts[q.zone][d]]
            g == [b \in Met(q) |-> PlacedAt(q, s, b)]
<1>1. s \in db.snapshots
    BY DEF Snapshots
<1>2. Numbers(f, D) /\ s.total = Total([d \in D |-> f[d]])
    BY <1>1, ReadAssumption DEF TablesAreSound, Numbers
<1>3. P \in SUBSET D
    BY DEF PlacedDates
<1>4. \A T \in SUBSET D : Numbers(f, T) /\ DailySum(s, T) = Total(Only(f, T)) /\ DailySum(s, T) \in Int
    BY <1>2, TotalInt, FS_Subset DEF DailySum, Only, Numbers
<1>5. \A d \in P : starts[d] \in Met(q)
    <2>. TAKE d \in P
    <2>1. PICK p \in Periods(q) : p.aligned = DayStarts[q.zone][d]
        BY DEF PlacedDates
    <2>. QED  BY <2>1, PeriodsAre
<1>6. \A b : OfKey(P, starts, b) = {d \in P : DayStarts[q.zone][d] = b} /\ OfKey(P, starts, b) \in SUBSET D
    BY <1>3 DEF OfKey
<1>7. \A b : PlacedAt(q, s, b) = Total(Only(f, OfKey(P, starts, b))) /\ PlacedAt(q, s, b) \in Int
    BY <1>4, <1>6 DEF PlacedAt
<1>8. \A b \in Met(q) : g[b] = Total(Only(f, OfKey(P, starts, b)))
    BY <1>7
<1>9. Only(g, Met(q)) = g
    BY DEF Only
<1>10. Total(g) = DailySum(s, P) /\ Numbers(f, P)
    <2>1. Numbers(f, P) /\ DailySum(s, P) = Total(Only(f, P)) /\ IsFiniteSet(Met(q))
        BY <1>3, <1>4, MetIs
    <2>. HIDE DEF g, f, P, starts
    <2>2. Total(Only(g, Met(q))) = Total(Only(f, P))
        BY <1>5, <1>8, <2>1, TotalByKey
    <2>. QED  BY <1>9, <2>1, <2>2
<1>11. D \in SUBSET D /\ D \ P \in SUBSET D
    OBVIOUS
<1>12. s.total = DailySum(s, D) /\ s.total \in Int
    BY <1>2, <1>4, <1>11 DEF Only
<1>13. DailySum(s, D) = DailySum(s, P) + DailySum(s, D \ P)
    <2>1. DailySum(s, D) = Total(Only(f, D)) /\ DailySum(s, P) = Total(Only(f, P))
          /\ DailySum(s, D \ P) = Total(Only(f, D \ P))
        BY <1>3, <1>4, <1>11
    <2>. HIDE DEF f, P, D
    <2>. QED  BY <1>2, <1>3, <2>1, TotalParts
<1>14. DailySum(s, P) \in Int /\ DailySum(s, D \ P) \in Int
    BY <1>3, <1>4, <1>11
<1>15. P = {} => DailySum(s, P) = 0
    <2>1. DailySum(s, P) = Total(Only(f, P)) /\ Numbers(f, P)
        BY <1>3, <1>4
    <2>. HIDE DEF f, P
    <2>. QED  BY <2>1, TotalInt
<1>. HIDE DEF P, D, g
<1>16. /\ Unplaced(q, s) \in Int /\ MergedTokens(q, s) \in Int
       /\ MergedTokens(q, s) = Total(g) + Unplaced(q, s)
    <2>1. CASE Excluded(q, s)
        <3>1. MergedTokens(q, s) = 0 /\ Unplaced(q, s) = 0 /\ P = {}
            BY <2>1 DEF MergedTokens, Unplaced, PlacedDates, P
        <3>. QED  BY <1>10, <1>15, <3>1
    <2>2. CASE ~Excluded(q, s) /\ ~WholeMonth(q, s)
        <3>1. MergedTokens(q, s) = DailySum(s, P) /\ Unplaced(q, s) = 0
            BY <2>2 DEF MergedTokens, Unplaced, P
        <3>. QED  BY <1>10, <1>14, <3>1
    <2>3. CASE ~Excluded(q, s) /\ WholeMonth(q, s) /\ SameZone(q, s)
        <3>1. MergedTokens(q, s) = s.total /\ Unplaced(q, s) = DailySum(s, D \ P)
            BY <2>3 DEF MergedTokens, Unplaced, P, D
        <3>. QED  BY <1>10, <1>12, <1>13, <1>14, <3>1
    <2>4. CASE ~Excluded(q, s) /\ WholeMonth(q, s) /\ ~SameZone(q, s)
        <3>1. MergedTokens(q, s) = s.total /\ Unplaced(q, s) = s.total /\ P = {}
            BY <2>4 DEF MergedTokens, Unplaced, PlacedDates, P
        <3>. QED  BY <1>10, <1>12, <1>15, <3>1
    <2>. QED  BY <2>1, <2>2, <2>3, <2>4
<1>. QED  BY <1>7, <1>16 DEF g

SnapshotsRead(q) == IF Overview(q) THEN Snapshots(q) ELSE {}
LeftOut(q) == Total([s \in SnapshotsRead(q) |-> Unplaced(q, s)])
FromSnapshots(q) == Total([s \in SnapshotsRead(q) |-> MergedTokens(q, s)])

\* Over all snapshots.
LEMMA SnapshotsArePlaced ==
    ASSUME db \in Databases, NEW q \in Queries,
           NEW v, \A b \in Met(q) : v[b] = Total([s \in SnapshotsRead(q) |-> PlacedAt(q, s, b)])
    PROVE  /\ Total(Only(v, Met(q))) + LeftOut(q) = FromSnapshots(q)
           /\ Numbers(v, Met(q)) /\ LeftOut(q) \in Int /\ FromSnapshots(q) \in Int
<1>. DEFINE S == SnapshotsRead(q)
            T == Met(q)
            a == [s \in S |-> [b \in T |-> PlacedAt(q, s, b)]]
            u == [s \in S |-> Total(a[s])]
            out == [s \in S |-> Unplaced(q, s)]
            all == [s \in S |-> MergedTokens(q, s)]
<1>1. S \in SUBSET Snapshots(q)
    BY DEF SnapshotsRead
<1>2. IsFiniteSet(S) /\ IsFiniteSet(T)
    <2>1. IsFiniteSet(db.snapshots)
        BY ReadAssumption DEF TablesAreSound
    <2>2. S \in SUBSET db.snapshots
        BY <1>1 DEF Snapshots
    <2>. QED  BY <2>1, <2>2, FS_Subset, MetIs
<1>3. \A s \in S : /\ \A b \in T : a[s][b] \in Int
                   /\ out[s] \in Int /\ all[s] \in Int /\ all[s] = u[s] + out[s]
    BY <1>1, SnapshotIsPlaced
<1>4. \A s \in S : Only(a[s], T) = a[s]
    BY DEF Only
<1>5. \A s \in S : u[s] = Total(Only(a[s], T))
    BY <1>4
<1>6. \A b \in T : Column(a, S, b) = [s \in S |-> PlacedAt(q, s, b)]
    BY DEF Column
<1>7. \A b \in T : v[b] = Total(Column(a, S, b))
    BY <1>6
<1>8. Only(out, S) = out /\ Only(all, S) = all
    BY DEF Only
<1>9. LeftOut(q) = Total(out) /\ FromSnapshots(q) = Total(all)
    BY DEF LeftOut, FromSnapshots
<1>. HIDE DEF a, u, out, all, S, T
<1>10. Total(Only(u, S)) = Total(Only(v, T)) /\ Numbers(u, S) /\ Numbers(v, T)
    BY <1>2, <1>3, <1>5, <1>7, TotalSwap
<1>11. Numbers(out, S) /\ Numbers(all, S)
    BY <1>2, <1>3 DEF Numbers
<1>12. Total(Only(all, S)) = Total(Only(u, S)) + Total(Only(out, S))
    BY <1>3, <1>10, <1>11, TotalAdds
<1>13. Total(Only(all, S)) \in Int /\ Total(Only(out, S)) \in Int /\ Total(Only(u, S)) \in Int
    BY <1>10, <1>11, TotalInt
<1>. QED  BY <1>8, <1>9, <1>10, <1>12, <1>13 DEF T

\* The points of the series, and what is left out of it, are the rows and the snapshots.
LEMMA PointsAddUp ==
    ASSUME db \in Databases, NEW q \in Queries
    PROVE  Total([p \in Periods(q) |-> Point(q, p)]) + LeftOut(q)
              = TokensOf(HeadlineRows(q)) + FromSnapshots(q)
<1>. DEFINE rows == HeadlineRows(q)
            at == [r \in rows |-> AlignedAt(r.at, q)]
            u == [b \in Met(q) |-> TokensOf(OfKey(rows, at, b))]
            v == [b \in Met(q) |-> Total([s \in SnapshotsRead(q) |-> PlacedAt(q, s, b)])]
            f == [b \in Met(q) |-> u[b] + v[b]]
            g == [p \in Periods(q) |-> Point(q, p)]
            name == [b \in Met(q) |-> PeriodOf(b, q)]
<1>1. IsFiniteSet(rows) /\ \A r \in rows : r.tokens \in Nat
    BY RowsAre
<1>2. \A r \in rows : at[r] \in Met(q)
    BY RowsAre, MetIs
<1>3. IsFiniteSet(Met(q))
    BY MetIs
<1>4. Total(Only(u, Met(q))) = TokensOf(rows) /\ Numbers(u, Met(q))
    <2>1. \A b \in Met(q) : u[b] = TokensOf(OfKey(rows, at, b))
        OBVIOUS
    <2>. HIDE DEF u, at, rows
    <2>. QED  BY <1>1, <1>2, <1>3, <2>1, RowsByKey
<1>5. /\ Total(Only(v, Met(q))) + LeftOut(q) = FromSnapshots(q)
      /\ Numbers(v, Met(q)) /\ LeftOut(q) \in Int /\ FromSnapshots(q) \in Int
    <2>1. \A b \in Met(q) : v[b] = Total([s \in SnapshotsRead(q) |-> PlacedAt(q, s, b)])
        OBVIOUS
    <2>. HIDE DEF v
    <2>. QED  BY <2>1, SnapshotsArePlaced
<1>6. Total(Only(f, Met(q))) = Total(Only(u, Met(q))) + Total(Only(v, Met(q))) /\ Numbers(f, Met(q))
    <2>1. \A b \in Met(q) : f[b] = u[b] + v[b]
        OBVIOUS
    <2>. HIDE DEF f, u, v
    <2>2. Numbers(f, Met(q))
        BY <1>4, <1>5, <2>1 DEF Numbers
    <2>. QED  BY <1>4, <1>5, <2>1, <2>2, TotalAdds
<1>7. \A b \in Met(q) : g[name[b]] = f[b]
    <2>. TAKE b \in Met(q)
    <2>1. PeriodOf(b, q) \in Periods(q) /\ PeriodOf(b, q).aligned = b
        BY PeriodsAre
    <2>2. OfKey(rows, at, b) = {r \in rows : AlignedAt(r.at, q) = b}
        BY DEF OfKey
    <2>3. Point(q, PeriodOf(b, q)) = u[b] + v[b]
        BY <2>1, <2>2 DEF Point, PlacedAt, SnapshotsRead
    <2>. QED  BY <2>1, <2>3
<1>8. Periods(q) = {name[b] : b \in Met(q)} /\ \A b, c \in Met(q) : name[b] = name[c] => b = c
    <2>1. \A b \in Met(q) : name[b] = PeriodOf(b, q) /\ name[b].aligned = b
        BY PeriodsAre
    <2>2. \A b, c \in Met(q) : name[b] = name[c] => b = c
        BY <2>1
    <2>3. Periods(q) = {name[b] : b \in Met(q)}
        BY PeriodsAre
    <2>. QED  BY <2>2, <2>3
<1>9. Only(g, Periods(q)) = g
    BY DEF Only
<1>10. Total(Only(g, Periods(q))) = Total(Only(f, Met(q)))
    <2>. HIDE DEF f, g, name
    <2>. QED  BY <1>6, <1>7, <1>8, TotalRenamed
<1>11. Total(Only(u, Met(q))) \in Int /\ Total(Only(v, Met(q))) \in Int
    BY <1>4, <1>5, TotalInt
<1>. HIDE DEF u, v, f, rows, g
<1>12. Total(g) + LeftOut(q) = TokensOf(rows) + FromSnapshots(q)
    BY <1>4, <1>5, <1>6, <1>9, <1>10, <1>11
<1>. QED  BY <1>12 DEF g, rows
\* The headline adds its rows and its snapshots.
LEMMA HeadlineIs ==
    ASSUME NEW q
    PROVE  /\ Headline(q).snapshot = FromSnapshots(q) /\ Headline(q).excluded = LeftOut(q)
           /\ Headline(q).tokens = TokensOf(HeadlineRows(q)) + FromSnapshots(q)
<1>1. CASE Overview(q)
    BY <1>1 DEF Headline, FromSnapshots, LeftOut, SnapshotsRead, SnapshotTokens
<1>2. CASE ~Overview(q)
    <2>. DEFINE out == [s \in {} |-> Unplaced(q, s)]
                all == [s \in {} |-> MergedTokens(q, s)]
    <2>1. Only(out, {}) = out /\ Only(all, {}) = all
        BY DEF Only
    <2>2. Numbers(out, {}) /\ Numbers(all, {})
        BY FS_EmptySet DEF Numbers
    <2>3. LeftOut(q) = Total(out) /\ FromSnapshots(q) = Total(all)
        BY <1>2 DEF LeftOut, FromSnapshots, SnapshotsRead
    <2>. HIDE DEF out, all
    <2>4. Total(out) = 0 /\ Total(all) = 0
        BY <2>1, <2>2, TotalInt
    <2>. QED  BY <1>2, <2>3, <2>4 DEF Headline
<1>. QED  BY <1>1, <1>2

\* The calls of each tool add up to the calls, and no call has the name of the synthetic row.
CallsOf(card) == [k \in DOMAIN card |-> card[k].own + card[k].children]

LEMMA ToolsAddUp ==
    ASSUME db \in Databases, NEW q \in Queries
    PROVE  /\ Total(CallsOf(ToolCard(q))) = Cardinality(Invocations(q))
           /\ Synthetic \in DOMAIN ToolCard(q) => ToolCard(q)[Synthetic].own = 0
<1>. DEFINE I == Invocations(q)
            key == [i \in I |-> ToolRow(q, i)]
            K == {key[i] : i \in I}
            g == CallsOf(ToolCard(q))
            one == [i \in I |-> 1]
            own(k) == {i \in OfKey(I, key, k) : Nesting(q, i) = "top"}
            below(k) == {i \in OfKey(I, key, k) : Nesting(q, i) # "top"}
<1>1. I \in SUBSET db.invocations
    BY DEF Invocations
<1>2. IsFiniteSet(I) /\ \A i \in I : i.tool # Synthetic[1]
    BY <1>1, FS_Subset, ReadAssumption DEF TablesAreSound
<1>3. K = {ToolRow(q, i) : i \in I}
    OBVIOUS
<1>4. \A k : OfKey(I, key, k) = {i \in I : ToolRow(q, i) = k}
    BY DEF OfKey
<1>5. ToolCard(q) = [k \in K |-> [own |-> Cardinality(own(k)), children |-> Cardinality(below(k))]]
    BY <1>3, <1>4 DEF ToolCard
<1>6. DOMAIN g = K /\ \A k \in K : g[k] = Cardinality(own(k)) + Cardinality(below(k))
    BY <1>5 DEF CallsOf
<1>7. ASSUME NEW k \in K PROVE g[k] = Total(Only(one, OfKey(I, key, k)))
    <2>. DEFINE U == OfKey(I, key, k)
    <2>1. U \in SUBSET I /\ own(k) \in SUBSET U /\ below(k) = U \ own(k)
        BY DEF OfKey
    <2>2. \A T \in SUBSET I : IsFiniteSet(T) /\ Numbers(one, T) /\ \A i \in T : one[i] = 1
        BY <1>2, FS_Subset DEF Numbers
    <2>3. own(k) \in SUBSET I /\ below(k) \in SUBSET I
        BY <2>1
    <2>. HIDE DEF U, own, below, one
    <2>4. /\ Total(Only(one, own(k))) = Cardinality(own(k))
          /\ Total(Only(one, U \ own(k))) = Cardinality(below(k))
        BY <2>1, <2>2, <2>3, TotalOnes
    <2>5. Total(Only(one, U)) = Total(Only(one, own(k))) + Total(Only(one, U \ own(k)))
        BY <2>1, <2>2, TotalParts
    <2>. QED  BY <1>6, <2>4, <2>5 DEF U
<1>8. Only(g, K) = g
    BY <1>6 DEF Only, CallsOf
<1>9. Total(g) = Cardinality(I)
    <2>1. \A i \in I : key[i] \in K /\ one[i] = 1
        OBVIOUS
    <2>2. Numbers(one, I)
        BY <1>2 DEF Numbers
    <2>3. IsFiniteSet(K)
        <3>. HIDE DEF I, key
        <3>. QED  BY <1>2, ValuesFinite
    <2>. HIDE DEF I, key, K, g, one
    <2>4. Total(Only(g, K)) = Total(Only(one, I))
        BY <1>7, <2>1, <2>2, <2>3, TotalByKey
    <2>5. Total(Only(one, I)) = Cardinality(I)
        BY <1>2, <2>1, TotalOnes
    <2>. QED  BY <1>8, <2>4, <2>5
<1>10. ASSUME Synthetic \in DOMAIN ToolCard(q) PROVE ToolCard(q)[Synthetic].own = 0
    <2>1. Synthetic \in K /\ ToolCard(q)[Synthetic].own = Cardinality(own(Synthetic))
        BY <1>5, <1>10
    <2>2. own(Synthetic) = {}
        <3>. SUFFICES ASSUME NEW i \in I, ToolRow(q, i) = Synthetic, Nesting(q, i) = "top" PROVE FALSE
            BY <1>4
        <3>1. ToolRow(q, i) = <<i.tool, i.class>>
            BY DEF ToolRow
        <3>2. Synthetic[1] = i.tool
            BY <3>1
        <3>. QED  BY <1>2, <3>2
    <2>. QED  BY <2>1, <2>2, FS_EmptySet
<1>. QED  BY <1>9, <1>10

\* What an answer must say to add up.
LEMMA AnswerAddsUp ==
    ASSUME db \in Databases, NEW q \in Queries
    PROVE  /\ Total([p \in Periods(q) |-> Point(q, p)]) + Headline(q).excluded = Headline(q).tokens
           /\ Total(ByModel(q)) + Headline(q).snapshot = Headline(q).tokens
BY HeadlineIs, PointsAddUp, ModelsAddUp

\* With the tables, what is read of them stays.
LEMMA ReadsStay ==
    ASSUME UNCHANGED <<db, query>>
    PROVE  \A q : /\ Accounts(q)' = Accounts(q) /\ Requests(q)' = Requests(q) /\ Matching(q)' = Matching(q)
                  /\ Invocations(q)' = Invocations(q)
<1>1. \A q : Accounts(q)' = Accounts(q)
    BY DEF Accounts
<1>2. \A q : Requests(q)' = Requests(q)
    BY <1>1 DEF Requests
<1>3. \A r : MembershipOf(r)' = MembershipOf(r)
    BY DEF MembershipOf
<1>4. \A r : ProjectState(r)' = ProjectState(r)
    BY <1>3 DEF ProjectState
<1>5. \A r : ProjectFilter(r)' = ProjectFilter(r)
    BY <1>3, <1>4 DEF ProjectFilter
<1>6. \A r : LabelsOf(r)' = LabelsOf(r)
    BY DEF LabelsOf
<1>7. \A r : DisplayRole(r)' = DisplayRole(r) /\ DisplayName(r)' = DisplayName(r)
    BY <1>6 DEF DisplayRole, DisplayName
<1>8. \A r : AgentGroup(r)' = AgentGroup(r)
    BY <1>7 DEF AgentGroup
<1>9. \A q, r : Matches(q, r)' = Matches(q, r)
    BY <1>4, <1>5, <1>7, <1>8 DEF Matches
<1>10. \A q : Matching(q)' = Matching(q)
    BY <1>2, <1>9 DEF Matching
<1>11. \A q : AgentKeys(q)' = AgentKeys(q)
    BY <1>1, <1>8 DEF AgentKeys
<1>12. \A q, i : InScope(q, i)' = InScope(q, i)
    BY <1>1, <1>11 DEF InScope
<1>13. \A q : Invocations(q)' = Invocations(q)
    BY <1>10, <1>12 DEF Invocations
<1>. QED  BY <1>1, <1>2, <1>10, <1>13

\* The points of the series, the models and the tool rows of every answer add up to its
\* headline.
THEOREM CardsHold == ReadSpec => []CardsAddUp
<1>1. FillTables => CardsAddUp
    BY DEF FillTables, CardsAddUp, NoAnswer
<1>2. Asked /\ CardsAddUp /\ [UsageQuery]_queryVars => CardsAddUp'
    <2>. SUFFICES ASSUME Asked, CardsAddUp, [UsageQuery]_queryVars PROVE CardsAddUp'
        OBVIOUS
    <2>1. UNCHANGED <<db, query>>
        BY DEF UsageQuery, queryVars
    <2>2. Invocations(query)' = Invocations(query)
        BY <2>1, ReadsStay
    <2>3. CASE UNCHANGED queryVars
        BY <2>2, <2>3 DEF CardsAddUp, queryVars
    <2>4. CASE UsageQuery
        <3>1. PICK h, p, m, t : /\ h = Headline(query) /\ p = [x \in Periods(query) |-> Point(query, x)]
                                /\ m = ByModel(query) /\ t = ToolCard(query)
            OBVIOUS
        <3>2. /\ answer'.headline = h /\ answer'.points = p /\ answer'.models = m /\ answer'.tools = t
            BY <2>4, <3>1 DEF UsageQuery
        <3>3. Total(p) + h.excluded = h.tokens /\ Total(m) + h.snapshot = h.tokens
            BY <3>1, AnswerAddsUp DEF Asked
        <3>4. /\ Total(CallsOf(t)) = Cardinality(Invocations(query))
              /\ Synthetic \in DOMAIN t => t[Synthetic].own = 0
            BY <3>1, ToolsAddUp DEF Asked
        <3>. QED  BY <2>2, <3>2, <3>3, <3>4 DEF CardsAddUp, CallsOf
    <2>. QED  BY <2>3, <2>4
<1>. QED  BY <1>1, <1>2, AskedHolds, PTL DEF ReadSpec
-----------------------------------------------------------------------------
(* A row of a card selects itself.                                         *)

\* And the headline of every query.
LEMMA ReadStays ==
    ASSUME UNCHANGED <<db, query>>
    PROVE  \A q : Headline(q)' = Headline(q)
<1>1. \A q : /\ Accounts(q)' = Accounts(q) /\ Requests(q)' = Requests(q) /\ Matching(q)' = Matching(q)
    BY ReadsStay
<1>2. \A S : CanonicalBuckets(S)' = CanonicalBuckets(S)
    BY DEF CanonicalBuckets
<1>3. \A q : Buckets(q)' = Buckets(q) /\ CoveredMonths(q)' = CoveredMonths(q)
    BY <1>1, <1>2 DEF Buckets, CoveredMonths
<1>4. \A q : Snapshots(q)' = Snapshots(q)
    BY DEF Snapshots
<1>5. \A q, s : Excluded(q, s)' = Excluded(q, s) /\ SameZone(q, s)' = SameZone(q, s)
    BY <1>1, <1>3 DEF Excluded, SameZone
<1>6. \A q, s : PlacedDates(q, s)' = PlacedDates(q, s)
    BY <1>5 DEF PlacedDates
<1>7. \A q, s : MergedTokens(q, s)' = MergedTokens(q, s) /\ Unplaced(q, s)' = Unplaced(q, s)
    BY <1>5, <1>6 DEF MergedTokens, Unplaced
<1>8. \A q : SnapshotTokens(q)' = SnapshotTokens(q)
    BY <1>4, <1>7 DEF SnapshotTokens
<1>9. \A q : HeadlineRows(q)' = HeadlineRows(q)
    BY <1>1, <1>3 DEF HeadlineRows
<1>. QED  BY <1>1, <1>3, <1>4, <1>7, <1>8, <1>9 DEF Headline

\* Under a filter of details the headline is what the requests add up to.
LEMMA NarrowedHeadline ==
    ASSUME db \in Databases, NEW q, DetailFilters(q), Detail(q)
    PROVE  Headline(q).tokens = TokensOf(Matching(q))
<1>. DEFINE M == Matching(q)
            name == [r \in M |-> [id |-> r.id, at |-> r.at, model |-> r.model,
                                  tokens |-> r.tokens, calls |-> 1]]
            rows == HeadlineRows(q)
            all == [s \in SnapshotsRead(q) |-> MergedTokens(q, s)]
<1>1. TablesAreSound(db)
    BY ReadAssumption
<1>2. FromSnapshots(q) = 0
    <2>1. SnapshotsRead(q) \in SUBSET db.snapshots
        BY DEF SnapshotsRead, Snapshots
    <2>2. IsFiniteSet(SnapshotsRead(q))
        BY <1>1, <2>1, FS_Subset DEF TablesAreSound
    <2>3. \A s \in SnapshotsRead(q) : all[s] = 0
        BY DEF MergedTokens, Excluded
    <2>4. Only(all, SnapshotsRead(q)) = all
        BY DEF Only
    <2>5. FromSnapshots(q) = Total(all)
        BY DEF FromSnapshots
    <2>. HIDE DEF all
    <2>. QED  BY <2>2, <2>3, <2>4, <2>5, TotalZeros
<1>3. M \in SUBSET db.requests
    BY DEF Matching, Requests
<1>4. /\ IsFiniteSet(M) /\ \A r \in M : r.tokens \in Int
      /\ \A r, o \in M : r.id = o.id => r = o
    BY <1>1, <1>3, FS_Subset DEF TablesAreSound
<1>5. rows = {name[r] : r \in M}
    BY DEF HeadlineRows
<1>6. \A r \in M : name[r].id = r.id /\ name[r].tokens = r.tokens
    OBVIOUS
<1>7. \A r, o \in M : name[r] = name[o] => r = o
    <2>. HIDE DEF M, name
    <2>. QED  BY <1>4, <1>6
<1>8. \A r \in M : Tokens(rows)[name[r]] = Tokens(M)[r]
    <2>. HIDE DEF M, name, rows
    <2>. QED  BY <1>5, <1>6 DEF Tokens
<1>9. Numbers(Tokens(M), M)
    BY <1>4 DEF Numbers, Tokens
<1>10. Total(Only(Tokens(rows), rows)) = Total(Only(Tokens(M), M))
    <2>. HIDE DEF M, name, rows
    <2>. QED  BY <1>5, <1>7, <1>8, <1>9, TotalRenamed
<1>11. TokensOf(rows) = TokensOf(M)
    BY <1>10, TokensOfIs
<1>12. TokensOf(M) \in Int
    BY <1>9, TotalInt, TokensOfIs
<1>. QED  BY <1>2, <1>11, <1>12, HeadlineIs

\* The fields of a query that say which requests are in its range.
SameSpan(p, q) ==
    /\ p.preset = q.preset /\ p.from = q.from /\ p.to = q.to /\ p.zone = q.zone
    /\ p.accounts = q.accounts /\ p.providers = q.providers
    /\ p.models = q.models /\ p.machines = q.machines

LEMMA SameRequests ==
    ASSUME NEW p, NEW q, SameSpan(p, q)
    PROVE  Requests(p) = Requests(q)
<1>1. ResolvedRange(p) = ResolvedRange(q)
    BY DEF SameSpan, ResolvedRange
<1>2. Accounts(p) = Accounts(q)
    BY DEF SameSpan, Accounts
<1>3. \A r : OfModel(p, r) = OfModel(q, r) /\ OfMachine(p, r) = OfMachine(q, r)
    BY DEF SameSpan, OfModel, OfMachine
<1>. QED  BY <1>1, <1>2, <1>3 DEF Requests

\* A query with one of its detail filters replaced.
LEMMA FilterReplaced ==
    ASSUME NEW q \in Queries, NEW field \in {"projects", "agents", "scope"}, NEW v,
           NEW p, p = Narrowed(q, field, v)
    PROVE  /\ Requests(p) = Requests(q) /\ (Detail(p) <=> Detail(q))
           /\ p.efforts = q.efforts /\ p.surfaces = q.surfaces
           /\ p.projects = (IF field = "projects" THEN v ELSE q.projects)
           /\ p.agents = (IF field = "agents" THEN v ELSE q.agents)
           /\ p.scope = (IF field = "scope" THEN v ELSE q.scope)
<1>1. DOMAIN q = QueryFields
    BY ReadAssumption DEF QueryIsSound
<1>2. SameSpan(p, q) /\ p.section = q.section
    BY <1>1 DEF SameSpan, QueryFields, Narrowed
<1>3. Requests(p) = Requests(q)
    BY <1>2, SameRequests
<1>4. Detail(p) <=> Detail(q)
    BY <1>2 DEF Detail
<1>5. /\ p.efforts = q.efforts /\ p.surfaces = q.surfaces
      /\ p.projects = (IF field = "projects" THEN v ELSE q.projects)
      /\ p.agents = (IF field = "agents" THEN v ELSE q.agents)
      /\ p.scope = (IF field = "scope" THEN v ELSE q.scope)
    BY <1>1 DEF QueryFields, Narrowed
<1>. QED  BY <1>3, <1>4, <1>5

\* The filter of a project's row says the state of its requests.
LEMMA FilterSaysState ==
    ASSUME NEW r
    PROVE  /\ ProjectFilter(r)[1] = ProjectState(r)
           /\ ProjectFilter(r) # AllNotReported
<1>1. ProjectFilter(r)[1] = ProjectState(r)
    BY DEF ProjectFilter
<1>2. ASSUME ProjectFilter(r) = AllNotReported PROVE FALSE
    <2>0. AllNotReported[1] = "not_reported" /\ AllNotReported[2] = NoInstall
        BY DEF AllNotReported, NoInstall
    <2>1. ProjectState(r) = "not_reported"
        BY <1>1, <1>2, <2>0
    <2>2. ProjectFilter(r) = <<"not_reported", r.install>>
        BY <2>1 DEF ProjectFilter
    <2>3. r.install = NoInstall
        <3>1. ProjectFilter(r)[2] = r.install
            BY <2>2
        <3>. QED  BY <1>2, <2>0, <3>1
    <2>4. ProjectState(r) = "unknown"
        BY <2>3 DEF ProjectState
    <2>. QED  BY <2>1, <2>4
<1>. QED  BY <1>1, <1>2

\* A row of the project card.
LEMMA ProjectRow ==
    ASSUME db \in Databases, NEW q \in Queries, Detail(q), NEW one \in Matching(q),
           NEW k, k = ProjectFilter(one)
    PROVE  Headline(Narrowed(q, "projects", {k})).tokens = TokensOf({r \in Matching(q) : ProjectFilter(r) = k})
<1>1. PICK p : p = Narrowed(q, "projects", {k})
    OBVIOUS
<1>2. /\ Requests(p) = Requests(q) /\ Detail(p)
      /\ p.efforts = q.efforts /\ p.surfaces = q.surfaces /\ p.projects = {k}
      /\ p.agents = q.agents /\ p.scope = q.scope
    BY <1>1, FilterReplaced
<1>3. DetailFilters(p)
    BY <1>2 DEF DetailFilters
<1>4. AllNotReported # k
    BY FilterSaysState
<1>5. \A r \in Requests(q) : Matches(p, r) <=> Matches(q, r) /\ ProjectFilter(r) = k
    <2>. TAKE r \in Requests(q)
    <2>1. ASSUME ProjectFilter(r) = k, q.projects # {}
          PROVE  \/ ProjectFilter(r) \in q.projects
                 \/ AllNotReported \in q.projects /\ ProjectState(r) = "not_reported"
        <3>1. ProjectState(r) = ProjectState(one)
            BY <2>1, FilterSaysState
        <3>. QED  BY <2>1, <3>1 DEF Matching, Matches
    <2>2. (/\ p.projects # {} =>
                 \/ ProjectFilter(r) \in p.projects
                 \/ AllNotReported \in p.projects /\ ProjectState(r) = "not_reported")
          <=> ProjectFilter(r) = k
        BY <1>2, <1>4
    <2>. QED  BY <1>2, <2>1, <2>2 DEF Matches
<1>6. Matching(p) = {r \in Matching(q) : ProjectFilter(r) = k}
    BY <1>2, <1>5 DEF Matching
<1>. QED  BY <1>1, <1>2, <1>3, <1>6, NarrowedHeadline

\* A row of the agent card.
LEMMA AgentRow ==
    ASSUME db \in Databases, NEW q \in Queries, Detail(q), NEW one \in Matching(q),
           NEW k, k = AgentGroup(one)
    PROVE  Headline(Narrowed(q, "agents", {k})).tokens = TokensOf({r \in Matching(q) : AgentGroup(r) = k})
<1>1. PICK p : p = Narrowed(q, "agents", {k})
    OBVIOUS
<1>2. /\ Requests(p) = Requests(q) /\ Detail(p)
      /\ p.efforts = q.efforts /\ p.surfaces = q.surfaces /\ p.projects = q.projects
      /\ p.agents = {k} /\ p.scope = q.scope
    BY <1>1, FilterReplaced
<1>3. DetailFilters(p)
    BY <1>2 DEF DetailFilters
<1>4. q.agents # {} => k \in q.agents
    BY DEF Matching, Matches
<1>5. \A r \in Requests(q) : Matches(p, r) <=> Matches(q, r) /\ AgentGroup(r) = k
    BY <1>2, <1>4 DEF Matches
<1>6. Matching(p) = {r \in Matching(q) : AgentGroup(r) = k}
    BY <1>2, <1>5 DEF Matching
<1>. QED  BY <1>1, <1>2, <1>3, <1>6, NarrowedHeadline

\* The agent rows of a role.
LEMMA RoleRows ==
    ASSUME db \in Databases, NEW q \in Queries, Detail(q), q.scope = "all", NEW role \in {"main", "subagent"},
           NEW card, card = AgentCard(q)
    PROVE  Headline(Narrowed(q, "scope", role)).tokens
              = Total([k \in {x \in DOMAIN card : x[2] = role} |-> card[k]])
<1>. DEFINE rows == {r \in Matching(q) : DisplayRole(r) = role}
            key == [r \in rows |-> AgentGroup(r)]
            K == {x \in DOMAIN card : x[2] = role}
            groups == {AgentGroup(r) : r \in Matching(q)}
<1>1. PICK p : p = Narrowed(q, "scope", role)
    OBVIOUS
<1>2. /\ Requests(p) = Requests(q) /\ Detail(p)
      /\ p.efforts = q.efforts /\ p.surfaces = q.surfaces /\ p.projects = q.projects
      /\ p.agents = q.agents /\ p.scope = role
    BY <1>1, FilterReplaced
<1>3. DetailFilters(p)
    BY <1>2 DEF DetailFilters
<1>4. \A r \in Requests(q) : Matches(p, r) <=> Matches(q, r) /\ DisplayRole(r) = role
    BY <1>2 DEF Matches
<1>5. Matching(p) = rows
    BY <1>2, <1>4 DEF Matching
<1>6. Headline(p).tokens = TokensOf(rows)
    BY <1>2, <1>3, <1>5, NarrowedHeadline
<1>7. /\ DOMAIN card = groups
      /\ \A k \in groups : card[k] = TokensOf({r \in Matching(q) : AgentGroup(r) = k})
    BY DEF AgentCard, Card
<1>8. Matching(q) \in SUBSET db.requests
    BY DEF Matching, Requests
<1>9. IsFiniteSet(Matching(q)) /\ \A r \in Matching(q) : r.tokens \in Nat
    BY <1>8, FS_Subset, ReadAssumption DEF TablesAreSound
<1>10. IsFiniteSet(rows) /\ \A r \in rows : r.tokens \in Nat
    <2>1. rows \in SUBSET Matching(q)
        OBVIOUS
    <2>. QED  BY <1>9, <2>1, FS_Subset
<1>11. IsFiniteSet(K)
    <2>. DEFINE of == [r \in Matching(q) |-> AgentGroup(r)]
    <2>1. groups = {of[r] : r \in Matching(q)} /\ K \in SUBSET groups
        BY <1>7
    <2>2. IsFiniteSet(groups)
        <3>. HIDE DEF groups, of
        <3>. QED  BY <1>9, <2>1, ValuesFinite
    <2>. QED  BY <2>1, <2>2, FS_Subset
<1>12. \A r : AgentGroup(r)[2] = DisplayRole(r)
    BY DEF AgentGroup
<1>13. \A r \in rows : key[r] \in K
    BY <1>7, <1>12
<1>14. \A k \in K : card[k] = TokensOf(OfKey(rows, key, k))
    <2>. TAKE k \in K
    <2>1. OfKey(rows, key, k) = {r \in Matching(q) : AgentGroup(r) = k}
        BY <1>12 DEF OfKey
    <2>. QED  BY <1>7, <2>1
<1>15. Only(card, K) = [k \in K |-> card[k]]
    BY DEF Only
<1>16. Total(Only(card, K)) = TokensOf(rows)
    <2>. HIDE DEF rows, key, K
    <2>. QED  BY <1>10, <1>11, <1>13, <1>14, RowsByKey
<1>. QED  BY <1>1, <1>6, <1>15, <1>16

\* What an answer must say for its rows to select themselves.
LEMMA CardsSelect ==
    ASSUME db \in Databases, NEW q \in Queries
    PROVE  /\ \A k \in DOMAIN ProjectCard(q) :
                Headline(Narrowed(q, "projects", {k})).tokens = ProjectCard(q)[k]
           /\ \A k \in DOMAIN AgentCard(q) :
                Headline(Narrowed(q, "agents", {k})).tokens = AgentCard(q)[k]
<1>1. ASSUME NEW k \in DOMAIN ProjectCard(q)
      PROVE  Headline(Narrowed(q, "projects", {k})).tokens = ProjectCard(q)[k]
    <2>1. Detail(q) /\ \E one \in Matching(q) : k = ProjectFilter(one)
        BY DEF ProjectCard, Card
    <2>2. ProjectCard(q)[k] = TokensOf({r \in Matching(q) : ProjectFilter(r) = k})
        BY <2>1 DEF ProjectCard, Card
    <2>. QED  BY <2>1, <2>2, ProjectRow
<1>2. ASSUME NEW k \in DOMAIN AgentCard(q)
      PROVE  Headline(Narrowed(q, "agents", {k})).tokens = AgentCard(q)[k]
    <2>1. Detail(q) /\ \E one \in Matching(q) : k = AgentGroup(one)
        BY DEF AgentCard, Card
    <2>2. AgentCard(q)[k] = TokensOf({r \in Matching(q) : AgentGroup(r) = k})
        BY <2>1 DEF AgentCard, Card
    <2>. QED  BY <2>1, <2>2, AgentRow
<1>. QED  BY <1>1, <1>2

\* The property, of an answer.
SelectedBy(given) ==
    /\ \A k \in DOMAIN given.projects : Headline(Narrowed(query, "projects", {k})).tokens = given.projects[k]
    /\ \A k \in DOMAIN given.agents : Headline(Narrowed(query, "agents", {k})).tokens = given.agents[k]
    /\ (query.scope = "all" /\ Detail(query)) =>
          \A r \in {"main", "subagent"} :
              Headline(Narrowed(query, "scope", r)).tokens
                 = Total([k \in {x \in DOMAIN given.agents : x[2] = r} |-> given.agents[k]])

LEMMA SelectedIs == RowsSelectThemselves <=> (answer.done => SelectedBy(answer))
BY DEF RowsSelectThemselves, SelectedBy

\* Every row of an answer's project and agent cards is what asking with its filter value
\* gives, and the rows of a role together what asking for the role gives.
THEOREM RowsSelect == ReadSpec => []RowsSelectThemselves
<1>1. FillTables => (answer.done => SelectedBy(answer))
    BY DEF FillTables, NoAnswer
<1>2. Asked /\ (answer.done => SelectedBy(answer)) /\ [UsageQuery]_queryVars
         => (answer.done => SelectedBy(answer))'
    <2>. SUFFICES ASSUME Asked, answer.done => SelectedBy(answer), [UsageQuery]_queryVars, answer'.done
                  PROVE  SelectedBy(answer)'
        OBVIOUS
    <2>1. UNCHANGED <<db, query>>
        BY DEF UsageQuery, queryVars
    <2>2. \A q : Headline(q)' = Headline(q)
        BY <2>1, ReadStays
    <2>3. CASE UNCHANGED queryVars
        BY <2>2, <2>3 DEF SelectedBy, queryVars
    <2>4. CASE UsageQuery
        <3>1. PICK p, a : p = ProjectCard(query) /\ a = AgentCard(query)
            OBVIOUS
        <3>2. answer'.projects = p /\ answer'.agents = a
            BY <2>4, <3>1 DEF UsageQuery
        <3>3. /\ \A k \in DOMAIN p : Headline(Narrowed(query, "projects", {k})).tokens = p[k]
              /\ \A k \in DOMAIN a : Headline(Narrowed(query, "agents", {k})).tokens = a[k]
            BY <3>1, CardsSelect DEF Asked
        <3>4. ASSUME query.scope = "all", Detail(query), NEW r \in {"main", "subagent"}
              PROVE  Headline(Narrowed(query, "scope", r)).tokens
                        = Total([k \in {x \in DOMAIN a : x[2] = r} |-> a[k]])
            BY <3>1, <3>4, RoleRows DEF Asked
        <3>. QED  BY <2>1, <2>2, <3>2, <3>3, <3>4 DEF SelectedBy
    <2>. QED  BY <2>3, <2>4
<1>. QED  BY <1>1, <1>2, AskedHolds, SelectedIs, PTL DEF ReadSpec

=============================================================================
