------------------------------- MODULE ReadPath -------------------------------
(***************************************************************************)
(* A read of a page of kit-board, from the page to the database and back:  *)
(* the queue in front of the only connection (lib/database-queue.ts,       *)
(* db.ts), the caches of the process (lib/read-cache.ts and the query cache*)
(* of usage-query.ts), and the pages that poll: a registry page, which     *)
(* also writes (components/registry.tsx, companion-installs.tsx), and the  *)
(* Tokens page with its sections (tokens-overview.tsx).                    *)
(*                                                                         *)
(* What is read is the number of registry writes that had committed.  One  *)
(* server process; the owner may edit from another tab of it.              *)
(***************************************************************************)
EXTENDS Integers, Sequences, FiniteSets, SequencesExt

CONSTANTS
    QueryNames,     \* filters of the Tokens page
    LaterSections,  \* the sections after "overview"
    Capacity,       \* jobs the queue holds
    CacheMax        \* answers the query cache holds

Sections == {"overview"} \cup LaterSections
NoQuery == ""

ASSUME PathAssumption == NoQuery \notin QueryNames /\ IsFiniteSet(LaterSections)

VARIABLES
    data,           \* registry writes committed
    jobs, stage,    \* the queue, oldest first, and what its head is at
    open,           \* jobs whose work has a connection
    results,        \* what became of every job ever queued
    registry,       \* readCache of the registry
    answers,        \* the Map of createUsageQueryCache, its entries with their places
    sent,       \* every request ever sent
    acked,          \* the newest write that was answered
    shown,          \* what the registry page shows
    tokens,         \* the Tokens page
    clientCache,    \* its cache, by filter and section
    spare            \* bounds: what the owner and the faults may still do

pathVars == <<data, jobs, stage, open, results, registry, answers, sent, acked,
              shown, tokens, clientCache, spare>>
serverVars == <<data, jobs, stage, open, results, registry, answers, acked>>
pageVars == <<shown, tokens, clientCache>>

\* Beside the values that are read.
Awaiting == -1
Failed == -2
None == -3
Part(q, value) == [query |-> q, value |-> value]
NoPart == Part(NoQuery, None)

Use(what) == spare[what] > 0 /\ spare' = [spare EXCEPT ![what] = @ - 1]
-----------------------------------------------------------------------------
(* DatabaseQueue and createDatabase.                                       *)

\* A job that finds the queue full is refused at once, as DB_BUSY.
Full == Len(jobs) >= Capacity
Job(kind, key) == [id |-> Len(results) + 1, kind |-> kind, key |-> key, at |-> None,
                   sources |-> None, generation |-> registry.generation, waited |-> jobs # <<>>]
Queue(kind, key) ==
    /\ jobs' = IF Full THEN jobs ELSE Append(jobs, Job(kind, key))
    /\ results' = Append(results, IF Full THEN Failed ELSE Awaiting)

StartJob ==
    /\ stage = "idle" /\ jobs # <<>>
    /\ stage' = "work" /\ open' = open \cup {Head(jobs).id}
    /\ UNCHANGED <<data, jobs, results, registry, answers, acked, sent, pageVars, spare>>

\* In the database: a read sees what has committed, a write commits.  A load of
\* the registry is as old as the first of its two reads, the one of the sources.
Execute ==
    /\ jobs # <<>> /\ Head(jobs).id \in open /\ Head(jobs).at = None
    /\ data' = IF Head(jobs).kind = "write" THEN data + 1 ELSE data
    /\ jobs' = [jobs EXCEPT ![1].at = IF Head(jobs).sources = None THEN data' ELSE Head(jobs).sources]
    /\ UNCHANGED <<stage, open, results, registry, answers, acked, sent, pageVars, spare>>

\* Mutant: an older load is kept as well.
AnyLoad(job) == TRUE
\* get's then and finally: a load that began before an invalidation is not kept.
Current(job) == job.generation = registry.generation
Loaded(job, out) ==
    [registry EXCEPT !.cached = IF Current(job) /\ out # Failed THEN out ELSE @,
                     !.pending = IF @ = job.id THEN 0 ELSE @]
\* invalidate
Invalidated == [generation |-> registry.generation + 1, cached |-> None, pending |-> 0]
\* A failed load leaves the cache if it is still the one there.
Without(id) == {e \in answers : e.load # id}

\* What the callers of the job, and the callbacks they spare, see and do; a write
\* is followed by updateKnowledgeSources' invalidations before it is answered.
Settle(job, out) ==
    /\ results' = [results EXCEPT ![job.id] = out]
    /\ CASE job.kind = "registry" -> registry' = Loaded(job, out) /\ UNCHANGED <<answers, acked>>
         [] job.kind = "query" ->
              /\ answers' = IF out = Failed THEN Without(job.id) ELSE answers
              /\ UNCHANGED <<registry, acked>>
         [] job.kind = "write" /\ out # Failed ->
              registry' = Invalidated /\ answers' = {} /\ acked' = out
         [] OTHER -> UNCHANGED <<registry, answers, acked>>
    /\ jobs' = Tail(jobs) /\ stage' = "idle"

\* loadKnowledgeSources' second read is queued when the first is done.
HalfLoaded(job) == job.kind = "registry" /\ job.sources = None
QueueIdentities(job) ==
    /\ jobs' = Append(Tail(jobs), [job EXCEPT !.sources = job.at, !.at = None, !.waited = Len(jobs) > 1])
    /\ stage' = "idle"
    /\ UNCHANGED <<results, registry, answers, acked>>

FinishJob ==
    /\ stage = "work" /\ Head(jobs).at # None
    /\ IF HalfLoaded(Head(jobs)) THEN QueueIdentities(Head(jobs))
                                 ELSE Settle(Head(jobs), Head(jobs).at)
    /\ open' = open \ {Head(jobs).id}
    /\ UNCHANGED <<data, sent, pageVars, spare>>
FailJob ==
    /\ stage = "work" /\ Head(jobs).at = None /\ Use("faults")
    /\ Settle(Head(jobs), Failed) /\ open' = open \ {Head(jobs).id}
    /\ UNCHANGED <<data, sent, pageVars>>

\* The wait was too long: DB_BUSY, and the work never starts.
RefuseJob ==
    /\ stage = "idle" /\ jobs # <<>> /\ Head(jobs).waited /\ Use("faults")
    /\ Settle(Head(jobs), Failed)
    /\ UNCHANGED <<data, open, sent, pageVars>>

\* Mutant: the next job does not wait for the connection to be destroyed.
TimeOutAtOnce ==
    /\ stage = "work" /\ Use("faults")
    /\ Settle(Head(jobs), Failed)
    /\ UNCHANGED <<data, open, sent, pageVars>>
\* The budget is over: the client is dropped, and its connection destroyed before
\* the caller or the next job sees DB_TIMEOUT.  What runs on it may still commit.
TimeOut ==
    /\ stage = "work" /\ Use("faults")
    /\ stage' = "reset"
    /\ UNCHANGED <<data, jobs, open, results, registry, answers, acked, sent, pageVars>>
ResetDone ==
    /\ stage = "reset"
    /\ Settle(Head(jobs), Failed) /\ open' = open \ {Head(jobs).id}
    /\ UNCHANGED <<data, sent, pageVars, spare>>
-----------------------------------------------------------------------------
(* The routes.                                                             *)

Request(page, key) ==
    [page |-> page, key |-> key, load |-> 0, reply |-> Awaiting, since |-> acked,
     live |-> TRUE, again |-> FALSE]
\* A new request of a page, after those of the page were aborted.
Aborted(page) == [i \in DOMAIN sent |->
    IF sent[i].page = page THEN [sent[i] EXCEPT !.live = FALSE] ELSE sent[i]]

Reply(r) == IF r.load = 0 THEN r.reply ELSE results[r.load]

\* readCache's get.
GetRegistry(i) ==
    /\ sent[i].page = "registry"
    /\ IF registry.cached # None
       THEN /\ sent' = [sent EXCEPT ![i].reply = registry.cached]
            /\ UNCHANGED <<jobs, results, registry>>
       ELSE IF registry.pending # 0
       THEN /\ sent' = [sent EXCEPT ![i].load = registry.pending]
            /\ UNCHANGED <<jobs, results, registry>>
       ELSE /\ Queue("registry", None)
            /\ sent' = [sent EXCEPT ![i].load = Len(results')]
            /\ registry' = [registry EXCEPT !.pending = IF Full THEN 0 ELSE Len(results')]
    /\ UNCHANGED answers

\* createUsageQueryCache's get: the promise is what is cached.  A full Map loses
\* its oldest entry; a key that is there keeps its place.
Oldest == {e \in answers : \A o \in answers : e.place <= o.place}
Stored(key, load) ==
    LET kept == IF Cardinality(answers) >= CacheMax THEN answers \ Oldest ELSE answers
        places == {e.place : e \in {o \in kept : o.key = key}}
    IN  {e \in kept : e.key # key}
          \cup {[key |-> key, load |-> load, fresh |-> TRUE, place |-> p] :
                   p \in IF places = {} THEN {load} ELSE places}
GetAnswer(i) ==
    LET hits == {e \in answers : e.key = sent[i].key /\ e.fresh}
    IN  /\ sent[i].page = "tokens"
        /\ IF hits # {}
           THEN /\ \E e \in hits : sent' = [sent EXCEPT ![i].load = e.load]
                /\ UNCHANGED <<jobs, results, answers>>
           ELSE /\ Queue("query", sent[i].key)
                /\ sent' = [sent EXCEPT ![i].load = Len(results')]
                /\ answers' = {e \in Stored(sent[i].key, Len(results')) :
                                 ~(Full /\ e.load = Len(results'))}
        /\ UNCHANGED registry

PutRegistry(i) ==
    /\ sent[i].page = "edit"
    /\ Queue("write", None)
    /\ sent' = [sent EXCEPT ![i].load = Len(results')]
    /\ UNCHANGED <<registry, answers>>

\* An aborted request may have reached the server all the same.
Arrive(i) ==
    /\ sent[i].load = 0 /\ sent[i].reply = Awaiting
    /\ GetRegistry(i) \/ GetAnswer(i) \/ PutRegistry(i)
    /\ UNCHANGED <<data, stage, open, acked, pageVars, spare>>

ExpireRegistry ==
    /\ registry.cached # None /\ Use("expiries")
    /\ registry' = [registry EXCEPT !.cached = None]
    /\ UNCHANGED <<data, jobs, stage, open, results, answers, acked, sent, pageVars>>
ExpireAnswer(e) ==
    /\ e.fresh /\ Use("expiries")
    /\ answers' = (answers \ {e}) \cup {[e EXCEPT !.fresh = FALSE]}
    /\ UNCHANGED <<data, jobs, stage, open, results, registry, acked, sent, pageVars>>
-----------------------------------------------------------------------------
(* The registry page: useRegistry and Registry's submit.                   *)

\* Mutant: an aborted request is shown all the same.
AbortedToo(r) == TRUE
Live(r) == r.live
Arrived(i, page) == sent[i].page = page /\ Live(sent[i]) /\ Reply(sent[i]) # Awaiting
Consumed(i) == [sent EXCEPT ![i].live = FALSE]

RefreshRegistry ==
    /\ Use("refreshes")
    /\ sent' = Append(Aborted("registry"), Request("registry", None))
    /\ UNCHANGED <<serverVars, pageVars>>

ShowRegistry(i) ==
    /\ Arrived(i, "registry")
    /\ sent' = Consumed(i)
    /\ shown' = IF Reply(sent[i]) = Failed THEN shown ELSE Reply(sent[i])
    /\ UNCHANGED <<serverVars, tokens, clientCache, spare>>

\* One edit at a time is submitted (busy), and the page refreshes when it is saved.
Submit ==
    /\ \A i \in DOMAIN sent : sent[i].page = "edit" => ~sent[i].live
    /\ Use("edits")
    /\ sent' = Append(sent, Request("edit", None))
    /\ UNCHANGED <<serverVars, pageVars>>
Saved(i) ==
    /\ sent[i].page = "edit" /\ sent[i].live /\ Reply(sent[i]) # Awaiting
    /\ sent' = IF Reply(sent[i]) = Failed THEN Consumed(i)
                   ELSE Append([Aborted("registry") EXCEPT ![i].live = FALSE],
                               Request("registry", None))
    /\ UNCHANGED <<serverVars, pageVars, spare>>

\* fetchPrivateJson: a transient failure, once; a second one is the caller's.
Retry(i) ==
    /\ sent[i].page # "edit" /\ sent[i].live /\ Use("faults")
    /\ sent' = [sent EXCEPT ![i].again = TRUE, ![i].load = 0,
                                    ![i].reply = IF sent[i].again THEN Failed ELSE Awaiting]
    /\ UNCHANGED <<serverVars, pageVars>>
-----------------------------------------------------------------------------
(* The Tokens page: an effect per filter, the overview first.              *)

Cached(q) == [s \in Sections |-> clientCache[q, s]]
Overlay(base, q, overview) ==
    [s \in Sections |-> IF s = "overview" THEN Part(q, overview)
                        ELSE IF base[s] = None THEN NoPart ELSE Part(q, base[s])]
Missing(base) == {s \in LaterSections : base[s] = None}
Ask(rs, q, ss) == rs \o SetToSeq({Request("tokens", <<q, s>>) : s \in ss})

\* Shows an overview of filter q, and asks for the sections the cache lacks.
ShowOverview(rs, q, base, overview) ==
    /\ tokens' = [query |-> q, inFlight |-> Missing(base) # {}, base |-> base,
                  parts |-> Overlay(base, q, overview), resultQuery |-> q,
                  pending |-> Missing(base), error |-> FALSE]
    /\ sent' = Ask(rs, q, Missing(base))

\* The body of refresh.
Load(rs, q) ==
    LET base == Cached(q)
    IN  IF base["overview"] # None THEN ShowOverview(rs, q, base, base["overview"])
        ELSE /\ tokens' = [tokens EXCEPT !.query = q, !.inFlight = TRUE, !.base = base]
             /\ sent' = Ask(rs, q, {"overview"})

RefreshTokens ==
    /\ ~tokens.inFlight /\ Use("polls")
    /\ Load(sent, tokens.query)
    /\ UNCHANGED <<serverVars, shown, clientCache>>

\* The effect of the old filter is torn down and the new one refreshes at once.
ChangeFilter(q) ==
    /\ q # tokens.query /\ Use("filters")
    /\ Load(Aborted("tokens"), q)
    /\ UNCHANGED <<serverVars, shown, clientCache>>

\* The other sections of the same refresh that are still awaited.
Awaited(i) == \E j \in DOMAIN sent : j # i /\ sent[j].page = "tokens" /\ sent[j].live
ShowPart(i) ==
    LET key == sent[i].key
        reply == Reply(sent[i])
    IN  /\ Arrived(i, "tokens")
        /\ clientCache' = IF reply = Failed THEN clientCache ELSE [clientCache EXCEPT ![key] = reply]
        /\ IF key[2] = "overview" /\ reply # Failed
           THEN ShowOverview(Consumed(i), key[1], tokens.base, reply)
           ELSE /\ sent' = Consumed(i)
                /\ tokens' = [tokens EXCEPT
                      !.inFlight = Awaited(i),
                      !.parts = IF reply = Failed THEN @ ELSE [@ EXCEPT ![key[2]] = Part(key[1], reply)],
                      !.pending = @ \ {key[2]},
                      !.error = @ \/ reply = Failed]
        /\ UNCHANGED <<serverVars, shown, spare>>

\* The time an entry lives, or the room of 32 entries, is over.
ExpirePart(k) ==
    /\ clientCache[k] # None /\ Use("expiries")
    /\ clientCache' = [clientCache EXCEPT ![k] = None]
    /\ UNCHANGED <<serverVars, sent, shown, tokens>>
-----------------------------------------------------------------------------
\* The pages are open, nothing was read yet.
OpenPages(query, bounds) ==
    /\ data = 0 /\ jobs = <<>> /\ stage = "idle" /\ open = {} /\ results = <<>>
    /\ registry = [generation |-> 0, cached |-> None, pending |-> 0]
    /\ answers = {} /\ sent = <<>> /\ acked = 0 /\ shown = 0
    /\ tokens = [query |-> query, inFlight |-> FALSE,
                 base |-> [s \in Sections |-> None], parts |-> [s \in Sections |-> NoPart],
                 resultQuery |-> NoQuery, pending |-> LaterSections, error |-> FALSE]
    /\ clientCache = [k \in QueryNames \X Sections |-> None]
    /\ spare = bounds

ReadNext ==
    \/ StartJob \/ Execute \/ FinishJob \/ FailJob \/ RefuseJob
    \/ TimeOut \/ ResetDone
    \/ RefreshRegistry \/ Submit \/ ExpireRegistry \/ RefreshTokens
    \/ \E i \in DOMAIN sent :
          Arrive(i) \/ ShowRegistry(i) \/ Saved(i) \/ Retry(i) \/ ShowPart(i)
    \/ \E e \in answers : ExpireAnswer(e)
    \/ \E q \in QueryNames : ChangeFilter(q)
    \/ \E k \in DOMAIN clientCache : ExpirePart(k)
-----------------------------------------------------------------------------
(* Properties.                                                             *)

\* "Supavisor must never see pipelined work": whatever timed out or was refused
\* before, at most one piece of work has a connection.
AloneOnTheConnection == Cardinality(open) <= 1

\* A read that was sent after a write was answered sees the write, through a
\* cached value, a load another request had begun, or one of its own.
OwnWritesShown ==
    \A i \in DOMAIN sent :
        Reply(sent[i]) \notin {Awaiting, Failed} => Reply(sent[i]) >= sent[i].since

\* The registry page never returns to an earlier registry, though refreshes
\* overlap; and the Tokens page shows parts of one filter only, each of which is
\* there, on its way, or replaced by an error.
PageIsWhole ==
    /\ \A s \in Sections : tokens.parts[s] # NoPart => tokens.parts[s].query = tokens.resultQuery
    /\ (tokens.resultQuery # NoQuery /\ tokens.resultQuery = tokens.query) =>
          \A s \in LaterSections : tokens.parts[s] = NoPart => s \in tokens.pending \/ tokens.error
PagesKeepTheirPlace == [][shown' >= shown /\ PageIsWhole']_<<shown, tokens>>
==============================================================================
