---------------------------- MODULE QuotaCollector ----------------------------
(***************************************************************************)
(* The browser quota collector, kit-board/browser/claude-quota: a service  *)
(* worker (background.js, collector.js, normalize.js) that reads a signed- *)
(* in Claude tab on an alarm, queues what it read in the extension's       *)
(* storage and uploads it, as an install of the Observatory (v2) and, while*)
(* an old connection is configured, on the old route (v1) as well.         *)
(*                                                                         *)
(* One collection or setup call runs at a time (`running`); between two of *)
(* its awaits the owner, the tab and the server change, and the browser may*)
(* end the worker: what is in memory is gone, the storage is not.          *)
(***************************************************************************)
EXTENDS Integers, Sequences

CONSTANTS
    ClaudeAccounts,     \* accounts the tab may be signed in to
    Usages,             \* what Claude may answer
    OutboxLimit         \* 168

Nobody == "nobody"
Absent == "absent"
EmptyHash == ""
Rows == [window : STRING, value : Int, valid : BOOLEAN]

ASSUME CollectorAssumption ==
    /\ {Nobody, Absent, EmptyHash} \cap ClaudeAccounts = {}
    /\ \A usage \in Usages : {usage.limits, usage.top, usage.extra} \subseteq Seq(Rows)
    /\ OutboxLimit \in Nat

VARIABLES
    store,      \* chrome.storage.local
    worker,     \* what collect has in memory
    tab,        \* the account of the Claude tab
    server,     \* installs of this profile, their switches and identities
    ledger,     \* records the server took on the v2 route
    fate,       \* what became of a reading on a route
    reads,      \* readings taken, numbered as they were observed
    forgot,     \* an error since the last reading may have gone unrecorded or been cleared
    left        \* bounds: what the owner and the faults may still do

collectorVars == <<store, worker, tab, server, ledger, fate, reads, forgot, left>>

NoBinding == [hash |-> EmptyHash, confirmed |-> FALSE]
NoConfig == [stop |-> Absent, hash |-> Absent]
NoError == [code |-> "none", at |-> 0]
NoReading == [id |-> 0, account |-> Nobody, windows |-> {}]
Resting == [pc |-> "idle"]

Spend(what) == left[what] > 0 /\ left' = [left EXCEPT ![what] = @ - 1]
With(record, changes) ==
    [k \in DOMAIN record |-> IF k \in DOMAIN changes THEN changes[k] ELSE record[k]]
Save(changes) == store' = With(store, changes)
\* Keys of the patch that are not in it are left alone.
Patch(patch, changes) ==
    [k \in DOMAIN patch \cup DOMAIN changes |-> IF k \in DOMAIN changes THEN changes[k] ELSE patch[k]]
Fail(patch, code) == Patch(patch, [lastError |-> [code |-> code, at |-> reads]])

Fate(route, queue, what) == {[route |-> route, id |-> queue[n].id, what |-> what] : n \in DOMAIN queue}
-----------------------------------------------------------------------------
(* normalizeQuota: one reading per window, the first row whose percent and *)
(* reset the contract takes.                                               *)

OnePerWindow(rows) ==
    LET sampled == {n \in DOMAIN rows : rows[n].valid}
    IN  {rows[n] : n \in {m \in sampled :
                           \A k \in sampled : k < m => rows[k].window # rows[m].window}}
\* Extra usage has no reset of its own: it is read against the weekly window's.
NormalizeQuota(usage) ==
    LET windows == OnePerWindow(usage.limits \o usage.top)
        extra == {row \in OnePerWindow(usage.extra) : \A w \in windows : w.window # row.window}
    IN  IF \E w \in windows : w.window = "seven_day" THEN windows \cup extra ELSE windows
-----------------------------------------------------------------------------
(* collect.                                                                *)

Continue(pc, changes) == worker' = With([worker EXCEPT !.pc = pc], changes)
PublishV2 == worker.v2 /\ worker.collect
PublishV1 == worker.state.connection
Key == worker.state.install

\* What collect starts from; it ends at once where setup is not complete.
Collecting(state) ==
    LET v2 == state.install # 0 /\ state.binding # NoBinding
    IN  IF state.pin = Nobody \/ ~(v2 \/ state.connection) THEN Resting
        ELSE [pc |-> IF v2 THEN "config" ELSE "read", state |-> state, v2 |-> v2,
              collect |-> FALSE, binding |-> state.binding, hash |-> Absent,
              reading |-> NoReading, failure |-> "none", patch |-> <<>>,
              outboxV2 |-> state.outboxV2, outbox |-> state.outbox]
BeginCollect ==
    /\ worker = Resting /\ Spend("collections")
    /\ worker' = Collecting(store)
    /\ UNCHANGED <<store, tab, server, ledger, fate, reads, forgot>>

\* settingsGate; without a document nothing is gated.
Gate(config) ==
    LET reason == IF config = NoConfig THEN "none" ELSE config.stop
    IN  Continue(IF reason = "none" THEN "confirm" ELSE "read",
             [collect |-> reason = "none", hash |-> config.hash,
              patch |-> Patch(worker.patch, [gate |-> reason])])

FetchConfig ==
    /\ worker.pc = "config"
    /\ \/ /\ server[Key].disabled
          /\ Continue("read", [patch |-> Fail(worker.patch, "unauthorized")])
          /\ UNCHANGED <<store, left>>
       \/ /\ ~server[Key].disabled
          /\ LET config == [stop |-> server[Key].stop, hash |-> server[Key].hash]
             IN  Save([config |-> config]) /\ Gate(config)
          /\ UNCHANGED left
       \/ Spend("faults") /\ Gate(worker.state.config) /\ UNCHANGED store
    /\ UNCHANGED <<tab, server, ledger, fate, reads, forgot>>

\* reconfirmIdentity's request: confirmIdentity on the server.
Confirmed(key, hash) == IF server[key].hash = EmptyHash THEN [server EXCEPT ![key].hash = hash] ELSE server
Trusted(binding) == [binding EXCEPT !.confirmed = TRUE]
BoundBy(binding) == [binding |-> binding, patch |-> Patch(worker.patch, [binding |-> binding])]
Refused(code) == [collect |-> FALSE, patch |-> Fail(worker.patch, code)]

ReconfirmIdentity ==
    /\ worker.pc = "confirm"
    /\ IF worker.hash = Absent
       THEN Continue("read", BoundBy(worker.binding)) /\ UNCHANGED <<server, left>>
       ELSE IF worker.hash = worker.binding.hash
       THEN Continue("read", BoundBy(Trusted(worker.binding))) /\ UNCHANGED <<server, left>>
       ELSE IF worker.hash # EmptyHash
       THEN Continue("read", Refused("identity_changed")) /\ UNCHANGED <<server, left>>
       ELSE \/ /\ ~server[Key].disabled /\ UNCHANGED left
               /\ server' = Confirmed(Key, worker.binding.hash)
               /\ Continue("read", IF server'[Key].hash = worker.binding.hash
                                   THEN BoundBy(Trusted(worker.binding)) ELSE Refused("identity_changed"))
            \/ /\ server[Key].disabled
               /\ Continue("read", Refused("unauthorized")) /\ UNCHANGED <<server, left>>
            \* A server fault leaves it unconfirmed, a network fault ends the v2 part.
            \/ /\ Spend("faults")
               /\ \/ Continue("read", BoundBy(worker.binding)) /\ UNCHANGED server
                  \/ /\ Continue("read", Refused("failed"))
                     /\ server' \in {server, Confirmed(Key, worker.binding.hash)}
    /\ UNCHANGED <<store, tab, ledger, fate, reads, forgot>>

ReadFails(code) ==
    /\ Continue("queue", [failure |-> code, patch |-> Fail(worker.patch, code)])
    /\ UNCHANGED reads
\* Mutant: whoever is signed in.
AnyAccount(account) == TRUE
IsPinned(account) == account = worker.state.pin

\* readTab and what is made of it.
ReadTab ==
    /\ worker.pc = "read"
    /\ IF ~PublishV2 /\ ~PublishV1
       THEN Continue("queue", <<>>) /\ UNCHANGED reads
       ELSE IF tab = Nobody THEN ReadFails("no_tab")
       ELSE IF ~IsPinned(tab) THEN ReadFails("account_mismatch")
       ELSE \E usage \in Usages :
              IF NormalizeQuota(usage) = {} THEN ReadFails("no_windows")
              ELSE /\ reads' = reads + 1
                   /\ Continue("queue",
                        [reading |-> [id |-> reads', account |-> tab, windows |-> NormalizeQuota(usage)],
                         patch |-> Patch(worker.patch, [lastRead |-> reads'])])
    /\ UNCHANGED <<store, tab, server, ledger, fate, forgot, left>>

\* The newest OutboxLimit bodies.
Newest(queue) == IF Len(queue) > OutboxLimit THEN Tail(queue) ELSE queue
PushedOut(queue) == IF Len(queue) > OutboxLimit THEN <<Head(queue)>> ELSE <<>>

\* enqueue on both routes, and one write of the storage.
Enqueue ==
    /\ worker.pc = "queue"
    /\ LET there == worker.reading # NoReading
           v2 == IF PublishV2 /\ there THEN Append(worker.outboxV2, worker.reading) ELSE worker.outboxV2
           v1 == IF PublishV1 /\ there THEN Append(worker.outbox, worker.reading) ELSE worker.outbox
       IN  /\ Continue("drainV2", [outboxV2 |-> Newest(v2), outbox |-> Newest(v1)])
           /\ Save([outboxV2 |-> Newest(v2), outbox |-> Newest(v1)])
           /\ fate' = fate \cup Fate("v2", Newest(v2), "queued") \cup Fate("v1", Newest(v1), "queued")
                           \cup Fate("v2", PushedOut(v2), "gone") \cup Fate("v1", PushedOut(v1), "gone")
    /\ UNCHANGED <<tab, server, ledger, reads, forgot, left>>

RecordsOf(body) == {[key |-> Key, account |-> body.account, reading |-> body.id,
                     window |-> row.window, value |-> row.value] : row \in body.windows}
Accepted == ledger \cup RecordsOf(Head(worker.outboxV2))

\* Mutant: a server fault drops the body.
DropsOnFault(answer) ==
    CASE answer = "2xx" -> "done"
      [] answer \in {"401", "403"} -> "stop"
      [] answer = "network" -> "retain"
      [] OTHER -> "drop"
\* uploadDisposition of one answer, and what drainOutbox makes of it.
Disposition(answer) ==
    CASE answer = "2xx" -> "done"
      [] answer \in {"401", "403"} -> "stop"
      [] answer \in {"408", "429", "5xx", "network"} -> "retain"
      [] OTHER -> "drop"
Shifted(queue, answer) == IF Disposition(answer) \in {"done", "drop"} THEN Tail(queue) ELSE queue
\* A body the server answered for good.
Settled(route, queue, answer) ==
    CASE answer = "2xx" -> Fate(route, <<Head(queue)>>, "taken")
      [] answer = "4xx" -> Fate(route, <<Head(queue)>>, "refused")
      [] OTHER -> {}
\* Mutant: a body that was dropped leaves no error.
AfterSilentDrop(answer, auth) ==
    CASE Disposition(answer) \in {"done", "drop"} -> worker.patch
      [] Disposition(answer) = "stop" -> Fail(worker.patch, auth)
      [] Disposition(answer) = "retain" -> Fail(worker.patch, "retry")
AfterAnswer(answer, auth) ==
    CASE Disposition(answer) = "done" -> worker.patch
      [] Disposition(answer) = "drop" -> Fail(worker.patch, "rejected")
      [] Disposition(answer) = "stop" -> Fail(worker.patch, auth)
      [] Disposition(answer) = "retain" -> Fail(worker.patch, "retry")
Stops(answer) == Disposition(answer) \in {"stop", "retain"}

\* One body of the v2 queue: an answer of the server, or a fault, before or after
\* the server took the body.
SendV2 ==
    /\ worker.pc = "drainV2" /\ worker.v2 /\ worker.outboxV2 # <<>>
    /\ \E answer \in {"2xx", "401", "4xx", "5xx", "network"} :
          /\ (answer = "401") <=> server[Key].disabled
          /\ IF answer \in {"2xx", "401"} THEN UNCHANGED left ELSE Spend("faults")
          /\ ledger' \in CASE answer = "2xx" -> {Accepted}
                          [] answer = "network" -> {ledger, Accepted}
                          [] OTHER -> {ledger}
          /\ fate' = fate \cup Settled("v2", worker.outboxV2, answer)
          /\ Continue(IF Stops(answer) THEN "saveV2" ELSE "drainV2",
                  [outboxV2 |-> Shifted(worker.outboxV2, answer),
                   patch |-> AfterAnswer(answer, "unauthorized")])
    /\ UNCHANGED <<store, tab, server, reads, forgot>>
DrainedV2 ==
    /\ worker.pc = "drainV2" /\ (~worker.v2 \/ worker.outboxV2 = <<>>)
    /\ Continue("saveV2", <<>>)
    /\ UNCHANGED <<store, tab, server, ledger, fate, reads, forgot, left>>

\* The coverage-only body of a failed read is contact, never queued.
SaveV2 ==
    /\ worker.pc = "saveV2"
    /\ IF worker.v2 THEN Save([outboxV2 |-> worker.outboxV2]) ELSE UNCHANGED store
    /\ Continue(IF PublishV1 /\ worker.outbox # <<>> THEN "drainV1" ELSE "finish", <<>>)
    /\ UNCHANGED <<tab, server, ledger, fate, reads, forgot, left>>

SendV1 ==
    /\ worker.pc = "drainV1" /\ worker.outbox # <<>>
    /\ \E answer \in {"2xx", "401", "4xx", "5xx"} :
          /\ IF answer = "2xx" THEN UNCHANGED left ELSE Spend("faults")
          /\ fate' = fate \cup Settled("v1", worker.outbox, answer)
          /\ Continue(IF Stops(answer) THEN "saveV1" ELSE "drainV1",
                  [outbox |-> Shifted(worker.outbox, answer),
                   patch |-> AfterAnswer(answer, "v1_unauthorized")])
    /\ UNCHANGED <<store, tab, server, ledger, reads, forgot>>
SaveV1 ==
    /\ worker.pc = "saveV1" \/ (worker.pc = "drainV1" /\ worker.outbox = <<>>)
    /\ Save([outbox |-> worker.outbox])
    /\ Continue("finish", <<>>)
    /\ UNCHANGED <<tab, server, ledger, fate, reads, forgot, left>>

\* A failed read is the error that stays; a collection without one clears it.
Outcome ==
    IF worker.failure # "none" THEN Fail(worker.patch, worker.failure)
    ELSE IF "lastError" \notin DOMAIN worker.patch /\ worker.reading # NoReading
    THEN Patch(worker.patch, [lastError |-> NoError])
    ELSE worker.patch
Finish ==
    /\ worker.pc = "finish"
    /\ Save(Outcome)
    /\ worker' = Resting
    /\ forgot' = (forgot /\ worker.reading = NoReading)
    /\ UNCHANGED <<tab, server, ledger, fate, reads, left>>

Kill ==
    /\ worker # Resting /\ Spend("faults")
    /\ worker' = Resting /\ forgot' = TRUE
    /\ UNCHANGED <<store, tab, server, ledger, fate, reads>>
-----------------------------------------------------------------------------
(* Setup, under the same lock as a collection.                             *)

Free == worker = Resting
ClearedV2 == fate' = fate \cup Fate("v2", store.outboxV2, "gone")
ClearedV1 == fate' = fate \cup Fate("v1", store.outbox, "gone")
Setup == Free /\ Spend("setups") /\ UNCHANGED <<tab, ledger, reads>>
\* An error that is cleared is no longer there to be read.
SaveSetup(changes) ==
    /\ Save(changes)
    /\ forgot' = (forgot \/ (store.lastError # NoError /\ store'.lastError = NoError))
\* bind and pin are followed by a collection.
Collects(yes) == worker' = IF yes THEN Collecting(store') ELSE worker

Pair ==
    /\ Setup /\ store.install = 0
    /\ server' = Append(server, [disabled |-> FALSE, stop |-> "none", hash |-> Absent])
    /\ SaveSetup([install |-> Len(server'), binding |-> NoBinding, outboxV2 |-> <<>>,
                  config |-> NoConfig, gate |-> "none", lastError |-> NoError])
    /\ ClearedV2 /\ Collects(FALSE)

\* The account the owner inspected is still the one of the tab, and the pinned one.
Inspected == tab # Nobody /\ store.pin \in {Nobody, tab}

\* createBinding keeps the identity of a binding that is there.
Bind ==
    /\ Setup /\ store.install # 0 /\ Inspected /\ ~server[store.install].disabled
    /\ LET key == store.install
           hash == IF server[key].hash \in {Absent, EmptyHash} THEN tab ELSE server[key].hash
       IN  /\ server' = [server EXCEPT ![key].hash = hash]
           /\ IF hash = tab
              THEN SaveSetup([binding |-> [hash |-> tab, confirmed |-> TRUE], pin |-> tab,
                              lastError |-> NoError, gate |-> "none"])
              ELSE UNCHANGED <<store, forgot>>
           /\ Collects(hash = tab)
    /\ UNCHANGED fate

Unpair ==
    /\ Setup /\ store.install # 0 /\ UNCHANGED server
    /\ SaveSetup([install |-> 0, binding |-> NoBinding, outboxV2 |-> <<>>, config |-> NoConfig,
                  gate |-> "none", lastError |-> NoError,
                  pin |-> IF store.connection THEN store.pin ELSE Nobody,
                  lastRead |-> IF store.connection THEN store.lastRead ELSE 0])
    /\ ClearedV2 /\ Collects(FALSE)

RemoveLegacy ==
    /\ Setup /\ store.connection /\ UNCHANGED server
    /\ SaveSetup([connection |-> FALSE, outbox |-> <<>>,
                  pin |-> IF store.install # 0 THEN store.pin ELSE Nobody])
    /\ ClearedV1 /\ Collects(FALSE)

Import ==
    /\ Setup /\ UNCHANGED server
    /\ SaveSetup([connection |-> TRUE, outbox |-> <<>>, lastError |-> NoError,
                  pin |-> IF store.binding # NoBinding THEN store.pin ELSE Nobody])
    /\ ClearedV1 /\ Collects(FALSE)

Pin ==
    /\ Setup /\ (store.connection \/ store.install # 0) /\ Inspected
    /\ SaveSetup([pin |-> tab, lastError |-> NoError]) /\ Collects(TRUE)
    /\ UNCHANGED <<server, fate>>
-----------------------------------------------------------------------------
(* The tab and the owner in the Observatory.                               *)

SwitchAccount(a) ==
    /\ a # tab /\ Spend("switches") /\ tab' = a
    /\ UNCHANGED <<store, worker, server, ledger, fate, reads, forgot>>

Owner(key) ==
    /\ Spend("decisions")
    /\ \/ \E stop \in {"none", "paused"} : server' = [server EXCEPT ![key].stop = stop]
       \/ server' = [server EXCEPT ![key].disabled = TRUE]
       \/ server[key].hash # Absent /\ server' = [server EXCEPT ![key].hash = EmptyHash]
    /\ server' # server
    /\ UNCHANGED <<store, worker, tab, ledger, fate, reads, forgot>>
-----------------------------------------------------------------------------
Unset == [install |-> 0, binding |-> NoBinding, connection |-> FALSE, pin |-> Nobody,
          outboxV2 |-> <<>>, outbox |-> <<>>, config |-> NoConfig, gate |-> "none",
          lastError |-> NoError, lastRead |-> 0]
FillProfile(storage, servers, bounds) ==
    /\ store = With(Unset, storage)
    /\ worker = Resting /\ tab \in ClaudeAccounts
    /\ server = servers /\ ledger = {} /\ fate = {} /\ reads = 0 /\ forgot = FALSE
    /\ left = bounds

CollectorNext ==
    \/ BeginCollect \/ FetchConfig \/ ReconfirmIdentity \/ ReadTab \/ Enqueue
    \/ SendV2 \/ DrainedV2 \/ SaveV2 \/ SendV1 \/ SaveV1 \/ Finish \/ Kill
    \/ Pair \/ Bind \/ Unpair \/ RemoveLegacy \/ Import \/ Pin
    \/ \E a \in ClaudeAccounts \cup {Nobody} : SwitchAccount(a)
    \/ \E key \in DOMAIN server : Owner(key)
-----------------------------------------------------------------------------
(* Properties.                                                             *)

\* The health the options page derives.
ErrorTexts == {"no_tab", "account_mismatch", "no_windows", "unauthorized", "identity_changed", "rejected"}
DeriveHealth ==
    IF store.install = 0 /\ ~store.connection THEN "unpaired"
    ELSE IF store.install # 0 /\ store.binding = NoBinding THEN "unbound"
    ELSE IF store.pin = Nobody THEN "unpinned"
    ELSE IF store.lastError.code = "unauthorized" THEN "key_invalid"
    ELSE IF store.gate # "none" THEN store.gate
    ELSE IF store.lastError.code \in ErrorTexts THEN store.lastError.code
    ELSE IF store.lastError # NoError /\ (store.lastRead = 0 \/ store.lastError.at >= store.lastRead)
    THEN "error"
    ELSE IF store.lastRead = 0 THEN "waiting"
    ELSE IF store.outboxV2 # <<>> \/ store.outbox # <<>> THEN "retrying"
    ELSE "ok"

\* "Collection is paused to prevent mixing accounts": the readings of an install
\* are of one Claude account, whatever the owner sets up and the tab shows during
\* a collection, and a reading gives each window one value.
ReadingsDoNotMix ==
    \A r, s \in ledger : r.key = s.key =>
        /\ r.account = s.account
        /\ (r.reading = s.reading /\ r.window = s.window) => r.value = s.value

\* A reading that was queued stays in the storage until the server answered it for
\* good, newer ones pushed it out, or the owner removed the route it was for; the
\* browser may end the worker at any await.
KeptUntilAnswered ==
    \A f \in fate : f.what = "queued" =>
        \/ \E g \in fate : g.route = f.route /\ g.id = f.id /\ g.what # "queued"
        \/ \E n \in DOMAIN store.outboxV2 : f.route = "v2" /\ store.outboxV2[n].id = f.id
        \/ \E n \in DOMAIN store.outbox : f.route = "v1" /\ store.outbox[n].id = f.id

\* "Read windows; last upload": unless, since the last reading, the worker was ended
\* before it could note an error or a setup call cleared one, a profile that says ok
\* has had that reading taken by the server, or its owner removed the route.
OkMeansDelivered ==
    (~forgot /\ Free /\ DeriveHealth = "ok") =>
        \E g \in fate : g.id = store.lastRead /\ g.what \in {"taken", "gone"}
==============================================================================
