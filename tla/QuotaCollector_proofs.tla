------------------------- MODULE QuotaCollector_proofs -------------------------
(***************************************************************************)
(* What holds of the browser quota collector for every set of accounts,    *)
(* every answer of Claude and any length of the queues, and however often  *)
(* the owner sets it up, accounts change, requests fail and the worker is  *)
(* ended.                                                                  *)
(***************************************************************************)
EXTENDS QuotaCollector, SequenceTheorems, TLAPS

-----------------------------------------------------------------------------
(* The shape of the state.                                                 *)

Accounts == ClaudeAccounts \cup {Nobody}
Hashes == ClaudeAccounts \cup {Absent, EmptyHash}
BindingSet == [hash : ClaudeAccounts \cup {EmptyHash}, confirmed : BOOLEAN]
ReadingSet == [id : Nat, account : Accounts, windows : SUBSET Rows]
StopSet == {"none", "paused", Absent}
ConfigSet == [stop : StopSet, hash : Hashes]
ServerSet == [disabled : BOOLEAN, stop : StopSet, hash : Hashes]
Phases == {"config", "confirm", "read", "queue", "drainV2", "saveV2", "drainV1", "saveV1", "finish"}
StoreFields == {"install", "binding", "connection", "pin", "outboxV2", "outbox", "config", "gate",
                "lastError", "lastRead"}
WorkFields == {"pc", "state", "v2", "collect", "binding", "hash", "reading", "failure", "patch",
               "outboxV2", "outbox"}

StoreTypes(s) ==
    /\ DOMAIN s = StoreFields
    /\ s.install \in Nat /\ s.binding \in BindingSet /\ s.connection \in BOOLEAN
    /\ s.pin \in Accounts /\ s.outboxV2 \in Seq(ReadingSet) /\ s.outbox \in Seq(ReadingSet)
    /\ s.config \in ConfigSet /\ s.gate \in StopSet /\ s.lastRead \in Nat
PatchTypes(p) ==
    /\ DOMAIN p \subseteq {"binding", "gate", "lastError", "lastRead"}
    /\ "binding" \in DOMAIN p => p.binding \in BindingSet
    /\ "gate" \in DOMAIN p => p.gate \in StopSet
    /\ "lastError" \in DOMAIN p => p.lastError.code # "none"
    /\ "lastRead" \in DOMAIN p => p.lastRead \in Nat
WorkTypes(w) ==
    /\ DOMAIN w = WorkFields
    /\ w.pc \in Phases /\ w.v2 \in BOOLEAN /\ w.collect \in BOOLEAN
    /\ w.state.config \in ConfigSet
    /\ w.binding \in BindingSet /\ w.hash \in Hashes
    /\ w.reading \in ReadingSet
    /\ w.outboxV2 \in Seq(ReadingSet) /\ w.outbox \in Seq(ReadingSet)
    /\ PatchTypes(w.patch)

Working == worker # Resting
TypeInv ==
    /\ StoreTypes(store) /\ (Working => WorkTypes(worker))
    /\ tab \in Accounts /\ server \in Seq(ServerSet)
    /\ reads \in Nat /\ forgot \in BOOLEAN
    /\ store.install <= Len(server) /\ store.lastRead <= reads
    /\ \A f \in fate : f.id \in Nat
    /\ \A r \in ledger : r.key \in 1 .. Len(server)
-----------------------------------------------------------------------------
(* Records that are changed field by field.                                *)

LEMMA Changed ==
    ASSUME NEW record, NEW changes
    PROVE  /\ DOMAIN With(record, changes) = DOMAIN record
           /\ \A k \in DOMAIN record :
                 With(record, changes)[k] = IF k \in DOMAIN changes THEN changes[k] ELSE record[k]
BY DEF With

LEMMA Patched ==
    ASSUME NEW patch, NEW changes
    PROVE  /\ DOMAIN Patch(patch, changes) = DOMAIN patch \cup DOMAIN changes
           /\ \A k \in DOMAIN patch \cup DOMAIN changes :
                 Patch(patch, changes)[k] = IF k \in DOMAIN changes THEN changes[k] ELSE patch[k]
BY DEF Patch

LEMMA Continued ==
    ASSUME WorkTypes(worker), NEW pc, NEW changes, Continue(pc, changes)
    PROVE  /\ DOMAIN worker' = WorkFields
           /\ \A f \in WorkFields :
                 worker'[f] = IF f \in DOMAIN changes THEN changes[f]
                              ELSE IF f = "pc" THEN pc ELSE worker[f]
<1>1. DOMAIN [worker EXCEPT !.pc = pc] = WorkFields
    BY DEF WorkTypes
<1>2. \A f \in WorkFields : [worker EXCEPT !.pc = pc][f] = IF f = "pc" THEN pc ELSE worker[f]
    BY DEF WorkTypes, WorkFields
<1>. QED  BY <1>1, <1>2, Changed DEF Continue

LEMMA Failing ==
    ASSUME NEW patch, PatchTypes(patch), NEW code, code # "none", reads \in Nat
    PROVE  /\ PatchTypes(Fail(patch, code))
           /\ DOMAIN Fail(patch, code) = DOMAIN patch \cup {"lastError"}
           /\ Fail(patch, code).lastError = [code |-> code, at |-> reads]
           /\ \A k \in DOMAIN patch \ {"lastError"} : Fail(patch, code)[k] = patch[k]
<1>. DEFINE error == [code |-> code, at |-> reads]
            change == [lastError |-> error]
<1>1. DOMAIN change = {"lastError"} /\ change["lastError"] = error
    OBVIOUS
<1>2. error.code = code
    OBVIOUS
<1>3. Fail(patch, code) = Patch(patch, change)
    BY DEF Fail
<1>. HIDE DEF change, error
<1>4. /\ DOMAIN Patch(patch, change) = DOMAIN patch \cup {"lastError"}
      /\ Patch(patch, change)["lastError"] = error
      /\ \A k \in DOMAIN patch \ {"lastError"} : Patch(patch, change)[k] = patch[k]
    BY <1>1, Patched
<1>5. PatchTypes(Patch(patch, change))
    BY <1>2, <1>4 DEF PatchTypes
<1>. QED  BY <1>3, <1>4, <1>5 DEF error

\* Who is resting has a single field; who is in a phase is at work.
LEMMA AtWork ==
    /\ worker.pc \in Phases => Working
    /\ DOMAIN worker' = WorkFields => Working'
<1>1. worker.pc \in Phases => Working
    BY DEF Working, Resting, Phases
<1>2. DOMAIN worker' = WorkFields => Working'
    BY DEF Working, Resting, WorkFields
<1>. QED  BY <1>1, <1>2
-----------------------------------------------------------------------------
(* The binding, and what a collection remembers of the profile.            *)

\* A bound profile is pinned to the account of its binding.
BindingInv ==
    store.binding # NoBinding =>
        store.install # 0 /\ store.pin = store.binding.hash /\ store.pin \in ClaudeAccounts

\* The set-up stands still while a collection runs, so what it read at its start is
\* so; an error it has noted without a reading is of the time of the last one.
WorkInv ==
    Working =>
        /\ worker.state.install = store.install /\ worker.state.binding = store.binding
        /\ worker.state.pin = store.pin /\ worker.state.connection = store.connection
        /\ worker.v2 = (store.install # 0 /\ store.binding # NoBinding)
        /\ worker.collect => worker.v2
        /\ worker.pc \in {"config", "confirm"} => worker.v2
        /\ worker.binding.hash = store.binding.hash
        /\ "binding" \in DOMAIN worker.patch => worker.v2
        /\ "binding" \in DOMAIN worker.patch => worker.patch.binding.hash = store.binding.hash
        /\ worker.pc \in {"config", "confirm", "read"} => worker.reading = NoReading
        /\ worker.pc \in {"config", "confirm", "read"} => worker.failure = "none"
        /\ worker.reading = NoReading => "lastRead" \notin DOMAIN worker.patch
        /\ (worker.reading = NoReading /\ "lastError" \in DOMAIN worker.patch) =>
              worker.patch.lastError.at = reads
        /\ worker.reading # NoReading =>
              /\ worker.reading.id = reads /\ worker.reading.account = store.pin
              /\ worker.failure = "none"
              /\ "lastRead" \in DOMAIN worker.patch /\ worker.patch.lastRead = reads

\* What a collection does before it reads the tab.
Noted(before, after) ==
    /\ PatchTypes(after)
    /\ DOMAIN before \subseteq DOMAIN after
    /\ \A k \in DOMAIN before \ {"binding", "gate", "lastError"} : after[k] = before[k]
    /\ "lastRead" \in DOMAIN after => "lastRead" \in DOMAIN before
    /\ "lastError" \in DOMAIN after =>
          \/ "lastError" \in DOMAIN before /\ after.lastError = before.lastError
          \/ after.lastError.at = reads
PreparesWork ==
    /\ worker.pc \in {"config", "confirm"} /\ worker'.pc \in {"confirm", "read"}
    /\ DOMAIN worker' = WorkFields
    /\ \A f \in {"state", "v2", "reading", "failure", "outboxV2", "outbox"} : worker'[f] = worker[f]
    /\ worker'.collect \in BOOLEAN /\ worker'.hash \in Hashes
    /\ worker'.binding \in BindingSet /\ worker'.binding.hash = worker.binding.hash
    /\ Noted(worker.patch, worker'.patch)
    /\ "binding" \in DOMAIN worker'.patch => worker'.patch.binding.hash = worker.binding.hash
Prepares ==
    /\ PreparesWork
    /\ DOMAIN store' = StoreFields /\ store'.config \in ConfigSet
    /\ \A f \in StoreFields \ {"config"} : store'[f] = store[f]
    /\ server' \in Seq(ServerSet) /\ Len(server') = Len(server)
    /\ UNCHANGED <<tab, ledger, fate, reads, forgot>>

LEMMA FailNotes ==
    ASSUME NEW patch, PatchTypes(patch), NEW code, code # "none", reads \in Nat
    PROVE  /\ Noted(patch, Fail(patch, code)) /\ Fail(patch, code).lastError.at = reads
           /\ "lastError" \in DOMAIN Fail(patch, code)
           /\ "binding" \in DOMAIN Fail(patch, code) => 
                 /\ "binding" \in DOMAIN patch /\ Fail(patch, code).binding = patch.binding
<1>1. PatchTypes(Fail(patch, code)) /\ DOMAIN Fail(patch, code) = DOMAIN patch \cup {"lastError"}
      /\ \A k \in DOMAIN patch \ {"lastError"} : Fail(patch, code)[k] = patch[k]
    BY Failing
<1>2. Fail(patch, code).lastError = [code |-> code, at |-> reads]
    BY Failing
<1>3. Fail(patch, code).lastError.at = reads
    BY <1>2
<1>. QED  BY <1>1, <1>3 DEF Noted

LEMMA BindNotes ==
    ASSUME WorkTypes(worker), NEW binding \in BindingSet
    PROVE  /\ Noted(worker.patch, BoundBy(binding).patch)
           /\ BoundBy(binding).patch.binding = binding
           /\ BoundBy(binding).binding = binding
           /\ DOMAIN BoundBy(binding) = {"binding", "patch"}
<1>. DEFINE change == [binding |-> binding]
<1>1. DOMAIN change = {"binding"} /\ change["binding"] = binding
    OBVIOUS
<1>2. BoundBy(binding) = [binding |-> binding, patch |-> Patch(worker.patch, change)]
    BY DEF BoundBy
<1>. HIDE DEF change
<1>3. /\ DOMAIN Patch(worker.patch, change) = DOMAIN worker.patch \cup {"binding"}
      /\ Patch(worker.patch, change)["binding"] = binding
      /\ \A k \in DOMAIN worker.patch \ {"binding"} : Patch(worker.patch, change)[k] = worker.patch[k]
    BY <1>1, Patched
<1>4. PatchTypes(worker.patch)
    BY DEF WorkTypes
<1>5. Noted(worker.patch, Patch(worker.patch, change))
    BY <1>3, <1>4 DEF Noted, PatchTypes
<1>. QED  BY <1>2, <1>3, <1>5

LEMMA GateNotes ==
    ASSUME WorkTypes(worker), NEW reason \in StopSet
    PROVE  /\ Noted(worker.patch, Patch(worker.patch, [gate |-> reason]))
           /\ "binding" \in DOMAIN Patch(worker.patch, [gate |-> reason]) =>
                 /\ "binding" \in DOMAIN worker.patch
                 /\ Patch(worker.patch, [gate |-> reason]).binding = worker.patch.binding
<1>. DEFINE change == [gate |-> reason]
<1>1. DOMAIN change = {"gate"} /\ change["gate"] = reason
    OBVIOUS
<1>. HIDE DEF change
<1>3. /\ DOMAIN Patch(worker.patch, change) = DOMAIN worker.patch \cup {"gate"}
      /\ Patch(worker.patch, change)["gate"] = reason
      /\ \A k \in DOMAIN worker.patch \ {"gate"} : Patch(worker.patch, change)[k] = worker.patch[k]
    BY <1>1, Patched
<1>4. PatchTypes(worker.patch)
    BY DEF WorkTypes
<1>5. Noted(worker.patch, Patch(worker.patch, change))
    BY <1>3, <1>4 DEF Noted, PatchTypes
<1>6. "binding" \in DOMAIN Patch(worker.patch, change) =>
         "binding" \in DOMAIN worker.patch /\ Patch(worker.patch, change).binding = worker.patch.binding
    BY <1>3
<1>. QED  BY <1>5, <1>6 DEF change

LEMMA PreparedBy ==
    ASSUME WorkTypes(worker), worker.pc \in {"config", "confirm"},
           "binding" \in DOMAIN worker.patch => worker.patch.binding.hash = worker.binding.hash,
           NEW pc \in {"confirm", "read"}, NEW changes,
           DOMAIN changes \subseteq {"collect", "hash", "binding", "patch"},
           "collect" \in DOMAIN changes => changes.collect \in BOOLEAN,
           "hash" \in DOMAIN changes => changes.hash \in Hashes,
           "binding" \in DOMAIN changes => changes.binding \in BindingSet,
           "binding" \in DOMAIN changes => changes.binding.hash = worker.binding.hash,
           "patch" \in DOMAIN changes => Noted(worker.patch, changes.patch),
           "patch" \in DOMAIN changes =>
               ("binding" \in DOMAIN changes.patch => changes.patch.binding.hash = worker.binding.hash),
           Continue(pc, changes)
    PROVE  PreparesWork
<1>1. /\ DOMAIN worker' = WorkFields
      /\ \A f \in WorkFields : worker'[f] = IF f \in DOMAIN changes THEN changes[f]
                                            ELSE IF f = "pc" THEN pc ELSE worker[f]
    BY Continued
<1>2. /\ worker'.pc = pc
      /\ \A f \in {"state", "v2", "reading", "failure", "outboxV2", "outbox"} : worker'[f] = worker[f]
    BY <1>1 DEF WorkFields
<1>3. worker'.collect \in BOOLEAN /\ worker'.hash \in Hashes
    BY <1>1 DEF WorkFields, WorkTypes
<1>4. worker'.binding \in BindingSet /\ worker'.binding.hash = worker.binding.hash
    BY <1>1 DEF WorkFields, WorkTypes
<1>5. Noted(worker.patch, worker.patch)
    BY DEF WorkTypes, Noted
<1>6. Noted(worker.patch, worker'.patch)
    BY <1>1, <1>5 DEF WorkFields
<1>7. "binding" \in DOMAIN worker'.patch => worker'.patch.binding.hash = worker.binding.hash
    BY <1>1 DEF WorkFields
<1>. QED  BY <1>1, <1>2, <1>3, <1>4, <1>6, <1>7 DEF PreparesWork

\* While a collection runs for an install, the install is on the server.
LEMMA InstallThere ==
    ASSUME TypeInv, WorkInv, Working, worker.v2
    PROVE  Key \in 1 .. Len(server) /\ server[Key] \in ServerSet /\ Key = store.install
<1>1. Key = store.install /\ store.install # 0
    BY DEF WorkInv, Key
<1>2. store.install \in Nat /\ store.install <= Len(server) /\ server \in Seq(ServerSet)
    BY DEF TypeInv, StoreTypes
<1>. QED  BY <1>1, <1>2

LEMMA GateTypes ==
    ASSUME WorkTypes(worker), worker.pc \in {"config", "confirm"}, NEW config \in ConfigSet, Gate(config),
           "binding" \in DOMAIN worker.patch => worker.patch.binding.hash = worker.binding.hash
    PROVE  PreparesWork
<1>. DEFINE reason == IF config = NoConfig THEN "none" ELSE config.stop
            open == reason = "none"
            next == IF open THEN "confirm" ELSE "read"
            patch == Patch(worker.patch, [gate |-> reason])
            changes == [collect |-> open, hash |-> config.hash, patch |-> patch]
<1>1. config.hash \in Hashes /\ reason \in StopSet
    BY DEF ConfigSet, StopSet
<1>2. open \in BOOLEAN /\ next \in {"confirm", "read"}
    OBVIOUS
<1>3. Continue(next, changes)
    BY DEF Gate
<1>. HIDE DEF reason
<1>4. /\ Noted(worker.patch, patch)
      /\ "binding" \in DOMAIN patch =>
            "binding" \in DOMAIN worker.patch /\ patch.binding = worker.patch.binding
    BY <1>1, GateNotes
<1>. HIDE DEF open, next, patch
<1>5. /\ DOMAIN changes = {"collect", "hash", "patch"}
      /\ changes.collect = open /\ changes.hash = config.hash /\ changes.patch = patch
    OBVIOUS
<1>. HIDE DEF changes
<1>. QED  BY <1>1, <1>2, <1>3, <1>4, <1>5, PreparedBy

LEMMA FetchPrepares ==
    ASSUME TypeInv, WorkInv, FetchConfig
    PROVE  Prepares
<1>1. worker.pc = "config" /\ Working
    BY AtWork DEF FetchConfig, Phases
<1>2. WorkTypes(worker) /\ StoreTypes(store) /\ server \in Seq(ServerSet) /\ reads \in Nat
    BY <1>1 DEF TypeInv
<1>3. Key \in 1 .. Len(server) /\ server[Key] \in ServerSet
    BY <1>1, InstallThere DEF WorkInv
<1>4. "binding" \in DOMAIN worker.patch => worker.patch.binding.hash = worker.binding.hash
    BY <1>1 DEF WorkInv
<1>5. UNCHANGED <<tab, server, ledger, fate, reads, forgot>>
    BY DEF FetchConfig
<1>6. UNCHANGED store =>
         /\ DOMAIN store' = StoreFields /\ store'.config \in ConfigSet
         /\ \A f \in StoreFields \ {"config"} : store'[f] = store[f]
    BY <1>2 DEF StoreTypes
<1>7. CASE Continue("read", [patch |-> Fail(worker.patch, "unauthorized")]) /\ UNCHANGED store
    <2>. DEFINE patch == Fail(worker.patch, "unauthorized")
                changes == [patch |-> patch]
    <2>1. /\ Noted(worker.patch, patch)
          /\ "binding" \in DOMAIN patch =>
                "binding" \in DOMAIN worker.patch /\ patch.binding = worker.patch.binding
        <3>1. PatchTypes(worker.patch) /\ "unauthorized" # "none"
            BY <1>2 DEF WorkTypes
        <3>. QED  BY <1>2, <3>1, FailNotes
    <2>2. Continue("read", changes)
        BY <1>7
    <2>. HIDE DEF patch
    <2>3. DOMAIN changes = {"patch"} /\ changes.patch = patch
        OBVIOUS
    <2>. HIDE DEF changes
    <2>4. PreparesWork
        BY <1>1, <1>2, <1>4, <2>1, <2>2, <2>3, PreparedBy
    <2>. QED  BY <1>2, <1>5, <1>6, <1>7, <2>4 DEF Prepares
<1>8. ASSUME NEW config \in ConfigSet, Save([config |-> config]), Gate(config)
      PROVE  Prepares
    <2>1. PreparesWork
        BY <1>1, <1>2, <1>4, <1>8, GateTypes
    <2>. DEFINE changes == [config |-> config]
    <2>2. DOMAIN changes = {"config"} /\ changes["config"] = config
        OBVIOUS
    <2>3. store' = With(store, changes)
        BY <1>8 DEF Save
    <2>. HIDE DEF changes
    <2>4. /\ DOMAIN store' = StoreFields /\ store'.config = config
          /\ \A f \in StoreFields \ {"config"} : store'[f] = store[f]
        BY <1>2, <2>2, <2>3, Changed DEF StoreTypes, StoreFields
    <2>. QED  BY <1>2, <1>5, <2>1, <2>4 DEF Prepares
<1>9. CASE Gate(worker.state.config) /\ UNCHANGED store
    <2>1. PreparesWork
        BY <1>1, <1>2, <1>4, <1>9, GateTypes DEF WorkTypes
    <2>. QED  BY <1>2, <1>5, <1>6, <1>9, <2>1 DEF Prepares
<1>10. ASSUME Save([config |-> [stop |-> server[Key].stop, hash |-> server[Key].hash]]),
              Gate([stop |-> server[Key].stop, hash |-> server[Key].hash])
       PROVE  Prepares
    <2>1. [stop |-> server[Key].stop, hash |-> server[Key].hash] \in ConfigSet
        BY <1>3 DEF ConfigSet, ServerSet
    <2>. QED  BY <1>8, <1>10, <2>1
<1>. QED  BY <1>7, <1>9, <1>10 DEF FetchConfig

LEMMA ServerEdited ==
    ASSUME server \in Seq(ServerSet), NEW key \in 1 .. Len(server), NEW hash \in Hashes
    PROVE  /\ [server EXCEPT ![key].hash = hash] \in Seq(ServerSet)
           /\ Len([server EXCEPT ![key].hash = hash]) = Len(server)
<1>1. server[key] \in ServerSet
    OBVIOUS
<1>2. [server[key] EXCEPT !.hash = hash] \in ServerSet
    BY <1>1 DEF ServerSet
<1>3. [server EXCEPT ![key].hash = hash] = [server EXCEPT ![key] = [server[key] EXCEPT !.hash = hash]]
    OBVIOUS
<1>. QED  BY <1>2, <1>3, ExceptSeq

LEMMA ServerKept ==
    ASSUME server \in Seq(ServerSet), NEW key \in 1 .. Len(server), NEW hash \in Hashes
    PROVE  /\ Confirmed(key, hash) \in Seq(ServerSet) /\ Len(Confirmed(key, hash)) = Len(server)
BY ServerEdited DEF Confirmed

LEMMA ReconfirmPrepares ==
    ASSUME TypeInv, WorkInv, ReconfirmIdentity
    PROVE  Prepares
<1>1. worker.pc = "confirm" /\ Working
    BY AtWork DEF ReconfirmIdentity, Phases
<1>2. WorkTypes(worker) /\ StoreTypes(store) /\ server \in Seq(ServerSet) /\ reads \in Nat
    BY <1>1 DEF TypeInv
<1>3. Key \in 1 .. Len(server)
    BY <1>1, InstallThere DEF WorkInv
<1>4. "binding" \in DOMAIN worker.patch => worker.patch.binding.hash = worker.binding.hash
    BY <1>1 DEF WorkInv
<1>5. UNCHANGED <<store, tab, ledger, fate, reads, forgot>>
    BY DEF ReconfirmIdentity
<1>6. server' = server \/ server' = Confirmed(Key, worker.binding.hash)
    BY DEF ReconfirmIdentity
<1>7. server' \in Seq(ServerSet) /\ Len(server') = Len(server)
    BY <1>2, <1>3, <1>6, ServerKept DEF WorkTypes, BindingSet, Hashes
<1>8. ASSUME NEW binding \in BindingSet, binding.hash = worker.binding.hash, Continue("read", BoundBy(binding))
      PROVE  PreparesWork
    <2>1. /\ Noted(worker.patch, BoundBy(binding).patch)
          /\ BoundBy(binding).patch.binding = binding /\ BoundBy(binding).binding = binding
          /\ DOMAIN BoundBy(binding) = {"binding", "patch"}
        BY <1>2, BindNotes
    <2>. QED  BY <1>1, <1>2, <1>4, <1>8, <2>1, PreparedBy
<1>9. ASSUME NEW code, code # "none", Continue("read", Refused(code))
      PROVE  PreparesWork
    <2>. DEFINE patch == Fail(worker.patch, code)
                changes == [collect |-> FALSE, patch |-> patch]
    <2>1. /\ Noted(worker.patch, patch)
          /\ "binding" \in DOMAIN patch =>
                "binding" \in DOMAIN worker.patch /\ patch.binding = worker.patch.binding
        BY <1>2, <1>9, FailNotes DEF WorkTypes
    <2>2. Continue("read", changes)
        BY <1>9 DEF Refused
    <2>. HIDE DEF patch
    <2>3. DOMAIN changes = {"collect", "patch"} /\ changes.patch = patch /\ changes.collect = FALSE
        OBVIOUS
    <2>. HIDE DEF changes
    <2>. QED  BY <1>1, <1>2, <1>4, <2>1, <2>2, <2>3, PreparedBy
<1>10. /\ worker.binding \in BindingSet /\ Trusted(worker.binding) \in BindingSet
       /\ Trusted(worker.binding).hash = worker.binding.hash
    BY <1>2 DEF WorkTypes, BindingSet, Trusted
<1>11. \/ Continue("read", BoundBy(worker.binding))
       \/ Continue("read", BoundBy(Trusted(worker.binding)))
       \/ Continue("read", Refused("identity_changed")) \/ Continue("read", Refused("unauthorized"))
       \/ Continue("read", Refused("failed"))
    BY DEF ReconfirmIdentity
<1>12. PreparesWork
    BY <1>8, <1>9, <1>10, <1>11
<1>. QED  BY <1>2, <1>5, <1>7, <1>12 DEF Prepares, StoreTypes
-----------------------------------------------------------------------------
(* Reading the tab.                                                        *)

OneValueEach(windows) == \A v, w \in windows : v.window = w.window => v = w

\* Each window has one row.
LEMMA OneRowEach ==
    ASSUME NEW rows \in Seq(Rows)
    PROVE  OnePerWindow(rows) \subseteq Rows /\ OneValueEach(OnePerWindow(rows))
<1>. DEFINE sampled == {n \in DOMAIN rows : rows[n].valid}
            first == {m \in sampled : \A k \in sampled : k < m => rows[k].window # rows[m].window}
<1>1. OnePerWindow(rows) = {rows[n] : n \in first}
    BY DEF OnePerWindow
<1>2. first \subseteq 1 .. Len(rows)
    OBVIOUS
<1>3. \A m, n \in first : rows[m].window = rows[n].window => m = n
    <2>. SUFFICES ASSUME NEW m \in first, NEW n \in first, rows[m].window = rows[n].window, m # n
                  PROVE  FALSE
        OBVIOUS
    <2>1. m < n \/ n < m
        BY <1>2
    <2>. QED  BY <2>1
<1>4. \A n \in first : rows[n] \in Rows
    BY <1>2
<1>. HIDE DEF first
<1>. QED  BY <1>1, <1>3, <1>4 DEF OneValueEach

LEMMA QuotaNormal ==
    ASSUME NEW usage \in Usages
    PROVE  NormalizeQuota(usage) \subseteq Rows /\ OneValueEach(NormalizeQuota(usage))
<1>. DEFINE windows == OnePerWindow(usage.limits \o usage.top)
            extras == OnePerWindow(usage.extra)
            extra == {row \in extras : \A w \in windows : w.window # row.window}
<1>1. usage.limits \in Seq(Rows) /\ usage.top \in Seq(Rows) /\ usage.extra \in Seq(Rows)
    BY CollectorAssumption
<1>2. usage.limits \o usage.top \in Seq(Rows)
    BY <1>1
<1>3. windows \subseteq Rows /\ OneValueEach(windows) /\ extras \subseteq Rows /\ OneValueEach(extras)
    BY <1>1, <1>2, OneRowEach
<1>4. NormalizeQuota(usage) \in {windows, windows \cup extra}
    BY DEF NormalizeQuota
<1>. HIDE DEF windows, extras
<1>5. OneValueEach(windows \cup extra)
    BY <1>3 DEF OneValueEach
<1>. QED  BY <1>3, <1>4, <1>5

KeepsWork(fields) == \A f \in fields : worker'[f] = worker[f]
SeesNothing ==
    /\ worker'.reading = worker.reading /\ Noted(worker.patch, worker'.patch)
    /\ "binding" \in DOMAIN worker'.patch => "binding" \in DOMAIN worker.patch
    /\ "binding" \in DOMAIN worker'.patch => worker'.patch.binding = worker.patch.binding
    /\ UNCHANGED reads
SeesReading ==
    /\ PublishV2 \/ PublishV1
    /\ reads' = reads + 1
    /\ worker'.reading \in ReadingSet /\ worker'.reading # NoReading
    /\ worker'.reading.id = reads + 1 /\ worker'.reading.account = worker.state.pin
    /\ worker'.reading.account \in ClaudeAccounts
    /\ OneValueEach(worker'.reading.windows)
    /\ worker'.failure = worker.failure
    /\ PatchTypes(worker'.patch)
    /\ DOMAIN worker'.patch = DOMAIN worker.patch \cup {"lastRead"}
    /\ worker'.patch.lastRead = reads + 1
    /\ \A k \in DOMAIN worker.patch \ {"lastRead"} : worker'.patch[k] = worker.patch[k]
ReadsTab ==
    /\ worker.pc = "read" /\ worker'.pc = "queue" /\ DOMAIN worker' = WorkFields
    /\ KeepsWork({"state", "v2", "collect", "binding", "hash", "outboxV2", "outbox"})
    /\ SeesNothing \/ SeesReading
    /\ UNCHANGED <<store, tab, server, ledger, fate, forgot>>

LEMMA ReadTabReads ==
    ASSUME TypeInv, WorkInv, ReadTab
    PROVE  ReadsTab
<1>1. worker.pc = "read" /\ Working
    BY AtWork DEF ReadTab, Phases
<1>2. WorkTypes(worker) /\ reads \in Nat /\ tab \in Accounts /\ PatchTypes(worker.patch)
    BY <1>1 DEF TypeInv, WorkTypes
<1>3. UNCHANGED <<store, tab, server, ledger, fate, forgot>>
    BY DEF ReadTab
<1>. DEFINE kept == {"state", "v2", "collect", "binding", "hash", "outboxV2", "outbox"}
<1>4. ASSUME NEW code, code # "none", ReadFails(code)
      PROVE  ReadsTab
    <2>. DEFINE patch == Fail(worker.patch, code)
                changes == [failure |-> code, patch |-> patch]
    <2>1. /\ Noted(worker.patch, patch)
          /\ "binding" \in DOMAIN patch =>
                "binding" \in DOMAIN worker.patch /\ patch.binding = worker.patch.binding
        BY <1>2, <1>4, FailNotes
    <2>2. Continue("queue", changes) /\ UNCHANGED reads
        BY <1>4 DEF ReadFails
    <2>. HIDE DEF patch
    <2>3. DOMAIN changes = {"failure", "patch"} /\ changes.patch = patch
        OBVIOUS
    <2>. HIDE DEF changes
    <2>4. /\ DOMAIN worker' = WorkFields /\ worker'.pc = "queue" /\ KeepsWork(kept)
          /\ worker'.reading = worker.reading /\ worker'.patch = patch
        BY <1>2, <2>2, <2>3, Continued DEF WorkFields, KeepsWork
    <2>. QED  BY <1>1, <1>3, <2>1, <2>2, <2>4 DEF ReadsTab, SeesNothing
<1>5. CASE Continue("queue", <<>>) /\ UNCHANGED reads
    <2>1. /\ DOMAIN worker' = WorkFields /\ worker'.pc = "queue" /\ KeepsWork(kept)
          /\ worker'.reading = worker.reading /\ worker'.patch = worker.patch
        BY <1>2, <1>5, Continued DEF WorkFields, KeepsWork
    <2>2. Noted(worker.patch, worker.patch)
        BY <1>2 DEF Noted
    <2>. QED  BY <1>1, <1>3, <1>5, <2>1, <2>2 DEF ReadsTab, SeesNothing
<1>6. ASSUME NEW usage \in Usages, PublishV2 \/ PublishV1, tab # Nobody, IsPinned(tab), reads' = reads + 1,
             Continue("queue",
                 [reading |-> [id |-> reads', account |-> tab, windows |-> NormalizeQuota(usage)],
                  patch |-> Patch(worker.patch, [lastRead |-> reads'])])
      PROVE  ReadsTab
    <2>. DEFINE windows == NormalizeQuota(usage)
                reading == [id |-> reads', account |-> tab, windows |-> windows]
                change == [lastRead |-> reads']
                patch == Patch(worker.patch, change)
                changes == [reading |-> reading, patch |-> patch]
    <2>1. windows \in SUBSET Rows /\ OneValueEach(windows)
        BY QuotaNormal
    <2>2. reads' \in Nat /\ reads' # 0
        BY <1>2, <1>6
    <2>3. /\ reading \in ReadingSet /\ reading.id = reads + 1 /\ reading.account = tab
          /\ OneValueEach(reading.windows) /\ reading # NoReading
        BY <1>2, <1>6, <2>1, <2>2 DEF ReadingSet, NoReading
    <2>4. tab = worker.state.pin /\ tab \in ClaudeAccounts
        BY <1>2, <1>6 DEF IsPinned, Accounts
    <2>5. Continue("queue", changes)
        BY <1>6
    <2>6. DOMAIN change = {"lastRead"} /\ change["lastRead"] = reads'
        OBVIOUS
    <2>. HIDE DEF change
    <2>7. /\ DOMAIN patch = DOMAIN worker.patch \cup {"lastRead"} /\ patch["lastRead"] = reads'
          /\ \A k \in DOMAIN worker.patch \ {"lastRead"} : patch[k] = worker.patch[k]
        BY <2>6, Patched
    <2>8. PatchTypes(patch)
        BY <1>2, <2>2, <2>7 DEF PatchTypes
    <2>. HIDE DEF patch, reading
    <2>9. DOMAIN changes = {"reading", "patch"} /\ changes.reading = reading /\ changes.patch = patch
        OBVIOUS
    <2>. HIDE DEF changes
    <2>10. /\ DOMAIN worker' = WorkFields /\ worker'.pc = "queue" /\ KeepsWork(kept)
           /\ worker'.reading = reading /\ worker'.patch = patch /\ worker'.failure = worker.failure
        BY <1>2, <2>5, <2>9, Continued DEF WorkFields, KeepsWork
    <2>11. SeesReading
        BY <1>6, <2>3, <2>4, <2>7, <2>8, <2>10 DEF SeesReading
    <2>. QED  BY <1>1, <1>3, <2>10, <2>11 DEF ReadsTab
<1>. QED  BY <1>4, <1>5, <1>6 DEF ReadTab
-----------------------------------------------------------------------------
(* The queues.                                                             *)

Elems(queue) == {queue[n] : n \in DOMAIN queue}
In(queue, id) == \E n \in DOMAIN queue : queue[n].id = id
Done(fates, route, id) == \E g \in fates : g.route = route /\ g.id = id /\ g.what # "queued"
Delivered(fates, id) == \E g \in fates : g.id = id /\ g.what \in {"taken", "gone"}

LEMMA FateOf ==
    ASSUME NEW route, NEW queue, NEW what
    PROVE  /\ \A f \in Fate(route, queue, what) :
                 f.route = route /\ f.what = what /\ In(queue, f.id)
           /\ \A id : In(queue, id) =>
                 \E f \in Fate(route, queue, what) : f.route = route /\ f.id = id /\ f.what = what
<1>1. ASSUME NEW f \in Fate(route, queue, what)
      PROVE  f.route = route /\ f.what = what /\ In(queue, f.id)
    <2>1. PICK n \in DOMAIN queue : f = [route |-> route, id |-> queue[n].id, what |-> what]
        BY DEF Fate
    <2>2. f.route = route /\ f.what = what /\ f.id = queue[n].id
        BY <2>1
    <2>. QED  BY <2>2 DEF In
<1>2. ASSUME NEW id, In(queue, id)
      PROVE  \E f \in Fate(route, queue, what) : f.route = route /\ f.id = id /\ f.what = what
    <2>1. PICK n \in DOMAIN queue : queue[n].id = id
        BY <1>2 DEF In
    <2>. DEFINE f == [route |-> route, id |-> queue[n].id, what |-> what]
    <2>2. f \in Fate(route, queue, what)
        BY DEF Fate
    <2>3. f.route = route /\ f.what = what /\ f.id = id
        BY <2>1
    <2>. QED  BY <2>2, <2>3
<1>. QED  BY <1>1, <1>2

\* What is pushed out is the oldest; the rest stays.
LEMMA NewestStay ==
    ASSUME NEW queue \in Seq(ReadingSet)
    PROVE  /\ Newest(queue) \in Seq(ReadingSet) /\ PushedOut(queue) \in Seq(ReadingSet)
           /\ Elems(Newest(queue)) \subseteq Elems(queue)
           /\ \A id : In(queue, id) => In(Newest(queue), id) \/ In(PushedOut(queue), id)
           /\ \A id : In(PushedOut(queue), id) => In(queue, id)
<1>1. CASE ~(Len(queue) > OutboxLimit)
    <2>1. Newest(queue) = queue /\ PushedOut(queue) = <<>>
        BY <1>1 DEF Newest, PushedOut
    <2>. QED  BY <2>1 DEF In
<1>2. CASE Len(queue) > OutboxLimit
    <2>1. queue # <<>> /\ Len(queue) \in Nat /\ Len(queue) > 0
        BY <1>2, CollectorAssumption
    <2>2. Newest(queue) = Tail(queue) /\ PushedOut(queue) = <<Head(queue)>>
        BY <1>2 DEF Newest, PushedOut
    <2>3. /\ Tail(queue) \in Seq(ReadingSet) /\ Len(Tail(queue)) = Len(queue) - 1
          /\ \A n \in 1 .. Len(Tail(queue)) : Tail(queue)[n] = queue[n + 1]
          /\ Head(queue) \in ReadingSet /\ Head(queue) = queue[1]
        BY <2>1, HeadTailProperties
    <2>4. Elems(Tail(queue)) \subseteq Elems(queue)
        BY <2>1, <2>3 DEF Elems
    <2>5. ASSUME NEW id, In(queue, id)
          PROVE  In(Tail(queue), id) \/ In(<<Head(queue)>>, id)
        <3>1. PICK n \in 1 .. Len(queue) : queue[n].id = id
            BY <2>5 DEF In
        <3>2. CASE n = 1
            BY <2>3, <3>1, <3>2 DEF In
        <3>3. CASE n # 1
            <4>1. n - 1 \in 1 .. Len(Tail(queue)) /\ Tail(queue)[n - 1] = queue[n]
                BY <2>1, <2>3, <3>3
            <4>2. DOMAIN Tail(queue) = 1 .. Len(Tail(queue))
                BY <2>3
            <4>. QED  BY <3>1, <4>1, <4>2 DEF In
        <3>. QED  BY <3>2, <3>3
    <2>6. \A id : In(<<Head(queue)>>, id) => In(queue, id)
        <3>1. 1 \in DOMAIN queue
            BY <2>1
        <3>. QED  BY <2>3, <3>1 DEF In
    <2>. QED  BY <2>2, <2>3, <2>4, <2>5, <2>6
<1>. QED  BY <1>1, <1>2

LEMMA AppendedIn ==
    ASSUME NEW queue \in Seq(ReadingSet), NEW reading \in ReadingSet
    PROVE  /\ Append(queue, reading) \in Seq(ReadingSet)
           /\ Elems(Append(queue, reading)) = Elems(queue) \cup {reading}
           /\ \A id : In(Append(queue, reading), id) <=> In(queue, id) \/ id = reading.id
<1>1. /\ Append(queue, reading) \in Seq(ReadingSet)
      /\ DOMAIN Append(queue, reading) = 1 .. Len(queue) + 1 /\ DOMAIN queue = 1 .. Len(queue)
      /\ \A n \in 1 .. Len(queue) : Append(queue, reading)[n] = queue[n]
      /\ Append(queue, reading)[Len(queue) + 1] = reading
    OBVIOUS
<1>2. 1 .. Len(queue) + 1 = (1 .. Len(queue)) \cup {Len(queue) + 1}
    OBVIOUS
<1>. QED  BY <1>1, <1>2 DEF Elems, In

LEMMA InElems ==
    ASSUME NEW queue, NEW id
    PROVE  In(queue, id) <=> \E b \in Elems(queue) : b.id = id
BY DEF In, Elems

\* What a queue is after the first body is answered.
LEMMA ShiftedIn ==
    ASSUME NEW queue \in Seq(ReadingSet), queue # <<>>
    PROVE  /\ Tail(queue) \in Seq(ReadingSet)
           /\ Elems(queue) = {Head(queue)} \cup Elems(Tail(queue))
           /\ Head(queue) \in ReadingSet
<1>1. /\ Tail(queue) \in Seq(ReadingSet) /\ Len(Tail(queue)) = Len(queue) - 1
      /\ \A n \in 1 .. Len(Tail(queue)) : Tail(queue)[n] = queue[n + 1]
      /\ Head(queue) \in ReadingSet /\ Head(queue) = queue[1]
    BY HeadTailProperties
<1>2. DOMAIN queue = 1 .. Len(queue) /\ DOMAIN Tail(queue) = 1 .. Len(queue) - 1 /\ Len(queue) \in Nat \ {0}
    BY <1>1, EmptySeq
<1>3. Elems(Tail(queue)) \subseteq Elems(queue) /\ Head(queue) \in Elems(queue)
    BY <1>1, <1>2 DEF Elems
<1>4. ASSUME NEW n \in 1 .. Len(queue)
      PROVE  queue[n] \in {Head(queue)} \cup Elems(Tail(queue))
    <2>1. CASE n = 1
        BY <1>1, <2>1
    <2>2. CASE n # 1
        <3>1. n - 1 \in DOMAIN Tail(queue) /\ Tail(queue)[n - 1] = queue[n]
            BY <1>1, <1>2, <2>2
        <3>. QED  BY <3>1 DEF Elems
    <2>. QED  BY <2>1, <2>2
<1>5. Elems(queue) \subseteq {Head(queue)} \cup Elems(Tail(queue))
    BY <1>2, <1>4 DEF Elems
<1>. QED  BY <1>1, <1>3, <1>5
-----------------------------------------------------------------------------
(* Uploading.                                                              *)

KeepsStore(fields) == \A f \in fields : store'[f] = store[f]
FilledV2 == IF PublishV2 /\ worker.reading # NoReading
            THEN Append(worker.outboxV2, worker.reading) ELSE worker.outboxV2
FilledV1 == IF PublishV1 /\ worker.reading # NoReading
            THEN Append(worker.outbox, worker.reading) ELSE worker.outbox

Enqueues ==
    /\ worker.pc = "queue" /\ worker'.pc = "drainV2"
    /\ DOMAIN worker' = WorkFields /\ KeepsWork(WorkFields \ {"pc", "outboxV2", "outbox"})
    /\ worker'.outboxV2 = Newest(FilledV2) /\ worker'.outbox = Newest(FilledV1)
    /\ DOMAIN store' = StoreFields /\ KeepsStore(StoreFields \ {"outboxV2", "outbox"})
    /\ store'.outboxV2 = worker'.outboxV2 /\ store'.outbox = worker'.outbox
    /\ fate' = fate \cup Fate("v2", Newest(FilledV2), "queued") \cup Fate("v1", Newest(FilledV1), "queued")
                    \cup Fate("v2", PushedOut(FilledV2), "gone") \cup Fate("v1", PushedOut(FilledV1), "gone")
    /\ UNCHANGED <<tab, server, ledger, reads, forgot>>

LEMMA EnqueueEnqueues ==
    ASSUME TypeInv, Enqueue
    PROVE  Enqueues
<1>1. worker.pc = "queue" /\ Working
    BY AtWork DEF Enqueue, Phases
<1>2. WorkTypes(worker) /\ DOMAIN store = StoreFields
    BY <1>1 DEF TypeInv, StoreTypes
<1>. DEFINE v2 == Newest(FilledV2)
            v1 == Newest(FilledV1)
            changes == [outboxV2 |-> v2, outbox |-> v1]
<1>3. Continue("drainV2", changes) /\ store' = With(store, changes)
    BY DEF Enqueue, FilledV2, FilledV1, Save
<1>4. UNCHANGED <<tab, server, ledger, reads, forgot>>
    BY DEF Enqueue
<1>5. fate' = fate \cup Fate("v2", Newest(FilledV2), "queued") \cup Fate("v1", Newest(FilledV1), "queued")
                    \cup Fate("v2", PushedOut(FilledV2), "gone") \cup Fate("v1", PushedOut(FilledV1), "gone")
    BY DEF Enqueue, FilledV2, FilledV1
<1>. HIDE DEF v2, v1
<1>6. DOMAIN changes = {"outboxV2", "outbox"} /\ changes["outboxV2"] = v2 /\ changes["outbox"] = v1
    OBVIOUS
<1>. HIDE DEF changes
<1>7. /\ DOMAIN worker' = WorkFields /\ worker'.pc = "drainV2"
      /\ KeepsWork(WorkFields \ {"pc", "outboxV2", "outbox"})
      /\ worker'.outboxV2 = v2 /\ worker'.outbox = v1
    BY <1>2, <1>3, <1>6, Continued DEF WorkFields, KeepsWork
<1>8. /\ DOMAIN store' = StoreFields /\ KeepsStore(StoreFields \ {"outboxV2", "outbox"})
      /\ store'.outboxV2 = v2 /\ store'.outbox = v1
    BY <1>2, <1>3, <1>6, Changed DEF StoreFields, KeepsStore
<1>. QED  BY <1>1, <1>4, <1>5, <1>7, <1>8 DEF v2, v1, Enqueues

\* What an upload does to its queue: it stays, or its first body is answered for
\* good; a body that was refused leaves an error.
Shrinks(route, before, after) ==
    \/ after = before
    \/ /\ before # <<>> /\ after = Tail(before)
       /\ Done(fate', route, Head(before).id)
       /\ \/ Delivered(fate', Head(before).id)
          \/ "lastError" \in DOMAIN worker'.patch /\ worker'.patch.lastError.at = reads
Uploads ==
    /\ worker.pc \in {"drainV2", "saveV2", "drainV1", "saveV1"}
    /\ worker'.pc \in {"drainV2", "saveV2", "drainV1", "saveV1", "finish"}
    /\ DOMAIN worker' = WorkFields /\ KeepsWork(WorkFields \ {"pc", "outboxV2", "outbox", "patch"})
    /\ Noted(worker.patch, worker'.patch)
    /\ "binding" \in DOMAIN worker'.patch => "binding" \in DOMAIN worker.patch
    /\ "binding" \in DOMAIN worker'.patch => worker'.patch.binding = worker.patch.binding
    /\ Shrinks("v2", worker.outboxV2, worker'.outboxV2)
    /\ Shrinks("v1", worker.outbox, worker'.outbox)
    /\ DOMAIN store' = StoreFields /\ KeepsStore(StoreFields \ {"outboxV2", "outbox"})
    /\ store'.outboxV2 \in {store.outboxV2, worker'.outboxV2}
    /\ store'.outbox \in {store.outbox, worker'.outbox}
    /\ worker.pc = "drainV2" => worker'.pc \in {"drainV2", "saveV2"} /\ UNCHANGED store
    /\ worker.pc = "drainV2" => worker'.outbox = worker.outbox
    /\ worker.pc = "drainV2" /\ ~worker.v2 => worker'.outboxV2 = worker.outboxV2
    /\ worker.pc = "saveV2" => worker'.pc \in {"drainV1", "finish"}
    /\ worker.pc = "saveV2" => worker'.outboxV2 = worker.outboxV2 /\ worker'.outbox = worker.outbox
    /\ worker.pc = "saveV2" => store'.outbox = store.outbox
    /\ worker.pc = "saveV2" => store'.outboxV2 = IF worker.v2 THEN worker.outboxV2 ELSE store.outboxV2
    /\ worker.pc \in {"drainV1", "saveV1"} => worker'.pc \in {"drainV1", "saveV1", "finish"}
    /\ worker.pc \in {"drainV1", "saveV1"} =>
          worker'.outboxV2 = worker.outboxV2 /\ store'.outboxV2 = store.outboxV2
    /\ worker'.pc = "finish" => store'.outbox = worker'.outbox \/ worker.pc = "saveV2"
    /\ fate \subseteq fate' /\ \A f \in fate' \ fate : f.what # "queued" /\ f.id \in Nat
    /\ UNCHANGED <<tab, server, reads, forgot>>
    /\ \/ UNCHANGED ledger
       \/ worker.v2 /\ worker.outboxV2 # <<>> /\ ledger' = Accepted

LEMMA StandingStill ==
    ASSUME WorkTypes(worker), worker'.patch = worker.patch
    PROVE  /\ Noted(worker.patch, worker'.patch)
           /\ "binding" \in DOMAIN worker'.patch => "binding" \in DOMAIN worker.patch
           /\ "binding" \in DOMAIN worker'.patch => worker'.patch.binding = worker.patch.binding
BY DEF WorkTypes, Noted

LEMMA StoreStays ==
    ASSUME TypeInv, UNCHANGED store
    PROVE  DOMAIN store' = StoreFields /\ \A fields \in SUBSET StoreFields : KeepsStore(fields)
BY DEF TypeInv, StoreTypes, KeepsStore

LEMMA SaveUploads ==
    ASSUME TypeInv, SaveV2 \/ SaveV1 \/ DrainedV2
    PROVE  Uploads
<1>1. worker.pc \in {"drainV2", "saveV2", "drainV1", "saveV1"} /\ Working
    BY AtWork DEF SaveV2, SaveV1, DrainedV2, Phases
<1>2. WorkTypes(worker) /\ DOMAIN store = StoreFields
    BY <1>1 DEF TypeInv, StoreTypes
<1>3. UNCHANGED <<tab, server, ledger, fate, reads, forgot>>
    BY DEF SaveV2, SaveV1, DrainedV2
<1>4. ASSUME NEW pc, Continue(pc, <<>>)
      PROVE  /\ DOMAIN worker' = WorkFields /\ worker'.pc = pc /\ KeepsWork(WorkFields \ {"pc"})
             /\ worker'.outboxV2 = worker.outboxV2 /\ worker'.outbox = worker.outbox
             /\ worker'.patch = worker.patch
    BY <1>2, <1>4, Continued DEF WorkFields, KeepsWork
<1>5. ASSUME NEW pc, Continue(pc, <<>>)
      PROVE  /\ KeepsWork(WorkFields \ {"pc", "outboxV2", "outbox", "patch"})
             /\ Shrinks("v2", worker.outboxV2, worker'.outboxV2) /\ Shrinks("v1", worker.outbox, worker'.outbox)
    BY <1>4, <1>5 DEF Shrinks, KeepsWork
<1>6. CASE DrainedV2
    <2>1. worker.pc = "drainV2" /\ Continue("saveV2", <<>>) /\ UNCHANGED store
        BY <1>6 DEF DrainedV2
    <2>2. /\ DOMAIN worker' = WorkFields /\ worker'.pc = "saveV2"
          /\ worker'.outboxV2 = worker.outboxV2 /\ worker'.outbox = worker.outbox
          /\ worker'.patch = worker.patch
        BY <2>1, <1>4
    <2>3. KeepsStore(StoreFields \ {"outboxV2", "outbox"}) /\ DOMAIN store' = StoreFields
        BY <2>1, StoreStays
    <2>. QED  BY <1>2, <1>3, <1>5, <2>1, <2>2, <2>3, StandingStill DEF Uploads
<1>7. CASE SaveV2
    <2>. DEFINE changes == [outboxV2 |-> worker.outboxV2]
                pc == IF PublishV1 /\ worker.outbox # <<>> THEN "drainV1" ELSE "finish"
    <2>1. worker.pc = "saveV2" /\ Continue(pc, <<>>)
        BY <1>7 DEF SaveV2
    <2>2. IF worker.v2 THEN store' = With(store, changes) ELSE UNCHANGED store
        BY <1>7 DEF SaveV2, Save
    <2>3. pc \in {"drainV1", "finish"}
        OBVIOUS
    <2>. HIDE DEF pc
    <2>4. /\ DOMAIN worker' = WorkFields /\ worker'.pc = pc
          /\ worker'.outboxV2 = worker.outboxV2 /\ worker'.outbox = worker.outbox
          /\ worker'.patch = worker.patch
        BY <2>1, <1>4
    <2>5. DOMAIN changes = {"outboxV2"} /\ changes["outboxV2"] = worker.outboxV2
        OBVIOUS
    <2>. HIDE DEF changes
    <2>6. /\ DOMAIN store' = StoreFields /\ KeepsStore(StoreFields \ {"outboxV2"})
          /\ store'.outboxV2 = IF worker.v2 THEN worker.outboxV2 ELSE store.outboxV2
        <3>1. CASE worker.v2
            BY <1>2, <2>2, <2>5, <3>1, Changed DEF StoreFields, KeepsStore
        <3>2. CASE ~worker.v2
            BY <2>2, <3>2, StoreStays
        <3>. QED  BY <3>1, <3>2
    <2>7. KeepsStore(StoreFields \ {"outboxV2", "outbox"}) /\ store'.outbox = store.outbox
        BY <2>6 DEF KeepsStore, StoreFields
    <2>. QED  BY <1>2, <1>3, <1>5, <2>1, <2>3, <2>4, <2>6, <2>7, StandingStill DEF Uploads
<1>8. CASE SaveV1
    <2>. DEFINE changes == [outbox |-> worker.outbox]
    <2>1. /\ worker.pc \in {"drainV1", "saveV1"} /\ Continue("finish", <<>>)
          /\ store' = With(store, changes)
        BY <1>8 DEF SaveV1, Save
    <2>4. /\ DOMAIN worker' = WorkFields /\ worker'.pc = "finish"
          /\ worker'.outboxV2 = worker.outboxV2 /\ worker'.outbox = worker.outbox
          /\ worker'.patch = worker.patch
        BY <2>1, <1>4
    <2>5. DOMAIN changes = {"outbox"} /\ changes["outbox"] = worker.outbox
        OBVIOUS
    <2>. HIDE DEF changes
    <2>6. /\ DOMAIN store' = StoreFields /\ KeepsStore(StoreFields \ {"outbox"})
          /\ store'.outbox = worker.outbox
        BY <1>2, <2>1, <2>5, Changed DEF StoreFields, KeepsStore
    <2>7. KeepsStore(StoreFields \ {"outboxV2", "outbox"}) /\ store'.outboxV2 = store.outboxV2
        BY <2>6 DEF KeepsStore, StoreFields
    <2>. QED  BY <1>2, <1>3, <1>5, <2>1, <2>4, <2>6, <2>7, StandingStill DEF Uploads
<1>. QED  BY <1>6, <1>7, <1>8

\* Only what the server took or refused for good leaves its queue.
LEMMA Answered ==
    ASSUME NEW route, NEW queue, NEW auth,
           NEW answer \in {"2xx", "401", "4xx", "5xx", "network"}
    PROVE  /\ answer = "2xx" => /\ Shifted(queue, answer) = Tail(queue) /\ ~Stops(answer)
                                /\ Settled(route, queue, answer) = Fate(route, <<Head(queue)>>, "taken")
                                /\ AfterAnswer(answer, auth) = worker.patch
           /\ answer = "4xx" => /\ Shifted(queue, answer) = Tail(queue) /\ ~Stops(answer)
                                /\ Settled(route, queue, answer) = Fate(route, <<Head(queue)>>, "refused")
                                /\ AfterAnswer(answer, auth) = Fail(worker.patch, "rejected")
           /\ answer \in {"401", "5xx", "network"} =>
                 /\ Shifted(queue, answer) = queue /\ Stops(answer)
                 /\ Settled(route, queue, answer) = {}
                 /\ AfterAnswer(answer, auth) \in {Fail(worker.patch, auth), Fail(worker.patch, "retry")}
<1>1. /\ Disposition("2xx") = "done" /\ Disposition("401") = "stop" /\ Disposition("4xx") = "drop"
      /\ Disposition("5xx") = "retain" /\ Disposition("network") = "retain"
    BY DEF Disposition
<1>2. CASE answer = "2xx"
    BY <1>1, <1>2 DEF Shifted, Stops, Settled, AfterAnswer
<1>3. CASE answer = "4xx"
    BY <1>1, <1>3 DEF Shifted, Stops, Settled, AfterAnswer
<1>4. CASE answer = "401"
    BY <1>1, <1>4 DEF Shifted, Stops, Settled, AfterAnswer
<1>5. CASE answer \in {"5xx", "network"}
    BY <1>1, <1>5 DEF Shifted, Stops, Settled, AfterAnswer
<1>. QED  BY <1>2, <1>3, <1>4, <1>5

\* One answer: the queue it was for shrinks or stays.
LEMMA AnswerShrinks ==
    ASSUME TypeInv, WorkTypes(worker), NEW route, NEW queue \in Seq(ReadingSet), queue # <<>>,
           NEW auth, auth # "none",
           NEW answer \in {"2xx", "401", "4xx", "5xx", "network"},
           fate' = fate \cup Settled(route, queue, answer),
           worker'.patch = AfterAnswer(answer, auth)
    PROVE  /\ Shrinks(route, queue, Shifted(queue, answer))
           /\ Noted(worker.patch, worker'.patch)
           /\ "binding" \in DOMAIN worker'.patch => "binding" \in DOMAIN worker.patch
           /\ "binding" \in DOMAIN worker'.patch => worker'.patch.binding = worker.patch.binding
           /\ fate \subseteq fate' /\ \A f \in fate' \ fate : f.what # "queued" /\ f.id \in Nat
<1>1. PatchTypes(worker.patch) /\ reads \in Nat
    BY DEF WorkTypes, TypeInv
<1>2. ASSUME NEW code, code # "none", worker'.patch = Fail(worker.patch, code)
      PROVE  /\ Noted(worker.patch, worker'.patch)
             /\ "binding" \in DOMAIN worker'.patch => "binding" \in DOMAIN worker.patch
             /\ "binding" \in DOMAIN worker'.patch => worker'.patch.binding = worker.patch.binding
             /\ "lastError" \in DOMAIN worker'.patch /\ worker'.patch.lastError.at = reads
    BY <1>1, <1>2, FailNotes
<1>3. Head(queue) \in ReadingSet /\ Head(queue).id \in Nat
    BY ShiftedIn DEF ReadingSet
<1>4. ASSUME NEW what \in {"taken", "refused"}, fate' = fate \cup Fate(route, <<Head(queue)>>, what)
      PROVE  /\ Done(fate', route, Head(queue).id)
             /\ what = "taken" => Delivered(fate', Head(queue).id)
             /\ fate \subseteq fate' /\ \A f \in fate' \ fate : f.what # "queued" /\ f.id \in Nat
    <2>1. In(<<Head(queue)>>, Head(queue).id) /\ \A id : In(<<Head(queue)>>, id) => id = Head(queue).id
        BY DEF In
    <2>. QED  BY <1>3, <1>4, <2>1, FateOf DEF Done, Delivered
<1>5. CASE answer = "2xx"
    BY <1>4, <1>5, Answered, StandingStill DEF Shrinks
<1>6. CASE answer = "4xx"
    BY <1>2, <1>4, <1>6, Answered DEF Shrinks
<1>7. CASE answer \in {"401", "5xx", "network"}
    BY <1>2, <1>7, Answered DEF Shrinks
<1>. QED  BY <1>5, <1>6, <1>7

LEMMA SendUploads ==
    ASSUME TypeInv, SendV2 \/ SendV1
    PROVE  Uploads
<1>1. worker.pc \in {"drainV2", "drainV1"} /\ Working
    BY AtWork DEF SendV2, SendV1, Phases
<1>2. WorkTypes(worker) /\ worker.outboxV2 \in Seq(ReadingSet) /\ worker.outbox \in Seq(ReadingSet)
    BY <1>1 DEF TypeInv, WorkTypes
<1>3. UNCHANGED <<store, tab, server, reads, forgot>>
    BY DEF SendV2, SendV1
<1>4. DOMAIN store' = StoreFields /\ KeepsStore(StoreFields \ {"outboxV2", "outbox"})
    BY <1>3, StoreStays
<1>5. CASE SendV2
    <2>1. /\ worker.pc = "drainV2" /\ worker.v2 /\ worker.outboxV2 # <<>>
          /\ \E answer \in {"2xx", "401", "4xx", "5xx", "network"} :
                /\ ledger' \in CASE answer = "2xx" -> {Accepted}
                                 [] answer = "network" -> {ledger, Accepted}
                                 [] OTHER -> {ledger}
                /\ fate' = fate \cup Settled("v2", worker.outboxV2, answer)
                /\ Continue(IF Stops(answer) THEN "saveV2" ELSE "drainV2",
                        [outboxV2 |-> Shifted(worker.outboxV2, answer),
                         patch |-> AfterAnswer(answer, "unauthorized")])
        BY <1>5 DEF SendV2
    <2>2. PICK answer \in {"2xx", "401", "4xx", "5xx", "network"} :
                /\ ledger' \in CASE answer = "2xx" -> {Accepted}
                                 [] answer = "network" -> {ledger, Accepted}
                                 [] OTHER -> {ledger}
                /\ fate' = fate \cup Settled("v2", worker.outboxV2, answer)
                /\ Continue(IF Stops(answer) THEN "saveV2" ELSE "drainV2",
                        [outboxV2 |-> Shifted(worker.outboxV2, answer),
                         patch |-> AfterAnswer(answer, "unauthorized")])
        BY <2>1
    <2>. DEFINE pc == IF Stops(answer) THEN "saveV2" ELSE "drainV2"
                rest == Shifted(worker.outboxV2, answer)
                patch == AfterAnswer(answer, "unauthorized")
                changes == [outboxV2 |-> rest, patch |-> patch]
    <2>3. Continue(pc, changes) /\ pc \in {"saveV2", "drainV2"}
        BY <2>2
    <2>4. ledger' \in {ledger, Accepted}
        BY <2>2
    <2>. HIDE DEF pc, rest, patch
    <2>5. DOMAIN changes = {"outboxV2", "patch"} /\ changes.outboxV2 = rest /\ changes.patch = patch
        OBVIOUS
    <2>. HIDE DEF changes
    <2>6. /\ DOMAIN worker' = WorkFields /\ worker'.pc = pc /\ worker'.outboxV2 = rest
          /\ worker'.patch = patch /\ worker'.outbox = worker.outbox
          /\ KeepsWork(WorkFields \ {"pc", "outboxV2", "outbox", "patch"})
        BY <1>2, <2>3, <2>5, Continued DEF WorkFields, KeepsWork
    <2>7. /\ Shrinks("v2", worker.outboxV2, rest)
          /\ Noted(worker.patch, worker'.patch)
          /\ "binding" \in DOMAIN worker'.patch => "binding" \in DOMAIN worker.patch
          /\ "binding" \in DOMAIN worker'.patch => worker'.patch.binding = worker.patch.binding
          /\ fate \subseteq fate' /\ \A f \in fate' \ fate : f.what # "queued" /\ f.id \in Nat
        BY <1>2, <2>1, <2>2, <2>6, AnswerShrinks DEF rest, patch
    <2>8. Shrinks("v1", worker.outbox, worker'.outbox)
        BY <2>6 DEF Shrinks
    <2>. QED  BY <1>3, <1>4, <2>1, <2>3, <2>4, <2>6, <2>7, <2>8 DEF Uploads
<1>6. CASE SendV1
    <2>1. /\ worker.pc = "drainV1" /\ worker.outbox # <<>> /\ UNCHANGED ledger
          /\ \E answer \in {"2xx", "401", "4xx", "5xx"} :
                /\ fate' = fate \cup Settled("v1", worker.outbox, answer)
                /\ Continue(IF Stops(answer) THEN "saveV1" ELSE "drainV1",
                        [outbox |-> Shifted(worker.outbox, answer),
                         patch |-> AfterAnswer(answer, "v1_unauthorized")])
        BY <1>6 DEF SendV1
    <2>2. PICK answer \in {"2xx", "401", "4xx", "5xx"} :
                /\ fate' = fate \cup Settled("v1", worker.outbox, answer)
                /\ Continue(IF Stops(answer) THEN "saveV1" ELSE "drainV1",
                        [outbox |-> Shifted(worker.outbox, answer),
                         patch |-> AfterAnswer(answer, "v1_unauthorized")])
        BY <2>1
    <2>. DEFINE pc == IF Stops(answer) THEN "saveV1" ELSE "drainV1"
                rest == Shifted(worker.outbox, answer)
                patch == AfterAnswer(answer, "v1_unauthorized")
                changes == [outbox |-> rest, patch |-> patch]
    <2>3. Continue(pc, changes) /\ pc \in {"saveV1", "drainV1"}
        BY <2>2
    <2>. HIDE DEF pc, rest, patch
    <2>5. DOMAIN changes = {"outbox", "patch"} /\ changes.outbox = rest /\ changes.patch = patch
        OBVIOUS
    <2>. HIDE DEF changes
    <2>6. /\ DOMAIN worker' = WorkFields /\ worker'.pc = pc /\ worker'.outbox = rest
          /\ worker'.patch = patch /\ worker'.outboxV2 = worker.outboxV2
          /\ KeepsWork(WorkFields \ {"pc", "outboxV2", "outbox", "patch"})
        BY <1>2, <2>3, <2>5, Continued DEF WorkFields, KeepsWork
    <2>7. /\ Shrinks("v1", worker.outbox, rest)
          /\ Noted(worker.patch, worker'.patch)
          /\ "binding" \in DOMAIN worker'.patch => "binding" \in DOMAIN worker.patch
          /\ "binding" \in DOMAIN worker'.patch => worker'.patch.binding = worker.patch.binding
          /\ fate \subseteq fate' /\ \A f \in fate' \ fate : f.what # "queued" /\ f.id \in Nat
        BY <1>2, <2>1, <2>2, <2>6, AnswerShrinks DEF rest, patch
    <2>8. Shrinks("v2", worker.outboxV2, worker'.outboxV2)
        BY <2>6 DEF Shrinks
    <2>. QED  BY <1>3, <1>4, <2>1, <2>3, <2>6, <2>7, <2>8 DEF Uploads
<1>. QED  BY <1>5, <1>6
-----------------------------------------------------------------------------
(* What starts from rest: a collection, and the calls of the set-up.       *)

Started(w, s) ==
    /\ WorkTypes(w) /\ w.pc \in {"config", "read"}
    /\ w.state = s /\ w.v2 = (s.install # 0 /\ s.binding # NoBinding) /\ w.collect = FALSE
    /\ w.pc = "config" => w.v2
    /\ w.binding = s.binding /\ w.reading = NoReading /\ w.failure = "none"
    /\ DOMAIN w.patch = {}
    /\ w.outboxV2 = s.outboxV2 /\ w.outbox = s.outbox

LEMMA CollectingStarts ==
    ASSUME NEW s, StoreTypes(s), Collecting(s) # Resting
    PROVE  Started(Collecting(s), s)
<1>. DEFINE v2 == s.install # 0 /\ s.binding # NoBinding
            pc == IF v2 THEN "config" ELSE "read"
            none == <<>>
            w == [pc |-> pc, state |-> s, v2 |-> v2,
                  collect |-> FALSE, binding |-> s.binding, hash |-> Absent,
                  reading |-> NoReading, failure |-> "none", patch |-> none,
                  outboxV2 |-> s.outboxV2, outbox |-> s.outbox]
<1>1. Collecting(s) = w
    BY DEF Collecting
<1>2. v2 \in BOOLEAN /\ pc \in {"config", "read"} /\ pc \in Phases /\ (pc = "config" => v2)
    BY DEF Phases
<1>3. DOMAIN none = {}
    OBVIOUS
<1>. HIDE DEF v2, pc, none
<1>4. /\ DOMAIN w = WorkFields
      /\ w.pc = pc /\ w.state = s /\ w.v2 = v2 /\ w.collect = FALSE /\ w.binding = s.binding
      /\ w.hash = Absent /\ w.reading = NoReading /\ w.failure = "none" /\ w.patch = none
      /\ w.outboxV2 = s.outboxV2 /\ w.outbox = s.outbox
    BY DEF WorkFields
<1>. HIDE DEF w
<1>5. NoReading \in ReadingSet /\ Absent \in Hashes
    BY DEF NoReading, ReadingSet, Accounts, Hashes
<1>6. PatchTypes(none)
    BY <1>3 DEF PatchTypes
<1>7. WorkTypes(w)
    BY <1>2, <1>4, <1>5, <1>6 DEF WorkTypes, StoreTypes
<1>. QED  BY <1>1, <1>2, <1>3, <1>4, <1>7 DEF Started, v2

\* A queue a call clears is given up body by body.
Clears(before, after) ==
    \/ after = before
    \/ /\ after = <<>>
       /\ \A id : In(before, id) => Delivered(fate', id)
ClearsRoute(route, before, after) ==
    /\ Clears(before, after)
    /\ after = before \/ \A id : In(before, id) => Done(fate', route, id)
KeepsBinding ==
    /\ store'.install = store.install
    /\ store.binding # NoBinding => store'.binding # NoBinding /\ store'.pin = store.pin
Unbinds ==
    /\ store'.binding = NoBinding /\ store'.outboxV2 = <<>>
    /\ store'.install = 0 \/ store'.install > Len(server)
SetsUp ==
    /\ worker = Resting
    /\ worker' = Resting \/ Started(worker', store')
    /\ StoreTypes(store') /\ BindingInv'
    /\ server' \in Seq(ServerSet) /\ Len(server') >= Len(server) /\ store'.install <= Len(server')
    /\ KeepsBinding \/ Unbinds
    /\ ClearsRoute("v2", store.outboxV2, store'.outboxV2)
    /\ ClearsRoute("v1", store.outbox, store'.outbox)
    /\ fate \subseteq fate' /\ \A f \in fate' \ fate : f.what # "queued" /\ f.id \in Nat
    /\ store'.lastRead \in {store.lastRead, 0}
    /\ ~forgot' => ~forgot /\ (store'.lastError = store.lastError \/ store.lastError = NoError)
    /\ forgot' \in BOOLEAN
    /\ UNCHANGED <<tab, ledger, reads>>

LEMMA BeginSetsUp ==
    ASSUME TypeInv, BindingInv, BeginCollect
    PROVE  SetsUp
<1>1. /\ worker = Resting /\ worker' = Collecting(store)
      /\ UNCHANGED <<store, tab, server, ledger, fate, reads, forgot>>
    BY DEF BeginCollect
<1>2. StoreTypes(store) /\ server \in Seq(ServerSet) /\ Len(server) \in Nat
    BY DEF TypeInv
<1>3. worker' = Resting \/ Started(worker', store')
    BY <1>1, <1>2, CollectingStarts
<1>4. StoreTypes(store')
    BY <1>1, <1>2
<1>5. BindingInv'
    BY <1>1 DEF BindingInv
<1>6. KeepsBinding
    BY <1>1 DEF KeepsBinding
<1>7. ClearsRoute("v2", store.outboxV2, store'.outboxV2) /\ ClearsRoute("v1", store.outbox, store'.outbox)
    BY <1>1 DEF ClearsRoute, Clears
<1>. QED  BY <1>1, <1>2, <1>3, <1>4, <1>5, <1>6, <1>7 DEF SetsUp, TypeInv

LEMMA ClearedGone ==
    ASSUME NEW route, NEW queue \in Seq(ReadingSet), fate' = fate \cup Fate(route, queue, "gone")
    PROVE  /\ ClearsRoute(route, queue, <<>>)
           /\ fate \subseteq fate' /\ \A f \in fate' \ fate : f.what # "queued" /\ f.id \in Nat
<1>1. ASSUME NEW id, In(queue, id)
      PROVE  Delivered(fate', id) /\ Done(fate', route, id)
    <2>1. PICK f \in Fate(route, queue, "gone") : f.route = route /\ f.id = id /\ f.what = "gone"
        BY <1>1, FateOf
    <2>2. f \in fate'
        BY <2>1
    <2>3. Delivered(fate', id)
        BY <2>1, <2>2 DEF Delivered
    <2>4. Done(fate', route, id)
        BY <2>1, <2>2 DEF Done
    <2>. QED  BY <2>3, <2>4
<1>2. \A id : In(queue, id) => id \in Nat
    <2>1. \A n \in DOMAIN queue : queue[n] \in ReadingSet
        OBVIOUS
    <2>2. \A n \in DOMAIN queue : queue[n].id \in Nat
        BY <2>1 DEF ReadingSet
    <2>. QED  BY <2>2 DEF In
<1>3. \A f \in fate' \ fate : f.what # "queued" /\ f.id \in Nat
    BY <1>2, FateOf
<1>. QED  BY <1>1, <1>3 DEF ClearsRoute, Clears

LEMMA SavedFields ==
    ASSUME TypeInv, NEW changes, Save(changes)
    PROVE  /\ DOMAIN store' = StoreFields
           /\ \A f \in StoreFields : store'[f] = IF f \in DOMAIN changes THEN changes[f] ELSE store[f]
BY Changed DEF Save, TypeInv, StoreTypes

LEMMA ForgotSetup ==
    ASSUME TypeInv, NEW changes, SaveSetup(changes),
           "lastError" \in DOMAIN changes => changes.lastError = NoError
    PROVE  /\ forgot' \in BOOLEAN
           /\ ~forgot' => ~forgot /\ (store'.lastError = store.lastError \/ store.lastError = NoError)
           /\ Save(changes)
<1>1. store'.lastError = store.lastError \/ store'.lastError = NoError
    BY SavedFields DEF SaveSetup, StoreFields
<1>. QED  BY <1>1 DEF SaveSetup, TypeInv

LEMMA PairSetsUp ==
    ASSUME TypeInv, BindingInv, Pair
    PROVE  SetsUp
<1>. DEFINE added == [disabled |-> FALSE, stop |-> "none", hash |-> Absent]
            none == <<>>
            changes == [install |-> Len(server'), binding |-> NoBinding, outboxV2 |-> none,
                        config |-> NoConfig, gate |-> "none", lastError |-> NoError]
<1>1. /\ worker = Resting /\ worker' = worker /\ server' = Append(server, added)
      /\ SaveSetup(changes) /\ fate' = fate \cup Fate("v2", store.outboxV2, "gone")
      /\ UNCHANGED <<tab, ledger, reads>>
    BY DEF Pair, Setup, Free, ClearedV2, Collects
<1>2. StoreTypes(store) /\ server \in Seq(ServerSet) /\ Len(server) \in Nat
    BY DEF TypeInv
<1>3. added \in ServerSet
    BY DEF ServerSet, StopSet, Hashes
<1>. HIDE DEF added
<1>4. server' \in Seq(ServerSet) /\ Len(server') = Len(server) + 1
    BY <1>1, <1>2, <1>3, AppendProperties
<1>5. /\ DOMAIN changes = {"install", "binding", "outboxV2", "config", "gate", "lastError"}
      /\ changes.install = Len(server') /\ changes.binding = NoBinding /\ changes.outboxV2 = none
      /\ changes.config = NoConfig /\ changes.gate = "none" /\ changes.lastError = NoError
    OBVIOUS
<1>6. none \in Seq(ReadingSet) /\ NoBinding \in BindingSet /\ NoConfig \in ConfigSet /\ "none" \in StopSet
    BY DEF NoBinding, BindingSet, NoConfig, ConfigSet, StopSet, Hashes
<1>. HIDE DEF changes, none
<1>7. /\ DOMAIN store' = StoreFields
      /\ store'.install = Len(server') /\ store'.binding = NoBinding /\ store'.outboxV2 = none
      /\ store'.config = NoConfig /\ store'.gate = "none"
      /\ \A f \in {"connection", "pin", "outbox", "lastRead"} : store'[f] = store[f]
    BY <1>1, <1>5, SavedFields DEF SaveSetup, StoreFields
<1>8. StoreTypes(store')
    BY <1>2, <1>4, <1>6, <1>7 DEF StoreTypes
<1>9. BindingInv' /\ Unbinds
    BY <1>2, <1>4, <1>7 DEF BindingInv, Unbinds, none
<1>10. /\ ClearsRoute("v2", store.outboxV2, <<>>)
       /\ fate \subseteq fate' /\ \A f \in fate' \ fate : f.what # "queued" /\ f.id \in Nat
    BY <1>1, <1>2, ClearedGone DEF StoreTypes
<1>11. ClearsRoute("v1", store.outbox, store'.outbox)
    BY <1>7 DEF ClearsRoute, Clears
<1>12. /\ forgot' \in BOOLEAN
       /\ ~forgot' => ~forgot /\ (store'.lastError = store.lastError \/ store.lastError = NoError)
    BY <1>1, <1>5, ForgotSetup
<1>. QED  BY <1>1, <1>2, <1>4, <1>7, <1>8, <1>9, <1>10, <1>11, <1>12 DEF SetsUp, none

LEMMA UnpairSetsUp ==
    ASSUME TypeInv, BindingInv, Unpair
    PROVE  SetsUp
<1>. DEFINE none == <<>>
            pin == IF store.connection THEN store.pin ELSE Nobody
            read == IF store.connection THEN store.lastRead ELSE 0
            changes == [install |-> 0, binding |-> NoBinding, outboxV2 |-> none, config |-> NoConfig,
                        gate |-> "none", lastError |-> NoError, pin |-> pin, lastRead |-> read]
<1>1. /\ worker = Resting /\ worker' = worker
      /\ SaveSetup(changes) /\ fate' = fate \cup Fate("v2", store.outboxV2, "gone")
      /\ UNCHANGED <<tab, ledger, reads, server>>
    BY DEF Unpair, Setup, Free, ClearedV2, Collects
<1>2. StoreTypes(store) /\ server \in Seq(ServerSet) /\ Len(server) \in Nat
    BY DEF TypeInv
<1>3. pin \in Accounts /\ read \in {store.lastRead, 0} /\ read \in Nat
    BY <1>2 DEF StoreTypes, Accounts
<1>. HIDE DEF pin, read
<1>5. /\ DOMAIN changes = {"install", "binding", "outboxV2", "config", "gate", "lastError", "pin", "lastRead"}
      /\ changes.install = 0 /\ changes.binding = NoBinding /\ changes.outboxV2 = none
      /\ changes.config = NoConfig /\ changes.gate = "none" /\ changes.lastError = NoError
      /\ changes.pin = pin /\ changes.lastRead = read
    OBVIOUS
<1>6. none \in Seq(ReadingSet) /\ NoBinding \in BindingSet /\ NoConfig \in ConfigSet /\ "none" \in StopSet
    BY DEF NoBinding, BindingSet, NoConfig, ConfigSet, StopSet, Hashes
<1>. HIDE DEF changes, none
<1>7. /\ DOMAIN store' = StoreFields
      /\ store'.install = 0 /\ store'.binding = NoBinding /\ store'.outboxV2 = none
      /\ store'.config = NoConfig /\ store'.gate = "none" /\ store'.pin = pin /\ store'.lastRead = read
      /\ \A f \in {"connection", "outbox"} : store'[f] = store[f]
    BY <1>1, <1>5, SavedFields DEF SaveSetup, StoreFields
<1>8. StoreTypes(store')
    BY <1>2, <1>3, <1>6, <1>7 DEF StoreTypes
<1>9. BindingInv' /\ Unbinds
    BY <1>7 DEF BindingInv, Unbinds, none
<1>10. /\ ClearsRoute("v2", store.outboxV2, <<>>)
       /\ fate \subseteq fate' /\ \A f \in fate' \ fate : f.what # "queued" /\ f.id \in Nat
    BY <1>1, <1>2, ClearedGone DEF StoreTypes
<1>11. ClearsRoute("v1", store.outbox, store'.outbox)
    BY <1>7 DEF ClearsRoute, Clears
<1>12. /\ forgot' \in BOOLEAN
       /\ ~forgot' => ~forgot /\ (store'.lastError = store.lastError \/ store.lastError = NoError)
    BY <1>1, <1>5, ForgotSetup
<1>. QED  BY <1>1, <1>2, <1>3, <1>7, <1>8, <1>9, <1>10, <1>11, <1>12 DEF SetsUp, none

\* What removes or replaces the old connection.
LEMMA LegacySetsUp ==
    ASSUME TypeInv, BindingInv, RemoveLegacy \/ Import
    PROVE  SetsUp
<1>. DEFINE none == <<>>
<1>1. /\ worker = Resting /\ worker' = worker
      /\ fate' = fate \cup Fate("v1", store.outbox, "gone")
      /\ UNCHANGED <<tab, ledger, reads, server>>
    BY DEF RemoveLegacy, Import, Setup, Free, ClearedV1, Collects
<1>2. StoreTypes(store) /\ server \in Seq(ServerSet) /\ Len(server) \in Nat /\ store.install <= Len(server)
    BY DEF TypeInv
<1>3. none \in Seq(ReadingSet)
    OBVIOUS
<1>4. /\ DOMAIN store' = StoreFields
      /\ store'.outbox = none /\ store'.connection \in BOOLEAN
      /\ store'.pin \in {store.pin, Nobody}
      /\ store.binding # NoBinding => store'.pin = store.pin
      /\ \A f \in {"install", "binding", "outboxV2", "config", "gate", "lastRead"} : store'[f] = store[f]
      /\ forgot' \in BOOLEAN
      /\ ~forgot' => ~forgot /\ (store'.lastError = store.lastError \/ store.lastError = NoError)
    <2>1. CASE RemoveLegacy
        <3>. DEFINE pin == IF store.install # 0 THEN store.pin ELSE Nobody
                    changes == [connection |-> FALSE, outbox |-> none, pin |-> pin]
        <3>1. SaveSetup(changes)
            BY <2>1 DEF RemoveLegacy
        <3>2. pin \in {store.pin, Nobody} /\ (store.binding # NoBinding => pin = store.pin)
            BY DEF BindingInv
        <3>. HIDE DEF pin, none
        <3>3. /\ DOMAIN changes = {"connection", "outbox", "pin"} /\ changes.connection = FALSE
              /\ changes.outbox = none /\ changes.pin = pin
            OBVIOUS
        <3>. HIDE DEF changes
        <3>4. Save(changes) /\ forgot' \in BOOLEAN
              /\ (~forgot' => ~forgot /\ (store'.lastError = store.lastError \/ store.lastError = NoError))
            BY <3>1, <3>3, ForgotSetup
        <3>. QED  BY <3>2, <3>3, <3>4, SavedFields DEF StoreFields
    <2>2. CASE Import
        <3>. DEFINE pin == IF store.binding # NoBinding THEN store.pin ELSE Nobody
                    changes == [connection |-> TRUE, outbox |-> none, lastError |-> NoError, pin |-> pin]
        <3>1. SaveSetup(changes)
            BY <2>2 DEF Import
        <3>2. pin \in {store.pin, Nobody} /\ (store.binding # NoBinding => pin = store.pin)
            OBVIOUS
        <3>. HIDE DEF pin, none
        <3>3. /\ DOMAIN changes = {"connection", "outbox", "pin", "lastError"} /\ changes.connection = TRUE
              /\ changes.outbox = none /\ changes.pin = pin /\ changes.lastError = NoError
            OBVIOUS
        <3>. HIDE DEF changes
        <3>4. Save(changes) /\ forgot' \in BOOLEAN
              /\ (~forgot' => ~forgot /\ (store'.lastError = store.lastError \/ store.lastError = NoError))
            BY <3>1, <3>3, ForgotSetup
        <3>. QED  BY <3>2, <3>3, <3>4, SavedFields DEF StoreFields
    <2>. QED  BY <2>1, <2>2
<1>. HIDE DEF none
<1>5. StoreTypes(store')
    BY <1>2, <1>3, <1>4 DEF StoreTypes, Accounts
<1>6. BindingInv' /\ KeepsBinding
    BY <1>4 DEF BindingInv, KeepsBinding
<1>7. /\ ClearsRoute("v1", store.outbox, <<>>)
      /\ fate \subseteq fate' /\ \A f \in fate' \ fate : f.what # "queued" /\ f.id \in Nat
    BY <1>1, <1>2, ClearedGone DEF StoreTypes
<1>8. ClearsRoute("v2", store.outboxV2, store'.outboxV2)
    BY <1>4 DEF ClearsRoute, Clears
<1>. QED  BY <1>1, <1>2, <1>4, <1>5, <1>6, <1>7, <1>8 DEF SetsUp, none

LEMMA BindSetsUp ==
    ASSUME TypeInv, BindingInv, Bind
    PROVE  SetsUp
<1>. DEFINE key == store.install
            hash == IF server[key].hash \in {Absent, EmptyHash} THEN tab ELSE server[key].hash
            binding == [hash |-> tab, confirmed |-> TRUE]
            changes == [binding |-> binding, pin |-> tab, lastError |-> NoError, gate |-> "none"]
<1>1. /\ worker = Resting /\ UNCHANGED <<tab, ledger, reads, fate>>
      /\ store.install # 0 /\ tab # Nobody /\ store.pin \in {Nobody, tab}
      /\ server' = [server EXCEPT ![key].hash = hash]
      /\ IF hash = tab THEN SaveSetup(changes) ELSE UNCHANGED <<store, forgot>>
      /\ worker' = IF hash = tab THEN Collecting(store') ELSE worker
    BY DEF Bind, Setup, Free, Inspected, Collects
<1>2. /\ StoreTypes(store) /\ server \in Seq(ServerSet) /\ Len(server) \in Nat /\ store.install <= Len(server)
      /\ key \in 1 .. Len(server) /\ forgot \in BOOLEAN
    BY <1>1 DEF TypeInv, StoreTypes
<1>3. tab \in ClaudeAccounts
    BY <1>1 DEF TypeInv, Accounts
<1>4. server[key] \in ServerSet
    BY <1>2
<1>5. hash \in Hashes
    BY <1>3, <1>4 DEF ServerSet, Hashes
<1>. HIDE DEF hash
<1>6. server' \in Seq(ServerSet) /\ Len(server') = Len(server)
    BY <1>1, <1>2, <1>5, ServerEdited
<1>7. binding \in BindingSet /\ binding # NoBinding /\ binding.hash = tab
    BY <1>3 DEF BindingSet, NoBinding
<1>. HIDE DEF binding
<1>8. DOMAIN changes = {"binding", "pin", "lastError", "gate"} /\ changes.binding = binding
      /\ changes.pin = tab /\ changes.lastError = NoError /\ changes.gate = "none" /\ "none" \in StopSet
    BY DEF StopSet
<1>. HIDE DEF changes
<1>9. fate \subseteq fate' /\ \A f \in fate' \ fate : f.what # "queued" /\ f.id \in Nat
    BY <1>1
<1>10. CASE hash = tab
    <2>1. Save(changes) /\ forgot' \in BOOLEAN
          /\ (~forgot' => ~forgot /\ (store'.lastError = store.lastError \/ store.lastError = NoError))
        BY <1>1, <1>8, <1>10, ForgotSetup
    <2>2. /\ DOMAIN store' = StoreFields /\ store'.binding = binding /\ store'.pin = tab
          /\ store'.gate = "none"
          /\ \A f \in {"install", "connection", "outboxV2", "outbox", "config", "lastRead"} :
                store'[f] = store[f]
        BY <1>8, <2>1, SavedFields DEF StoreFields
    <2>3. StoreTypes(store')
        BY <1>2, <1>3, <1>7, <1>8, <2>2 DEF StoreTypes, Accounts
    <2>4. BindingInv'
        BY <1>1, <1>3, <1>7, <2>2 DEF BindingInv
    <2>5. KeepsBinding
        <3>1. store.binding # NoBinding => store.pin # Nobody
            BY CollectorAssumption DEF BindingInv
        <3>. QED  BY <1>1, <1>7, <2>2, <3>1 DEF KeepsBinding
    <2>6. ClearsRoute("v2", store.outboxV2, store'.outboxV2) /\ ClearsRoute("v1", store.outbox, store'.outbox)
        BY <2>2 DEF ClearsRoute, Clears
    <2>7. worker' = Resting \/ Started(worker', store')
        BY <1>1, <1>10, <2>3, CollectingStarts
    <2>. QED  BY <1>1, <1>2, <1>6, <1>9, <2>1, <2>2, <2>3, <2>4, <2>5, <2>6, <2>7 DEF SetsUp
<1>11. CASE hash # tab
    <2>1. store' = store /\ worker' = worker /\ forgot' = forgot
        BY <1>1, <1>11
    <2>2. BindingInv' /\ KeepsBinding /\ StoreTypes(store')
        BY <1>2, <2>1 DEF BindingInv, KeepsBinding
    <2>3. ClearsRoute("v2", store.outboxV2, store'.outboxV2) /\ ClearsRoute("v1", store.outbox, store'.outbox)
        BY <2>1 DEF ClearsRoute, Clears
    <2>. QED  BY <1>1, <1>2, <1>6, <1>9, <2>1, <2>2, <2>3 DEF SetsUp
<1>. QED  BY <1>10, <1>11

LEMMA PinSetsUp ==
    ASSUME TypeInv, BindingInv, Pin
    PROVE  SetsUp
<1>. DEFINE changes == [pin |-> tab, lastError |-> NoError]
<1>1. /\ worker = Resting /\ UNCHANGED <<tab, ledger, reads, fate, server>>
      /\ tab # Nobody /\ store.pin \in {Nobody, tab}
      /\ SaveSetup(changes) /\ worker' = Collecting(store')
    BY DEF Pin, Setup, Free, Inspected, Collects
<1>2. /\ StoreTypes(store) /\ server \in Seq(ServerSet) /\ Len(server) \in Nat /\ store.install <= Len(server)
    BY DEF TypeInv
<1>3. tab \in ClaudeAccounts
    BY <1>1 DEF TypeInv, Accounts
<1>4. DOMAIN changes = {"pin", "lastError"} /\ changes.pin = tab /\ changes.lastError = NoError
    OBVIOUS
<1>. HIDE DEF changes
<1>5. Save(changes) /\ forgot' \in BOOLEAN
      /\ (~forgot' => ~forgot /\ (store'.lastError = store.lastError \/ store.lastError = NoError))
    BY <1>1, <1>4, ForgotSetup
<1>6. /\ DOMAIN store' = StoreFields /\ store'.pin = tab
      /\ \A f \in {"install", "binding", "connection", "outboxV2", "outbox", "config", "gate", "lastRead"} :
            store'[f] = store[f]
    BY <1>4, <1>5, SavedFields DEF StoreFields
<1>7. StoreTypes(store')
    BY <1>2, <1>3, <1>6 DEF StoreTypes, Accounts
<1>8. store.binding # NoBinding => store.pin # Nobody
    BY CollectorAssumption DEF BindingInv
<1>9. BindingInv' /\ KeepsBinding
    BY <1>1, <1>6, <1>8 DEF BindingInv, KeepsBinding
<1>10. ClearsRoute("v2", store.outboxV2, store'.outboxV2) /\ ClearsRoute("v1", store.outbox, store'.outbox)
    BY <1>6 DEF ClearsRoute, Clears
<1>11. worker' = Resting \/ Started(worker', store')
    BY <1>1, <1>7, CollectingStarts
<1>. QED  BY <1>1, <1>2, <1>5, <1>6, <1>7, <1>9, <1>10, <1>11 DEF SetsUp
-----------------------------------------------------------------------------
(* The end of a collection, and what happens around it.                    *)

Ends ==
    /\ worker.pc = "finish" /\ worker' = Resting
    /\ DOMAIN store' = StoreFields
    /\ KeepsStore({"install", "connection", "pin", "outboxV2", "outbox", "config"})
    /\ \/ store'.binding = store.binding
       \/ /\ worker.v2 /\ store'.binding \in BindingSet /\ store'.binding.hash = store.binding.hash
    /\ store'.gate \in StopSet
    /\ store'.lastRead = IF worker.reading = NoReading THEN store.lastRead ELSE reads
    /\ worker.reading = NoReading /\ worker.failure # "none" =>
          store'.lastError # NoError /\ store'.lastError.at = reads
    /\ worker.failure = "none" /\ "lastError" \in DOMAIN worker.patch =>
          store'.lastError = worker.patch.lastError /\ store'.lastError # NoError
    /\ worker.failure = "none" /\ "lastError" \notin DOMAIN worker.patch /\ worker.reading = NoReading =>
          store'.lastError = store.lastError
    /\ forgot' = (forgot /\ worker.reading = NoReading)
    /\ UNCHANGED <<tab, server, ledger, fate, reads>>

LEMMA FinishEnds ==
    ASSUME TypeInv, WorkInv, Finish
    PROVE  Ends
<1>1. /\ worker.pc = "finish" /\ Working /\ worker' = Resting /\ Save(Outcome)
      /\ forgot' = (forgot /\ worker.reading = NoReading)
      /\ UNCHANGED <<tab, server, ledger, fate, reads>>
    BY AtWork DEF Finish, Phases
<1>2. PatchTypes(worker.patch) /\ WorkTypes(worker) /\ StoreTypes(store) /\ reads \in Nat
    BY <1>1 DEF TypeInv, WorkTypes
<1>. DEFINE patch == worker.patch
            cleared == [lastError |-> NoError]
<1>3. DOMAIN cleared = {"lastError"} /\ cleared["lastError"] = NoError
    OBVIOUS
<1>. HIDE DEF cleared
<1>4. /\ DOMAIN patch \subseteq DOMAIN Outcome /\ DOMAIN Outcome \subseteq DOMAIN patch \cup {"lastError"}
      /\ \A k \in DOMAIN patch \ {"lastError"} : Outcome[k] = patch[k]
    <2>1. CASE worker.failure # "none"
        <3>1. Outcome = Fail(patch, worker.failure)
            BY <2>1 DEF Outcome
        <3>2. /\ DOMAIN Fail(patch, worker.failure) = DOMAIN patch \cup {"lastError"}
              /\ \A k \in DOMAIN patch \ {"lastError"} : Fail(patch, worker.failure)[k] = patch[k]
            BY <1>2, <2>1, Failing
        <3>. QED  BY <3>1, <3>2
    <2>2. CASE worker.failure = "none" /\ "lastError" \notin DOMAIN patch /\ worker.reading # NoReading
        <3>1. Outcome = Patch(patch, cleared)
            BY <2>2 DEF Outcome, cleared
        <3>2. /\ DOMAIN Patch(patch, cleared) = DOMAIN patch \cup {"lastError"}
              /\ \A k \in DOMAIN patch \ {"lastError"} : Patch(patch, cleared)[k] = patch[k]
            BY <1>3, Patched
        <3>. QED  BY <3>1, <3>2
    <2>3. CASE worker.failure = "none" /\ ~("lastError" \notin DOMAIN patch /\ worker.reading # NoReading)
        BY <2>3 DEF Outcome
    <2>. QED  BY <2>1, <2>2, <2>3
<1>5. worker.failure # "none" =>
          "lastError" \in DOMAIN Outcome /\ Outcome.lastError = [code |-> worker.failure, at |-> reads]
    <2>. SUFFICES ASSUME worker.failure # "none"
                  PROVE  /\ "lastError" \in DOMAIN Outcome
                         /\ Outcome.lastError = [code |-> worker.failure, at |-> reads]
        OBVIOUS
    <2>1. Outcome = Fail(patch, worker.failure)
        BY DEF Outcome
    <2>2. /\ DOMAIN Fail(patch, worker.failure) = DOMAIN patch \cup {"lastError"}
          /\ Fail(patch, worker.failure).lastError = [code |-> worker.failure, at |-> reads]
        BY <1>2, Failing
    <2>. QED  BY <2>1, <2>2
<1>6. worker.failure = "none" /\ ("lastError" \in DOMAIN patch \/ worker.reading = NoReading) =>
          Outcome = patch
    BY DEF Outcome
<1>7. /\ DOMAIN store' = StoreFields
      /\ \A f \in StoreFields : store'[f] = IF f \in DOMAIN Outcome THEN Outcome[f] ELSE store[f]
    BY <1>1, SavedFields
<1>8. DOMAIN patch \subseteq {"binding", "gate", "lastError", "lastRead"}
    BY <1>2 DEF PatchTypes
<1>9. KeepsStore({"install", "connection", "pin", "outboxV2", "outbox", "config"})
    BY <1>4, <1>7, <1>8 DEF KeepsStore, StoreFields
<1>10. \/ store'.binding = store.binding
       \/ /\ worker.v2 /\ store'.binding \in BindingSet /\ store'.binding.hash = store.binding.hash
    <2>1. CASE "binding" \in DOMAIN patch
        <3>1. store'.binding = patch.binding
            BY <1>4, <1>7, <2>1 DEF StoreFields
        <3>. QED  BY <1>1, <1>2, <2>1, <3>1 DEF WorkInv, PatchTypes
    <2>2. CASE "binding" \notin DOMAIN patch
        BY <1>4, <1>7, <2>2 DEF StoreFields
    <2>. QED  BY <2>1, <2>2
<1>11. store'.lastRead = IF worker.reading = NoReading THEN store.lastRead ELSE reads
    BY <1>1, <1>4, <1>7 DEF StoreFields, WorkInv
<1>12. worker.reading = NoReading /\ worker.failure # "none" =>
          store'.lastError # NoError /\ store'.lastError.at = reads
    <2>. SUFFICES ASSUME worker.failure # "none"
                  PROVE  store'.lastError # NoError /\ store'.lastError.at = reads
        OBVIOUS
    <2>1. store'.lastError = [code |-> worker.failure, at |-> reads]
        BY <1>5, <1>7 DEF StoreFields
    <2>2. store'.lastError.code = worker.failure /\ NoError.code = "none"
        BY <2>1 DEF NoError
    <2>. QED  BY <2>1, <2>2
<1>13. worker.failure = "none" /\ "lastError" \in DOMAIN worker.patch =>
          store'.lastError = worker.patch.lastError /\ store'.lastError # NoError
    BY <1>2, <1>6, <1>7 DEF StoreFields, PatchTypes, NoError
<1>14. worker.failure = "none" /\ "lastError" \notin DOMAIN worker.patch /\ worker.reading = NoReading =>
          store'.lastError = store.lastError
    BY <1>6, <1>7 DEF StoreFields
<1>15. store'.gate \in StopSet
    BY <1>2, <1>4, <1>7 DEF StoreFields, StoreTypes, PatchTypes
<1>. QED  BY <1>1, <1>7, <1>9, <1>10, <1>11, <1>12, <1>13, <1>14, <1>15 DEF Ends

\* The tab and the owner leave the collector's own state alone.
Outside ==
    /\ tab' \in Accounts /\ server' \in Seq(ServerSet) /\ Len(server') = Len(server)
    /\ UNCHANGED <<store, worker, ledger, fate, reads, forgot>>

LEMMA SwitchOutside ==
    ASSUME TypeInv, NEW a \in ClaudeAccounts \cup {Nobody}, SwitchAccount(a)
    PROVE  Outside
BY DEF SwitchAccount, Outside, TypeInv, Accounts

LEMMA OwnerOutside ==
    ASSUME TypeInv, NEW key \in DOMAIN server, Owner(key)
    PROVE  Outside
<1>1. UNCHANGED <<store, worker, tab, ledger, fate, reads, forgot>>
    BY DEF Owner
<1>2. server \in Seq(ServerSet) /\ key \in 1 .. Len(server) /\ server[key] \in ServerSet
    BY DEF TypeInv
<1>3. ASSUME NEW edited \in ServerSet, server' = [server EXCEPT ![key] = edited]
      PROVE  server' \in Seq(ServerSet) /\ Len(server') = Len(server)
    BY <1>2, <1>3, ExceptSeq
<1>4. ASSUME NEW stop \in {"none", "paused"}, server' = [server EXCEPT ![key].stop = stop]
      PROVE  server' \in Seq(ServerSet) /\ Len(server') = Len(server)
    <2>1. [server[key] EXCEPT !.stop = stop] \in ServerSet
        BY <1>2 DEF ServerSet, StopSet
    <2>2. server' = [server EXCEPT ![key] = [server[key] EXCEPT !.stop = stop]]
        BY <1>4
    <2>. QED  BY <1>3, <2>1, <2>2
<1>5. ASSUME server' = [server EXCEPT ![key].disabled = TRUE]
      PROVE  server' \in Seq(ServerSet) /\ Len(server') = Len(server)
    <2>1. [server[key] EXCEPT !.disabled = TRUE] \in ServerSet
        BY <1>2 DEF ServerSet
    <2>2. server' = [server EXCEPT ![key] = [server[key] EXCEPT !.disabled = TRUE]]
        BY <1>5
    <2>. QED  BY <1>3, <2>1, <2>2
<1>6. ASSUME server' = [server EXCEPT ![key].hash = EmptyHash]
      PROVE  server' \in Seq(ServerSet) /\ Len(server') = Len(server)
    BY <1>2, <1>6, ServerEdited DEF Hashes
<1>7. server' \in Seq(ServerSet) /\ Len(server') = Len(server)
    BY <1>4, <1>5, <1>6 DEF Owner
<1>. QED  BY <1>1, <1>7 DEF Outside, TypeInv

Kills ==
    /\ Working /\ worker' = Resting /\ forgot' = TRUE
    /\ UNCHANGED <<store, tab, server, ledger, fate, reads>>
-----------------------------------------------------------------------------
(* What a collection remembers stays true.                                 *)

BaseInv == TypeInv /\ BindingInv /\ WorkInv

LEMMA StepIs ==
    ASSUME BaseInv, [CollectorNext]_collectorVars
    PROVE  Prepares \/ ReadsTab \/ Enqueues \/ Uploads \/ Ends \/ Kills \/ SetsUp \/ Outside
<1>. USE DEF BaseInv
<1>1. CASE FetchConfig \/ ReconfirmIdentity
    BY <1>1, FetchPrepares, ReconfirmPrepares
<1>2. CASE ReadTab \/ Enqueue
    BY <1>2, ReadTabReads, EnqueueEnqueues
<1>3. CASE SendV2 \/ DrainedV2 \/ SaveV2 \/ SendV1 \/ SaveV1
    BY <1>3, SendUploads, SaveUploads
<1>4. CASE Finish
    BY <1>4, FinishEnds
<1>5. CASE Kill
    BY <1>5 DEF Kill, Kills, Working
<1>6. CASE BeginCollect \/ Pair \/ Bind \/ Unpair \/ RemoveLegacy \/ Import \/ Pin
    BY <1>6, BeginSetsUp, PairSetsUp, BindSetsUp, UnpairSetsUp, LegacySetsUp, PinSetsUp
<1>7. ASSUME NEW a \in ClaudeAccounts \cup {Nobody}, SwitchAccount(a)
      PROVE  Outside
    BY <1>7, SwitchOutside
<1>8. ASSUME NEW key \in DOMAIN server, Owner(key)
      PROVE  Outside
    BY <1>8, OwnerOutside
<1>9. CASE UNCHANGED collectorVars
    BY <1>9 DEF collectorVars, Outside, TypeInv
<1>. QED  BY <1>1, <1>2, <1>3, <1>4, <1>5, <1>6, <1>7, <1>8, <1>9 DEF CollectorNext

LEMMA BasePrepares ==
    ASSUME BaseInv, Prepares
    PROVE  BaseInv'
<1>1. worker.pc \in {"config", "confirm"} /\ Working /\ Working'
    BY AtWork DEF Prepares, PreparesWork, Phases
<1>2. WorkTypes(worker) /\ StoreTypes(store) /\ PatchTypes(worker.patch)
    BY <1>1 DEF BaseInv, TypeInv, WorkTypes
<1>3. WorkTypes(worker')
    BY <1>2 DEF Prepares, PreparesWork, WorkTypes, Noted, Phases
<1>4. StoreTypes(store')
    BY <1>2 DEF Prepares, StoreTypes, StoreFields
<1>5. TypeInv'
    BY <1>3, <1>4 DEF Prepares, BaseInv, TypeInv, StoreFields
<1>6. BindingInv'
    BY DEF BaseInv, BindingInv, Prepares, StoreFields
<1>7. WorkInv'
    <2>1. /\ worker'.state = worker.state /\ worker'.v2 = worker.v2 /\ worker'.reading = worker.reading
          /\ worker'.failure = worker.failure
          /\ store'.install = store.install /\ store'.binding = store.binding /\ store'.pin = store.pin
          /\ store'.connection = store.connection /\ reads' = reads
        BY DEF Prepares, PreparesWork, StoreFields
    <2>2. worker.reading = NoReading /\ worker.failure = "none" /\ worker.v2
        BY <1>1 DEF BaseInv, WorkInv
    <2>3. /\ "lastRead" \notin DOMAIN worker'.patch
          /\ "lastError" \in DOMAIN worker'.patch => worker'.patch.lastError.at = reads
        BY <1>1, <2>2 DEF Prepares, PreparesWork, Noted, BaseInv, WorkInv
    <2>4. /\ worker'.binding.hash = worker.binding.hash
          /\ "binding" \in DOMAIN worker'.patch => worker'.patch.binding.hash = worker.binding.hash
        BY DEF Prepares, PreparesWork
    <2>. QED  BY <1>1, <2>1, <2>2, <2>3, <2>4 DEF BaseInv, WorkInv
<1>. QED  BY <1>5, <1>6, <1>7 DEF BaseInv

LEMMA BaseReads ==
    ASSUME BaseInv, ReadsTab
    PROVE  BaseInv'
<1>1. worker.pc = "read" /\ worker'.pc = "queue" /\ Working /\ Working'
    BY AtWork DEF ReadsTab, Phases
<1>2. WorkTypes(worker) /\ StoreTypes(store) /\ PatchTypes(worker.patch) /\ reads \in Nat
    BY <1>1 DEF BaseInv, TypeInv, WorkTypes
<1>3. /\ worker'.state = worker.state /\ worker'.v2 = worker.v2 /\ worker'.collect = worker.collect
      /\ worker'.binding = worker.binding /\ worker'.hash = worker.hash
      /\ worker'.outboxV2 = worker.outboxV2 /\ worker'.outbox = worker.outbox
    BY DEF ReadsTab, KeepsWork
<1>4. store' = store /\ tab' = tab /\ server' = server /\ ledger' = ledger /\ fate' = fate /\ forgot' = forgot
    BY DEF ReadsTab
<1>5. worker.reading = NoReading /\ worker.failure = "none"
    BY <1>1 DEF BaseInv, WorkInv
<1>6. /\ worker'.reading \in ReadingSet /\ PatchTypes(worker'.patch) /\ reads' \in Nat /\ reads' >= reads
    BY <1>2 DEF ReadsTab, SeesNothing, SeesReading, Noted, WorkTypes
<1>7. WorkTypes(worker')
    BY <1>1, <1>2, <1>3, <1>6 DEF ReadsTab, WorkTypes, Phases
<1>8. TypeInv'
    BY <1>2, <1>4, <1>6, <1>7 DEF BaseInv, TypeInv, StoreTypes
<1>9. BindingInv'
    BY <1>4 DEF BaseInv, BindingInv
<1>10. /\ "binding" \in DOMAIN worker'.patch => "binding" \in DOMAIN worker.patch
       /\ "binding" \in DOMAIN worker'.patch => worker'.patch.binding = worker.patch.binding
    BY DEF ReadsTab, SeesNothing, SeesReading
<1>11. /\ worker'.reading = NoReading => "lastRead" \notin DOMAIN worker'.patch
       /\ (worker'.reading = NoReading /\ "lastError" \in DOMAIN worker'.patch) =>
             worker'.patch.lastError.at = reads'
       /\ worker'.reading # NoReading =>
             /\ worker'.reading.id = reads' /\ worker'.reading.account = store.pin
             /\ worker'.failure = "none"
             /\ "lastRead" \in DOMAIN worker'.patch /\ worker'.patch.lastRead = reads'
    <2>1. CASE SeesNothing
        BY <1>1, <1>5, <2>1 DEF SeesNothing, Noted, BaseInv, WorkInv
    <2>2. CASE SeesReading
        BY <1>1, <1>5, <2>2 DEF SeesReading, BaseInv, WorkInv
    <2>. QED  BY <2>1, <2>2 DEF ReadsTab
<1>12. WorkInv'
    BY <1>1, <1>3, <1>4, <1>10, <1>11 DEF BaseInv, WorkInv
<1>. QED  BY <1>8, <1>9, <1>12 DEF BaseInv

\* A queue a reading was added to or not.
LEMMA FilledOrNot ==
    ASSUME NEW queue \in Seq(ReadingSet), NEW reading \in ReadingSet,
           NEW filled, filled = queue \/ filled = Append(queue, reading)
    PROVE  /\ filled \in Seq(ReadingSet)
           /\ Elems(filled) \subseteq Elems(queue) \cup {reading}
           /\ \A id : In(queue, id) => In(filled, id)
           /\ filled = Append(queue, reading) => In(filled, reading.id)
<1>1. CASE filled = Append(queue, reading)
    BY <1>1, AppendedIn
<1>2. CASE filled = queue
    <2>1. filled = Append(queue, reading) => In(filled, reading.id)
        BY AppendedIn
    <2>. QED  BY <1>2, <2>1
<1>. QED  BY <1>1, <1>2

LEMMA FilledTypes ==
    ASSUME WorkTypes(worker)
    PROVE  /\ FilledV2 \in Seq(ReadingSet) /\ FilledV1 \in Seq(ReadingSet)
           /\ Elems(FilledV2) \subseteq Elems(worker.outboxV2) \cup ({worker.reading} \ {NoReading})
           /\ Elems(FilledV1) \subseteq Elems(worker.outbox) \cup ({worker.reading} \ {NoReading})
           /\ \A id : In(worker.outboxV2, id) => In(FilledV2, id)
           /\ \A id : In(worker.outbox, id) => In(FilledV1, id)
           /\ PublishV2 /\ worker.reading # NoReading => In(FilledV2, worker.reading.id)
           /\ PublishV1 /\ worker.reading # NoReading => In(FilledV1, worker.reading.id)
<1>1. /\ worker.outboxV2 \in Seq(ReadingSet) /\ worker.outbox \in Seq(ReadingSet)
      /\ worker.reading \in ReadingSet
    BY DEF WorkTypes
<1>2. CASE worker.reading = NoReading
    BY <1>1, <1>2 DEF FilledV2, FilledV1
<1>3. CASE worker.reading # NoReading
    <2>. DEFINE v2 == Append(worker.outboxV2, worker.reading)
                v1 == Append(worker.outbox, worker.reading)
    <2>1. /\ FilledV2 = worker.outboxV2 \/ FilledV2 = v2
          /\ FilledV1 = worker.outbox \/ FilledV1 = v1
          /\ PublishV2 => FilledV2 = v2
          /\ PublishV1 => FilledV1 = v1
        BY <1>3 DEF FilledV2, FilledV1
    <2>2. /\ FilledV2 \in Seq(ReadingSet)
          /\ Elems(FilledV2) \subseteq Elems(worker.outboxV2) \cup {worker.reading}
          /\ \A id : In(worker.outboxV2, id) => In(FilledV2, id)
          /\ FilledV2 = v2 => In(FilledV2, worker.reading.id)
        BY <1>1, <2>1, FilledOrNot
    <2>3. /\ FilledV1 \in Seq(ReadingSet)
          /\ Elems(FilledV1) \subseteq Elems(worker.outbox) \cup {worker.reading}
          /\ \A id : In(worker.outbox, id) => In(FilledV1, id)
          /\ FilledV1 = v1 => In(FilledV1, worker.reading.id)
        BY <1>1, <2>1, FilledOrNot
    <2>. HIDE DEF v2, v1
    <2>. QED  BY <1>3, <2>1, <2>2, <2>3
<1>. QED  BY <1>2, <1>3

LEMMA InTyped ==
    ASSUME NEW queue \in Seq(ReadingSet), NEW id, In(queue, id)
    PROVE  id \in Nat
<1>1. \A n \in DOMAIN queue : queue[n] \in ReadingSet
    OBVIOUS
<1>2. \A n \in DOMAIN queue : queue[n].id \in Nat
    BY <1>1 DEF ReadingSet
<1>. QED  BY <1>2 DEF In

LEMMA BaseEnqueues ==
    ASSUME BaseInv, Enqueues
    PROVE  BaseInv'
<1>1. worker.pc = "queue" /\ worker'.pc = "drainV2" /\ Working /\ Working'
    BY AtWork DEF Enqueues, Phases
<1>2. WorkTypes(worker) /\ StoreTypes(store)
    BY <1>1 DEF BaseInv, TypeInv
<1>3. /\ Newest(FilledV2) \in Seq(ReadingSet) /\ Newest(FilledV1) \in Seq(ReadingSet)
      /\ PushedOut(FilledV2) \in Seq(ReadingSet) /\ PushedOut(FilledV1) \in Seq(ReadingSet)
    BY <1>2, FilledTypes, NewestStay
<1>4. /\ worker'.state = worker.state /\ worker'.v2 = worker.v2 /\ worker'.collect = worker.collect
      /\ worker'.binding = worker.binding /\ worker'.hash = worker.hash /\ worker'.reading = worker.reading
      /\ worker'.failure = worker.failure /\ worker'.patch = worker.patch
    BY DEF Enqueues, KeepsWork, WorkFields
<1>5. WorkTypes(worker')
    BY <1>1, <1>2, <1>3, <1>4 DEF Enqueues, WorkTypes, Phases
<1>6. \A f \in StoreFields \ {"outboxV2", "outbox"} : store'[f] = store[f]
    BY DEF Enqueues, KeepsStore
<1>7. /\ store'.install = store.install /\ store'.binding = store.binding /\ store'.pin = store.pin
      /\ store'.connection = store.connection /\ store'.config = store.config /\ store'.gate = store.gate
      /\ store'.lastRead = store.lastRead
    BY <1>6 DEF StoreFields
<1>8. StoreTypes(store')
    BY <1>2, <1>3, <1>7 DEF Enqueues, StoreTypes
<1>9. \A f \in fate' : f.id \in Nat
    <2>1. ASSUME NEW queue \in Seq(ReadingSet), NEW route, NEW what, NEW f \in Fate(route, queue, what)
          PROVE  f.id \in Nat
        BY <2>1, FateOf, InTyped
    <2>2. \A f \in fate : f.id \in Nat
        BY DEF BaseInv, TypeInv
    <2>. QED  BY <1>3, <2>1, <2>2 DEF Enqueues
<1>10. TypeInv'
    BY <1>5, <1>7, <1>8, <1>9 DEF Enqueues, BaseInv, TypeInv
<1>11. BindingInv' /\ WorkInv'
    BY <1>1, <1>4, <1>7 DEF BaseInv, BindingInv, WorkInv, Enqueues
<1>. QED  BY <1>10, <1>11 DEF BaseInv

LEMMA ShrinksIn ==
    ASSUME NEW route, NEW before \in Seq(ReadingSet), NEW after, Shrinks(route, before, after)
    PROVE  /\ after \in Seq(ReadingSet) /\ Elems(after) \subseteq Elems(before)
           /\ \A id : In(before, id) =>
                 \/ In(after, id)
                 \/ /\ Done(fate', route, id)
                    /\ \/ Delivered(fate', id)
                       \/ "lastError" \in DOMAIN worker'.patch /\ worker'.patch.lastError.at = reads
<1>1. CASE after = before
    BY <1>1
<1>2. CASE after # before
    <2>1. /\ before # <<>> /\ after = Tail(before)
          /\ Done(fate', route, Head(before).id)
          /\ \/ Delivered(fate', Head(before).id)
             \/ "lastError" \in DOMAIN worker'.patch /\ worker'.patch.lastError.at = reads
        BY <1>2 DEF Shrinks
    <2>2. after \in Seq(ReadingSet) /\ Elems(before) = {Head(before)} \cup Elems(after)
        BY <2>1, ShiftedIn
    <2>3. ASSUME NEW id, In(before, id), ~In(after, id)
          PROVE  id = Head(before).id
        BY <2>2, <2>3, InElems
    <2>. QED  BY <2>1, <2>2, <2>3
<1>. QED  BY <1>1, <1>2

LEMMA BaseUploads ==
    ASSUME BaseInv, Uploads
    PROVE  BaseInv'
<1>1. worker.pc \in Phases \ {"config", "confirm", "read"} /\ Working /\ Working'
      /\ worker'.pc \in Phases \ {"config", "confirm", "read"}
    BY AtWork DEF Uploads, Phases
<1>2. /\ WorkTypes(worker) /\ StoreTypes(store) /\ PatchTypes(worker.patch)
      /\ worker.outboxV2 \in Seq(ReadingSet) /\ worker.outbox \in Seq(ReadingSet)
    BY <1>1 DEF BaseInv, TypeInv, WorkTypes
<1>3. worker'.outboxV2 \in Seq(ReadingSet) /\ worker'.outbox \in Seq(ReadingSet)
    BY <1>2, ShrinksIn DEF Uploads
<1>4. /\ worker'.state = worker.state /\ worker'.v2 = worker.v2 /\ worker'.collect = worker.collect
      /\ worker'.binding = worker.binding /\ worker'.hash = worker.hash /\ worker'.reading = worker.reading
      /\ worker'.failure = worker.failure
    BY DEF Uploads, KeepsWork, WorkFields
<1>5. WorkTypes(worker')
    BY <1>1, <1>2, <1>3, <1>4 DEF Uploads, Noted, WorkTypes
<1>6. \A f \in StoreFields \ {"outboxV2", "outbox"} : store'[f] = store[f]
    BY DEF Uploads, KeepsStore
<1>7. /\ store'.install = store.install /\ store'.binding = store.binding /\ store'.pin = store.pin
      /\ store'.connection = store.connection /\ store'.config = store.config /\ store'.gate = store.gate
      /\ store'.lastRead = store.lastRead
    BY <1>6 DEF StoreFields
<1>8. StoreTypes(store')
    BY <1>2, <1>3, <1>7 DEF Uploads, StoreTypes
<1>9. \A f \in fate' : f.id \in Nat
    BY DEF Uploads, BaseInv, TypeInv
<1>10. \A r \in ledger' : r.key \in 1 .. Len(server)
    <2>1. CASE UNCHANGED ledger
        BY <2>1 DEF BaseInv, TypeInv
    <2>2. CASE worker.v2 /\ ledger' = Accepted
        <3>1. Key \in 1 .. Len(server)
            BY <1>1, <2>2, InstallThere DEF BaseInv
        <3>2. \A r \in RecordsOf(Head(worker.outboxV2)) : r.key = Key
            BY DEF RecordsOf
        <3>. QED  BY <2>2, <3>1, <3>2 DEF Accepted, BaseInv, TypeInv
    <2>. QED  BY <2>1, <2>2 DEF Uploads
<1>11. TypeInv'
    BY <1>5, <1>7, <1>8, <1>9, <1>10 DEF Uploads, BaseInv, TypeInv
<1>12. BindingInv'
    BY <1>7 DEF BaseInv, BindingInv
<1>13. WorkInv'
    <2>1. /\ "binding" \in DOMAIN worker'.patch => "binding" \in DOMAIN worker.patch
          /\ "binding" \in DOMAIN worker'.patch => worker'.patch.binding = worker.patch.binding
          /\ "lastRead" \in DOMAIN worker'.patch <=> "lastRead" \in DOMAIN worker.patch
          /\ "lastRead" \in DOMAIN worker.patch => worker'.patch.lastRead = worker.patch.lastRead
          /\ "lastError" \in DOMAIN worker'.patch =>
                \/ "lastError" \in DOMAIN worker.patch /\ worker'.patch.lastError = worker.patch.lastError
                \/ worker'.patch.lastError.at = reads
          /\ reads' = reads
        BY DEF Uploads, Noted
    <2>. QED  BY <1>1, <1>4, <1>7, <2>1 DEF BaseInv, WorkInv
<1>. QED  BY <1>11, <1>12, <1>13 DEF BaseInv

LEMMA BaseAround ==
    ASSUME BaseInv, Ends \/ Kills \/ Outside
    PROVE  BaseInv'
<1>1. CASE Outside
    BY <1>1 DEF Outside, BaseInv, TypeInv, BindingInv, WorkInv, Working
<1>2. CASE Kills
    BY <1>2 DEF Kills, BaseInv, TypeInv, BindingInv, WorkInv, Working
<1>3. CASE Ends
    <2>1. worker.pc = "finish" /\ Working /\ ~Working'
        BY <1>3, AtWork DEF Ends, Phases, Working
    <2>2. WorkTypes(worker) /\ StoreTypes(store) /\ reads \in Nat /\ store.lastRead <= reads
        BY <2>1 DEF BaseInv, TypeInv
    <2>3. /\ store'.install = store.install /\ store'.connection = store.connection
          /\ store'.pin = store.pin /\ store'.outboxV2 = store.outboxV2
          /\ store'.outbox = store.outbox /\ store'.config = store.config
        BY <1>3 DEF Ends, KeepsStore
    <2>4. StoreTypes(store') /\ store'.lastRead <= reads
        BY <1>3, <2>2, <2>3 DEF Ends, StoreTypes
    <2>5. TypeInv'
        BY <1>3, <2>1, <2>3, <2>4 DEF Ends, BaseInv, TypeInv
    <2>6. BindingInv'
        BY <1>3, <2>1, <2>3 DEF Ends, BaseInv, BindingInv, WorkInv
    <2>. QED  BY <2>1, <2>5, <2>6 DEF BaseInv, WorkInv
<1>. QED  BY <1>1, <1>2, <1>3

LEMMA BaseSetsUp ==
    ASSUME BaseInv, SetsUp
    PROVE  BaseInv'
<1>1. worker = Resting /\ ~Working /\ store.lastRead <= reads /\ reads \in Nat
    BY DEF SetsUp, Working, BaseInv, TypeInv
<1>2. TypeInv'
    <2>1. Working' => WorkTypes(worker')
        BY DEF SetsUp, Started, Working
    <2>2. \A r \in ledger' : r.key \in 1 .. Len(server')
        BY DEF SetsUp, BaseInv, TypeInv
    <2>3. \A f \in fate' : f.id \in Nat
        BY DEF SetsUp, BaseInv, TypeInv
    <2>4. store'.lastRead <= reads'
        BY <1>1 DEF SetsUp
    <2>. QED  BY <2>1, <2>2, <2>3, <2>4 DEF SetsUp, BaseInv, TypeInv
<1>3. WorkInv'
    BY <1>1 DEF SetsUp, Started, WorkInv, Working
<1>. QED  BY <1>2, <1>3 DEF SetsUp, BaseInv

LEMMA BaseStep ==
    ASSUME BaseInv, [CollectorNext]_collectorVars
    PROVE  BaseInv'
BY StepIs, BasePrepares, BaseReads, BaseEnqueues, BaseUploads, BaseAround, BaseSetsUp
-----------------------------------------------------------------------------
(* The readings of an install are of one account.                          *)

\* The bodies of the v2 route that may still be uploaded.
QueuedBodies == Elems(store.outboxV2) \cup IF Working THEN Elems(worker.outboxV2) ELSE {}
Bodies == QueuedBodies \cup IF Working THEN {worker.reading} \ {NoReading} ELSE {}

\* Bodies wait for a bound install only, and are of the account the profile is
\* pinned to; a reading that waits twice is the same reading.
BodiesInv ==
    /\ QueuedBodies # {} => store.binding # NoBinding
    /\ \A b \in Bodies : b.id <= reads /\ b.account = store.pin /\ OneValueEach(b.windows)
    /\ \A b, c \in Bodies : b.id = c.id => b.windows = c.windows

\* An install with records is bound and pinned to their account for as long as it
\* is the profile's; what the server has of a reading agrees with what waits of it.
LedgerInv ==
    /\ \A r \in ledger : r.reading \in 0 .. reads
    /\ \A r \in ledger : r.key = store.install => store.binding # NoBinding /\ r.account = store.pin
    /\ \A r, s \in ledger : r.key = s.key => r.account = s.account
    /\ \A r, s \in ledger : r.reading = s.reading /\ r.window = s.window => r.value = s.value
    /\ \A r \in ledger : \A b \in Bodies : \A w \in b.windows :
          r.reading = b.id /\ r.window = w.window => r.value = w.value
MixInv == BodiesInv /\ LedgerInv

LEMMA BodiesTyped ==
    ASSUME BaseInv
    PROVE  Bodies \subseteq ReadingSet
<1>1. store.outboxV2 \in Seq(ReadingSet)
    BY DEF BaseInv, TypeInv, StoreTypes
<1>2. Working => worker.outboxV2 \in Seq(ReadingSet) /\ worker.reading \in ReadingSet
    BY DEF BaseInv, TypeInv, WorkTypes
<1>3. \A queue \in Seq(ReadingSet) : Elems(queue) \subseteq ReadingSet
    BY DEF Elems
<1>. QED  BY <1>1, <1>2, <1>3 DEF Bodies, QueuedBodies

\* A step that adds no body and no record.
LEMMA MixKept ==
    ASSUME MixInv, Bodies' \subseteq Bodies, UNCHANGED <<ledger, reads>>,
           QueuedBodies' # {} => store'.binding # NoBinding,
           Bodies' # {} => store'.pin = store.pin,
           \A r \in ledger : r.key = store'.install =>
              r.key = store.install /\ store'.binding # NoBinding /\ store'.pin = store.pin
    PROVE  MixInv'
<1>1. BodiesInv'
    BY DEF MixInv, BodiesInv
<1>2. LedgerInv'
    BY DEF MixInv, LedgerInv
<1>. QED  BY <1>1, <1>2 DEF MixInv

LEMMA MixPrepares ==
    ASSUME BaseInv, MixInv, Prepares
    PROVE  MixInv'
<1>1. Working /\ Working'
    BY AtWork DEF Prepares, PreparesWork, Phases
<1>2. /\ worker'.outboxV2 = worker.outboxV2 /\ worker'.reading = worker.reading
      /\ store'.outboxV2 = store.outboxV2 /\ store'.install = store.install
      /\ store'.binding = store.binding /\ store'.pin = store.pin
      /\ UNCHANGED <<ledger, reads>>
    BY DEF Prepares, PreparesWork, StoreFields
<1>3. Bodies' = Bodies /\ QueuedBodies' = QueuedBodies
    BY <1>1, <1>2 DEF Bodies, QueuedBodies
<1>. QED  BY <1>2, <1>3, MixKept DEF MixInv, BodiesInv, LedgerInv

LEMMA MixReads ==
    ASSUME BaseInv, MixInv, ReadsTab
    PROVE  MixInv'
<1>1. Working /\ Working' /\ worker.pc = "read"
    BY AtWork DEF ReadsTab, Phases
<1>2. /\ worker'.outboxV2 = worker.outboxV2 /\ UNCHANGED <<store, ledger>>
      /\ QueuedBodies' = QueuedBodies
    BY <1>1 DEF ReadsTab, KeepsWork, QueuedBodies
<1>3. CASE SeesNothing
    <2>1. Bodies' = Bodies
        BY <1>1, <1>2, <1>3 DEF SeesNothing, Bodies
    <2>. QED  BY <1>2, <1>3, <2>1, MixKept DEF SeesNothing, MixInv, BodiesInv, LedgerInv
<1>4. CASE SeesReading
    <2>. DEFINE new == worker'.reading
    <2>1. /\ reads' = reads + 1 /\ new.id = reads + 1 /\ new.account = store.pin
          /\ OneValueEach(new.windows) /\ reads \in Nat
        BY <1>1, <1>4 DEF SeesReading, BaseInv, WorkInv, TypeInv
    <2>. HIDE DEF new
    <2>2. worker.reading = NoReading
        BY <1>1 DEF BaseInv, WorkInv
    <2>3. Bodies' \subseteq Bodies \cup {new}
        BY <1>1, <1>2 DEF Bodies, new
    <2>4. \A b \in Bodies : b.id \in Nat /\ b.id <= reads
        BY BodiesTyped DEF MixInv, BodiesInv, ReadingSet
    <2>5. \A r \in ledger : r.reading \in 0 .. reads
        BY DEF MixInv, LedgerInv
    <2>6. \A b \in Bodies : b.id # new.id
        BY <2>1, <2>4
    <2>7. BodiesInv'
        <3>1. \A b \in Bodies \cup {new} : b.id <= reads' /\ b.account = store.pin /\ OneValueEach(b.windows)
            BY <2>1, <2>4 DEF MixInv, BodiesInv
        <3>2. \A b, c \in Bodies \cup {new} : b.id = c.id => b.windows = c.windows
            BY <2>6 DEF MixInv, BodiesInv
        <3>. QED  BY <1>2, <2>3, <3>1, <3>2 DEF MixInv, BodiesInv
    <2>8. LedgerInv'
        <3>1. \A r \in ledger : r.reading \in 0 .. reads'
            BY <2>1, <2>5
        <3>2. \A r \in ledger : r.reading # new.id
            BY <2>1, <2>5
        <3>. QED  BY <1>2, <2>3, <3>1, <3>2 DEF MixInv, LedgerInv
    <2>. QED  BY <2>7, <2>8 DEF MixInv
<1>. QED  BY <1>3, <1>4 DEF ReadsTab

LEMMA MixEnqueues ==
    ASSUME BaseInv, MixInv, Enqueues
    PROVE  MixInv'
<1>1. Working /\ Working' /\ WorkTypes(worker)
    BY AtWork DEF Enqueues, Phases, BaseInv, TypeInv
<1>2. /\ store'.install = store.install /\ store'.binding = store.binding /\ store'.pin = store.pin
      /\ worker'.reading = worker.reading /\ UNCHANGED <<ledger, reads>>
    BY DEF Enqueues, KeepsStore, KeepsWork, StoreFields, WorkFields
<1>3. /\ worker'.outboxV2 = Newest(FilledV2) /\ store'.outboxV2 = Newest(FilledV2)
    BY DEF Enqueues
<1>4. Elems(Newest(FilledV2)) \subseteq Elems(worker.outboxV2) \cup ({worker.reading} \ {NoReading})
    BY <1>1, FilledTypes, NewestStay
<1>5. Bodies' \subseteq Bodies
    BY <1>1, <1>2, <1>3, <1>4 DEF Bodies, QueuedBodies
<1>6. QueuedBodies' # {} => store.binding # NoBinding
    <2>1. CASE PublishV2
        BY <1>1, <2>1 DEF PublishV2, BaseInv, WorkInv
    <2>2. CASE ~PublishV2
        <3>1. FilledV2 = worker.outboxV2
            BY <2>2 DEF FilledV2
        <3>2. worker.outboxV2 \in Seq(ReadingSet)
            BY <1>1 DEF WorkTypes
        <3>3. Elems(Newest(FilledV2)) \subseteq Elems(worker.outboxV2)
            BY <3>1, <3>2, NewestStay
        <3>4. QueuedBodies' \subseteq QueuedBodies
            BY <1>1, <1>3, <3>3 DEF QueuedBodies
        <3>. QED  BY <3>4 DEF MixInv, BodiesInv
    <2>. QED  BY <2>1, <2>2
<1>. QED  BY <1>2, <1>5, <1>6, MixKept DEF MixInv, LedgerInv

\* The rows of a body the server takes are of its account and its values.
LEMMA RowsOf ==
    ASSUME NEW body, NEW r \in RecordsOf(body)
    PROVE  /\ r.key = Key /\ r.account = body.account /\ r.reading = body.id
           /\ \E w \in body.windows : r.window = w.window /\ r.value = w.value
<1>1. PICK w \in body.windows : r = [key |-> Key, account |-> body.account, reading |-> body.id,
                                     window |-> w.window, value |-> w.value]
    BY DEF RecordsOf
<1>2. /\ r.key = Key /\ r.account = body.account /\ r.reading = body.id
      /\ r.window = w.window /\ r.value = w.value
    BY <1>1
<1>. QED  BY <1>2

LEMMA MixAccepts ==
    ASSUME BaseInv, MixInv, Working, worker.v2, NEW body \in Bodies, ledger' = ledger \cup RecordsOf(body)
    PROVE  /\ \A r \in ledger' : r.reading \in 0 .. reads
           /\ \A r \in ledger' : r.key = store.install => store.binding # NoBinding /\ r.account = store.pin
           /\ \A r, s \in ledger' : r.key = s.key => r.account = s.account
           /\ \A r, s \in ledger' : r.reading = s.reading /\ r.window = s.window => r.value = s.value
           /\ \A r \in ledger' : \A b \in Bodies : \A w \in b.windows :
                 r.reading = b.id /\ r.window = w.window => r.value = w.value
<1>1. Key = store.install /\ store.binding # NoBinding
    BY DEF Key, BaseInv, WorkInv
<1>2. body.id \in 0 .. reads /\ body.account = store.pin /\ OneValueEach(body.windows)
    BY BodiesTyped DEF MixInv, BodiesInv, ReadingSet, BaseInv, TypeInv
<1>3. \A b \in Bodies : b.id = body.id => b.windows = body.windows
    BY DEF MixInv, BodiesInv
<1>4. \A r \in RecordsOf(body) : 
        /\ r.key = store.install /\ r.account = store.pin /\ r.reading = body.id
        /\ \E w \in body.windows : r.window = w.window /\ r.value = w.value
    BY <1>1, <1>2, RowsOf
<1>5. \A r \in RecordsOf(body) : \A w \in body.windows : r.window = w.window => r.value = w.value
    BY <1>2, <1>4 DEF OneValueEach
<1>6. \A r \in ledger' : r.reading \in 0 .. reads
    BY <1>2, <1>4 DEF MixInv, LedgerInv
<1>7. \A r \in ledger' : r.key = store.install => store.binding # NoBinding /\ r.account = store.pin
    BY <1>1, <1>4 DEF MixInv, LedgerInv
<1>8. \A r, s \in ledger' : r.key = s.key => r.account = s.account
    BY <1>4, <1>7 DEF MixInv, LedgerInv
<1>9. \A r \in ledger' : \A b \in Bodies : \A w \in b.windows :
          r.reading = b.id /\ r.window = w.window => r.value = w.value
    BY <1>3, <1>4, <1>5 DEF MixInv, LedgerInv
<1>10. \A r, s \in ledger' : r.reading = s.reading /\ r.window = s.window => r.value = s.value
    <2>1. ASSUME NEW r \in ledger', NEW s \in RecordsOf(body), r.reading = s.reading, r.window = s.window
          PROVE  r.value = s.value
        BY <1>4, <1>9, <2>1
    <2>2. ASSUME NEW r \in ledger, NEW s \in ledger, r.reading = s.reading, r.window = s.window
          PROVE  r.value = s.value
        BY <2>2 DEF MixInv, LedgerInv
    <2>. QED  BY <2>1, <2>2
<1>. QED  BY <1>6, <1>7, <1>8, <1>9, <1>10

LEMMA MixUploads ==
    ASSUME BaseInv, MixInv, Uploads
    PROVE  MixInv'
<1>1. Working /\ Working' /\ WorkTypes(worker)
    BY AtWork DEF Uploads, Phases, BaseInv, TypeInv
<1>2. /\ store'.install = store.install /\ store'.binding = store.binding /\ store'.pin = store.pin
      /\ worker'.reading = worker.reading /\ reads' = reads
    BY DEF Uploads, KeepsStore, KeepsWork, StoreFields, WorkFields
<1>3. Elems(worker'.outboxV2) \subseteq Elems(worker.outboxV2)
    BY <1>1, ShrinksIn DEF Uploads, WorkTypes
<1>4. store'.outboxV2 \in {store.outboxV2, worker'.outboxV2}
    BY DEF Uploads
<1>5. QueuedBodies' \subseteq QueuedBodies
    BY <1>1, <1>3, <1>4 DEF QueuedBodies
<1>6. Bodies' \subseteq Bodies
    BY <1>1, <1>2, <1>5 DEF Bodies
<1>7. QueuedBodies' # {} => store'.binding # NoBinding
    BY <1>2, <1>5 DEF MixInv, BodiesInv
<1>8. CASE UNCHANGED ledger
    BY <1>2, <1>6, <1>7, <1>8, MixKept DEF MixInv, LedgerInv
<1>9. CASE worker.v2 /\ worker.outboxV2 # <<>> /\ ledger' = Accepted
    <2>. DEFINE body == Head(worker.outboxV2)
    <2>1. body \in Elems(worker.outboxV2)
        BY <1>1, <1>9, ShiftedIn DEF WorkTypes
    <2>2. body \in Bodies /\ ledger' = ledger \cup RecordsOf(body)
        BY <1>1, <1>9, <2>1 DEF Bodies, QueuedBodies, Accepted
    <2>3. BodiesInv'
        BY <1>2, <1>6, <1>7 DEF MixInv, BodiesInv
    <2>. HIDE DEF body
    <2>4. LedgerInv'
        BY <1>1, <1>2, <1>6, <1>9, <2>2, MixAccepts DEF LedgerInv
    <2>. QED  BY <2>3, <2>4 DEF MixInv
<1>. QED  BY <1>8, <1>9 DEF Uploads

LEMMA MixAround ==
    ASSUME BaseInv, MixInv, Ends \/ Kills \/ Outside
    PROVE  MixInv'
<1>1. CASE Outside
    <2>1. Bodies' = Bodies /\ QueuedBodies' = QueuedBodies
        BY <1>1 DEF Outside, Bodies, QueuedBodies, Working
    <2>. QED  BY <1>1, <2>1, MixKept DEF Outside, MixInv, BodiesInv, LedgerInv
<1>2. CASE Kills
    <2>1. Bodies' \subseteq Bodies /\ QueuedBodies' \subseteq QueuedBodies
        BY <1>2 DEF Kills, Bodies, QueuedBodies, Working
    <2>. QED  BY <1>2, <2>1, MixKept DEF Kills, MixInv, BodiesInv, LedgerInv
<1>3. CASE Ends
    <2>1. /\ Working /\ ~Working'
          /\ store'.install = store.install /\ store'.pin = store.pin /\ store'.outboxV2 = store.outboxV2
          /\ UNCHANGED <<ledger, reads>>
        BY <1>3, AtWork DEF Ends, KeepsStore, Working, Phases
    <2>2. Bodies' \subseteq Bodies /\ QueuedBodies' \subseteq QueuedBodies
        BY <2>1 DEF Bodies, QueuedBodies
    <2>3. store.binding # NoBinding => store'.binding # NoBinding
        <3>1. store.binding # NoBinding => store.binding.hash # EmptyHash
            BY CollectorAssumption DEF BaseInv, BindingInv
        <3>2. NoBinding.hash = EmptyHash
            BY DEF NoBinding
        <3>. QED  BY <1>3, <3>1, <3>2 DEF Ends
    <2>. QED  BY <2>1, <2>2, <2>3, MixKept DEF MixInv, BodiesInv, LedgerInv
<1>. QED  BY <1>1, <1>2, <1>3

LEMMA MixSetsUp ==
    ASSUME BaseInv, MixInv, SetsUp
    PROVE  MixInv'
<1>1. worker = Resting /\ ~Working /\ UNCHANGED <<ledger, reads>>
    BY DEF SetsUp, Working
<1>2. Bodies = Elems(store.outboxV2) /\ QueuedBodies = Elems(store.outboxV2)
    BY <1>1 DEF Bodies, QueuedBodies
<1>3. Bodies' = Elems(store'.outboxV2) /\ QueuedBodies' = Elems(store'.outboxV2)
    <2>1. CASE worker' = Resting
        BY <2>1 DEF Bodies, QueuedBodies, Working
    <2>2. CASE Started(worker', store')
        BY <2>2 DEF Bodies, QueuedBodies, Started
    <2>. QED  BY <2>1, <2>2 DEF SetsUp
<1>4. Elems(<<>>) = {}
    BY DEF Elems
<1>5. Bodies' \subseteq Bodies
    BY <1>2, <1>3, <1>4 DEF SetsUp, ClearsRoute, Clears
<1>6. CASE KeepsBinding
    BY <1>1, <1>2, <1>3, <1>5, <1>6, MixKept DEF KeepsBinding, MixInv, BodiesInv, LedgerInv
<1>7. CASE Unbinds
    <2>1. Bodies' = {} /\ QueuedBodies' = {}
        BY <1>3, <1>4, <1>7 DEF Unbinds
    <2>2. \A r \in ledger : r.key # store'.install
        <3>1. \A r \in ledger : r.key \in 1 .. Len(server)
            BY DEF BaseInv, TypeInv
        <3>2. Len(server) \in Nat
            BY DEF BaseInv, TypeInv
        <3>. QED  BY <1>7, <3>1, <3>2 DEF Unbinds
    <2>. QED  BY <1>1, <2>1, <2>2, MixKept
<1>. QED  BY <1>6, <1>7 DEF SetsUp
-----------------------------------------------------------------------------
(* What was queued is kept.                                                *)

\* What the storage has of a route, the collection that runs has or is done with.
Held(route, saved, queue) == \A b \in Elems(saved) : In(queue, b.id) \/ Done(fate, route, b.id)
HoldInv ==
    Working =>
        /\ Held("v2", store.outboxV2, worker.outboxV2) /\ Held("v1", store.outbox, worker.outbox)
        /\ worker.pc \notin {"drainV2", "saveV2"} \/ ~worker.v2 => worker.outboxV2 = store.outboxV2
        /\ worker.pc \notin {"drainV1", "saveV1"} => worker.outbox = store.outbox

\* Where a queued reading is.
Kept(f) ==
    \/ Done(fate, f.route, f.id)
    \/ f.route = "v2" /\ In(store.outboxV2, f.id)
    \/ f.route = "v1" /\ In(store.outbox, f.id)
KeptInv == \A f \in fate : f.what = "queued" => Kept(f)

LEMMA KeptMeans ==
    KeptInv => KeptUntilAnswered
BY DEF KeptInv, Kept, Done, In, KeptUntilAnswered

LEMMA DoneStays ==
    ASSUME fate \subseteq fate', NEW route, NEW id, Done(fate, route, id)
    PROVE  Done(fate', route, id)
BY DEF Done

LEMMA HeldIn ==
    ASSUME NEW route, NEW saved, NEW queue, Held(route, saved, queue), NEW id, In(saved, id)
    PROVE  In(queue, id) \/ Done(fate, route, id)
BY InElems DEF Held

LEMMA HeldSame ==
    ASSUME NEW route, NEW queue
    PROVE  Held(route, queue, queue)
BY InElems DEF Held

\* A step that leaves the queues of the storage and of the collection alone.
LEMMA KeptStill ==
    ASSUME HoldInv, KeptInv, UNCHANGED fate,
           store'.outboxV2 = store.outboxV2, store'.outbox = store.outbox,
           Working' => /\ Working /\ worker'.outboxV2 = worker.outboxV2 /\ worker'.outbox = worker.outbox
                       /\ worker.pc \notin {"drainV2", "saveV2", "drainV1", "saveV1"} \/ worker'.pc = worker.pc
                       /\ worker'.v2 = worker.v2
    PROVE  HoldInv' /\ KeptInv'
<1>1. HoldInv'
    BY DEF HoldInv, Held
<1>2. KeptInv'
    BY DEF KeptInv, Kept
<1>. QED  BY <1>1, <1>2

LEMMA KeptAround ==
    ASSUME HoldInv, KeptInv, Prepares \/ ReadsTab \/ Ends \/ Kills \/ Outside
    PROVE  HoldInv' /\ KeptInv'
<1>1. CASE Prepares
    <2>1. /\ Working /\ store'.outboxV2 = store.outboxV2 /\ store'.outbox = store.outbox /\ UNCHANGED fate
          /\ worker'.outboxV2 = worker.outboxV2 /\ worker'.outbox = worker.outbox /\ worker'.v2 = worker.v2
          /\ worker.pc \in {"config", "confirm"}
        BY <1>1, AtWork DEF Prepares, PreparesWork, Phases, StoreFields
    <2>. QED  BY <2>1, KeptStill
<1>2. CASE ReadsTab
    <2>1. /\ Working /\ UNCHANGED <<store, fate>> /\ worker.pc = "read"
          /\ worker'.outboxV2 = worker.outboxV2 /\ worker'.outbox = worker.outbox /\ worker'.v2 = worker.v2
        BY <1>2, AtWork DEF ReadsTab, KeepsWork, Phases
    <2>. QED  BY <2>1, KeptStill
<1>3. CASE Ends
    <2>1. ~Working' /\ store'.outboxV2 = store.outboxV2 /\ store'.outbox = store.outbox /\ UNCHANGED fate
        BY <1>3 DEF Ends, KeepsStore, Working
    <2>. QED  BY <2>1, KeptStill
<1>4. CASE Kills
    BY <1>4, KeptStill DEF Kills, Working
<1>5. CASE Outside
    BY <1>5, KeptStill DEF Outside, Working
<1>. QED  BY <1>1, <1>2, <1>3, <1>4, <1>5

LEMMA KeptEnqueues ==
    ASSUME BaseInv, HoldInv, KeptInv, Enqueues
    PROVE  HoldInv' /\ KeptInv'
<1>1. Working /\ Working' /\ WorkTypes(worker) /\ worker.pc = "queue" /\ worker'.pc = "drainV2"
    BY AtWork DEF Enqueues, Phases, BaseInv, TypeInv
<1>2. worker.outboxV2 = store.outboxV2 /\ worker.outbox = store.outbox
    BY <1>1 DEF HoldInv
<1>3. /\ store'.outboxV2 = worker'.outboxV2 /\ store'.outbox = worker'.outbox
      /\ store'.outboxV2 = Newest(FilledV2) /\ store'.outbox = Newest(FilledV1)
    BY DEF Enqueues
<1>4. HoldInv'
    BY <1>1, <1>3, HeldSame DEF HoldInv, Held, Elems, In
<1>5. /\ FilledV2 \in Seq(ReadingSet) /\ FilledV1 \in Seq(ReadingSet)
      /\ \A id : In(store.outboxV2, id) => In(FilledV2, id)
      /\ \A id : In(store.outbox, id) => In(FilledV1, id)
    BY <1>1, <1>2, FilledTypes
<1>6. fate' = fate \cup Fate("v2", Newest(FilledV2), "queued") \cup Fate("v1", Newest(FilledV1), "queued")
                    \cup Fate("v2", PushedOut(FilledV2), "gone") \cup Fate("v1", PushedOut(FilledV1), "gone")
    BY DEF Enqueues
<1>7. ASSUME NEW id, In(PushedOut(FilledV2), id)
      PROVE  Done(fate', "v2", id)
    <2>1. PICK f \in Fate("v2", PushedOut(FilledV2), "gone") : f.route = "v2" /\ f.id = id /\ f.what = "gone"
        BY <1>7, FateOf
    <2>2. f \in fate'
        BY <1>6
    <2>. QED  BY <2>1, <2>2 DEF Done
<1>8. ASSUME NEW id, In(PushedOut(FilledV1), id)
      PROVE  Done(fate', "v1", id)
    <2>1. PICK f \in Fate("v1", PushedOut(FilledV1), "gone") : f.route = "v1" /\ f.id = id /\ f.what = "gone"
        BY <1>8, FateOf
    <2>2. f \in fate'
        BY <1>6
    <2>. QED  BY <2>1, <2>2 DEF Done
<1>9. \A id : In(store.outboxV2, id) => In(store'.outboxV2, id) \/ Done(fate', "v2", id)
    BY <1>3, <1>5, <1>7, NewestStay
<1>10. \A id : In(store.outbox, id) => In(store'.outbox, id) \/ Done(fate', "v1", id)
    BY <1>3, <1>5, <1>8, NewestStay
<1>11. ASSUME NEW f \in fate', f.what = "queued"
       PROVE  Kept(f)'
    <2>1. CASE f \in fate
        <3>1. Kept(f)
            BY <1>11, <2>1 DEF KeptInv
        <3>2. fate \subseteq fate'
            BY <1>6
        <3>. QED  BY <1>9, <1>10, <3>1, <3>2, DoneStays DEF Kept
    <2>2. CASE f \in Fate("v2", Newest(FilledV2), "queued")
        BY <1>3, <2>2, FateOf DEF Kept
    <2>3. CASE f \in Fate("v1", Newest(FilledV1), "queued")
        BY <1>3, <2>3, FateOf DEF Kept
    <2>4. CASE f \in Fate("v2", PushedOut(FilledV2), "gone") \cup Fate("v1", PushedOut(FilledV1), "gone")
        BY <1>11, <2>4, FateOf
    <2>. QED  BY <1>6, <2>1, <2>2, <2>3, <2>4
<1>12. KeptInv'
    BY <1>11 DEF KeptInv
<1>. QED  BY <1>4, <1>12

LEMMA KeptUploads ==
    ASSUME BaseInv, HoldInv, KeptInv, Uploads
    PROVE  HoldInv' /\ KeptInv'
<1>1. Working /\ Working' /\ WorkTypes(worker)
    BY AtWork DEF Uploads, Phases, BaseInv, TypeInv
<1>2. /\ Held("v2", store.outboxV2, worker.outboxV2) /\ Held("v1", store.outbox, worker.outbox)
      /\ worker.pc \notin {"drainV2", "saveV2"} \/ ~worker.v2 => worker.outboxV2 = store.outboxV2
      /\ worker.pc \notin {"drainV1", "saveV1"} => worker.outbox = store.outbox
    BY <1>1 DEF HoldInv
<1>3. /\ worker.outboxV2 \in Seq(ReadingSet) /\ worker.outbox \in Seq(ReadingSet)
      /\ worker'.v2 = worker.v2 /\ fate \subseteq fate'
    BY <1>1 DEF WorkTypes, Uploads, KeepsWork, WorkFields
<1>4. \A id : In(worker.outboxV2, id) => In(worker'.outboxV2, id) \/ Done(fate', "v2", id)
    BY <1>3, ShrinksIn DEF Uploads
<1>5. \A id : In(worker.outbox, id) => In(worker'.outbox, id) \/ Done(fate', "v1", id)
    BY <1>3, ShrinksIn DEF Uploads
<1>6. \A id : In(store.outboxV2, id) => In(worker'.outboxV2, id) \/ Done(fate', "v2", id)
    BY <1>2, <1>3, <1>4, HeldIn, DoneStays
<1>7. \A id : In(store.outbox, id) => In(worker'.outbox, id) \/ Done(fate', "v1", id)
    BY <1>2, <1>3, <1>5, HeldIn, DoneStays
<1>8. store'.outboxV2 \in {store.outboxV2, worker'.outboxV2} /\ store'.outbox \in {store.outbox, worker'.outbox}
    BY DEF Uploads
<1>9. \A id : In(store'.outboxV2, id) => In(worker'.outboxV2, id) \/ Done(fate', "v2", id)
    BY <1>6, <1>8
<1>10. \A id : In(store'.outbox, id) => In(worker'.outbox, id) \/ Done(fate', "v1", id)
    BY <1>7, <1>8
<1>11. worker'.pc \notin {"drainV2", "saveV2"} \/ ~worker'.v2 => worker'.outboxV2 = store'.outboxV2
    <2>1. CASE worker.pc = "drainV2"
        BY <1>2, <1>3, <2>1 DEF Uploads
    <2>2. CASE worker.pc = "saveV2"
        BY <1>2, <2>2 DEF Uploads
    <2>3. CASE worker.pc \in {"drainV1", "saveV1"}
        BY <1>2, <2>3 DEF Uploads
    <2>. QED  BY <2>1, <2>2, <2>3 DEF Uploads
<1>12. worker'.pc \notin {"drainV1", "saveV1"} => worker'.outbox = store'.outbox
    <2>1. CASE worker.pc = "drainV2"
        BY <1>2, <2>1 DEF Uploads
    <2>2. CASE worker.pc = "saveV2"
        BY <1>2, <2>2 DEF Uploads
    <2>3. CASE worker.pc \in {"drainV1", "saveV1"}
        BY <1>2, <2>3 DEF Uploads
    <2>. QED  BY <2>1, <2>2, <2>3 DEF Uploads
<1>13. HoldInv'
    BY <1>9, <1>10, <1>11, <1>12, InElems DEF HoldInv, Held
<1>14. ASSUME NEW f \in fate', f.what = "queued"
       PROVE  Kept(f)'
    <2>1. f \in fate
        BY <1>14 DEF Uploads
    <2>2. Kept(f)
        BY <1>14, <2>1 DEF KeptInv
    <2>. QED  BY <1>3, <1>6, <1>7, <1>8, <2>2, DoneStays DEF Kept
<1>15. KeptInv'
    BY <1>14 DEF KeptInv
<1>. QED  BY <1>13, <1>15

LEMMA KeptSetsUp ==
    ASSUME KeptInv, SetsUp
    PROVE  HoldInv' /\ KeptInv'
<1>1. HoldInv'
    <2>1. CASE worker' = Resting
        BY <2>1 DEF HoldInv, Working
    <2>2. CASE Started(worker', store')
        BY <2>2, HeldSame DEF Started, HoldInv, Held, Elems, In
    <2>. QED  BY <2>1, <2>2 DEF SetsUp
<1>2. ASSUME NEW f \in fate', f.what = "queued"
      PROVE  Kept(f)'
    <2>1. f \in fate /\ fate \subseteq fate'
        BY <1>2 DEF SetsUp
    <2>2. Kept(f)
        BY <1>2, <2>1 DEF KeptInv
    <2>3. In(store.outboxV2, f.id) => In(store'.outboxV2, f.id) \/ Done(fate', "v2", f.id)
        BY DEF SetsUp, ClearsRoute
    <2>4. In(store.outbox, f.id) => In(store'.outbox, f.id) \/ Done(fate', "v1", f.id)
        BY DEF SetsUp, ClearsRoute
    <2>. QED  BY <2>1, <2>2, <2>3, <2>4, DoneStays DEF Kept
<1>3. KeptInv'
    BY <1>2 DEF KeptInv
<1>. QED  BY <1>1, <1>3
-----------------------------------------------------------------------------
(* What ok means.                                                          *)

Telling(error, id) == error # NoError /\ (error.code \in ErrorTexts \/ error.at >= id)
\* The reading was taken, waits in the collection that runs, or left it an error.
Noting(id) == "lastError" \in DOMAIN worker.patch /\ worker.patch.lastError.at >= id
Accounted(id) ==
    Delivered(fate, id) \/ In(worker.outboxV2, id) \/ In(worker.outbox, id) \/ Noting(id)

\* The last reading is accounted for: at rest in what is stored, by a collection
\* that read it in what it carries, by any other in what it carries or is stored.
RestTold ==
    ~Working /\ ~forgot /\ store.lastRead # 0 =>
        \/ Delivered(fate, store.lastRead)
        \/ In(store.outboxV2, store.lastRead) \/ In(store.outbox, store.lastRead)
        \/ Telling(store.lastError, store.lastRead)
ReadingTold ==
    Working /\ worker.reading # NoReading =>
        \/ worker.pc = "queue" /\ (PublishV2 \/ PublishV1)
        \/ Accounted(worker.reading.id)
WaitingTold ==
    Working /\ worker.reading = NoReading /\ ~forgot /\ store.lastRead # 0 =>
        Accounted(store.lastRead) \/ Telling(store.lastError, store.lastRead)
ToldInv == RestTold /\ ReadingTold /\ WaitingTold

LEMMA DeliveredStays ==
    ASSUME fate \subseteq fate', NEW id, Delivered(fate, id)
    PROVE  Delivered(fate', id)
BY DEF Delivered

\* An error that is noted is of the last reading at the latest.
LEMMA NotingStays ==
    ASSUME Noted(worker.patch, worker'.patch), NEW id \in Nat, id <= reads, Noting(id),
           DOMAIN worker.patch \subseteq DOMAIN worker'.patch
    PROVE  Noting(id)'
BY DEF Noting, Noted

LEMMA ToldPrepares ==
    ASSUME BaseInv, ToldInv, Prepares \/ (ReadsTab /\ SeesNothing)
    PROVE  ToldInv'
<1>1. /\ Working /\ Working' /\ worker.reading = NoReading /\ worker'.reading = NoReading
      /\ worker'.outboxV2 = worker.outboxV2 /\ worker'.outbox = worker.outbox
      /\ Noted(worker.patch, worker'.patch)
      /\ store'.lastRead = store.lastRead /\ store'.lastError = store.lastError
      /\ UNCHANGED <<fate, reads, forgot>>
    <2>1. CASE Prepares
        BY <2>1, AtWork DEF Prepares, PreparesWork, Phases, StoreFields, BaseInv, WorkInv
    <2>2. CASE ReadsTab /\ SeesNothing
        BY <2>2, AtWork DEF ReadsTab, SeesNothing, KeepsWork, Phases, BaseInv, WorkInv
    <2>. QED  BY <2>1, <2>2
<1>2. store.lastRead \in Nat /\ store.lastRead <= reads
    BY DEF BaseInv, TypeInv, StoreTypes
<1>3. Noting(store.lastRead) => Noting(store.lastRead)'
    BY <1>1, <1>2, NotingStays DEF Noted
<1>4. WaitingTold'
    BY <1>1, <1>3 DEF ToldInv, WaitingTold, Accounted, Noting
<1>. QED  BY <1>1, <1>4 DEF ToldInv, RestTold, ReadingTold

LEMMA ToldReads ==
    ASSUME BaseInv, ToldInv, ReadsTab, SeesReading
    PROVE  ToldInv'
<1>1. /\ Working' /\ worker'.pc = "queue" /\ worker'.reading # NoReading
      /\ worker'.v2 = worker.v2 /\ worker'.collect = worker.collect /\ worker'.state = worker.state
      /\ PublishV2 \/ PublishV1
    BY AtWork DEF ReadsTab, SeesReading, KeepsWork
<1>2. PublishV2' \/ PublishV1'
    BY <1>1 DEF PublishV2, PublishV1
<1>. QED  BY <1>1, <1>2 DEF ToldInv, RestTold, ReadingTold, WaitingTold

LEMMA ToldEnqueues ==
    ASSUME BaseInv, ToldInv, Enqueues
    PROVE  ToldInv'
<1>1. /\ Working /\ Working' /\ WorkTypes(worker) /\ worker'.pc = "drainV2"
    BY AtWork DEF Enqueues, Phases, BaseInv, TypeInv
<1>2. /\ worker'.reading = worker.reading /\ worker'.patch = worker.patch
      /\ worker'.outboxV2 = Newest(FilledV2) /\ worker'.outbox = Newest(FilledV1)
      /\ store'.lastRead = store.lastRead /\ store'.lastError = store.lastError
      /\ forgot' = forgot
    BY DEF Enqueues, KeepsWork, KeepsStore, WorkFields, StoreFields
<1>3. /\ fate \subseteq fate'
      /\ Fate("v2", PushedOut(FilledV2), "gone") \subseteq fate'
      /\ Fate("v1", PushedOut(FilledV1), "gone") \subseteq fate'
    BY DEF Enqueues
<1>4. FilledV2 \in Seq(ReadingSet) /\ FilledV1 \in Seq(ReadingSet)
    BY <1>1, FilledTypes
<1>5. ASSUME NEW id, NEW route, NEW queue, In(PushedOut(queue), id),
             Fate(route, PushedOut(queue), "gone") \subseteq fate'
      PROVE  Delivered(fate', id)
    <2>1. PICK f \in Fate(route, PushedOut(queue), "gone") : f.id = id /\ f.what = "gone"
        BY <1>5, FateOf
    <2>2. f \in fate'
        BY <1>5
    <2>. QED  BY <2>1, <2>2 DEF Delivered
<1>6. \A id : In(FilledV2, id) \/ In(FilledV1, id) => Accounted(id)'
    <2>1. \A id : In(FilledV2, id) => In(worker'.outboxV2, id) \/ Delivered(fate', id)
        BY <1>2, <1>3, <1>4, <1>5, NewestStay
    <2>2. \A id : In(FilledV1, id) => In(worker'.outbox, id) \/ Delivered(fate', id)
        BY <1>2, <1>3, <1>4, <1>5, NewestStay
    <2>. QED  BY <2>1, <2>2 DEF Accounted
<1>7. \A id : Accounted(id) => Accounted(id)'
    <2>1. \A id : In(worker.outboxV2, id) \/ In(worker.outbox, id) => Accounted(id)'
        BY <1>1, <1>6, FilledTypes
    <2>2. \A id : Delivered(fate, id) => Accounted(id)'
        BY <1>3, DeliveredStays DEF Accounted
    <2>3. \A id : Noting(id) => Accounted(id)'
        BY <1>2 DEF Noting, Accounted
    <2>. QED  BY <2>1, <2>2, <2>3 DEF Accounted
<1>8. WaitingTold'
    BY <1>1, <1>2, <1>7 DEF ToldInv, WaitingTold
<1>9. ReadingTold'
    <2>1. ASSUME NEW id, worker.reading # NoReading, id = worker.reading.id
          PROVE  Accounted(id)'
        <3>1. PublishV2 => In(FilledV2, id)
            BY <1>1, <2>1, FilledTypes
        <3>2. PublishV1 => In(FilledV1, id)
            BY <1>1, <2>1, FilledTypes
        <3>3. ~(PublishV2 \/ PublishV1) => Accounted(id)
            BY <1>1, <2>1 DEF ToldInv, ReadingTold
        <3>. QED  BY <1>6, <1>7, <3>1, <3>2, <3>3
    <2>. QED  BY <1>1, <1>2, <2>1 DEF ReadingTold, Accounted, Noting
<1>. QED  BY <1>1, <1>8, <1>9 DEF ToldInv, RestTold

LEMMA ToldUploads ==
    ASSUME BaseInv, ToldInv, Uploads
    PROVE  ToldInv'
<1>1. Working /\ Working' /\ WorkTypes(worker) /\ worker.pc # "queue"
    BY AtWork DEF Uploads, Phases, BaseInv, TypeInv
<1>2. /\ worker'.reading = worker.reading
      /\ store'.lastRead = store.lastRead /\ store'.lastError = store.lastError
      /\ fate \subseteq fate' /\ UNCHANGED <<reads, forgot>>
      /\ Noted(worker.patch, worker'.patch)
    BY DEF Uploads, KeepsWork, KeepsStore, WorkFields, StoreFields
<1>3. ASSUME NEW id \in Nat, id <= reads, Accounted(id)
      PROVE  Accounted(id)'
    <2>1. "lastError" \in DOMAIN worker'.patch /\ worker'.patch.lastError.at = reads => Noting(id)'
        BY <1>2, <1>3 DEF Noting, BaseInv, TypeInv
    <2>2. In(worker.outboxV2, id) => In(worker'.outboxV2, id) \/ Delivered(fate', id) \/ Noting(id)'
        BY <1>1, <2>1, ShrinksIn DEF Uploads, WorkTypes
    <2>3. In(worker.outbox, id) => In(worker'.outbox, id) \/ Delivered(fate', id) \/ Noting(id)'
        BY <1>1, <2>1, ShrinksIn DEF Uploads, WorkTypes
    <2>4. Noting(id) => Noting(id)'
        BY <1>2, <1>3, NotingStays DEF Noted
    <2>5. Delivered(fate, id) => Delivered(fate', id)
        BY <1>2, DeliveredStays
    <2>. QED  BY <1>3, <2>2, <2>3, <2>4, <2>5 DEF Accounted
<1>4. store.lastRead \in Nat /\ store.lastRead <= reads
    BY DEF BaseInv, TypeInv, StoreTypes
<1>5. worker.reading # NoReading => worker.reading.id \in Nat /\ worker.reading.id <= reads
    BY <1>1 DEF BaseInv, WorkInv, TypeInv
<1>6. ReadingTold'
    BY <1>1, <1>2, <1>3, <1>5 DEF ToldInv, ReadingTold
<1>7. WaitingTold'
    BY <1>1, <1>2, <1>3, <1>4 DEF ToldInv, WaitingTold
<1>. QED  BY <1>1, <1>6, <1>7 DEF ToldInv, RestTold

LEMMA ToldEnds ==
    ASSUME BaseInv, HoldInv, ToldInv, Ends
    PROVE  ToldInv'
<1>1. /\ Working /\ ~Working' /\ worker.pc = "finish" /\ reads \in Nat
      /\ store.lastRead \in Nat /\ store.lastRead <= reads /\ UNCHANGED fate
    BY AtWork DEF Ends, Working, Phases, BaseInv, TypeInv, StoreTypes
<1>2. store'.outboxV2 = worker.outboxV2 /\ store'.outbox = worker.outbox
    BY <1>1 DEF Ends, KeepsStore, HoldInv
<1>3. CASE worker.reading # NoReading
    <2>1. store'.lastRead = reads /\ worker.reading.id = reads /\ worker.failure = "none"
        BY <1>1, <1>3 DEF Ends, BaseInv, WorkInv
    <2>2. Accounted(reads)
        BY <1>1, <1>3, <2>1 DEF ToldInv, ReadingTold
    <2>3. Noting(reads) => Telling(store'.lastError, reads)
        BY <2>1 DEF Ends, Noting, Telling
    <2>4. RestTold'
        BY <1>1, <1>2, <2>1, <2>2, <2>3 DEF RestTold, Accounted
    <2>. QED  BY <1>1, <2>4 DEF ToldInv, ReadingTold, WaitingTold
<1>4. CASE worker.reading = NoReading
    <2>1. store'.lastRead = store.lastRead /\ (~forgot' => ~forgot)
        BY <1>4 DEF Ends
    <2>2. store'.lastError # NoError /\ store'.lastError.at = reads => Telling(store'.lastError, store.lastRead)
        BY <1>1 DEF Telling
    <2>3. Noting(store.lastRead) => Telling(store'.lastError, store.lastRead)
        BY <1>4, <2>2 DEF Ends, Noting, Telling
    <2>4. Telling(store.lastError, store.lastRead) => Telling(store'.lastError, store.lastRead)
        <3>1. "lastError" \in DOMAIN worker.patch => worker.patch.lastError.at = reads
            BY <1>1, <1>4 DEF BaseInv, WorkInv
        <3>. QED  BY <1>4, <2>2, <3>1 DEF Ends
    <2>5. RestTold'
        BY <1>1, <1>2, <1>4, <2>1, <2>3, <2>4 DEF ToldInv, WaitingTold, RestTold, Accounted
    <2>. QED  BY <1>1, <2>5 DEF ToldInv, ReadingTold, WaitingTold
<1>. QED  BY <1>3, <1>4

LEMMA ToldAround ==
    ASSUME ToldInv, Kills \/ Outside
    PROVE  ToldInv'
<1>1. CASE Kills
    BY <1>1 DEF Kills, Working, ToldInv, RestTold, ReadingTold, WaitingTold
<1>2. CASE Outside
    BY <1>2 DEF Outside, Working, ToldInv, RestTold, ReadingTold, WaitingTold, Accounted, Noting,
                PublishV1, PublishV2
<1>. QED  BY <1>1, <1>2

LEMMA ToldSetsUp ==
    ASSUME ToldInv, SetsUp
    PROVE  ToldInv'
<1>1. /\ ~Working /\ fate \subseteq fate' /\ store'.lastRead \in {store.lastRead, 0}
      /\ ~forgot' => ~forgot /\ (store'.lastError = store.lastError \/ store.lastError = NoError)
    BY DEF SetsUp, Working
<1>2. In(store.outboxV2, store.lastRead) =>
          In(store'.outboxV2, store.lastRead) \/ Delivered(fate', store.lastRead)
    BY DEF SetsUp, ClearsRoute, Clears
<1>3. In(store.outbox, store.lastRead) =>
          In(store'.outbox, store.lastRead) \/ Delivered(fate', store.lastRead)
    BY DEF SetsUp, ClearsRoute, Clears
<1>4. ~forgot' /\ store'.lastRead # 0 =>
          \/ Delivered(fate', store'.lastRead)
          \/ In(store'.outboxV2, store'.lastRead) \/ In(store'.outbox, store'.lastRead)
          \/ Telling(store'.lastError, store'.lastRead)
    BY <1>1, <1>2, <1>3, DeliveredStays DEF ToldInv, RestTold, Telling
<1>5. CASE worker' = Resting
    BY <1>4, <1>5 DEF Working, ToldInv, RestTold, ReadingTold, WaitingTold
<1>6. CASE Started(worker', store')
    <2>1. /\ Working' /\ worker'.reading = NoReading
          /\ worker'.outboxV2 = store'.outboxV2 /\ worker'.outbox = store'.outbox
        BY <1>6, AtWork DEF Started, WorkTypes
    <2>. QED  BY <1>4, <2>1 DEF ToldInv, RestTold, ReadingTold, WaitingTold, Accounted
<1>. QED  BY <1>5, <1>6 DEF SetsUp
-----------------------------------------------------------------------------
(* The collector, from every sound profile.                                *)

CollectorInv == BaseInv /\ MixInv /\ HoldInv /\ KeptInv /\ ToldInv

LEMMA CollectorStep ==
    ASSUME CollectorInv, [CollectorNext]_collectorVars
    PROVE  CollectorInv'
<1>. USE DEF CollectorInv
<1>1. BaseInv'
    BY BaseStep
<1>2. Prepares \/ ReadsTab \/ Enqueues \/ Uploads \/ Ends \/ Kills \/ SetsUp \/ Outside
    BY StepIs
<1>3. MixInv'
    BY <1>2, MixPrepares, MixReads, MixEnqueues, MixUploads, MixAround, MixSetsUp
<1>4. HoldInv' /\ KeptInv'
    BY <1>2, KeptAround, KeptEnqueues, KeptUploads, KeptSetsUp
<1>5. ToldInv'
    <2>1. CASE ReadsTab
        BY <2>1, ToldPrepares, ToldReads DEF ReadsTab
    <2>2. CASE ~ReadsTab
        BY <1>2, <2>2, ToldPrepares, ToldEnqueues, ToldUploads, ToldEnds, ToldAround, ToldSetsUp
    <2>. QED  BY <2>1, <2>2
<1>. QED  BY <1>1, <1>3, <1>4, <1>5

\* A profile before its first collection: unpaired, or with an install of the
\* server that is bound or not, and nothing queued or read.
SoundProfile(storage, servers) ==
    LET profile == With(Unset, storage)
    IN  /\ StoreTypes(profile) /\ servers \in Seq(ServerSet) /\ profile.install <= Len(servers)
        /\ profile.outboxV2 = <<>> /\ profile.outbox = <<>> /\ profile.lastRead = 0
        /\ profile.binding # NoBinding =>
              /\ profile.install # 0 /\ profile.pin = profile.binding.hash
              /\ profile.pin \in ClaudeAccounts
CollectorSpec(storage, servers, bounds) ==
    FillProfile(storage, servers, bounds) /\ [][CollectorNext]_collectorVars

LEMMA CollectorInit ==
    ASSUME NEW storage, NEW servers, NEW bounds, SoundProfile(storage, servers),
           FillProfile(storage, servers, bounds)
    PROVE  CollectorInv
<1>1. /\ store = With(Unset, storage) /\ worker = Resting /\ ~Working /\ tab \in ClaudeAccounts
      /\ server = servers /\ ledger = {} /\ fate = {} /\ reads = 0 /\ forgot = FALSE
    BY DEF FillProfile, Working
<1>2. /\ StoreTypes(store) /\ server \in Seq(ServerSet) /\ store.install <= Len(server)
      /\ store.outboxV2 = <<>> /\ store.lastRead = 0 /\ BindingInv
    BY <1>1 DEF SoundProfile, BindingInv
<1>3. BaseInv
    <2>1. tab \in Accounts /\ reads \in Nat /\ store.lastRead <= reads
        BY <1>1, <1>2 DEF Accounts
    <2>2. forgot \in BOOLEAN
        BY <1>1
    <2>3. \A f \in fate : f.id \in Nat
        BY <1>1
    <2>4. \A r \in ledger : r.key \in 1 .. Len(server)
        BY <1>1
    <2>5. WorkInv
        BY <1>1 DEF WorkInv
    <2>. QED  BY <1>1, <1>2, <2>1, <2>2, <2>3, <2>4, <2>5 DEF BaseInv, TypeInv
<1>4. Bodies = {} /\ QueuedBodies = {}
    BY <1>1, <1>2 DEF Bodies, QueuedBodies, Elems
<1>5. MixInv
    BY <1>1, <1>4 DEF MixInv, BodiesInv, LedgerInv
<1>6. HoldInv /\ KeptInv /\ ToldInv
    BY <1>1, <1>2 DEF HoldInv, KeptInv, ToldInv, RestTold, ReadingTold, WaitingTold
<1>. QED  BY <1>3, <1>5, <1>6 DEF CollectorInv

LEMMA CollectorInvariant ==
    ASSUME NEW storage, NEW servers, NEW bounds, SoundProfile(storage, servers)
    PROVE  CollectorSpec(storage, servers, bounds) => []CollectorInv
<1>1. FillProfile(storage, servers, bounds) => CollectorInv
    BY CollectorInit
<1>2. CollectorInv /\ [CollectorNext]_collectorVars => CollectorInv'
    BY CollectorStep
<1>. QED  BY <1>1, <1>2, PTL DEF CollectorSpec

\* The readings of an install are of one Claude account and a reading gives a window
\* one value: whatever the owner sets up, unpairs and pairs again, whoever the tab
\* shows while a collection runs, and whichever answers get lost (reconfirmIdentity,
\* the account check of collect, createBinding on the server).
THEOREM ReadingsApart ==
    ASSUME NEW storage, NEW servers, NEW bounds, SoundProfile(storage, servers)
    PROVE  CollectorSpec(storage, servers, bounds) => []ReadingsDoNotMix
<1>1. CollectorInv => ReadingsDoNotMix
    BY DEF CollectorInv, MixInv, LedgerInv, ReadingsDoNotMix
<1>. QED  BY <1>1, CollectorInvariant, PTL

\* A queued reading is in the storage until it was answered for good, pushed out by
\* newer ones or given up with its route (enqueue, drainOutbox and the two writes of
\* the storage in collect, and the calls that clear a queue).
THEOREM KeptQueued ==
    ASSUME NEW storage, NEW servers, NEW bounds, SoundProfile(storage, servers)
    PROVE  CollectorSpec(storage, servers, bounds) => []KeptUntilAnswered
<1>1. CollectorInv => KeptUntilAnswered
    BY KeptMeans DEF CollectorInv
<1>. QED  BY <1>1, CollectorInvariant, PTL

LEMMA OkTold ==
    ASSUME BaseInv, RestTold
    PROVE  OkMeansDelivered
<1>. SUFFICES ASSUME ~forgot, Free, DeriveHealth = "ok"
              PROVE  Delivered(fate, store.lastRead)
    BY DEF OkMeansDelivered, Delivered
<1>. DEFINE late == store.lastError # NoError /\ (store.lastRead = 0 \/ store.lastError.at >= store.lastRead)
<1>1. store.gate # "none" => store.gate # "ok"
    BY DEF BaseInv, TypeInv, StoreTypes, StopSet, Absent
<1>2. \A code \in ErrorTexts : code # "ok"
    BY DEF ErrorTexts
<1>3. /\ store.lastError.code \notin ErrorTexts /\ ~late
      /\ store.lastRead # 0 /\ store.outboxV2 = <<>> /\ store.outbox = <<>>
    BY <1>1, <1>2 DEF DeriveHealth
<1>4. ~Telling(store.lastError, store.lastRead)
    BY <1>3 DEF Telling
<1>5. ~In(store.outboxV2, store.lastRead) /\ ~In(store.outbox, store.lastRead)
    BY <1>3 DEF In
<1>. QED  BY <1>3, <1>4, <1>5 DEF RestTold, Free, Working

\* A profile whose health is ok has had its last reading taken by the server or given
\* up with its route, unless an error since was lost with the worker or cleared by a
\* call of the set-up (deriveHealth, and the patch collect ends with).
THEOREM OkDelivered ==
    ASSUME NEW storage, NEW servers, NEW bounds, SoundProfile(storage, servers)
    PROVE  CollectorSpec(storage, servers, bounds) => []OkMeansDelivered
<1>1. CollectorInv => OkMeansDelivered
    BY OkTold DEF CollectorInv, ToldInv
<1>. QED  BY <1>1, CollectorInvariant, PTL
===============================================================================
