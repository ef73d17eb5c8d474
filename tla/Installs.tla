------------------------------- MODULE Installs -------------------------------
(***************************************************************************)
(* The rows an owner and a machine change from two sides, kit-board/lib/   *)
(* usage-store.ts: pairing codes and the budget of attempts, installs and  *)
(* their bindings, whose identity is assigned under the lock of the install*)
(* row, the settings and their version, the knowledge sources and the      *)
(* revisions of their mapping.                                             *)
(*                                                                         *)
(* Calls run on several server instances; a step is one SQL statement, or  *)
(* the last statements of a transaction with its commit.                   *)
(***************************************************************************)
EXTENDS Integers, Sequences, FiniteSets, FiniteSetsExt

CONSTANTS
    Machines,       \* installs there may be
    Providers,      \* [accounts -> providers]
    Hashes,         \* identity hashes
    PrefixOf,       \* [pairing codes -> their first four characters]
    PrefixBudget,   \* attempts a prefix has in a window
    SourceIds,      \* knowledge sources
    Identities,     \* identities to map, numbered as their ids sort
    Calls,          \* calls that may run at once
    MaxStarted      \* bound: calls started

\* Finitely many calls at once; identities have an order.
ASSUME InstallsAssumption ==
    IsFiniteSet(Calls) /\ PrefixBudget \in Nat /\ Identities \subseteq Nat

VARIABLES
    installs,       \* companion_installs
    bound,          \* companion_bindings, by install and account
    codes,          \* companion_pairing_codes
    attempts,       \* login_limits: the attempts of a prefix in its window
    guessed,        \* codes compared of those the current window admitted
    version,        \* collection_settings: settings_version and settings
    mapping,        \* usage_knowledge_source_mapping_revisions, by identity
    configs,        \* the configurations answered
    calls, started

installVars == <<installs, bound, codes, attempts, guessed, version, mapping,
                 configs, calls, started>>

NoHash == ""
Vacant == [op |-> "idle"]
At(c, op, pc) == calls[c].op = op /\ calls[c].pc = pc

Start(c, call) ==
    /\ calls[c] = Vacant /\ started < MaxStarted
    /\ started' = started + 1
    /\ calls' = [calls EXCEPT ![c] = call]
Goto(c, pc) == calls' = [calls EXCEPT ![c].pc = pc]
Done(c) == calls' = [calls EXCEPT ![c] = Vacant]

\* Mutant: nobody waits for the row.
Unlocked(i) == FALSE
\* SELECT ... FOR UPDATE on the install row; every UPDATE of it waits as well.
Locked(i) == \E d \in Calls : calls[d].op = "identity" /\ calls[d].pc # "lock" /\ calls[d].install = i
-----------------------------------------------------------------------------
(* Pairing.                                                                *)

\* The budgets of the address and of the whole server count the same way; the
\* prefix is the one a guess is bounded by.
BeginPairing(c) ==
    /\ \E k \in DOMAIN PrefixOf, right \in BOOLEAN :
          Start(c, [op |-> "pair", pc |-> "budget", code |-> k, right |-> right,
                   window |-> 0])
    /\ UNCHANGED <<installs, bound, codes, attempts, guessed, version, mapping, configs>>

\* consumeAttempt: one statement counts, and a window that is over starts anew.
Counted(row) ==
    IF row.expired THEN [count |-> 1, expired |-> FALSE, window |-> row.window + 1]
                   ELSE [row EXCEPT !.count = @ + 1]
ConsumeAttempt(c) ==
    /\ At(c, "pair", "budget")
    /\ LET p == PrefixOf[calls[c].code]
           new == Counted(attempts[p])
       IN  /\ attempts' = [attempts EXCEPT ![p] = new]
           /\ guessed' = IF attempts[p].expired THEN [guessed EXCEPT ![p] = 0] ELSE guessed
           /\ IF new.count <= PrefixBudget
              THEN calls' = [calls EXCEPT ![c].pc = "claim", ![c].window = new.window]
              ELSE Done(c)
    /\ UNCHANGED <<installs, bound, codes, version, mapping, configs, started>>

\* Mutant: a code stays good until it expires.
ClaimableWhileLive(k) == codes[k].live
Claimable(k) == codes[k].live /\ codes[k].installs = {}

\* The claim and the install it pays for commit together.
PairInstall(c) ==
    /\ At(c, "pair", "claim")
    /\ LET k == calls[c].code
           free == Machines \ DOMAIN installs
           p == PrefixOf[k]
       IN  /\ guessed' = IF calls[c].window = attempts[p].window
                         THEN [guessed EXCEPT ![p] = @ + 1] ELSE guessed
           /\ IF calls[c].right /\ Claimable(k)
              THEN \E i \in free :
                      /\ installs' = [j \in DOMAIN installs \cup {i} |->
                                        IF j = i THEN [paused |-> FALSE, disabled |-> FALSE]
                                                 ELSE installs[j]]
                      /\ codes' = [codes EXCEPT ![k].installs = @ \cup {i}]
              ELSE UNCHANGED <<installs, codes>>
    /\ Done(c)
    /\ UNCHANGED <<bound, attempts, version, mapping, configs, started>>

\* Fifteen minutes, ten minutes.
WindowEnds(p) ==
    /\ ~attempts[p].expired /\ attempts[p].count >= PrefixBudget
    /\ attempts' = [attempts EXCEPT ![p].expired = TRUE]
    /\ UNCHANGED <<installs, bound, codes, guessed, version, mapping, configs, calls, started>>
CodeExpires(k) ==
    /\ codes[k].live /\ codes' = [codes EXCEPT ![k].live = FALSE]
    /\ UNCHANGED <<installs, bound, attempts, guessed, version, mapping, configs, calls, started>>
-----------------------------------------------------------------------------
(* Identities.                                                             *)

\* createBinding and confirmIdentity, of an install that was not disabled when
\* it authenticated.
BeginIdentity(c) ==
    /\ \E i \in DOMAIN installs, a \in DOMAIN Providers, h \in Hashes \cup {NoHash},
          kind \in {"create", "confirm"} :
          /\ ~installs[i].disabled
          /\ kind = "confirm" => h # NoHash
          /\ Start(c, [op |-> "identity", pc |-> "lock", install |-> i, account |-> a,
                       hash |-> h, kind |-> kind])
    /\ UNCHANGED <<installs, bound, codes, attempts, guessed, version, mapping, configs>>

LockInstall(c) ==
    /\ At(c, "identity", "lock") /\ ~Locked(calls[c].install)
    /\ Goto(c, "check")
    /\ UNCHANGED <<installs, bound, codes, attempts, guessed, version, mapping, configs, started>>

Taken(i, a, h) ==
    \E k \in DOMAIN bound :
        /\ k # <<i, a>> /\ k[1] = i
        /\ Providers[k[2]] = Providers[a] /\ bound[k].hash = h

\* The reads that decide; a refusal ends the transaction.
CheckIdentity(c) ==
    /\ At(c, "identity", "check")
    /\ LET m == calls[c]
           key == <<m.install, m.account>>
           there == key \in DOMAIN bound
           assigns == IF m.kind = "create" THEN ~there ELSE there /\ bound[key].hash = NoHash
       IN  IF assigns /\ (m.hash = NoHash \/ ~Taken(m.install, m.account, m.hash))
           THEN Goto(c, "assign") ELSE Done(c)
    /\ UNCHANGED <<installs, bound, codes, attempts, guessed, version, mapping, configs, started>>

AssignIdentity(c) ==
    /\ At(c, "identity", "assign")
    /\ LET m == calls[c]
           key == <<m.install, m.account>>
           row == IF m.kind = "create" THEN [hash |-> m.hash, enabled |-> TRUE, reset |-> FALSE]
                  ELSE [bound[key] EXCEPT !.hash = m.hash, !.reset = FALSE]
       IN  bound' = [k \in DOMAIN bound \cup {key} |-> IF k = key THEN row ELSE bound[k]]
    /\ Done(c)
    /\ UNCHANGED <<installs, codes, attempts, guessed, version, mapping, configs, started>>
-----------------------------------------------------------------------------
(* The owner: updateInstall and updateCollectionSettings.  A setting is    *)
(* written first, its version in a statement of its own.                   *)

PauseInstall(c) ==
    /\ \E i \in DOMAIN installs : ~Locked(i) /\ installs' = [installs EXCEPT ![i].paused = ~@]
    /\ Start(c, [op |-> "settings", pc |-> "bump"])
    /\ UNCHANGED <<bound, codes, attempts, guessed, version, mapping, configs>>

\* One transaction, and no new version.
DisableInstall(i) ==
    /\ ~installs[i].disabled /\ ~Locked(i)
    /\ installs' = [installs EXCEPT ![i].disabled = TRUE, ![i].paused = TRUE]
    /\ bound' = [k \in DOMAIN bound |->
          IF k[1] = i THEN [bound[k] EXCEPT !.enabled = FALSE] ELSE bound[k]]
    /\ UNCHANGED <<codes, attempts, guessed, version, mapping, configs, calls, started>>

UpdateBinding(c) ==
    /\ \E k \in DOMAIN bound :
          \/ bound' = [bound EXCEPT ![k].enabled = ~@]
          \/ bound' = [bound EXCEPT ![k].hash = NoHash, ![k].reset = TRUE]
    /\ Start(c, [op |-> "settings", pc |-> "bump"])
    /\ UNCHANGED <<installs, codes, attempts, guessed, version, mapping, configs>>

\* Mutant: the version first, the settings in the statement after it.
VersionBeforeSettings(c) ==
    /\ version' = [version EXCEPT !.number = @ + 1, !.since = Append(@, version.settings + 1)]
    /\ Start(c, [op |-> "settings", pc |-> "bump"])
    /\ UNCHANGED <<installs, bound, codes, attempts, guessed, mapping, configs>>
\* `since` remembers the settings each version was raised after.
UpdateSettings(c) ==
    /\ version' = [version EXCEPT !.settings = @ + 1]
    /\ Start(c, [op |-> "settings", pc |-> "bump"])
    /\ UNCHANGED <<installs, bound, codes, attempts, guessed, mapping, configs>>

BumpSettingsVersion(c) ==
    /\ At(c, "settings", "bump")
    /\ version' = [number |-> version.number + 1, settings |-> version.settings,
                   since |-> Append(version.since, version.settings)]
    /\ Done(c)
    /\ UNCHANGED <<installs, bound, codes, attempts, guessed, mapping, configs, started>>

\* companionInstall reads the install; companionConfig the settings with their
\* version, then the bindings.
BeginConfig(c) ==
    /\ \E i \in DOMAIN installs :
          /\ ~installs[i].disabled
          /\ Start(c, [op |-> "config", pc |-> "global", install |-> i, paused |-> installs[i].paused])
    /\ UNCHANGED <<installs, bound, codes, attempts, guessed, version, mapping, configs>>

CompanionConfig(c) ==
    /\ At(c, "config", "global")
    /\ configs' = configs \cup {[install |-> calls[c].install, paused |-> calls[c].paused,
                                 number |-> version.number, settings |-> version.settings]}
    /\ Done(c)
    /\ UNCHANGED <<installs, bound, codes, attempts, guessed, version, mapping, started>>
-----------------------------------------------------------------------------
(* updateKnowledgeSources: map and unmap.                                  *)

BeginMapping(c) ==
    /\ \E ids \in SUBSET Identities, source \in SourceIds :
          /\ ids # {}
          /\ Start(c, [op |-> "map", pc |-> "lock", by |-> started, ids |-> ids,
                       source |-> source, held |-> {}])
    /\ UNCHANGED <<installs, bound, codes, attempts, guessed, version, mapping, configs>>

HeldBy(d) == IF calls[d].op = "map" THEN calls[d].held ELSE {}
\* Mutant: in the order the page sent them.
NextAsSent(c) ==
    LET open == calls[c].ids \ calls[c].held IN IF calls[c].by % 2 = 0 THEN Min(open) ELSE Max(open)
NextToLock(c) == Min(calls[c].ids \ calls[c].held)

LockIdentity(c) ==
    /\ At(c, "map", "lock") /\ calls[c].held # calls[c].ids
    /\ \A d \in Calls \ {c} : NextToLock(c) \notin HeldBy(d)
    /\ calls' = [calls EXCEPT ![c].held = @ \cup {NextToLock(c)}]
    /\ UNCHANGED <<installs, bound, codes, attempts, guessed, version, mapping, configs, started>>

\* One revision at a time draws its place in revision_order; all are seen when
\* the transaction commits.
Pending(c) == calls[c].ids \ {r.id : r \in {q \in mapping.drawn : q.by = calls[c].by}}
DrawRevision(c) ==
    /\ At(c, "map", "lock") /\ calls[c].held = calls[c].ids
    /\ Pending(c) # {}
    /\ mapping' = [mapping EXCEPT !.next = @ + 1,
                     !.drawn = @ \cup {[by |-> calls[c].by, id |-> Min(Pending(c)),
                                        order |-> mapping.next, source |-> calls[c].source]}]
    /\ UNCHANGED <<installs, bound, codes, attempts, guessed, version, configs, calls, started>>

CommitMapping(c) ==
    /\ At(c, "map", "lock") /\ calls[c].held = calls[c].ids /\ Pending(c) = {}
    /\ LET mine == {r \in mapping.drawn : r.by = calls[c].by}
       IN  mapping' = [mapping EXCEPT !.drawn = @ \ mine, !.rows = @ \cup mine]
    /\ Done(c)
    /\ UNCHANGED <<installs, bound, codes, attempts, guessed, version, configs, started>>
-----------------------------------------------------------------------------
FillInstalls(machines, rows) ==
    /\ installs = [i \in machines |-> [paused |-> FALSE, disabled |-> FALSE]]
    /\ bound = rows
    /\ codes = [k \in DOMAIN PrefixOf |-> [live |-> TRUE, installs |-> {}]]
    /\ attempts = [p \in {PrefixOf[k] : k \in DOMAIN PrefixOf} |-> [count |-> 0, expired |-> FALSE, window |-> 0]]
    /\ guessed = [p \in {PrefixOf[k] : k \in DOMAIN PrefixOf} |-> 0]
    /\ version = [number |-> 0, settings |-> 0, since |-> <<>>]
    /\ mapping = [next |-> 1, drawn |-> {}, rows |-> {}]
    /\ configs = {} /\ calls = [c \in Calls |-> Vacant] /\ started = 0

\* The parts that share no row with each other.
PairingNext ==
    \/ \E c \in Calls : BeginPairing(c) \/ ConsumeAttempt(c) \/ PairInstall(c)
    \/ \E p \in DOMAIN attempts : WindowEnds(p)
    \/ \E k \in DOMAIN codes : CodeExpires(k)
BindingNext ==
    \/ \E c \in Calls :
          \/ BeginIdentity(c) \/ LockInstall(c) \/ CheckIdentity(c) \/ AssignIdentity(c)
          \/ UpdateBinding(c) \/ BumpSettingsVersion(c)
    \/ \E i \in DOMAIN installs : DisableInstall(i)
SettingsNext ==
    \E c \in Calls :
       \/ PauseInstall(c) \/ UpdateSettings(c) \/ BumpSettingsVersion(c)
       \/ BeginConfig(c) \/ CompanionConfig(c)
MappingNext ==
    \E c \in Calls : BeginMapping(c) \/ LockIdentity(c) \/ DrawRevision(c) \/ CommitMapping(c)

InstallsNext == PairingNext \/ BindingNext \/ SettingsNext \/ MappingNext
-----------------------------------------------------------------------------
(* Properties.                                                             *)

\* "One account identity binds once per install": two bindings of an install and
\* provider never hold the same identity, though two instances create and
\* confirm them at once and the owner resets them in between.
IdentityHeldOnce ==
    \A k, l \in DOMAIN bound :
        (k # l /\ k[1] = l[1] /\ Providers[k[2]] = Providers[l[2]] /\ bound[k].hash # NoHash)
            => bound[k].hash # bound[l].hash

\* A pairing code makes one install at most, whoever posts it at the same time,
\* and codes of one prefix are compared no more often in a window than its
\* budget allows.
PairingIsBounded ==
    /\ \A k \in DOMAIN codes : Cardinality(codes[k].installs) <= 1
    /\ \A p \in DOMAIN guessed : guessed[p] <= PrefixBudget

\* A configuration that carries a version carries the global settings written
\* before it was raised: they are read in one row, and written in this order.
VersionsCarrySettings ==
    \A f \in configs : f.number > 0 => f.settings >= version.since[f.number]

\* Reads take the last revision of an identity by revision_order.  Two mappings
\* that overlap come in one order for every identity both of them name, an owner
\* never sees half of one and half of the other; and no two wait for each other.
MappingsAgree ==
    /\ \A r, q, r2, q2 \in mapping.rows :
          (r.by = q.by /\ r2.by = q2.by /\ r.id = r2.id /\ q.id = q2.id /\ r.order < r2.order)
              => q.order < q2.order
    /\ \A c, d \in Calls :
          LET waits(x, y) == /\ calls[x].op = "map" /\ calls[x].held # calls[x].ids
                             /\ NextToLock(x) \in HeldBy(y)
          IN  ~(waits(c, d) /\ waits(d, c))
==============================================================================
