--------------------------- MODULE UsageDeliveryMC ---------------------------
(***************************************************************************)
(* Small instances of UsageDelivery: two records and an hourly bucket of   *)
(* two bindings, each with a detailed and a bare revision.                 *)
(***************************************************************************)
EXTENDS UsageDelivery, TLC

CONSTANTS r1, r2, b1, full, bare, work, home

MCRecords == {r1, r2}
MCBuckets == {b1}
MCContent == {full, bare}
MCBindings == {work, home}
MCRedact == [c \in {full, bare} |-> bare]
MCBindingOf == (r1 :> work) @@ (r2 :> home) @@ (b1 :> work)

Open == [hold |-> {}, redact |-> {}, stale |-> {}]
Private == [hold |-> {r2}, redact |-> {r1}, stale |-> {}]
Reconfigured == [hold |-> {}, redact |-> {r1}, stale |-> {<<r2, full>>}]

AllSettings == {Open, Private, Reconfigured}
OpenAndReconfigured == {Open, Reconfigured}

RefusedBucketAndRecord == {<<r2, full>>, <<b1, full>>}
Nothing == {}
RecordOfABadShape == {r1}

RunIds == Permutations(Runs)

\* Three revisions and owner changes, or two and a fault.
FewEvents == changes' + faults' <= MaxChanges
LiveSpec == Init /\ [][Next /\ FewEvents]_vars /\ WF_vars(RunStep) /\ WF_vars(ServerStep)
=============================================================================
