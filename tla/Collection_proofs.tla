--------------------------- MODULE Collection_proofs ---------------------------
EXTENDS Collection, FiniteSetTheorems, TLAPS

(***************************************************************************)
(* That the emission mark covers its records, for every corpus, all        *)
(* settings and any number of runs.  First, operation by operation, that   *)
(* the reader of transcripts only adds to what it knows of a tool call;    *)
(* then what a record says of its row; then the run itself.                *)
(***************************************************************************)

-----------------------------------------------------------------------------
(* The rows.  A step of the reader keeps every tool call and, once it is   *)
(* known, the request that made it.                                        *)

EventFields == {"session", "tokens", "folder", "beneath", "agent", "parent", "class", "name", "depth"}
LifecycleFields == {"agent", "parent", "class", "name", "depth", "call", "outcome"}
ToolFields == {"caller", "agent", "sub", "within", "outcome"}

Formed(r) ==
    /\ DOMAIN r = {"events", "tools", "profiles", "lifecycle", "slots"}
    /\ \A id \in DOMAIN r.events : DOMAIN r.events[id] = EventFields /\ id # NoRequest
    /\ \A id \in DOMAIN r.lifecycle : DOMAIN r.lifecycle[id] = LifecycleFields
    /\ \A id \in DOMAIN r.tools : DOMAIN r.tools[id] = ToolFields

\* Every call is kept, its request once it is known, and that a subagent made it.
Grows(r, s) ==
    Formed(r) =>
        /\ Formed(s)
        /\ \A t \in DOMAIN r.tools :
              /\ t \in DOMAIN s.tools
              /\ r.tools[t].caller \in {NoRequest, s.tools[t].caller}
              /\ r.tools[t].sub => s.tools[t].sub
\* The calls are not touched.
Aside(r, s) == Formed(r) => Formed(s) /\ s.tools = r.tools

\* Both relations compose, and leaving the calls is a way of growing.
LEMMA GrowsOrder ==
    /\ \A r : Grows(r, r) /\ Aside(r, r)
    /\ \A r, s, t : Grows(r, s) /\ Grows(s, t) => Grows(r, t)
    /\ \A r, s, t : Aside(r, s) /\ Aside(s, t) => Aside(r, t)
    /\ \A r, s : Aside(r, s) => Grows(r, s)
BY DEF Grows, Aside

\* Storing a profile rewrites events and lifecycle rows, not calls.
LEMMA Store ==
    ASSUME NEW r, NEW p
    PROVE  Aside(r, StoreProfile(r, p))
<1>. SUFFICES ASSUME Formed(r) PROVE Formed(StoreProfile(r, p)) /\ StoreProfile(r, p).tools = r.tools
    BY DEF Aside
<1>. DEFINE s == StoreProfile(r, p)
<1>1. /\ DOMAIN s = DOMAIN r /\ s.tools = r.tools
      /\ s.events = AgentRows(r.events, p) /\ s.lifecycle = AgentRows(r.lifecycle, p)
    BY DEF StoreProfile, Formed
<1>2. /\ DOMAIN AgentRows(r.events, p) = DOMAIN r.events
      /\ \A id \in DOMAIN r.events : DOMAIN AgentRows(r.events, p)[id] = EventFields
    BY DEF AgentRows, Formed
<1>3. /\ DOMAIN AgentRows(r.lifecycle, p) = DOMAIN r.lifecycle
      /\ \A id \in DOMAIN r.lifecycle : DOMAIN AgentRows(r.lifecycle, p)[id] = LifecycleFields
    BY DEF AgentRows, Formed
<1>. QED  BY <1>1, <1>2, <1>3 DEF Formed

\* Nor does spreading the depths.
LEMMA Give ==
    ASSUME NEW r, NEW depths
    PROVE  Aside(r, GiveDepths(r, depths))
<1>. SUFFICES ASSUME Formed(r) PROVE Formed(GiveDepths(r, depths)) /\ GiveDepths(r, depths).tools = r.tools
    BY DEF Aside
<1>. DEFINE s == GiveDepths(r, depths)
<1>1. /\ DOMAIN s = DOMAIN r /\ s.tools = r.tools
      /\ s.events = DepthRows(r.events, depths) /\ s.lifecycle = DepthRows(r.lifecycle, depths)
    BY DEF GiveDepths, Formed
<1>2. /\ DOMAIN DepthRows(r.events, depths) = DOMAIN r.events
      /\ \A id \in DOMAIN r.events : DOMAIN DepthRows(r.events, depths)[id] = EventFields
    BY DEF DepthRows, Formed
<1>3. /\ DOMAIN DepthRows(r.lifecycle, depths) = DOMAIN r.lifecycle
      /\ \A id \in DOMAIN r.lifecycle : DOMAIN DepthRows(r.lifecycle, depths)[id] = LifecycleFields
    BY DEF DepthRows, Formed
<1>. QED  BY <1>1, <1>2, <1>3 DEF Formed

\* Saving a profile, the depths settled, leaves the calls.
LEMMA Saved ==
    ASSUME NEW r, NEW e
    PROVE  Aside(r, SaveProfile(r, e))
<1>1. \A old, new, k : Aside(new, Settle(old, new, k))
    BY Give, GrowsOrder DEF Settle, PropagateDepths
<1>. QED  BY <1>1, Store, GrowsOrder DEF SaveProfile

\* A lifecycle event is inserted or completes the one of its id.
LEMMA Inserted ==
    ASSUME NEW r, NEW id, NEW new, DOMAIN new = LifecycleFields
    PROVE  Aside(r, InsertAgentEvent(r, id, new))
<1>. SUFFICES ASSUME Formed(r)
              PROVE  Formed(InsertAgentEvent(r, id, new)) /\ InsertAgentEvent(r, id, new).tools = r.tools
    BY DEF Aside
<1>. DEFINE s == InsertAgentEvent(r, id, new)
<1>1. CASE ~Known(r.lifecycle, id)
    <2>1. /\ DOMAIN s = DOMAIN r /\ s.tools = r.tools /\ s.events = r.events
          /\ s.lifecycle = Put(r.lifecycle, id, new)
        BY <1>1 DEF InsertAgentEvent, Formed
    <2>2. /\ DOMAIN s.lifecycle = {id} \cup DOMAIN r.lifecycle
          /\ \A k \in DOMAIN s.lifecycle : s.lifecycle[k] \in {new, r.lifecycle[k]} /\ (k \notin DOMAIN r.lifecycle => s.lifecycle[k] = new)
        BY <2>1 DEF Put
    <2>. QED  BY <2>1, <2>2 DEF Formed
<1>2. CASE Known(r.lifecycle, id)
    <2>1. /\ DOMAIN s = DOMAIN r /\ s.tools = r.tools /\ s.events = r.events
          /\ DOMAIN s.lifecycle = DOMAIN r.lifecycle
          /\ \A k \in DOMAIN r.lifecycle : s.lifecycle[k] = r.lifecycle[k] \/ DOMAIN s.lifecycle[k] = LifecycleFields
        BY <1>2 DEF InsertAgentEvent, Formed, LifecycleFields
    <2>. QED  BY <2>1 DEF Formed
<1>. QED  BY <1>1, <1>2

\* A lifecycle row has its fields.
LEMMA LifecycleShape ==
    ASSUME NEW e, NEW call, NEW outcome
    PROVE  DOMAIN LifecycleRow(e, call, outcome) = LifecycleFields
BY DEF LifecycleRow, LifecycleFields

\* A spawn that is attempted is saved without touching the calls.
LEMMA SpawnSaved ==
    ASSUME NEW r, NEW call, NEW parent, NEW role
    PROVE  Aside(r, SaveSpawnAttempt(r, call, parent, role))
BY Saved, Inserted, LifecycleShape, GrowsOrder DEF SaveSpawnAttempt, SaveCalled

\* So is its outcome.
LEMMA Completed ==
    ASSUME NEW r, NEW call, NEW e, NEW outcome
    PROVE  Aside(r, CompleteSpawn(r, call, e, outcome))
<1>1. ASSUME NEW f, NEW row, NEW role
      PROVE  Aside(r, Complete(r, call, f, row, role, outcome))
    <2>. DEFINE new == [LifecycleRow(f, call, outcome) EXCEPT
                          !.class = IF @ = "unknown" THEN row.class ELSE @,
                          !.name = role, !.depth = OrDepth(@, row.depth)]
    <2>1. DOMAIN new = LifecycleFields
        BY LifecycleShape
    <2>. HIDE DEF new
    <2>2. Aside(SaveProfile(r, f), InsertAgentEvent(SaveProfile(r, f), <<"spawn", call>>, new))
        BY <2>1, Inserted
    <2>. QED  BY <2>2, Saved, GrowsOrder DEF Complete, new
<1>. QED  BY <1>1 DEF CompleteSpawn

\* And the start of an agent.
LEMMA StartSaved ==
    ASSUME NEW r, NEW e
    PROVE  Aside(r, SaveObservedStart(r, e)) /\ Aside(r, SaveObservedSpawn(r, e))
<1>1. \A s : Aside(s, StartChild(s, e))
    BY Inserted, LifecycleShape DEF StartChild
<1>2. Aside(r, StartChild(SaveProfile(r, e), e))
    BY <1>1, Saved, GrowsOrder
<1>3. Aside(r, CompleteSpawn(StartChild(SaveProfile(r, e), e), e.call, e, "succeeded"))
    BY <1>2, Completed, GrowsOrder
<1>4. Aside(r, SaveObservedStart(r, e))
    BY <1>2, <1>3, Saved DEF SaveObservedStart
<1>5. Aside(r, SaveObservedSpawn(r, e))
    BY Saved, Inserted, LifecycleShape, GrowsOrder DEF SaveObservedSpawn
<1>. QED  BY <1>4, <1>5

\* A usage event is saved without touching the calls.
LEMMA EventSaved ==
    ASSUME NEW r, NEW id, id # NoRequest, NEW session, NEW beneath, NEW folder, NEW tokens, NEW e
    PROVE  Aside(r, SaveEvent(r, id, session, beneath, folder, tokens, e))
<1>. DEFINE s == SaveEvent(r, id, session, beneath, folder, tokens, e)
<1>. SUFFICES ASSUME Formed(r) PROVE Formed(s) /\ s.tools = r.tools
    BY DEF Aside
<1>1. \/ s = r
      \/ \E row : DOMAIN row = EventFields /\ s = [r EXCEPT !.events = Put(@, id, row)]
    BY DEF SaveEvent, EventFields
<1>2. ASSUME NEW row, DOMAIN row = EventFields, s = [r EXCEPT !.events = Put(@, id, row)]
      PROVE  Formed(s) /\ s.tools = r.tools
    <2>1. /\ DOMAIN s = DOMAIN r /\ s.tools = r.tools /\ s.lifecycle = r.lifecycle
          /\ s.events = Put(r.events, id, row)
        BY <1>2 DEF Formed
    <2>2. /\ DOMAIN s.events = DOMAIN r.events \cup {id}
          /\ \A k \in DOMAIN s.events : DOMAIN s.events[k] = EventFields
        BY <1>2, <2>1 DEF Put, Formed
    <2>. QED  BY <2>1, <2>2 DEF Formed
<1>. QED  BY <1>1, <1>2

\* Codex's quota slots are no calls.
LEMMA QuotaSaved ==
    ASSUME NEW r, NEW line
    PROVE  Aside(r, SaveCodexQuotas(r, line))
<1>. SUFFICES ASSUME Formed(r)
              PROVE  Formed(SaveCodexQuotas(r, line)) /\ SaveCodexQuotas(r, line).tools = r.tools
    BY DEF Aside
<1>1. \A f : LET s == [r EXCEPT !.slots = f] IN
          DOMAIN s = DOMAIN r /\ s.tools = r.tools /\ s.lifecycle = r.lifecycle /\ s.events = r.events
    BY DEF Formed
<1>. QED  BY <1>1 DEF SaveCodexQuotas, Formed
-----------------------------------------------------------------------------
(* Tool calls.                                                             *)

ToolsKept(a, b) ==
    /\ \A t \in DOMAIN b : DOMAIN b[t] = ToolFields
    /\ \A t \in DOMAIN a :
          t \in DOMAIN b /\ a[t].caller \in {NoRequest, b[t].caller} /\ (a[t].sub => b[t].sub)

\* A table of calls that keeps every call makes the rows grow.
LEMMA ToolsPut ==
    ASSUME NEW r, Formed(r), NEW tools, ToolsKept(r.tools, tools)
    PROVE  LET s == [r EXCEPT !.tools = tools] IN Formed(s) /\ s.tools = tools /\ Grows(r, s)
<1>. DEFINE s == [r EXCEPT !.tools = tools]
<1>1. DOMAIN s = DOMAIN r /\ s.tools = tools /\ s.lifecycle = r.lifecycle /\ s.events = r.events
    BY DEF Formed
<1>. HIDE DEF s
<1>2. Formed(s) /\ Grows(r, s)
    BY <1>1 DEF Formed, Grows, ToolsKept
<1>. QED  BY <1>1, <1>2 DEF s

\* Two sightings of a call are merged: a request that is known stays, and so does
\* that a subagent made it.
LEMMA Merged ==
    ASSUME NEW old, NEW new, NEW outcome
    PROVE  LET row == [MergeTool(old, new) EXCEPT !.outcome = outcome] IN
           /\ DOMAIN MergeTool(old, new) = ToolFields /\ DOMAIN row = ToolFields
           /\ old.caller \in {NoRequest, MergeTool(old, new).caller}
           /\ old.caller \in {NoRequest, row.caller}
           /\ (old.sub => MergeTool(old, new).sub) /\ (old.sub => row.sub)
BY DEF MergeTool, ToolFields, OrRequest

\* A call is stored, new or merged with the one of its id.
LEMMA Upserted ==
    ASSUME NEW r, Formed(r), NEW id, NEW new, DOMAIN new = ToolFields
    PROVE  LET s == UpsertTool(r, id, new) IN Formed(s) /\ Grows(r, s) /\ id \in DOMAIN s.tools
<1>. DEFINE s == UpsertTool(r, id, new)
<1>1. CASE Known(r.tools, id)
    <2>. DEFINE row == [MergeTool(r.tools[id], new) EXCEPT !.outcome = Outcome(@, new.outcome)]
                tools == [r.tools EXCEPT ![id] = row]
    <2>1. s = [r EXCEPT !.tools = tools]
        BY <1>1 DEF UpsertTool
    <2>2. /\ DOMAIN row = ToolFields
          /\ r.tools[id].caller \in {NoRequest, row.caller} /\ (r.tools[id].sub => row.sub)
        BY Merged
    <2>3. ToolsKept(r.tools, tools) /\ id \in DOMAIN tools
        <3>. HIDE DEF row
        <3>. QED  BY <1>1, <2>2 DEF ToolsKept, Formed, Known
    <2>. QED  BY <2>1, <2>3, ToolsPut
<1>2. CASE ~Known(r.tools, id)
    <2>1. s = [r EXCEPT !.tools = Put(r.tools, id, new)]
        BY <1>2 DEF UpsertTool
    <2>2. ToolsKept(r.tools, Put(r.tools, id, new)) /\ id \in DOMAIN Put(r.tools, id, new)
        BY <1>2 DEF ToolsKept, Formed, Known, Put
    <2>. QED  BY <2>1, <2>2, ToolsPut
<1>. QED  BY <1>1, <1>2

\* The outcome of a call is filled in.
LEMMA OutcomePut ==
    ASSUME NEW r, Formed(r), NEW id, id \in DOMAIN r.tools, NEW outcome
    PROVE  LET s == [r EXCEPT !.tools[id].outcome = outcome] IN Formed(s) /\ Grows(r, s)
<1>. DEFINE row == [r.tools[id] EXCEPT !.outcome = outcome]
            tools == [r.tools EXCEPT ![id] = row]
<1>1. [r EXCEPT !.tools[id].outcome = outcome] = [r EXCEPT !.tools = tools]
    OBVIOUS
<1>2. DOMAIN row = ToolFields /\ row.caller = r.tools[id].caller /\ row.sub = r.tools[id].sub
    BY DEF Formed, ToolFields
<1>3. ToolsKept(r.tools, tools)
    <2>. HIDE DEF row
    <2>. QED  BY <1>2 DEF ToolsKept, Formed
<1>. HIDE DEF tools
<1>. QED  BY <1>1, <1>3, ToolsPut

\* The sighting of an invocation is saved.
LEMMA InvocationSaved ==
    ASSUME NEW r, NEW call, NEW new, DOMAIN new = ToolFields
    PROVE  Grows(r, SaveInvocation(r, call, new))
<1>. SUFFICES ASSUME Formed(r) PROVE Grows(r, SaveInvocation(r, call, new))
    BY DEF Grows
<1>. DEFINE own == <<"invocation", call>>
            result == <<"result", call>>
            stored == UpsertTool(r, own, new)
            row == MergeTool(stored.tools[result], new)
            tools == [stored.tools EXCEPT ![result] = row]
            between == [stored EXCEPT !.tools = tools]
            told(o) == [between EXCEPT !.tools[own].outcome = o]
<1>1. Formed(stored) /\ Grows(r, stored) /\ own \in DOMAIN stored.tools
    BY Upserted
<1>. HIDE DEF stored
<1>2. CASE ~Known(r.tools, result)
    BY <1>1, <1>2 DEF SaveInvocation, stored
<1>3. CASE Known(r.tools, result)
    <2>1. result \in DOMAIN stored.tools
        BY <1>1, <1>3 DEF Grows, Known
    <2>2. /\ DOMAIN row = ToolFields
          /\ stored.tools[result].caller \in {NoRequest, row.caller}
          /\ stored.tools[result].sub => row.sub
        BY Merged
    <2>3. ToolsKept(stored.tools, tools) /\ own \in DOMAIN tools
        <3>. HIDE DEF row
        <3>. QED  BY <1>1, <2>1, <2>2 DEF ToolsKept, Formed
    <2>4. Formed(between) /\ Grows(stored, between) /\ between.tools = tools
        <3>. HIDE DEF tools
        <3>. QED  BY <1>1, <2>3, ToolsPut
    <2>. HIDE DEF between
    <2>5. \A o : Grows(between, told(o))
        BY <2>3, <2>4, OutcomePut
    <2>6. \E o : SaveInvocation(r, call, new) = told(o)
        BY <1>3 DEF SaveInvocation, stored, between
    <2>. QED  BY <1>1, <2>4, <2>5, <2>6, GrowsOrder
<1>. QED  BY <1>2, <1>3

\* The sighting of a result is saved.
LEMMA ResultSaved ==
    ASSUME NEW r, NEW call, NEW outcome, NEW agent, NEW sub
    PROVE  Grows(r, SaveResult(r, call, outcome, agent, sub))
<1>. SUFFICES ASSUME Formed(r) PROVE Grows(r, SaveResult(r, call, outcome, agent, sub))
    BY DEF Grows
<1>. DEFINE own == <<"invocation", call>>
            bare == [caller |-> NoRequest, agent |-> agent, sub |-> sub, within |-> None,
                     outcome |-> outcome]
            asked == Known(r.tools, own)
            merged == [MergeTool(r.tools[own], bare) EXCEPT !.outcome = outcome]
            new == IF asked THEN merged ELSE bare
            stored == UpsertTool(r, <<"result", call>>, new)
            told(o) == [stored EXCEPT !.tools[own].outcome = o]
<1>1. DOMAIN merged = ToolFields /\ DOMAIN bare = ToolFields
    BY Merged DEF ToolFields
<1>2. DOMAIN new = ToolFields
    BY <1>1
<1>3. SaveResult(r, call, outcome, agent, sub)
        = IF asked /\ outcome # "unknown" THEN told(Outcome(stored.tools[own].outcome, outcome))
          ELSE stored
    BY DEF SaveResult
<1>. HIDE DEF new
<1>4. Formed(stored) /\ Grows(r, stored)
    BY <1>2, Upserted
<1>. HIDE DEF stored
<1>5. asked => \A o : Grows(stored, told(o))
    <2>1. asked => own \in DOMAIN stored.tools
        BY <1>4 DEF Grows, Known
    <2>. QED  BY <1>4, <2>1, OutcomePut
<1>. HIDE DEF told, asked
<1>. QED  BY <1>3, <1>4, <1>5, GrowsOrder

\* The calls of a line get the request of that line, if they had none.
LEMMA CallersAssigned ==
    ASSUME NEW r, NEW calls, NEW request
    PROVE  Grows(r, AssignCallers(r, calls, request))
<1>. SUFFICES ASSUME Formed(r) PROVE Grows(r, AssignCallers(r, calls, request))
    BY DEF Grows
<1>. DEFINE assigned(row) == [row EXCEPT !.caller = OrRequest(@, request)]
            tools == [id \in DOMAIN r.tools |->
                        IF id[2] \in calls THEN assigned(r.tools[id]) ELSE r.tools[id]]
<1>1. AssignCallers(r, calls, request) = [r EXCEPT !.tools = tools]
    BY DEF AssignCallers
<1>2. \A row : DOMAIN row = ToolFields =>
          /\ DOMAIN assigned(row) = ToolFields /\ assigned(row).sub = row.sub
          /\ row.caller \in {NoRequest, assigned(row).caller}
    BY DEF OrRequest, ToolFields
<1>3. ToolsKept(r.tools, tools)
    <2>. HIDE DEF assigned
    <2>. QED  BY <1>2 DEF ToolsKept, Formed
<1>. HIDE DEF tools
<1>. QED  BY <1>1, <1>3, ToolsPut
-----------------------------------------------------------------------------
(* A line.  The lists in it are sequences.                                 *)

LastOf(S) == Max(S)

\* The calls of a line that start agents.
CallStep(p, use, acc) ==
    IF use.spawns THEN SaveSpawnAttempt(acc, use.id, p.parent, use.role) ELSE acc
CallItem(p, i) == p.line.uses[i]
CallGood(p, acc) == Aside(p.rows, acc)
StartFold == INSTANCE Folds_proofs WITH Op <- CallStep, Item <- CallItem, Pick <- LastOf, Good <- CallGood

\* The indices of a list are what the folds need: finite, with a last one.
LEMMA ListSound ==
    ASSUME NEW s, IsList(s)
    PROVE  IsFiniteSet(DOMAIN s) /\ \A T \in SUBSET DOMAIN s : T # {} => LastOf(T) \in T
<1>1. PICK n \in Nat : DOMAIN s = 1..n
    <2>. DEFINE held == ToSet(s)
    <2>1. s \in Seq(held)
        BY DEF IsList
    <2>. HIDE DEF held
    <2>. QED  BY <2>1
<1>2. IsFiniteSet(1..n)
    BY FS_Interval
<1>3. \A T \in SUBSET (1..n) : T # {} => Max(T) \in T
    BY StartFold!GreatestOf DEF Max
<1>. QED  BY <1>1, <1>2, <1>3 DEF LastOf

\* The spawns of a Claude line are saved by a fold over the line's uses.
LEMMA CallsFold ==
    ASSUME NEW p
    PROVE  ClaudeCalls(p.rows, p.line, p.parent) = StartFold!Fold(p, p.rows, DOMAIN p.line.uses)
BY DEF ClaudeCalls, FoldLeft, MapThenFoldSet, StartFold!MapThenFoldSet, StartFold!Fold, CallStep, CallItem, LastOf

\* So they leave the calls, however many there are.
LEMMA CallsSaved ==
    ASSUME NEW r, NEW line, NEW parent, IsList(line.uses)
    PROVE  Aside(r, ClaudeCalls(r, line, parent))
<1>1. PICK p : p.rows = r /\ p.line = line /\ p.parent = parent
    <2>. WITNESS [rows |-> r, line |-> line, parent |-> parent]
    <2>. QED  OBVIOUS
<1>2. StartFold!Sound(DOMAIN p.line.uses)
    BY <1>1, ListSound DEF StartFold!Sound, StartFold!IsFiniteSet, IsFiniteSet
<1>3. CallGood(p, p.rows)
    BY GrowsOrder DEF CallGood
<1>4. \A i \in DOMAIN p.line.uses : \A y : CallGood(p, y) => CallGood(p, CallStep(p, CallItem(p, i), y))
    BY SpawnSaved, GrowsOrder DEF CallGood, CallStep
<1>5. CallGood(p, StartFold!Fold(p, p.rows, DOMAIN p.line.uses))
    BY <1>2, <1>3, <1>4, StartFold!FoldKeeps
<1>. QED  BY <1>1, <1>5, CallsFold DEF CallGood

\* The calls of a line, and its results.
UseStep(p, use, acc) ==
    SaveInvocation(acc, use.id,
        [caller |-> p.line.message, agent |-> p.by.key, sub |-> IsKnownChild(p.by),
         within |-> use.within, outcome |-> "unknown"])
UseItem(p, i) == p.line.uses[i]
RowsGood(p, acc) == Grows(p.rows, acc)
UseFold == INSTANCE Folds_proofs WITH Op <- UseStep, Item <- UseItem, Pick <- LastOf, Good <- RowsGood

ResultStep(p, result, acc) ==
    SaveResult(acc, result.id, result.outcome, p.by.key, IsKnownChild(p.by))
ResultItem(p, i) == p.line.results[i]
ResultFold ==
    INSTANCE Folds_proofs WITH Op <- ResultStep, Item <- ResultItem, Pick <- LastOf, Good <- RowsGood

\* The tools of a line are saved by folds over its uses and over its results.
LEMMA ToolsFold ==
    ASSUME NEW p
    PROVE  /\ UsesBy(p.rows, p.line, p.by) = UseFold!Fold(p, p.rows, DOMAIN p.line.uses)
           /\ ResultsBy(p.rows, p.line, p.by) = ResultFold!Fold(p, p.rows, DOMAIN p.line.results)
<1>1. UsesBy(p.rows, p.line, p.by) = UseFold!Fold(p, p.rows, DOMAIN p.line.uses)
    BY DEF UsesBy, FoldLeft, MapThenFoldSet, UseFold!MapThenFoldSet, UseFold!Fold, UseStep, UseItem,
           LastOf
<1>2. ResultsBy(p.rows, p.line, p.by) = ResultFold!Fold(p, p.rows, DOMAIN p.line.results)
    BY DEF ResultsBy, FoldLeft, MapThenFoldSet, ResultFold!MapThenFoldSet, ResultFold!Fold, ResultStep,
           ResultItem, LastOf
<1>. QED  BY <1>1, <1>2

\* So they only grow the rows.
LEMMA ToolsSaved ==
    ASSUME NEW r, NEW line, NEW e, IsList(line.uses), IsList(line.results)
    PROVE  Grows(r, ToolsBy(r, line, e))
<1>1. \A s : Grows(s, UsesBy(s, line, e))
    <2>. TAKE s
    <2>1. PICK p : p.rows = s /\ p.line = line /\ p.by = e
        <3>. WITNESS [rows |-> s, line |-> line, by |-> e]
        <3>. QED  OBVIOUS
    <2>2. UseFold!Sound(DOMAIN p.line.uses)
        BY <2>1, ListSound DEF UseFold!Sound, UseFold!IsFiniteSet, IsFiniteSet
    <2>3. \A use, y : Grows(y, UseStep(p, use, y))
        <3>. TAKE use, y
        <3>. DEFINE new == [caller |-> p.line.message, agent |-> p.by.key, sub |-> IsKnownChild(p.by),
                            within |-> use.within, outcome |-> "unknown"]
        <3>1. DOMAIN new = ToolFields
            BY DEF ToolFields
        <3>. HIDE DEF new
        <3>2. Grows(y, SaveInvocation(y, use.id, new))
            BY <3>1, InvocationSaved
        <3>. QED  BY <3>2 DEF UseStep, new
    <2>4. RowsGood(p, p.rows) /\ \A i \in DOMAIN p.line.uses : \A y :
              RowsGood(p, y) => RowsGood(p, UseStep(p, UseItem(p, i), y))
        BY <2>3, GrowsOrder DEF RowsGood
    <2>5. RowsGood(p, UseFold!Fold(p, p.rows, DOMAIN p.line.uses))
        BY <2>2, <2>4, UseFold!FoldKeeps
    <2>. QED  BY <2>1, <2>5, ToolsFold DEF RowsGood
<1>2. \A s : Grows(s, ResultsBy(s, line, e))
    <2>. TAKE s
    <2>1. PICK p : p.rows = s /\ p.line = line /\ p.by = e
        <3>. WITNESS [rows |-> s, line |-> line, by |-> e]
        <3>. QED  OBVIOUS
    <2>2. ResultFold!Sound(DOMAIN p.line.results)
        BY <2>1, ListSound DEF ResultFold!Sound, ResultFold!IsFiniteSet, IsFiniteSet
    <2>3. RowsGood(p, p.rows) /\ \A i \in DOMAIN p.line.results : \A y :
              RowsGood(p, y) => RowsGood(p, ResultStep(p, ResultItem(p, i), y))
        BY ResultSaved, GrowsOrder DEF RowsGood, ResultStep
    <2>4. RowsGood(p, ResultFold!Fold(p, p.rows, DOMAIN p.line.results))
        BY <2>2, <2>3, ResultFold!FoldKeeps
    <2>. QED  BY <2>1, <2>4, ToolsFold DEF RowsGood
<1>. QED  BY <1>1, <1>2, GrowsOrder DEF ToolsBy

\* A line of a Claude file grows the rows.
LEMMA ClaudeLineGrows ==
    ASSUME NEW s, DOMAIN s = {"rows", "ctx", "gap"}, NEW file, NEW line, NEW subs,
           IsList(line.uses), IsList(line.results)
    PROVE  LET t == ClaudeLine(s, file, line, subs) IN
           DOMAIN t = {"rows", "ctx", "gap"} /\ Grows(s.rows, t.rows)
<1>. DEFINE own == s.ctx.agent
<1>1. \A r, parent : Aside(r, ClaudeCalls(r, line, parent))
    BY CallsSaved
<1>2. \A r, parent : Aside(r, ClaudeAnswer(r, line, parent))
    BY Completed, GrowsOrder DEF ClaudeAnswer
<1>3. \A r : Grows(r, ClaudeLifecycle(r, line, own))
    BY <1>1, <1>2, GrowsOrder DEF ClaudeLifecycle
<1>4. \A r : Grows(r, ClaudeTools(r, line, own))
    BY ToolsSaved DEF ClaudeTools
<1>5. \A r : Grows(r, ClaudeRequest(r, file, line, own, subs))
    <2>1. ASSUME line.message # NoRequest
          PROVE  \A r, e : Aside(r, RequestBy(r, file, line, e))
        BY <2>1, EventSaved DEF RequestBy
    <2>2. ASSUME line.message # NoRequest
          PROVE  \A r, e : Aside(r, RequestSeen(r, file, line, e, subs))
        BY <2>1, <2>2, StartSaved, GrowsOrder DEF RequestSeen
    <2>. QED  BY <2>2, GrowsOrder DEF ClaudeRequest
<1>6. \A r : Grows(r, ClaudeRequest(ClaudeTools(ClaudeLifecycle(r, line, own), line, own),
                                    file, line, own, subs))
    BY <1>3, <1>4, <1>5, GrowsOrder
<1>. QED  BY <1>6, GrowsOrder DEF ClaudeLine

\* A line of a Codex file of any of its types does too.
LEMMA CodexLineGrows ==
    ASSUME NEW s, DOMAIN s = {"rows", "ctx", "gap"}, NEW line, line.type \in CodexTypes, NEW subs
    PROVE  LET t == CodexLine(s, line, subs) IN
           DOMAIN t = {"rows", "ctx", "gap"} /\ Grows(s.rows, t.rows)
<1>. DEFINE fine(t) == DOMAIN t = {"rows", "ctx", "gap"} /\ Grows(s.rows, t.rows)
<1>1. \A z, changes : DOMAIN z = {"rows", "ctx", "gap"} =>
          DOMAIN WithCtx(z, changes) = {"rows", "ctx", "gap"} /\ WithCtx(z, changes).rows = z.rows
    BY DEF WithCtx
<1>2. fine(SessionMeta(s, line, subs))
    <2>. DEFINE agent == CodexAgent(line)
    <2>1. \A r, e : Aside(r, SaveObservedStart(SaveObservedSpawn(SaveProfile(r, e), e), e))
        BY Saved, StartSaved, GrowsOrder
    <2>2. \A r : Grows(r, IF subs /\ agent.class # "main" /\ InWindow(line)
                          THEN SaveObservedStart(SaveObservedSpawn(SaveProfile(r, agent), agent), agent)
                          ELSE SaveProfile(r, agent))
        BY <2>1, Saved, GrowsOrder
    <2>. HIDE DEF agent
    <2>. QED  BY <1>1, <2>2 DEF SessionMeta, agent
<1>3. fine(TurnContext(s, line)) /\ fine(TaskStarted(s, line))
    BY <1>1, GrowsOrder DEF TurnContext, TaskStarted
<1>4. fine(TokenCount(s, line, subs))
    <2>. DEFINE before == s.ctx.total
                moved == [s EXCEPT !.ctx.total = IF line.total # 0 THEN line.total ELSE @]
                both == line.total # 0 /\ before # 0
                used == IF both /\ line.total >= before THEN line.total - before ELSE line.tokens
                id == <<s.ctx.session, line.at, IF line.total # 0 THEN line.total ELSE used>>
                quotas == SaveCodexQuotas(s.rows, line)
                counted == AssignCallers(CountFor(quotas, s.ctx, id, used),
                                         s.ctx.calls \cup s.ctx.nested, id)
    <2>1. DOMAIN moved = {"rows", "ctx", "gap"} /\ moved.rows = s.rows
        OBVIOUS
    <2>2. id # NoRequest
        BY DEF NoRequest
    <2>. HIDE DEF id, used
    <2>3. \A r, e : Aside(r, CountBy(r, s.ctx, id, used, e))
        <3>. TAKE r, e
        <3>. DEFINE z == IF e.key = None THEN r ELSE SaveObservedStart(r, e)
        <3>1. Aside(r, z)
            BY StartSaved, GrowsOrder
        <3>. HIDE DEF z
        <3>2. Aside(z, SaveEvent(z, id, s.ctx.session, None, s.ctx.folder, used, e))
            BY <2>2, EventSaved
        <3>. QED  BY <3>1, <3>2, GrowsOrder DEF CountBy, z
    <2>4. Grows(s.rows, quotas) /\ Grows(s.rows, counted)
        BY <2>3, QuotaSaved, CallersAssigned, GrowsOrder DEF CountFor
    <2>. HIDE DEF quotas, counted, moved
    <2>5. fine(moved) /\ fine([moved EXCEPT !.rows = quotas])
        BY <2>1, <2>4, GrowsOrder
    <2>6. fine([WithCtx(moved, [calls |-> {}, nested |-> {}]) EXCEPT !.rows = counted])
        BY <1>1, <2>1, <2>4
    <2>7. \/ TokenCount(s, line, subs) = moved
          \/ TokenCount(s, line, subs) = [moved EXCEPT !.rows = quotas]
          \/ TokenCount(s, line, subs)
               = [WithCtx(moved, [calls |-> {}, nested |-> {}]) EXCEPT !.rows = counted]
        <3>1. moved.rows = s.rows /\ WithCtx(moved, [calls |-> {}, nested |-> {}]).rows = s.rows
            BY <1>1, <2>1
        <3>. QED  BY <3>1 DEF TokenCount, moved, quotas, counted, id, used
    <2>. QED  BY <2>5, <2>6, <2>7
<1>5. fine(CodexCall(s, line))
    <2>. DEFINE agent == s.ctx.agent
                open == [s EXCEPT !.ctx.exec = IF line.exec THEN @ \cup {line.call} ELSE @]
                new == [caller |-> NoRequest, agent |-> agent.key, sub |-> IsKnownChild(agent),
                        within |-> line.within, outcome |-> line.status]
                saved == SaveInvocation(s.rows, line.call, new)
    <2>1. DOMAIN open = {"rows", "ctx", "gap"} /\ open.rows = s.rows
        OBVIOUS
    <2>2. DOMAIN new = ToolFields
        BY DEF ToolFields
    <2>. HIDE DEF new
    <2>3. Grows(s.rows, saved)
        BY <2>2, InvocationSaved
    <2>. HIDE DEF saved, open
    <2>4. fine(open) /\ fine([open EXCEPT !.ctx.calls = @ \cup {line.call}, !.rows = saved])
        BY <2>1, <2>3, GrowsOrder
    <2>5. CodexCall(s, line)
            = IF ~s.ctx.own \/ ~InWindow(line) THEN open
              ELSE [open EXCEPT !.ctx.calls = @ \cup {line.call}, !.rows = saved]
        BY <2>1 DEF CodexCall, open, saved, new
    <2>. QED  BY <2>4, <2>5
<1>6. fine(CodexOutput(s, line))
    <2>. DEFINE closed == [s EXCEPT !.ctx.exec = @ \ {line.call}]
                saved == SaveResult(s.rows, line.call, line.status, s.ctx.agent.key, IsKnownChild(s.ctx.agent))
    <2>1. DOMAIN closed = {"rows", "ctx", "gap"} /\ closed.rows = s.rows
        OBVIOUS
    <2>2. Grows(s.rows, saved)
        BY ResultSaved
    <2>. HIDE DEF saved, closed
    <2>3. fine(closed) /\ fine([closed EXCEPT !.rows = saved])
        BY <2>1, <2>2, GrowsOrder
    <2>4. CodexOutput(s, line)
            = IF ~s.ctx.own \/ ~InWindow(line) THEN closed ELSE [closed EXCEPT !.rows = saved]
        BY <2>1 DEF CodexOutput, closed, saved
    <2>. QED  BY <2>3, <2>4
<1>7. fine(NestedMcp(s, line, subs))
    <2>. DEFINE agent == s.ctx.agent
                sub == IsKnownChild(agent)
                new == [caller |-> NoRequest, agent |-> agent.key, sub |-> sub,
                        within |-> CHOOSE e \in s.ctx.exec : TRUE, outcome |-> "unknown"]
                asked == SaveInvocation(s.rows, line.call, new)
                saved == SaveResult(asked, line.call, line.status, agent.key, sub)
    <2>1. DOMAIN new = ToolFields
        BY DEF ToolFields
    <2>. HIDE DEF new
    <2>2. Grows(s.rows, asked)
        BY <2>1, InvocationSaved
    <2>. HIDE DEF asked
    <2>3. Grows(s.rows, saved)
        BY <2>2, ResultSaved, GrowsOrder
    <2>. HIDE DEF saved
    <2>4. fine(s) /\ fine([s EXCEPT !.ctx.nested = @ \cup {line.call}, !.rows = saved])
        BY <2>3, GrowsOrder
    <2>5. \/ NestedMcp(s, line, subs) = s
          \/ NestedMcp(s, line, subs) = [s EXCEPT !.ctx.nested = @ \cup {line.call}, !.rows = saved]
        BY DEF NestedMcp, asked, saved, new
    <2>. QED  BY <2>4, <2>5
<1>. HIDE DEF fine
<1>8. fine(CodexLine(s, line, subs))
    BY <1>2, <1>3, <1>4, <1>5, <1>6, <1>7 DEF CodexLine, CodexTypes
<1>. QED  BY <1>8 DEF fine

\* And so does any line that its provider can have written.
LEMMA LineGrows ==
    ASSUME NEW s, DOMAIN s = {"rows", "ctx", "gap"}, NEW file, NEW line, LineFormed(line, file.provider),
           NEW subs
    PROVE  LET t == ProcessLine(s, file, line, subs) IN
           DOMAIN t = {"rows", "ctx", "gap"} /\ Grows(s.rows, t.rows)
<1>1. CASE line.type = "broken"
    BY <1>1, GrowsOrder DEF ProcessLine
<1>2. CASE line.type # "broken"
    BY <1>2, ClaudeLineGrows, CodexLineGrows DEF ProcessLine, LineFormed
<1>. QED  BY <1>1, <1>2
-----------------------------------------------------------------------------
(* A file.                                                                 *)

\* The lines of a file, one after the other.
LineStep(p, line, s) == ProcessLine(s, p.file, line, p.subs)
LineItem(p, i) == p.lines[i]
LineGood(p, s) == DOMAIN s = {"rows", "ctx", "gap"} /\ Grows(p.rows, s.rows)
FileFold == INSTANCE Folds_proofs WITH Op <- LineStep, Item <- LineItem, Pick <- LastOf, Good <- LineGood

FileRead(file, subs, start, lines) ==
    FoldLeft(LAMBDA s, line : ProcessLine(s, file, line, subs), start, lines)

\* Reading a file is a fold over the lines read.
LEMMA FileReadFold ==
    ASSUME NEW p, NEW start
    PROVE  FileRead(p.file, p.subs, start, p.lines) = FileFold!Fold(p, start, DOMAIN p.lines)
BY DEF FileRead, FoldLeft, MapThenFoldSet, FileFold!MapThenFoldSet, FileFold!Fold, LineStep, LineItem,
       LastOf

\* So the reading of any number of lines grows the rows.
LEMMA FileGrows ==
    ASSUME NEW file, NEW subs, NEW start, DOMAIN start = {"rows", "ctx", "gap"},
           NEW lines, IsList(lines), \A i \in DOMAIN lines : LineFormed(lines[i], file.provider)
    PROVE  Grows(start.rows, FileRead(file, subs, start, lines).rows)
<1>1. PICK p : p.rows = start.rows /\ p.file = file /\ p.subs = subs /\ p.lines = lines
    <2>. WITNESS [rows |-> start.rows, file |-> file, subs |-> subs, lines |-> lines]
    <2>. QED  OBVIOUS
<1>2. FileFold!Sound(DOMAIN p.lines)
    BY <1>1, ListSound DEF FileFold!Sound, FileFold!IsFiniteSet, IsFiniteSet
<1>3. LineGood(p, start)
    BY <1>1, GrowsOrder DEF LineGood
<1>4. \A i \in DOMAIN p.lines : \A s : LineGood(p, s) => LineGood(p, LineStep(p, LineItem(p, i), s))
    <2>. TAKE i \in DOMAIN p.lines
    <2>. TAKE s
    <2>. HAVE LineGood(p, s)
    <2>1. LineFormed(p.lines[i], p.file.provider)
        BY <1>1
    <2>2. LET t == ProcessLine(s, p.file, p.lines[i], p.subs) IN
          DOMAIN t = {"rows", "ctx", "gap"} /\ Grows(s.rows, t.rows)
        BY <2>1, LineGrows DEF LineGood
    <2>. QED  BY <2>2, GrowsOrder DEF LineGood, LineStep, LineItem
<1>5. LineGood(p, FileFold!Fold(p, start, DOMAIN p.lines))
    BY <1>2, <1>3, <1>4, FileFold!FoldKeeps
<1>. QED  BY <1>1, <1>5, FileReadFold DEF LineGood

\* The reader: checkpoints within their files, and the rows as they are stored.
DiskFields == {"lines", "part", "written", "inode", "sidecar"}
ReaderInv ==
    /\ Legible(corpus)
    /\ DOMAIN disk = Paths /\ DOMAIN files = Paths
    /\ \A f \in Paths :
          /\ DOMAIN disk[f] = DiskFields
          /\ disk[f].lines \in DOMAIN corpus[f].lines \cup {0}
          /\ files[f] = NoCheckpoint \/ files[f].offset \in Nat
    /\ "pc" \in DOMAIN scan
    /\ scan.pc = "open" =>
          scan.file \in Paths /\ scan.resumes \in BOOLEAN /\ (scan.resumes => files[scan.file].offset \in Nat)
    /\ Formed(rows)

\* What is read of a file are lines of it.
LEMMA ReadLines ==
    ASSUME ReaderInv, scan.pc = "open"
    PROVE  /\ IsList(LinesRead)
           /\ \A i \in DOMAIN LinesRead : LineFormed(LinesRead[i], corpus[scan.file].provider)
<1>. DEFINE lines == corpus[scan.file].lines
            last == disk[scan.file].lines
<1>1. scan.file \in Paths /\ ReadFrom \in Nat
    BY DEF ReaderInv, ReadFrom
<1>2. IsList(lines) /\ \A i \in DOMAIN lines : LineFormed(lines[i], corpus[scan.file].provider)
    BY <1>1 DEF ReaderInv, Legible, Paths
<1>3. PICK held : lines \in Seq(held)
    BY <1>2 DEF IsList
<1>4. last \in 0..Len(lines)
    BY <1>1, <1>3 DEF ReaderInv
<1>. HIDE DEF lines, last
<1>5. /\ LinesRead \in Seq(held)
      /\ \A i \in DOMAIN LinesRead : i + ReadFrom \in DOMAIN lines /\ LinesRead[i] = lines[i + ReadFrom]
    <2>1. LinesRead = SubSeq(lines, ReadFrom + 1, last)
        BY DEF LinesRead, lines, last
    <2>. QED  BY <1>1, <1>3, <1>4, <2>1
<1>6. IsList(LinesRead)
    BY <1>5 DEF IsList, ToSet
<1>. QED  BY <1>2, <1>5, <1>6

\* The reading of a file keeps the reader's invariant and every call.
LEMMA ReadFileKeeps ==
    ASSUME ReaderInv, ReadFile
    PROVE  ReaderInv' /\ Grows(rows, rows')
<1>. DEFINE f == scan.file
            file == corpus[f]
            resumed == IF scan.resumes THEN files[f].ctx ELSE FreshCtx(file.stem)
            ctx == IF file.provider = "claude" /\ (~scan.resumes \/ resumed.agent.key = None)
                   THEN [resumed EXCEPT !.agent = scan.agent] ELSE resumed
            start == [rows |-> rows, ctx |-> ctx, gap |-> FALSE]
            end == FileRead(file, scan.subs, start, LinesRead)
<1>1. scan.pc = "open" /\ StoreFile(f, end) /\ scan' = NextFile /\ UNCHANGED <<corpus, disk, conf, key, left>>
    BY DEF ReadFile, FileRead
<1>2. IsList(LinesRead) /\ \A i \in DOMAIN LinesRead : LineFormed(LinesRead[i], file.provider)
    BY <1>1, ReadLines
<1>3. DOMAIN start = {"rows", "ctx", "gap"} /\ start.rows = rows
    OBVIOUS
<1>. HIDE DEF start
<1>4. Grows(rows, end.rows)
    BY <1>2, <1>3, FileGrows
<1>. HIDE DEF end
<1>5. Formed(rows') /\ Grows(rows, rows')
    BY <1>1, <1>4 DEF StoreFile, Grows, ReaderInv
<1>6. "pc" \in DOMAIN scan' /\ scan'.pc = "files"
    BY <1>1 DEF NextFile
<1>7. f \in Paths /\ ReadFrom \in Nat /\ disk[f].lines \in Nat
    BY <1>1 DEF ReaderInv, Legible, IsList, ReadFrom, Paths
<1>8. DOMAIN files' = DOMAIN files /\ files'[f].offset \in Nat /\ \A g \in DOMAIN files : g # f => files'[g] = files[g]
    BY <1>1, <1>7 DEF StoreFile, Larger, ReaderInv
<1>. HIDE DEF f
<1>9. Paths' = Paths /\ Legible(corpus)' /\ UNCHANGED <<corpus, disk>>
    BY <1>1 DEF Paths, ReaderInv
<1>10. \A g \in Paths : files'[g] = NoCheckpoint \/ files'[g].offset \in Nat
    BY <1>8 DEF ReaderInv
<1>. QED  BY <1>5, <1>6, <1>8, <1>9, <1>10 DEF ReaderInv

\* The other steps of a scan leave the rows.
LEMMA LookKeeps ==
    ASSUME ReaderInv,
           StartScan \/ FileUnavailable \/ EndScan \/ ScanStops \/ \E f \in Paths : StatFile(f)
    PROVE  ReaderInv' /\ rows' = rows
<1>1. CASE StartScan
    <2>1. scan'.pc = "files" /\ "pc" \in DOMAIN scan' /\ UNCHANGED <<corpus, disk, rows>>
        BY <1>1 DEF StartScan
    <2>2. files' = files \/ files' = [f \in Paths |-> NoCheckpoint]
        BY <1>1 DEF StartScan
    <2>. QED  BY <2>1, <2>2 DEF ReaderInv, Paths
<1>2. CASE FileUnavailable
    <2>1. scan'.pc = "files" /\ "pc" \in DOMAIN scan' /\ UNCHANGED <<corpus, disk, rows, files>>
        BY <1>2 DEF FileUnavailable, NextFile
    <2>. QED  BY <2>1 DEF ReaderInv, Paths
<1>3. CASE EndScan \/ ScanStops
    <2>1. scan'.pc = "idle" /\ "pc" \in DOMAIN scan' /\ UNCHANGED <<corpus, disk, rows, files>>
        BY <1>3 DEF EndScan, ScanStops, Idle
    <2>. QED  BY <2>1 DEF ReaderInv, Paths
<1>4. ASSUME NEW f \in Paths, StatFile(f) PROVE ReaderInv' /\ rows' = rows
    <2>1. UNCHANGED <<corpus, disk, rows, files>> /\ scan.pc = "files"
        BY <1>4 DEF StatFile
    <2>2. \/ scan'.pc = "files" /\ "pc" \in DOMAIN scan'
          \/ /\ scan'.pc = "open" /\ "pc" \in DOMAIN scan' /\ scan'.file = f
             /\ scan'.resumes \in BOOLEAN /\ (scan'.resumes => files[f] # NoCheckpoint)
        <3>. DEFINE d == disk[f]
                    old == files[f]
                    resumes == ~Renamed(f) /\ old # NoCheckpoint /\ old.inode = d.inode /\ Size(d) >= old.size
                    next == [pc |-> "open", todo |-> scan.todo, subs |-> scan.subs, file |-> f,
                             size |-> Size(d), written |-> d.written, inode |-> d.inode,
                             resumes |-> resumes, agent |-> FileAgent(f)]
        <3>1. scan' = [scan EXCEPT !.todo = @ \ {f}] \/ scan' = next
            BY <1>4 DEF StatFile
        <3>2. LET s == [scan EXCEPT !.todo = @ \ {f}] IN s.pc = "files" /\ "pc" \in DOMAIN s
            BY <2>1 DEF ReaderInv
        <3>3. resumes \in BOOLEAN /\ (resumes => files[f] # NoCheckpoint)
            OBVIOUS
        <3>4. next.pc = "open" /\ "pc" \in DOMAIN next /\ next.file = f /\ next.resumes = resumes
            OBVIOUS
        <3>. HIDE DEF next, resumes
        <3>. QED  BY <3>1, <3>2, <3>3, <3>4
    <2>. QED  BY <1>4, <2>1, <2>2 DEF ReaderInv, Paths
<1>. QED  BY <1>1, <1>2, <1>3, <1>4

\* The client writes within its files, the owner changes settings.
LEMMA OutsideKeeps ==
    ASSUME ReaderInv, ClientStep \/ OwnerStep
    PROVE  ReaderInv' /\ rows' = rows
<1>1. CASE OwnerStep
    BY <1>1 DEF OwnerStep, ReaderInv, Paths
<1>2. CASE ClientStep
    <2>1. UNCHANGED <<corpus, files, rows, scan>>
        BY <1>2 DEF ClientStep
    <2>2. PICK f \in Paths : \/ \E n \in corpus[f].pauses, part \in BOOLEAN : AppendLines(f, n, part)
                             \/ Replace(f) \/ WriteSidecar(f)
        BY <1>2 DEF ClientStep
    <2>3. f \in DOMAIN disk /\ DOMAIN disk[f] = DiskFields /\ disk[f].lines \in DOMAIN corpus[f].lines \cup {0}
        BY <2>2 DEF ReaderInv
    <2>4. ASSUME NEW changes, Touch(f, changes)
          PROVE  /\ DOMAIN disk' = DOMAIN disk /\ DOMAIN disk'[f] = DiskFields
                 /\ disk'[f].lines = IF Known(changes, "lines") THEN changes.lines ELSE disk[f].lines
                 /\ \A g \in DOMAIN disk : g # f => disk'[g] = disk[g]
        <3>. DEFINE new == [k \in DOMAIN disk[f] |->
                              CASE Known(changes, k) -> changes[k]
                                [] k = "written" -> disk[f][k] + 1
                                [] ~Known(changes, k) /\ k # "written" -> disk[f][k]]
        <3>1. disk' = [disk EXCEPT ![f] = new]
            BY <2>4 DEF Touch
        <3>2. DOMAIN new = DiskFields
            BY <2>3
        <3>3. new.lines = IF Known(changes, "lines") THEN changes.lines ELSE disk[f].lines
            BY <2>3 DEF DiskFields
        <3>. HIDE DEF new
        <3>. QED  BY <2>3, <3>1, <3>2, <3>3
    <2>5. /\ DOMAIN disk' = DOMAIN disk /\ DOMAIN disk'[f] = DiskFields
          /\ disk'[f].lines \in DOMAIN corpus[f].lines \cup {0}
          /\ \A g \in DOMAIN disk : g # f => disk'[g] = disk[g]
        <3>1. ASSUME NEW n \in corpus[f].pauses, NEW part \in BOOLEAN, AppendLines(f, n, part)
              PROVE  /\ DOMAIN disk' = DOMAIN disk /\ DOMAIN disk'[f] = DiskFields /\ disk'[f].lines = n
                     /\ \A g \in DOMAIN disk : g # f => disk'[g] = disk[g]
            <4>. DEFINE changes == [lines |-> n, part |-> part]
            <4>1. Touch(f, changes) /\ Known(changes, "lines") /\ changes.lines = n
                BY <3>1 DEF AppendLines, Known
            <4>. HIDE DEF changes
            <4>. QED  BY <2>4, <4>1
        <3>2. \A n \in corpus[f].pauses : n \in DOMAIN corpus[f].lines
            BY <2>2 DEF ReaderInv, Legible, Paths
        <3>3. ASSUME Replace(f)
              PROVE  /\ DOMAIN disk' = DOMAIN disk /\ DOMAIN disk'[f] = DiskFields
                     /\ disk'[f].lines = disk[f].lines
                     /\ \A g \in DOMAIN disk : g # f => disk'[g] = disk[g]
            <4>. DEFINE changes == [inode |-> disk[f].inode + 1, part |-> FALSE]
            <4>1. Touch(f, changes) /\ ~Known(changes, "lines")
                BY <3>3 DEF Replace, Known
            <4>. HIDE DEF changes
            <4>. QED  BY <2>4, <4>1
        <3>4. ASSUME WriteSidecar(f)
              PROVE  /\ DOMAIN disk' = DOMAIN disk /\ DOMAIN disk'[f] = DiskFields
                     /\ disk'[f].lines = disk[f].lines
                     /\ \A g \in DOMAIN disk : g # f => disk'[g] = disk[g]
            <4>. DEFINE new == [disk[f] EXCEPT !.sidecar = TRUE]
            <4>1. disk' = [disk EXCEPT ![f] = new]
                BY <3>4 DEF WriteSidecar
            <4>2. DOMAIN new = DiskFields /\ new.lines = disk[f].lines
                BY <2>3 DEF DiskFields
            <4>. HIDE DEF new
            <4>. QED  BY <2>3, <4>1, <4>2
        <3>. QED  BY <2>2, <2>3, <3>1, <3>2, <3>3, <3>4
    <2>. QED  BY <2>1, <2>5 DEF ReaderInv, Paths
<1>. QED  BY <1>1, <1>2

\* The initial states have the reader's invariant.
LEMMA ReaderInit ==
    ASSUME NEW held, Legible(held), NEW settings, NEW bounds, InitTranscripts(held, settings, bounds)
    PROVE  ReaderInv
<1>1. Formed(NoRows)
    BY DEF Formed, NoRows
<1>2. \A f \in DOMAIN held : DOMAIN disk[f] = DiskFields /\ disk[f].lines = 0
    BY DEF InitTranscripts, NotThere, DiskFields
<1>3. "pc" \in DOMAIN scan /\ scan.pc = "idle"
    BY DEF InitTranscripts, Idle
<1>. QED  BY <1>1, <1>2, <1>3 DEF InitTranscripts, ReaderInv, Paths
-----------------------------------------------------------------------------
(* A record and its row.                                                   *)

\* The ids of the rows, by table.
LEMMA StoredIds ==
    ASSUME NEW id \in Stored
    PROVE  \/ \E x \in DOMAIN rows.events : id = <<"request", x>> /\ Row(id) = rows.events[x]
           \/ \E x \in DOMAIN rows.lifecycle : id = <<"agent", x>> /\ Row(id) = rows.lifecycle[x]
           \/ \E x \in DOMAIN rows.tools : id = <<"tool", x>> /\ Row(id) = rows.tools[x]
           \/ \E x \in DOMAIN accesses : id = <<"access", x>> /\ Row(id) = accesses[x]
BY DEF Stored, RowsOf, Named, Row, RowAt

\* What a record may say of its row, but for all of it.
Reduced(id, content) ==
    LET full == Content(id, Unhidden) IN
    /\ DOMAIN content = DOMAIN full
    /\ \A f \in DOMAIN full \ Hideable : content[f] = full[f]
    /\ content.name \in {full.name, None}
    /\ id[1] = "request" =>
          /\ content.folder \in {full.folder, None}
          /\ content.calls \in {NoCount} \cup {Cardinality(CallsOf(id[2], [subs |-> s])) : s \in BOOLEAN}

\* The record of a request, field by field, and of an agent.
RequestFields(content, x, c) ==
    LET row == rows.events[x] IN
    /\ DOMAIN content = EventFields \cup {"calls"}
    /\ \A f \in (EventFields \cup {"calls"}) \ Hideable : content[f] = row[f]
    /\ content.name = ShownName(row, c)
    /\ content.folder = IF c.project THEN row.folder ELSE None
    /\ content.calls = IF c.detail = "tools" THEN Cardinality(CallsOf(x, c)) ELSE NoCount
AgentFields(content, x, c) ==
    LET row == rows.lifecycle[x] IN
    /\ DOMAIN content = LifecycleFields
    /\ \A f \in LifecycleFields \ Hideable : content[f] = row[f]
    /\ content.name = ShownName(row, c)

\* The record of a request holds what its row says, or less as the settings hide.
LEMMA RequestContent ==
    ASSUME Formed(rows), NEW x \in DOMAIN rows.events, NEW c
    PROVE  RequestFields(Content(<<"request", x>>, c), x, c)
<1>. DEFINE row == rows.events[x]
            shown == [row EXCEPT !.name = ShownName(row, c), !.folder = IF c.project THEN @ ELSE None]
            count == IF c.detail = "tools" THEN Cardinality(CallsOf(x, c)) ELSE NoCount
<1>1. Content(<<"request", x>>, c) = Put(shown, "calls", count)
    BY DEF Content, Row, RowAt
<1>2. DOMAIN row = EventFields
    BY DEF Formed
<1>3. /\ DOMAIN shown = EventFields /\ shown.name = ShownName(row, c)
      /\ shown.folder = IF c.project THEN row.folder ELSE None
      /\ \A f \in EventFields : f \notin {"name", "folder"} => shown[f] = row[f]
    BY <1>2 DEF EventFields
<1>. HIDE DEF shown, count
<1>4. LET content == Put(shown, "calls", count) IN
      /\ DOMAIN content = EventFields \cup {"calls"} /\ content.calls = count
      /\ \A f \in EventFields : content[f] = shown[f]
    BY <1>3 DEF Put, EventFields
<1>. QED  BY <1>1, <1>3, <1>4 DEF RequestFields, Hideable, EventFields, count

\* So does the record of a lifecycle event.
LEMMA AgentContent ==
    ASSUME Formed(rows), NEW x \in DOMAIN rows.lifecycle, NEW c
    PROVE  AgentFields(Content(<<"agent", x>>, c), x, c)
<1>. DEFINE row == rows.lifecycle[x]
<1>1. Content(<<"agent", x>>, c) = [row EXCEPT !.name = ShownName(row, c)]
    BY DEF Content, Row, RowAt
<1>2. DOMAIN row = LifecycleFields
    BY DEF Formed
<1>. QED  BY <1>1, <1>2 DEF AgentFields, LifecycleFields, Hideable

\* A name that is shown is the name of the row.
LEMMA NameShown ==
    ASSUME NEW row, NEW c
    PROVE  /\ ShownName(row, c) \in {ShownName(row, Unhidden), None}
           /\ ShownName(row, c) \in {row.name, None}
BY DEF ShownName, Unhidden

\* A record made under any settings says what its row says.
LEMMA ContentReduced ==
    ASSUME Formed(rows), NEW id \in Stored, id[1] \in {"request", "agent"}, NEW c, c.subs \in BOOLEAN
    PROVE  Reduced(id, Content(id, c))
<1>. DEFINE full == Content(id, Unhidden)
            content == Content(id, c)
<1>1. ASSUME NEW x \in DOMAIN rows.events, id = <<"request", x>> PROVE Reduced(id, content)
    <2>1. RequestFields(full, x, Unhidden) /\ RequestFields(content, x, c)
        BY <1>1, RequestContent
    <2>. HIDE DEF full, content
    <2>2. /\ DOMAIN content = DOMAIN full
          /\ \A f \in DOMAIN full \ Hideable : content[f] = full[f]
        BY <2>1 DEF RequestFields
    <2>3. content.name \in {full.name, None}
        BY <2>1, NameShown DEF RequestFields
    <2>4. content.folder \in {full.folder, None}
        BY <2>1 DEF RequestFields, Unhidden
    <2>5. CallsOf(x, c) = CallsOf(x, [subs |-> c.subs])
        BY DEF CallsOf
    <2>6. content.calls \in {NoCount} \cup {Cardinality(CallsOf(x, [subs |-> s])) : s \in BOOLEAN}
        BY <2>1, <2>5 DEF RequestFields
    <2>7. id[2] = x
        BY <1>1
    <2>. QED  BY <2>2, <2>3, <2>4, <2>6, <2>7 DEF Reduced, full
<1>2. ASSUME NEW x \in DOMAIN rows.lifecycle, id = <<"agent", x>> PROVE Reduced(id, content)
    <2>1. AgentFields(full, x, Unhidden) /\ AgentFields(content, x, c)
        BY <1>2, AgentContent
    <2>. HIDE DEF full, content
    <2>2. /\ DOMAIN content = DOMAIN full
          /\ \A f \in DOMAIN full \ Hideable : content[f] = full[f]
        BY <2>1 DEF AgentFields
    <2>3. content.name \in {full.name, None}
        BY <2>1, NameShown DEF AgentFields
    <2>4. id[1] # "request"
        BY <1>2
    <2>. QED  BY <2>2, <2>3, <2>4 DEF Reduced, full
<1>. QED  BY <1>1, <1>2, StoredIds

\* Under any settings, the record made of a row now says what the row says.
LEMMA ContentSays ==
    ASSUME Formed(rows), NEW id \in Stored, NEW c, c.subs \in BOOLEAN
    PROVE  Says(id, Content(id, c))
<1>1. CASE id[1] \in {"request", "agent"}
    BY <1>1, ContentReduced DEF Says, Reduced
<1>2. CASE id[1] \in {"tool", "access"}
    BY <1>2 DEF Says, Content
<1>. QED  BY <1>1, <1>2, StoredIds

\* And so does what is left of it when the settings have been tightened.
LEMMA TightenedSays ==
    ASSUME Formed(rows), NEW id \in Stored, NEW content, Says(id, content), NEW c
    PROVE  Says(id, Tightened(id, content, c))
<1>. DEFINE full == Content(id, Unhidden)
            cut == Tightened(id, content, c)
<1>1. CASE id[1] \in {"tool", "access"}
    BY <1>1 DEF Tightened
<1>2. CASE id[1] \in {"request", "agent"}
    <2>1. Reduced(id, content)
        <3>1. Reduced(id, full)
            <4>1. Unhidden.subs \in BOOLEAN
                BY DEF Unhidden
            <4>. QED  BY <1>2, <4>1, ContentReduced
        <3>. QED  BY <3>1, <1>2 DEF Says, Reduced
    <2>2. ASSUME NEW x \in DOMAIN rows.events, id = <<"request", x>> PROVE Reduced(id, cut)
        <3>1. /\ DOMAIN full = EventFields \cup {"calls"} /\ full.class = rows.events[x].class
              /\ full.name = ShownName(rows.events[x], Unhidden)
            <4>1. RequestFields(full, x, Unhidden)
                BY <2>2, RequestContent
            <4>. HIDE DEF full
            <4>. QED  BY <4>1 DEF RequestFields, EventFields, Hideable
        <3>2. /\ DOMAIN content = EventFields \cup {"calls"} /\ content.class = full.class
              /\ content.name \in {full.name, None} /\ content.folder \in {full.folder, None}
              /\ content.calls \in {NoCount} \cup {Cardinality(CallsOf(x, [subs |-> s])) : s \in BOOLEAN}
              /\ \A f \in DOMAIN full \ Hideable : content[f] = full[f]
            BY <2>1, <2>2, <3>1 DEF Reduced, EventFields, Hideable
        <3>3. cut = [content EXCEPT !.calls = IF c.detail = "tools" THEN @ ELSE NoCount,
                                    !.folder = IF c.project THEN @ ELSE None,
                                    !.name = ShownName(content, c)]
            BY <2>2 DEF Tightened
        <3>4. /\ DOMAIN cut = DOMAIN content /\ cut.name = ShownName(content, c)
              /\ cut.folder \in {content.folder, None} /\ cut.calls \in {content.calls, NoCount}
              /\ \A f \in DOMAIN content \ Hideable : cut[f] = content[f]
            BY <3>2, <3>3 DEF EventFields, Hideable
        <3>5. cut.name \in {full.name, None}
            BY <3>2, <3>4, NameShown
        <3>. HIDE DEF cut, full
        <3>6. id[2] = x
            BY <2>2
        <3>. QED  BY <3>1, <3>2, <3>4, <3>5, <3>6 DEF Reduced, full
    <2>3. ASSUME NEW x \in DOMAIN rows.lifecycle, id = <<"agent", x>> PROVE Reduced(id, cut)
        <3>1. DOMAIN full = LifecycleFields
            BY <2>3, AgentContent DEF AgentFields
        <3>2. /\ DOMAIN content = LifecycleFields /\ content.name \in {full.name, None}
              /\ \A f \in DOMAIN full \ Hideable : content[f] = full[f]
            BY <2>1, <3>1 DEF Reduced
        <3>3. cut = [content EXCEPT !.name = ShownName(content, c)]
            BY <2>3 DEF Tightened
        <3>4. /\ DOMAIN cut = DOMAIN content /\ cut.name = ShownName(content, c)
              /\ \A f \in DOMAIN content \ Hideable : cut[f] = content[f]
            BY <3>2, <3>3 DEF LifecycleFields, Hideable
        <3>5. cut.name \in {full.name, None}
            BY <3>2, <3>4, NameShown
        <3>. HIDE DEF cut, full
        <3>6. id[1] # "request"
            BY <2>3
        <3>. QED  BY <3>1, <3>2, <3>4, <3>5, <3>6 DEF Reduced, full
    <2>4. Reduced(id, cut)
        BY <1>2, <2>2, <2>3, StoredIds
    <2>. QED  BY <1>2, <2>4 DEF Says, Reduced
<1>. QED  BY <1>1, <1>2, StoredIds
-----------------------------------------------------------------------------
(* The mark.  What a scan leaves of a row and of what joins it.            *)

\* A row that a scan does not stamp with its generation is as it was.
LEMMA Stamped ==
    ASSUME Scan, Stored \subseteq DOMAIN stamps, NEW id \in Stored', stamps'[id] # gen
    PROVE  id \in Stored /\ Row(id)' = Row(id) /\ stamps'[id] = stamps[id]
<1>. DEFINE changed == {i \in RowsOf(rows', accesses') :
                           i \notin Stored \/ RowAt(rows', accesses', i) # Row(i)}
<1>1. stamps' = Over([i \in changed |-> gen], stamps)
    BY DEF Scan
<1>2. id \in RowsOf(rows', accesses') /\ Row(id)' = RowAt(rows', accesses', id)
    BY DEF Stored, Row
<1>3. id \notin changed
    <2>. HIDE DEF changed
    <2>. QED  BY <1>1 DEF Over
<1>4. id \in Stored /\ Row(id)' = Row(id)
    BY <1>2, <1>3
<1>. HIDE DEF changed
<1>5. stamps'[id] = stamps[id]
    BY <1>1, <1>3, <1>4 DEF Over
<1>. QED  BY <1>4, <1>5

\* What of a row's record depends on the tool calls.
LEMMA SaysSame ==
    ASSUME NEW id, Content(id, Unhidden)' = Content(id, Unhidden),
           id[1] = "request" =>
              \A s \in BOOLEAN : CallsOf(id[2], [subs |-> s])' = CallsOf(id[2], [subs |-> s]),
           NEW content, Says(id, content)
    PROVE  Says(id, content)'
BY DEF Says

\* A scan takes no row away.
LEMMA ScanGrows ==
    ASSUME ReaderInv, Scan
    PROVE  ReaderInv' /\ Grows(rows, rows')
<1>1. ReadFile \/ (StartScan \/ FileUnavailable \/ EndScan \/ ScanStops \/ \E f \in Paths : StatFile(f))
    BY DEF Scan
<1>. QED  BY <1>1, ReadFileKeeps, LookKeeps, GrowsOrder

\* The calls of a request that are as they were are all it has.
LEMMA SameCalls ==
    ASSUME Formed(rows), Grows(rows, rows'), NEW x, x # NoRequest,
           \A t \in DOMAIN rows'.tools :
              rows'.tools[t].caller = x => t \in DOMAIN rows.tools /\ rows'.tools[t] = rows.tools[t]
    PROVE  /\ \A t \in DOMAIN rows.tools : rows.tools[t].caller = x =>
                 t \in DOMAIN rows'.tools /\ rows'.tools[t].caller = x /\ rows'.tools[t] = rows.tools[t]
           /\ \A c : CallsOf(x, c)' = CallsOf(x, c)
<1>1. ASSUME NEW t \in DOMAIN rows.tools, rows.tools[t].caller = x
      PROVE  t \in DOMAIN rows'.tools /\ rows'.tools[t].caller = x /\ rows'.tools[t] = rows.tools[t]
    BY <1>1 DEF Grows
<1>2. ASSUME NEW c PROVE CallsOf(x, c)' = CallsOf(x, c)
    BY <1>1 DEF CallsOf
<1>. QED  BY <1>1, <1>2

\* The sightings of a call that are as they were are all it has.
LEMMA SameTools ==
    ASSUME Formed(rows), Grows(rows, rows'), NEW call,
           \A t \in DOMAIN rows'.tools :
              t[2] = call => t \in DOMAIN rows.tools /\ rows'.tools[t] = rows.tools[t]
    PROVE  /\ ToolsOf(call)' = ToolsOf(call) /\ (BySubagent(call)' <=> BySubagent(call))
           /\ \A t \in ToolsOf(call) : rows'.tools[t] = rows.tools[t]
<1>1. ToolsOf(call)' = ToolsOf(call)
    BY DEF ToolsOf, Grows
<1>2. \A t \in ToolsOf(call) : rows'.tools[t] = rows.tools[t]
    BY <1>1 DEF ToolsOf
<1>. QED  BY <1>1, <1>2 DEF BySubagent

\* What the mark passes over after a scan, it passed over before: a row and the rows
\* it is made of that are not newer than the mark are the same, and so is its record.
LEMMA ScanPasses ==
    ASSUME ReaderInv, Scan, Stored \subseteq DOMAIN stamps, NEW g, NEW c, NEW id \in Emitted(c)',
           gen \in Nat, g \in Nat, g < gen,
           \A other \in Joined(id)' : stamps'[other] <= g
    PROVE  /\ id \in Emitted(c)
           /\ \A other \in Joined(id) : stamps[other] <= g
           /\ \A content : Says(id, content) => Says(id, content)'
<1>1. ReaderInv' /\ Formed(rows) /\ Formed(rows)' /\ Grows(rows, rows')
    BY ScanGrows DEF ReaderInv
<1>2. id \in Stored' /\ Admits(c, id, Row(id))' /\ (id[1] = "access" => c.resources # None /\ c.shares)
    BY DEF Emitted
<1>3. ASSUME NEW other \in Joined(id)', other \in Stored'
      PROVE  other \in Stored /\ Row(other)' = Row(other) /\ stamps[other] <= g
    <2>1. stamps'[other] # gen
        BY <1>3
    <2>. QED  BY <1>3, <2>1, Stamped
<1>4. id \in Joined(id)'
    BY DEF Joined
<1>5. id \in Stored /\ Row(id)' = Row(id) /\ stamps[id] <= g
    BY <1>2, <1>3, <1>4
<1>6. \A t : t \in DOMAIN rows'.tools => <<"tool", t>> \in Stored' /\ Row(<<"tool", t>>)' = rows'.tools[t]
    BY DEF Stored, RowsOf, Named, Row, RowAt
<1>7. \A t : <<"tool", t>> \in Stored => t \in DOMAIN rows.tools /\ Row(<<"tool", t>>) = rows.tools[t]
    BY DEF Stored, RowsOf, Named, Row, RowAt
<1>8. ASSUME NEW x \in DOMAIN rows.events, id = <<"request", x>>
      PROVE  /\ Admits(c, id, Row(id)) /\ \A other \in Joined(id) : stamps[other] <= g
             /\ \A content : Says(id, content) => Says(id, content)'
    <2>1. x # NoRequest /\ id[1] = "request" /\ id[2] = x
        BY <1>1, <1>8 DEF Formed
    <2>2. \A t \in DOMAIN rows'.tools : rows'.tools[t].caller = x => <<"tool", t>> \in Joined(id)'
        BY <2>1 DEF Joined
    <2>3. \A t \in DOMAIN rows'.tools : rows'.tools[t].caller = x =>
              t \in DOMAIN rows.tools /\ rows'.tools[t] = rows.tools[t]
        BY <1>3, <1>6, <1>7, <2>2
    <2>4. /\ \A t \in DOMAIN rows.tools : rows.tools[t].caller = x =>
                t \in DOMAIN rows'.tools /\ rows'.tools[t].caller = x /\ rows'.tools[t] = rows.tools[t]
          /\ \A d : CallsOf(x, d)' = CallsOf(x, d)
        BY <1>1, <2>1, <2>3, SameCalls
    <2>5. \A other \in Joined(id) : stamps[other] <= g
        <3>. TAKE other \in Joined(id)
        <3>1. CASE other = id
            BY <1>5, <3>1
        <3>2. ASSUME NEW t \in DOMAIN rows.tools, rows.tools[t].caller = x, other = <<"tool", t>>
              PROVE  stamps[other] <= g
            BY <1>3, <1>6, <2>2, <2>4, <3>2
        <3>. QED  BY <2>1, <3>1, <3>2 DEF Joined
    <2>6. Content(id, Unhidden)' = Content(id, Unhidden)
        <3>1. CallsOf(x, Unhidden)' = CallsOf(x, Unhidden)
            BY <2>4
        <3>. QED  BY <1>5, <2>1, <3>1 DEF Content
    <2>7. Admits(c, id, Row(id))
        BY <1>2, <1>5, <2>1 DEF Admits
    <2>. QED  BY <2>1, <2>4, <2>5, <2>6, <2>7, SaysSame
<1>9. ASSUME NEW x, id = <<"agent", x>>
      PROVE  /\ Admits(c, id, Row(id)) /\ \A other \in Joined(id) : stamps[other] <= g
             /\ \A content : Says(id, content) => Says(id, content)'
    <2>1. id[1] = "agent"
        BY <1>9
    <2>2. Joined(id) = {id}
        BY <2>1 DEF Joined
    <2>3. Content(id, Unhidden)' = Content(id, Unhidden)
        BY <1>5, <2>1 DEF Content
    <2>4. Admits(c, id, Row(id))
        BY <1>2, <1>5, <2>1 DEF Admits
    <2>. QED  BY <1>5, <2>1, <2>2, <2>3, <2>4, SaysSame
<1>10. ASSUME NEW x, id = <<"tool", x>>
       PROVE  /\ Admits(c, id, Row(id)) /\ \A other \in Joined(id) : stamps[other] <= g
              /\ \A content : Says(id, content) => Says(id, content)'
    <2>1. id[1] = "tool"
        BY <1>10
    <2>2. Joined(id) = {id}
        BY <2>1 DEF Joined
    <2>3. Content(id, Unhidden)' = Content(id, Unhidden)
        BY <1>5, <2>1 DEF Content
    <2>4. BySubagent(id[2][2]) => BySubagent(id[2][2])'
        BY <1>1 DEF BySubagent, ToolsOf, Grows
    <2>5. Admits(c, id, Row(id))
        BY <1>2, <1>5, <2>1, <2>4 DEF Admits
    <2>. QED  BY <1>5, <2>1, <2>2, <2>3, <2>5, SaysSame
<1>11. ASSUME NEW x, id = <<"access", x>>
       PROVE  /\ Admits(c, id, Row(id)) /\ \A other \in Joined(id) : stamps[other] <= g
              /\ \A content : Says(id, content) => Says(id, content)'
    <2>1. id[1] = "access" /\ id[2] = x
        BY <1>11
    <2>2. \A t \in DOMAIN rows'.tools : t[2] = x => <<"tool", t>> \in Joined(id)'
        BY <2>1 DEF Joined, ToolsOf
    <2>3. \A t \in DOMAIN rows'.tools : t[2] = x => t \in DOMAIN rows.tools /\ rows'.tools[t] = rows.tools[t]
        BY <1>3, <1>6, <1>7, <2>2
    <2>4. /\ ToolsOf(x)' = ToolsOf(x) /\ (BySubagent(x)' <=> BySubagent(x))
          /\ \A t \in ToolsOf(x) : rows'.tools[t] = rows.tools[t]
        BY <1>1, <2>3, SameTools
    <2>5. \A other \in Joined(id) : stamps[other] <= g
        <3>. TAKE other \in Joined(id)
        <3>1. CASE other = id
            BY <1>5, <3>1
        <3>2. ASSUME NEW t \in ToolsOf(x), other = <<"tool", t>>
              PROVE  stamps[other] <= g
            <4>1. t \in DOMAIN rows'.tools /\ t[2] = x
                BY <2>4 DEF ToolsOf
            <4>. QED  BY <1>3, <1>6, <2>2, <3>2, <4>1
        <3>. QED  BY <2>1, <3>1, <3>2 DEF Joined
    <2>6. Content(id, Unhidden)' = Content(id, Unhidden)
        <3>. DEFINE own == <<"invocation", x>>
        <3>1. own[2] = x
            OBVIOUS
        <3>. HIDE DEF own
        <3>2. /\ own \in DOMAIN rows'.tools <=> own \in DOMAIN rows.tools
              /\ own \in DOMAIN rows.tools => rows'.tools[own] = rows.tools[own]
            BY <2>4, <3>1 DEF ToolsOf
        <3>. QED  BY <1>5, <2>1, <3>2 DEF Content, Known, own
    <2>7. Admits(c, id, Row(id))
        BY <1>2, <1>5, <2>1, <2>4 DEF Admits
    <2>. QED  BY <2>1, <2>5, <2>6, <2>7, SaysSame
<1>12. /\ Admits(c, id, Row(id)) /\ \A other \in Joined(id) : stamps[other] <= g
       /\ \A content : Says(id, content) => Says(id, content)'
    BY <1>5, <1>8, <1>9, <1>10, <1>11, StoredIds
<1>. QED  BY <1>2, <1>5, <1>12 DEF Emitted
-----------------------------------------------------------------------------
(* The run.                                                                *)

Told(id) == id \in DOMAIN records /\ Says(id, records[id].content)
\* Every record the settings admit is among the known or has been told.
Covered(c, known) == \A id \in Emitted(c) : id \in known \/ Told(id)

RecordFields == {"content", "superseded", "held"}
CountersInv ==
    /\ gen \in Nat /\ conf \in Settings
    /\ Stored \subseteq DOMAIN stamps /\ \A id \in DOMAIN stamps : stamps[id] \in Nat
    /\ \A id \in DOMAIN records : DOMAIN records[id] = RecordFields
    /\ mark # NoMark => mark.gen \in Nat /\ mark.gen <= gen
PhaseInv ==
    /\ run.pc \in {"scan", "persist", "mark"} =>
          run.conf \in Settings /\ (mark # NoMark => mark.gen < gen)
    /\ run.pc \in {"persist", "mark"} =>
          (run.after # NoMark => run.after = [gen |-> gen, conf |-> run.conf])
    /\ run.pc = "persist" =>
          /\ DOMAIN run = {"pc", "conf", "sink", "after"}
          /\ \A id \in DOMAIN run.sink \cap Stored : Says(id, run.sink[id])
          /\ run.after # NoMark => Covered(run.conf, DOMAIN run.sink)
    /\ run.pc = "mark" => (run.after # NoMark => Covered(run.conf, {}))
    /\ run.pc = "advance" => DOMAIN run = {"pc", "conf"}
RunInv == ReaderInv /\ CountersInv /\ PhaseInv /\ MarksCoverTheirRecords

\* The rows stay, but for the accesses, which a new scan key takes away.
RowsStay == rows' = rows /\ (accesses' = accesses \/ accesses' = <<>>)

\* A step that takes only accesses away brings no record and changes none.
LEMMA Fewer ==
    ASSUME RowsStay, NEW id \in Stored'
    PROVE  /\ id \in Stored /\ Joined(id)' = Joined(id)
           /\ \A c : id \in Emitted(c)' => id \in Emitted(c)
           /\ \A content : Says(id, content) => Says(id, content)'
<1>1. id \in Stored /\ Row(id)' = Row(id)
    <2>1. DOMAIN accesses' \subseteq DOMAIN accesses /\ \A x \in DOMAIN accesses' : accesses'[x] = accesses[x]
        BY DEF RowsStay
    <2>2. DOMAIN rows'.events = DOMAIN rows.events /\ DOMAIN rows'.tools = DOMAIN rows.tools
          /\ DOMAIN rows'.lifecycle = DOMAIN rows.lifecycle
        BY DEF RowsStay
    <2>3. id \in Stored
        BY <2>1, <2>2 DEF Stored, RowsOf, Named
    <2>4. id[1] = "access" => id[2] \in DOMAIN accesses'
        BY DEF Stored, RowsOf, Named
    <2>. QED  BY <2>1, <2>3, <2>4 DEF Row, RowAt, RowsStay
<1>2. Joined(id)' = Joined(id)
    BY DEF Joined, ToolsOf, RowsStay
<1>3. \A x, c : CallsOf(x, c)' = CallsOf(x, c)
    BY DEF CallsOf, RowsStay
<1>4. \A call : BySubagent(call)' <=> BySubagent(call)
    BY DEF BySubagent, ToolsOf, RowsStay
<1>5. Content(id, Unhidden)' = Content(id, Unhidden)
    BY <1>1, <1>3 DEF Content, RowsStay
<1>6. ASSUME NEW c, id \in Emitted(c)' PROVE id \in Emitted(c)
    BY <1>1, <1>4, <1>6 DEF Emitted, Admits
<1>. QED  BY <1>1, <1>2, <1>3, <1>5, <1>6, SaysSame

\* What was told stays told: the contents stay or are tightened.
RecordsStay ==
    \A id \in DOMAIN records :
       /\ id \in DOMAIN records' /\ DOMAIN records'[id] = RecordFields
       /\ \/ records'[id].content = records[id].content
          \/ \E c : records'[id].content = Tightened(id, records[id].content, c)

\* A record that was told stays told when rows and records stay.
LEMMA StillTold ==
    ASSUME Formed(rows), RowsStay, RecordsStay, NEW id \in Stored', Told(id)
    PROVE  Told(id)'
<1>1. id \in Stored /\ \A content : Says(id, content) => Says(id, content)'
    BY Fewer
<1>2. id \in DOMAIN records' /\ Says(id, records'[id].content)
    BY <1>1, TightenedSays DEF RecordsStay, Told
<1>. QED  BY <1>1, <1>2 DEF Told

\* So the mark covers what it covered.
LEMMA CoverStays ==
    ASSUME RowsStay, UNCHANGED <<stamps, mark>>, MarksCoverTheirRecords,
           \A id \in Stored' : Told(id) => Told(id)'
    PROVE  MarksCoverTheirRecords'
<1>. SUFFICES ASSUME mark # NoMark
              PROVE  MarksCoverTheirRecords'
    BY DEF MarksCoverTheirRecords
<1>1. PICK c, g : c = mark.conf /\ g = mark.gen
    OBVIOUS
<1>2. \A id \in Emitted(c) : (\A other \in Joined(id) : stamps[other] <= g) => Told(id)
    BY <1>1 DEF MarksCoverTheirRecords, Told
<1>3. \A id \in Emitted(c)' : (\A other \in Joined(id)' : stamps'[other] <= g) => Told(id)'
    <2>. TAKE id \in Emitted(c)'
    <2>. HAVE \A other \in Joined(id)' : stamps'[other] <= g
    <2>1. id \in Stored'
        BY DEF Emitted
    <2>2. id \in Emitted(c) /\ Joined(id)' = Joined(id)
        BY <2>1, Fewer
    <2>. QED  BY <1>2, <2>1, <2>2
<1>4. mark'.conf = c /\ mark'.gen = g
    BY <1>1
<1>. QED  BY <1>3, <1>4 DEF MarksCoverTheirRecords, Told

\* And so does what a run has covered.
LEMMA CoveredStays ==
    ASSUME RowsStay, NEW c, NEW known, Covered(c, known), \A id \in Stored' : Told(id) => Told(id)'
    PROVE  Covered(c, known)'
<1>1. \A id \in Emitted(c)' : id \in Stored' /\ id \in Emitted(c)
    BY Fewer DEF Emitted
<1>. QED  BY <1>1 DEF Covered

\* The counters under a step that leaves rows, stamps, mark and generation.
LEMMA CountersStay ==
    ASSUME CountersInv, RowsStay, UNCHANGED stamps, RecordsStay, DOMAIN records' = DOMAIN records,
           conf' \in Settings, gen' \in {gen, gen + 1}, mark' = mark
    PROVE  CountersInv'
<1>1. Stored' \subseteq Stored
    BY Fewer
<1>. QED  BY <1>1 DEF CountersInv, RecordsStay

\* A run starts: the generation is new, the mark older than it.
LEMMA StartRunKeeps ==
    ASSUME RunInv, StartRun
    PROVE  RunInv'
<1>1. ReaderInv' /\ rows' = rows
    <2>1. CASE conf.on
        BY <2>1, LookKeeps DEF StartRun, RunInv
    <2>2. CASE ~conf.on
        BY <2>2 DEF StartRun, Calm, RunInv, ReaderInv, Paths
    <2>. QED  BY <2>1, <2>2
<1>2. /\ gen' = gen + 1 /\ UNCHANGED <<stamps, mark, conf>>
      /\ \E pc \in {"scan", "advance"} : run' = [pc |-> pc, conf |-> conf]
    BY DEF StartRun, StartScan, Calm
<1>3. RowsStay
    BY <1>1 DEF StartRun, RowsStay
<1>4. DOMAIN records' = DOMAIN records /\ RecordsStay
    <2>1. records' = records \/ records' = Superseded(records, {id \in DOMAIN records : id[1] = "access"})
        BY DEF StartRun
    <2>2. \A id \in DOMAIN records : DOMAIN records[id] = RecordFields
        BY DEF RunInv, CountersInv
    <2>. QED  BY <2>1, <2>2 DEF Superseded, RecordsStay, RecordFields
<1>5. \A id \in Stored' : Told(id) => Told(id)'
    BY <1>3, <1>4, StillTold DEF RunInv, ReaderInv
<1>6. MarksCoverTheirRecords'
    BY <1>2, <1>3, <1>5, CoverStays DEF RunInv
<1>7. CountersInv'
    BY <1>2, <1>3, <1>4, CountersStay DEF RunInv, CountersInv
<1>8. PhaseInv'
    BY <1>2 DEF RunInv, PhaseInv, CountersInv
<1>. QED  BY <1>1, <1>6, <1>7, <1>8 DEF RunInv

\* A step of the scan: what it changes it stamps, so the mark does not cover it.
LEMMA ScanKeeps ==
    ASSUME RunInv, Scan
    PROVE  RunInv'
<1>1. ReaderInv' /\ Grows(rows, rows')
    BY ScanGrows DEF RunInv
<1>2. run.pc = "scan" /\ UNCHANGED <<run, gen, mark, records, conf>>
    BY DEF Scan, ReadFile, FileUnavailable, EndScan, ScanStops, StatFile
<1>3. CountersInv'
    <2>. DEFINE changed == {i \in RowsOf(rows', accesses') :
                               i \notin Stored \/ RowAt(rows', accesses', i) # Row(i)}
    <2>1. stamps' = Over([i \in changed |-> gen], stamps)
        BY DEF Scan
    <2>2. Stored' = RowsOf(rows', accesses')
        BY DEF Stored
    <2>3. Stored' \subseteq changed \cup Stored
        BY <2>2
    <2>. HIDE DEF changed
    <2>4. /\ DOMAIN stamps' = changed \cup DOMAIN stamps
          /\ \A i \in DOMAIN stamps' : stamps'[i] \in {gen, stamps[i]} /\ (i \notin DOMAIN stamps => stamps'[i] = gen)
        BY <2>1 DEF Over
    <2>. QED  BY <1>2, <2>3, <2>4 DEF RunInv, CountersInv
<1>4. PhaseInv'
    BY <1>2 DEF RunInv, PhaseInv
<1>5. ASSUME mark # NoMark PROVE MarksCoverTheirRecords'
    <2>1. PICK c, g : c = mark.conf /\ g = mark.gen
        OBVIOUS
    <2>2. gen \in Nat /\ g \in Nat /\ g < gen /\ Stored \subseteq DOMAIN stamps
        BY <1>2, <1>5, <2>1 DEF RunInv, CountersInv, PhaseInv
    <2>3. \A id \in Emitted(c) : (\A other \in Joined(id) : stamps[other] <= g) => Told(id)
        BY <1>5, <2>1 DEF RunInv, MarksCoverTheirRecords, Told
    <2>4. \A id \in Emitted(c)' : (\A other \in Joined(id)' : stamps'[other] <= g) => Told(id)'
        <3>. TAKE id \in Emitted(c)'
        <3>. HAVE \A other \in Joined(id)' : stamps'[other] <= g
        <3>1. /\ id \in Emitted(c) /\ \A other \in Joined(id) : stamps[other] <= g
              /\ \A content : Says(id, content) => Says(id, content)'
            BY <2>2, ScanPasses DEF RunInv
        <3>2. Told(id)
            BY <2>3, <3>1
        <3>. QED  BY <1>2, <3>1, <3>2 DEF Told
    <2>5. mark'.conf = c /\ mark'.gen = g
        BY <1>2, <2>1
    <2>. QED  BY <2>4, <2>5 DEF MarksCoverTheirRecords, Told
<1>6. MarksCoverTheirRecords'
    BY <1>2, <1>5 DEF MarksCoverTheirRecords
<1>. QED  BY <1>1, <1>3, <1>4, <1>6 DEF RunInv

\* A step that leaves all but the run and the records.
LEMMA Quiet ==
    ASSUME RunInv, UNCHANGED <<corpus, disk, files, scan, rows, accesses, stamps, mark, conf>>,
           gen' \in {gen, gen + 1}, RecordsStay, DOMAIN records' = DOMAIN records
    PROVE  /\ ReaderInv' /\ CountersInv' /\ MarksCoverTheirRecords'
           /\ RowsStay /\ \A id \in Stored' : Told(id) => Told(id)'
<1>1. ReaderInv'
    BY DEF RunInv, ReaderInv, Paths
<1>2. RowsStay
    BY DEF RowsStay
<1>3. \A id \in Stored' : Told(id) => Told(id)'
    BY <1>2, StillTold DEF RunInv, ReaderInv
<1>4. CountersInv' /\ MarksCoverTheirRecords'
    BY <1>2, <1>3, CountersStay, CoverStays DEF RunInv, CountersInv
<1>. QED  BY <1>1, <1>2, <1>3, <1>4

\* The records that are left alone stay.
LEMMA RecordsSame ==
    ASSUME CountersInv, records' = records
    PROVE  RecordsStay /\ DOMAIN records' = DOMAIN records
BY DEF CountersInv, RecordsStay

\* What is not due was told: the mark covers it.
LEMMA NotDue ==
    ASSUME RunInv, NEW c, NEW id \in Emitted(c), id \notin Due(c)
    PROVE  Told(id)
<1>1. mark # NoMark /\ mark.conf = c /\ ~ChangedSince(mark.gen, id)
    BY DEF Due
<1>2. id \in Stored /\ mark.gen \in Nat
    BY <1>1 DEF Emitted, RunInv, CountersInv
<1>3. \A t \in DOMAIN rows.tools : <<"tool", t>> \in Stored
    BY DEF Stored, RowsOf, Named
<1>4. \A other \in Joined(id) : stamps[other] <= mark.gen
    <2>. TAKE other \in Joined(id)
    <2>0. \A x \in Stored : stamps[x] \in Nat
        BY DEF RunInv, CountersInv
    <2>1. CASE other = id
        BY <1>1, <1>2, <2>0, <2>1 DEF ChangedSince
    <2>2. ASSUME id[1] = "request", NEW t \in DOMAIN rows.tools, rows.tools[t].caller = id[2],
                 other = <<"tool", t>>
          PROVE  stamps[other] <= mark.gen
        BY <1>1, <1>2, <1>3, <2>0, <2>2 DEF ChangedSince
    <2>3. ASSUME id[1] = "access", NEW t \in ToolsOf(id[2]), other = <<"tool", t>>
          PROVE  stamps[other] <= mark.gen
        <3>1. t \in DOMAIN rows.tools
            BY <2>3 DEF ToolsOf
        <3>. QED  BY <1>1, <1>2, <1>3, <2>0, <2>3, <3>1 DEF ChangedSince
    <2>. QED  BY <2>1, <2>2, <2>3 DEF Joined
<1>. QED  BY <1>1, <1>4 DEF RunInv, MarksCoverTheirRecords, Told

\* The emission puts each due record in the sink, what the mark covers was told.
LEMMA EmitKeeps ==
    ASSUME RunInv, EmitDetail \/ ReaderFails
    PROVE  RunInv'
<1>1. PICK sent, marks : Emit(sent, marks) /\ (marks => sent = Stored) /\ marks \in BOOLEAN
    BY DEF EmitDetail, ReaderFails
<1>2. PICK c : c = run.conf
    OBVIOUS
<1>0. PICK sink, after : /\ sink = [id \in Due(c) \cap sent |-> Content(id, c)]
                         /\ after = IF marks /\ c.detail # "buckets" THEN [gen |-> gen, conf |-> c] ELSE NoMark
    OBVIOUS
<1>3. /\ run' = [pc |-> "persist", conf |-> c, sink |-> sink, after |-> after]
      /\ UNCHANGED <<corpus, disk, files, scan, rows, accesses, stamps, mark, conf, gen, records>>
      /\ run.pc = "scan"
    BY <1>0, <1>1, <1>2 DEF Emit, Calm
<1>4. /\ ReaderInv' /\ CountersInv' /\ MarksCoverTheirRecords'
      /\ RowsStay /\ \A id \in Stored' : Told(id) => Told(id)'
    BY <1>3, Quiet, RecordsSame DEF RunInv
<1>5. c \in Settings /\ c.subs \in BOOLEAN /\ (mark # NoMark => mark.gen < gen)
    BY <1>2, <1>3, SettingsAssumption DEF RunInv, PhaseInv
<1>6. \A id \in DOMAIN sink \cap Stored : Says(id, sink[id])
    BY <1>0, <1>5, ContentSays DEF RunInv, ReaderInv
<1>7. \A id \in DOMAIN sink \cap Stored' : Says(id, sink[id])'
    BY <1>4, <1>6, Fewer
<1>8. after # NoMark => Covered(c, DOMAIN sink)
    <2>. SUFFICES ASSUME after # NoMark, NEW id \in Emitted(c), id \notin DOMAIN sink PROVE Told(id)
        BY DEF Covered
    <2>1. sent = Stored
        BY <1>0, <1>1
    <2>2. id \notin Due(c)
        BY <1>0, <2>1 DEF Emitted
    <2>. QED  BY <2>2, NotDue
<1>9. after # NoMark => Covered(c, DOMAIN sink)'
    BY <1>4, <1>8, CoveredStays
<1>10. PhaseInv'
    <2>1. run'.pc = "persist" /\ run'.conf = c /\ run'.sink = sink /\ run'.after = after
          /\ DOMAIN run' = {"pc", "conf", "sink", "after"}
        BY <1>3
    <2>2. after # NoMark => after = [gen |-> gen, conf |-> c]
        BY <1>0
    <2>. QED  BY <1>3, <1>5, <1>7, <1>9, <2>1, <2>2 DEF PhaseInv
<1>. QED  BY <1>4, <1>10 DEF RunInv

\* The sink becomes records, tightened under the settings of the run.
LEMMA PersistKeeps ==
    ASSUME RunInv, Persist
    PROVE  RunInv'
<1>1. PICK c, sink, after : c = run.conf /\ sink = run.sink /\ after = run.after
    OBVIOUS
<1>2. /\ run.pc = "persist" /\ DOMAIN run = {"pc", "conf", "sink", "after"} /\ c \in Settings
      /\ (mark # NoMark => mark.gen < gen) /\ (after # NoMark => after = [gen |-> gen, conf |-> c])
      /\ \A id \in DOMAIN sink \cap Stored : Says(id, sink[id])
      /\ after # NoMark => Covered(c, DOMAIN sink)
    BY <1>1 DEF Persist, RunInv, PhaseInv
<1>3. /\ UNCHANGED <<corpus, disk, files, scan, rows, accesses, stamps, mark, conf, gen>>
      /\ run' = [run EXCEPT !.pc = "mark"]
    BY DEF Persist, Calm
<1>4. /\ DOMAIN records' = DOMAIN sink \cup DOMAIN records
      /\ \A id \in DOMAIN sink : DOMAIN records'[id] = RecordFields /\ records'[id].content = sink[id]
      /\ \A id \in DOMAIN records \ DOMAIN sink : records'[id] = records[id]
    <2>. DEFINE kept(id) == IF Known(records, id) THEN records[id].held ELSE <<>>
                new == [id \in DOMAIN sink |->
                          [content |-> sink[id], superseded |-> FALSE, held |-> kept(id)]]
    <2>1. records' = Over(new, records)
        BY <1>1 DEF Persist
    <2>2. DOMAIN new = DOMAIN sink
          /\ \A id \in DOMAIN sink : DOMAIN new[id] = RecordFields /\ new[id].content = sink[id]
        BY DEF RecordFields
    <2>. HIDE DEF new
    <2>. QED  BY <2>1, <2>2 DEF Over
<1>5. RowsStay /\ Stored' \subseteq Stored
    <2>1. RowsStay
        BY <1>3 DEF RowsStay
    <2>. QED  BY <2>1, Fewer
<1>6. \A id \in Stored' : Told(id) \/ id \in DOMAIN sink => Told(id)'
    <2>. TAKE id \in Stored'
    <2>1. id \in Stored /\ \A content : Says(id, content) => Says(id, content)'
        BY <1>5, Fewer
    <2>2. CASE id \in DOMAIN sink
        BY <1>2, <1>4, <2>1, <2>2 DEF Told
    <2>3. CASE id \notin DOMAIN sink
        BY <1>4, <2>1, <2>3 DEF Told
    <2>. QED  BY <2>2, <2>3
<1>7. ReaderInv'
    BY <1>3 DEF RunInv, ReaderInv, Paths
<1>8. MarksCoverTheirRecords'
    BY <1>3, <1>5, <1>6, CoverStays DEF RunInv
<1>9. CountersInv'
    <2>1. \A id \in DOMAIN records' : DOMAIN records'[id] = RecordFields
        BY <1>4 DEF RunInv, CountersInv
    <2>. QED  BY <1>3, <1>5, <2>1 DEF RunInv, CountersInv
<1>10. after # NoMark => Covered(c, {})'
    <2>. SUFFICES ASSUME after # NoMark, NEW id \in Emitted(c)' PROVE Told(id)'
        BY DEF Covered
    <2>1. id \in Stored' /\ id \in Emitted(c)
        BY <1>5, Fewer DEF Emitted
    <2>2. Told(id) \/ id \in DOMAIN sink
        BY <1>2, <2>1 DEF Covered
    <2>. QED  BY <1>6, <2>1, <2>2
<1>11. PhaseInv'
    <2>1. run'.pc = "mark" /\ run'.conf = c /\ run'.after = after
        BY <1>1, <1>2, <1>3
    <2>. QED  BY <1>2, <1>3, <1>10, <2>1 DEF PhaseInv
<1>. QED  BY <1>7, <1>8, <1>9, <1>11 DEF RunInv

\* The mark is set: the run has covered everything it now covers.
LEMMA SetMarkKeeps ==
    ASSUME RunInv, SetMark
    PROVE  RunInv'
<1>1. PICK c, g, after : c = run.conf /\ after = run.after /\ g = gen
    OBVIOUS
<1>2. /\ run.pc = "mark" /\ (after # NoMark => after = [gen |-> g, conf |-> c] /\ Covered(c, {}))
      /\ g \in Nat
    BY <1>1 DEF SetMark, RunInv, PhaseInv, CountersInv
<1>3. /\ UNCHANGED <<corpus, disk, files, scan, rows, accesses, stamps, conf, gen, records>>
      /\ mark' = (IF after = NoMark THEN mark ELSE after) /\ run' = [pc |-> "advance", conf |-> c]
    BY <1>1 DEF SetMark, Calm
<1>4. RowsStay /\ Stored' \subseteq Stored /\ \A id \in Stored' : Told(id) => Told(id)'
    <2>1. RowsStay /\ RecordsStay
        BY <1>3, RecordsSame DEF RowsStay, RunInv
    <2>. QED  BY <2>1, Fewer, StillTold DEF RunInv, ReaderInv
<1>5. ReaderInv'
    BY <1>3 DEF RunInv, ReaderInv, Paths
<1>6. CountersInv'
    <2>1. mark' # NoMark => mark'.gen \in Nat /\ mark'.gen <= g
        BY <1>1, <1>2, <1>3 DEF RunInv, CountersInv
    <2>. QED  BY <1>1, <1>3, <1>4, <2>1 DEF RunInv, CountersInv
<1>7. MarksCoverTheirRecords'
    <2>1. CASE after = NoMark
        BY <1>3, <1>4, <2>1, CoverStays DEF RunInv
    <2>2. CASE after # NoMark
        <3>1. Covered(c, {})'
            BY <1>2, <1>4, <2>2, CoveredStays
        <3>2. mark'.conf = c
            BY <1>2, <1>3, <2>2
        <3>. QED  BY <3>1, <3>2 DEF MarksCoverTheirRecords, Covered, Told
    <2>. QED  BY <2>1, <2>2
<1>8. PhaseInv'
    BY <1>3 DEF PhaseInv
<1>. QED  BY <1>5, <1>6, <1>7, <1>8 DEF RunInv

\* The steps after the mark, the upload and a death of the run.
LEMMA RestKeeps ==
    ASSUME RunInv, Advance \/ Review \/ Upload \/ RunDies
    PROVE  RunInv'
<1>1. /\ UNCHANGED <<corpus, disk, files, rows, accesses, stamps, mark, conf>>
      /\ gen' \in {gen, gen + 1} /\ (scan' = scan \/ scan' = Idle)
    BY DEF Advance, Review, Upload, RunDies, Calm
<1>2. run'.pc \in {"review", "upload", "idle"}
    <2>1. Advance => run'.pc = "review"
        BY DEF Advance, RunInv, PhaseInv
    <2>. QED  BY <2>1 DEF Review, Upload, RunDies, NoRun
<1>3. RecordsStay /\ DOMAIN records' = DOMAIN records
    <2>0. \A id \in DOMAIN records : DOMAIN records[id] = RecordFields
        BY DEF RunInv, CountersInv
    <2>1. CASE records' = records
        BY <2>1, RecordsSame DEF RunInv
    <2>2. CASE Upload
        <3>1. PICK taken : records' = [id \in DOMAIN records |->
                 IF id \in taken THEN [records[id] EXCEPT !.held = <<records[id].content>>] ELSE records[id]]
            BY <2>2 DEF Upload
        <3>. QED  BY <2>0, <3>1 DEF RecordsStay, RecordFields
    <2>3. CASE Review
        <3>1. PICK c, stale, some :
                 /\ some \subseteq DOMAIN records
                 /\ records' = Superseded(Over([id \in some |->
                       [records[id] EXCEPT !.content = Tightened(id, @, c)]], records), stale)
            BY <2>3 DEF Review, Pending
        <3>. DEFINE cut == Over([id \in some |-> [records[id] EXCEPT !.content = Tightened(id, @, c)]], records)
        <3>2. /\ DOMAIN cut = DOMAIN records
              /\ \A id \in DOMAIN records :
                    /\ DOMAIN cut[id] = RecordFields
                    /\ \/ cut[id].content = records[id].content
                       \/ cut[id].content = Tightened(id, records[id].content, c)
            BY <2>0, <3>1 DEF Over, RecordFields
        <3>. HIDE DEF cut
        <3>3. /\ DOMAIN records' = DOMAIN cut
              /\ \A id \in DOMAIN cut : DOMAIN records'[id] = DOMAIN cut[id] /\ records'[id].content = cut[id].content
            BY <3>1, <3>2 DEF Superseded, RecordFields, cut
        <3>. QED  BY <3>2, <3>3 DEF RecordsStay
    <2>. QED  BY <2>1, <2>2, <2>3 DEF Advance, RunDies
<1>4. RowsStay
    BY <1>1 DEF RowsStay
<1>5. \A id \in Stored' : Told(id) => Told(id)'
    BY <1>3, <1>4, StillTold DEF RunInv, ReaderInv
<1>6. CountersInv' /\ MarksCoverTheirRecords'
    BY <1>1, <1>3, <1>4, <1>5, CountersStay, CoverStays DEF RunInv, CountersInv
<1>7. ReaderInv'
    <2>1. "pc" \in DOMAIN Idle /\ Idle.pc = "idle"
        BY DEF Idle
    <2>. QED  BY <1>1, <2>1 DEF RunInv, ReaderInv, Paths
<1>8. PhaseInv'
    BY <1>2 DEF PhaseInv
<1>. QED  BY <1>6, <1>7, <1>8 DEF RunInv

\* Whatever the client and the owner do meanwhile.
LEMMA StaysKeeps ==
    ASSUME RunInv, Outside \/ UNCHANGED <<transcriptVars, collectionVars>>
    PROVE  RunInv'
<1>1. ReaderInv' /\ rows' = rows
    <2>1. CASE Outside
        BY <2>1, OutsideKeeps DEF Outside, RunInv
    <2>2. CASE UNCHANGED <<transcriptVars, collectionVars>>
        BY <2>2 DEF transcriptVars, RunInv, ReaderInv, Paths
    <2>. QED  BY <2>1, <2>2
<1>2. UNCHANGED <<run, gen, stamps, accesses, mark, records>> /\ conf' \in Settings
    BY DEF Outside, ClientStep, OwnerStep, transcriptVars, collectionVars, RunInv, CountersInv
<1>3. RowsStay /\ RecordsStay
    BY <1>1, <1>2, RecordsSame DEF RowsStay, RunInv
<1>4. \A id \in Stored' : Told(id) => Told(id)'
    BY <1>3, StillTold DEF RunInv, ReaderInv
<1>5. CountersInv' /\ MarksCoverTheirRecords'
    BY <1>2, <1>3, <1>4, CountersStay, CoverStays DEF RunInv, CountersInv
<1>6. PhaseInv'
    <2>1. PICK c, sink : c = run.conf /\ sink = run.sink
        OBVIOUS
    <2>2. run.pc = "persist" => \A id \in DOMAIN sink \cap Stored' : Says(id, sink[id])'
        BY <1>3, <2>1, Fewer DEF RunInv, PhaseInv
    <2>3. run.pc = "persist" /\ run.after # NoMark => Covered(c, DOMAIN sink)'
        BY <1>3, <1>4, <2>1, CoveredStays DEF RunInv, PhaseInv
    <2>4. run.pc = "mark" /\ run.after # NoMark => Covered(c, {})'
        BY <1>3, <1>4, <2>1, CoveredStays DEF RunInv, PhaseInv
    <2>5. run'.conf = c /\ run'.sink = sink
        BY <1>2, <2>1
    <2>. QED  BY <1>2, <2>2, <2>3, <2>4, <2>5 DEF RunInv, PhaseInv
<1>. QED  BY <1>1, <1>5, <1>6 DEF RunInv

\* The inductive invariant of a run, for every corpus of legible lines, all settings
\* and all bounds: rows formed as the reader forms them, stamps and mark no newer than
\* the generation, what a run has in hand, and the mark covering its records.
THEOREM RunInvariant == CollectionSpec => []RunInv
<1>1. ASSUME NEW held, Legible(held), NEW settings \in Settings, NEW bounds,
             InitTranscripts(held, settings, bounds), InitCollection
      PROVE  RunInv
    <2>1. ReaderInv
        BY <1>1, ReaderInit
    <2>2. Stored = {}
        BY <1>1 DEF InitTranscripts, InitCollection, NoRows, Stored, RowsOf, Named
    <2>3. CountersInv
        BY <1>1, <2>2 DEF CountersInv, InitTranscripts, InitCollection
    <2>4. PhaseInv /\ MarksCoverTheirRecords
        BY <1>1 DEF PhaseInv, MarksCoverTheirRecords, InitCollection, NoRun
    <2>. QED  BY <2>1, <2>3, <2>4 DEF RunInv
<1>2. RunInv /\ [CollectionNext]_<<transcriptVars, collectionVars>> => RunInv'
    BY StartRunKeeps, ScanKeeps, EmitKeeps, PersistKeeps, SetMarkKeeps, RestKeeps, StaysKeeps
       DEF CollectionNext, RunStep
<1>3. CollectionInit => RunInv
    BY <1>1 DEF CollectionInit
<1>. QED  BY <1>2, <1>3, PTL DEF CollectionSpec

\* What the mark passes over is in the records, whatever a scan, a crash between the
\* records and the mark, a failing reader or a change of settings did before.
THEOREM MarksCover == CollectionSpec => []MarksCoverTheirRecords
BY RunInvariant, PTL DEF RunInv

\* A step loses no tool call, never gives one another request than the one it has,
\* and never withdraws that a subagent made it.
CallsKept ==
    \A t \in DOMAIN rows.tools :
       /\ t \in DOMAIN rows'.tools
       /\ rows.tools[t].caller \in {NoRequest, rows'.tools[t].caller}
       /\ rows.tools[t].sub => rows'.tools[t].sub

\* jsonl.rs, upsert_tool, AssignCallers and the lines around them: whatever lines come,
\* torn, repeated or of both providers, a row of a tool call only gains.
THEOREM CallsOnlyGain == CollectionSpec => [][CallsKept]_<<transcriptVars, collectionVars>>
<1>1. RunInv /\ CollectionNext => CallsKept
    <2>. SUFFICES ASSUME RunInv, CollectionNext PROVE CallsKept
        OBVIOUS
    <2>1. Formed(rows) /\ ReaderInv
        BY DEF RunInv, ReaderInv
    <2>2. CASE Scan
        BY <2>1, <2>2, ScanGrows DEF Grows, CallsKept
    <2>3. CASE rows' = rows
        BY <2>3 DEF CallsKept
    <2>4. CASE StartRun \/ EmitDetail \/ ReaderFails \/ Persist \/ SetMark \/ Advance \/ Review \/ Upload \/ RunDies
        <3>0. UNCHANGED Calm => rows' = rows
            BY DEF Calm
        <3>1. CASE StartRun
            <4>1. StartScan => rows' = rows
                BY <2>1, LookKeeps
            <4>2. StartScan \/ UNCHANGED Calm
                BY <3>1 DEF StartRun
            <4>. QED  BY <2>3, <3>0, <4>1, <4>2
        <3>3. EmitDetail \/ ReaderFails => UNCHANGED Calm
            <4>1. \A sent, marks : Emit(sent, marks) => UNCHANGED Calm
                BY DEF Emit
            <4>. QED  BY <4>1 DEF EmitDetail, ReaderFails
        <3>4. Persist => UNCHANGED Calm
            BY DEF Persist
        <3>5. SetMark \/ Advance => UNCHANGED Calm
            BY DEF SetMark, Advance
        <3>6. Review \/ Upload => UNCHANGED Calm
            BY DEF Review, Upload
        <3>7. RunDies => rows' = rows
            BY DEF RunDies
        <3>. QED  BY <2>3, <2>4, <3>0, <3>1, <3>3, <3>4, <3>5, <3>6, <3>7
    <2>5. CASE Outside
        <3>1. rows' = rows
            BY <2>1, <2>5, OutsideKeeps DEF Outside
        <3>. QED  BY <2>3, <3>1
    <2>. QED  BY <2>2, <2>4, <2>5 DEF CollectionNext, RunStep
<1>2. RunInv /\ [CollectionNext]_<<transcriptVars, collectionVars>>
        => [CallsKept]_<<transcriptVars, collectionVars>>
    BY <1>1
<1>. QED  BY <1>2, RunInvariant, PTL DEF CollectionSpec
===============================================================================
