----------------------------- MODULE Transcripts -----------------------------
(***************************************************************************)
(* The Companion's reader of Claude Code and Codex transcripts, crates/    *)
(* observatory-adapters/src/jsonl.rs with agents.rs and tools.rs, and the  *)
(* part of observatory-core/src/state.rs it writes.                        *)
(*                                                                         *)
(* The client appends lines to its files, may be cut off in the middle of  *)
(* one, writes a child's sidecar late and may replace a file.  A scan      *)
(* looks at each file in turn, resumes where the last one stopped if the   *)
(* file only grew, and stores what it read and how far in one transaction. *)
(* What a line says depends on the lines before it (the parser context)    *)
(* and on what other files said (the agents' profiles), so the rows must   *)
(* not depend on where the scans happened to cut.                          *)
(***************************************************************************)
EXTENDS Integers, Sequences, FiniteSets, SequencesExt, FiniteSetsExt

CONSTANTS
    Kept,       \* times inside the collection window
    Settings,   \* what the owner may choose: records with subs, parser and resources
    Roles       \* agent roles the providers ship (builtins.rs)

ASSUME SettingsAssumption == \A c \in Settings : c.subs \in BOOLEAN

VARIABLES
    corpus,     \* the client's files: what each will hold, whose it is
    disk,       \* what is written of each so far
    conf,       \* the owner's settings and the installed parser
    key,        \* the scan key the checkpoints were taken under
    files,      \* checkpoints
    rows,       \* events, tool calls, agent profiles, lifecycle events, slots
    gaps,       \* files with a line that could not be read
    scan,       \* the scan under way
    left        \* bounds on the client, the owner and the faults

transcriptVars == <<corpus, disk, conf, key, files, rows, gaps, scan, left>>

None == ""
NoDepth == -1
NoRequest == <<>>
NoCount == -1
Or(old, new) == IF old = None THEN new ELSE old
OrRequest(old, new) == IF old = NoRequest THEN new ELSE old
OrDepth(old, new) == IF old = NoDepth THEN new ELSE old
OrCode(old, new) == IF old = "unknown" THEN new ELSE old
Below(depth) == IF depth = NoDepth THEN NoDepth ELSE depth + 1
Larger(a, b) == IF a >= b THEN a ELSE b
Known(f, k) == k \in DOMAIN f
Put(f, k, value) == [x \in DOMAIN f \cup {k} |-> IF x = k THEN value ELSE f[x]]
Over(new, old) ==
    [x \in DOMAIN new \cup DOMAIN old |-> IF x \in DOMAIN new THEN new[x] ELSE old[x]]

InWindow(line) == line.at \in Kept
-----------------------------------------------------------------------------
(* What is known of an agent, and how well: who started it by "none" (it   *)
(* is the main agent), an explicit link, its place on disk or the session  *)
(* alone; its depth from a record, withdrawn, or counted from its parent.  *)

ParentRank == [unknown |-> 0, fallback |-> 1, structural |-> 2, explicit |-> 3, none |-> 4]
DepthRank == [unknown |-> 0, inferred |-> 1, invalidated |-> 2, explicit |-> 3]

UnknownAgent ==
    [key |-> None, parent |-> None, how |-> "unknown", class |-> "unknown", name |-> None,
     depth |-> NoDepth, basis |-> "unknown", call |-> None]
MainAgent(id) ==
    [UnknownAgent EXCEPT !.key = id, !.how = "none", !.class = "main", !.depth = 0,
                         !.basis = "explicit"]
Classify(role, unnamed) ==
    IF role = None THEN unnamed ELSE IF role \in Roles THEN "builtin" ELSE "custom"
Counted(depth) == IF depth = NoDepth THEN "unknown" ELSE "inferred"

IsKnownChild(e) ==
    e.class # "main" /\ (e.key # None \/ e.parent # None \/ e.depth # NoDepth)

\* AgentEvidence::apply_profile
ApplyProfile(e, p) ==
    LET replaces == ParentRank[p.how] > ParentRank[e.how]
        moved == replaces /\ e.parent # p.parent
        matches == \/ p.basis = "explicit"
                   \/ e.parent \in {None, p.parent}
                   \/ ParentRank[e.how] <= ParentRank[p.how]
        deeper == \/ moved /\ e.basis # "explicit"
                  \/ matches /\ DepthRank[p.basis] > DepthRank[e.basis]
    IN [e EXCEPT
          !.parent = IF replaces THEN p.parent ELSE Or(@, p.parent),
          !.how = IF replaces THEN p.how ELSE @,
          !.depth = IF deeper THEN p.depth
                    ELSE IF matches /\ p.basis = e.basis THEN OrDepth(@, p.depth) ELSE @,
          !.basis = IF deeper THEN p.basis ELSE @,
          !.class = IF @ = "unknown" \/ (@ # "main" /\ e.name = None /\ p.name # None)
                    THEN p.class ELSE @,
          !.name = Or(@, p.name)]
Enrich(r, e) == IF Known(r.profiles, e.key) THEN ApplyProfile(e, r.profiles[e.key]) ELSE e

\* State::upsert_agent_profile keeps the strongest facts,
MergeProfile(old, new) ==
    LET replaces == ParentRank[new.how] > ParentRank[old.how]
        moved == replaces /\ new.parent # old.parent
        withdrawn == moved /\ new.depth = NoDepth /\ old.basis # "explicit"
        deeper == \/ DepthRank[new.basis] > DepthRank[old.basis]
                  \/ /\ replaces /\ new.depth # NoDepth /\ old.basis # "explicit"
                     /\ DepthRank[new.basis] >= DepthRank[old.basis]
                  \/ withdrawn
    IN [old EXCEPT
          !.parent = IF replaces THEN new.parent ELSE Or(@, new.parent),
          !.how = IF replaces THEN new.how ELSE @,
          !.class = IF @ # "main" /\ old.name = None /\ new.name # None
                    THEN new.class ELSE OrCode(@, new.class),
          !.name = Or(@, new.name),
          !.depth = IF deeper THEN new.depth ELSE @,
          !.basis = IF withdrawn THEN "invalidated" ELSE IF deeper THEN new.basis ELSE @]

\* Fault: a row that has a parent keeps what it was stored with.
AgentRowsOnce(table, p) ==
    [id \in DOMAIN table |->
        IF table[id].agent = p.key /\ table[id].parent = None
        THEN [table[id] EXCEPT !.parent = p.parent, !.class = p.class, !.name = p.name,
                               !.depth = p.depth]
        ELSE table[id]]

\* gives them to the rows of that agent,
AgentRows(table, p) ==
    [id \in DOMAIN table |->
        IF table[id].agent = p.key
        THEN [table[id] EXCEPT !.parent = p.parent, !.class = p.class, !.name = p.name,
                               !.depth = p.depth]
        ELSE table[id]]
DepthRows(table, depths) ==
    [id \in DOMAIN table |->
        IF Known(depths, table[id].agent) THEN [table[id] EXCEPT !.depth = depths[table[id].agent]]
        ELSE table[id]]

\* and a changed depth to the agents below it whose depth is not on record.
Descendants(profiles, root) ==
    LET level[n \in 0..Cardinality(DOMAIN profiles)] ==
            IF n = 0 THEN {root}
            ELSE {k \in DOMAIN profiles \ {root} :
                     profiles[k].parent \in level[n - 1] /\ profiles[k].basis # "explicit"}
    IN level
DepthsBelow(level, top) ==
    [k \in UNION {level[n] : n \in DOMAIN level \ {0}} |->
        IF top = NoDepth THEN NoDepth ELSE top + CHOOSE n \in DOMAIN level : k \in level[n]]
GiveDepths(r, depths) ==
    [r EXCEPT
       !.profiles = [k \in DOMAIN @ |->
          IF Known(depths, k)
          THEN [@[k] EXCEPT !.depth = depths[k],
                            !.basis = IF depths[k] = NoDepth THEN "invalidated" ELSE "inferred"]
          ELSE @[k]],
       !.events = DepthRows(@, depths),
       !.lifecycle = DepthRows(@, depths)]
PropagateDepths(r, root) ==
    GiveDepths(r, DepthsBelow(Descendants(r.profiles, root), r.profiles[root].depth))

StoreProfile(r, p) ==
    [r EXCEPT !.profiles = Put(@, p.key, p), !.events = AgentRows(@, p),
              !.lifecycle = AgentRows(@, p)]
ProfileDepth(r, k) == IF Known(r.profiles, k) THEN r.profiles[k].depth ELSE NoDepth
Settle(old, new, k) ==
    IF ProfileDepth(old, k) # ProfileDepth(new, k) THEN PropagateDepths(new, k) ELSE new
SaveProfile(r, e) ==
    IF e.key = None THEN r
    ELSE Settle(r, StoreProfile(r, IF Known(r.profiles, e.key) THEN MergeProfile(r.profiles[e.key], e)
                                   ELSE [e EXCEPT !.call = None]), e.key)
-----------------------------------------------------------------------------
(* Lifecycle events.                                                       *)

LifecycleRow(e, call, outcome) ==
    [agent |-> e.key, parent |-> e.parent, class |-> e.class, name |-> e.name,
     depth |-> e.depth, call |-> call, outcome |-> outcome]

\* State::insert_agent_event
InsertAgentEvent(r, id, new) ==
    IF ~Known(r.lifecycle, id) THEN [r EXCEPT !.lifecycle = Put(@, id, new)]
    ELSE [r EXCEPT !.lifecycle[id] =
            [agent |-> Or(@.agent, new.agent), parent |-> Or(new.parent, @.parent),
             class |-> OrCode(@.class, new.class), name |-> Or(@.name, new.name),
             depth |-> IF new.parent \notin {None, @.parent} THEN new.depth
                       ELSE OrDepth(@.depth, new.depth),
             call |-> Or(@.call, new.call), outcome |-> OrCode(@.outcome, new.outcome)]]

\* An Agent call: the child is not known yet, unless its own file told.
ChildOf(row, call) ==
    [key |-> row.agent, parent |-> row.parent,
     how |-> IF row.parent = None THEN "unknown" ELSE "explicit",
     class |-> row.class, name |-> row.name, depth |-> row.depth,
     basis |-> Counted(row.depth), call |-> call]
SaveCalled(r, call) == SaveProfile(r, ChildOf(r.lifecycle[<<"spawn", call>>], call))
SaveSpawnAttempt(r, call, parent, role) ==
    LET asked == [UnknownAgent EXCEPT !.parent = parent.key, !.class = Classify(role, "unknown"),
                                      !.name = role, !.depth = Below(parent.depth)]
    IN SaveCalled(InsertAgentEvent(r, <<"spawn", call>>, LifecycleRow(asked, call, "unknown")), call)

\* The answer to an Agent call, or a child's sidecar, names the child of the call.
NotAsked == LifecycleRow(UnknownAgent, None, "unknown")
AskedRow(r, call) ==
    IF Known(r.lifecycle, <<"spawn", call>>) THEN r.lifecycle[<<"spawn", call>>] ELSE NotAsked
Linked(e, row) ==
    IF row.parent = None THEN e
    ELSE [e EXCEPT !.parent = row.parent, !.how = "explicit", !.depth = OrDepth(@, row.depth),
                   !.basis = IF e.depth = NoDepth /\ row.depth # NoDepth THEN "inferred" ELSE @]
Placed(r, e) ==
    LET above == Below(ProfileDepth(r, e.parent)) IN
    IF e.depth = NoDepth /\ above # NoDepth
    THEN [e EXCEPT !.depth = above, !.basis = "inferred"] ELSE e
Complete(r, call, e, row, role, outcome) ==
    InsertAgentEvent(SaveProfile(r, e), <<"spawn", call>>,
       [LifecycleRow(e, call, outcome) EXCEPT
          !.class = IF @ = "unknown" THEN row.class ELSE @,
          !.name = role,
          !.depth = OrDepth(@, row.depth)])
CompleteSpawn(r, call, e, outcome) ==
    LET row == AskedRow(r, call)
        role == Or(row.name, e.name)
    IN Complete(r, call, [Placed(r, Linked(e, row)) EXCEPT !.name = Or(@, role)], row, role, outcome)

\* The first request of a child.
StartChild(r, e) ==
    InsertAgentEvent(r, <<"start", e.key>>, LifecycleRow(e, None, "succeeded"))
SaveObservedStart(r, e) ==
    IF e.key = None \/ e.class = "main" THEN SaveProfile(r, e)
    ELSE IF e.call = None THEN StartChild(SaveProfile(r, e), e)
    ELSE CompleteSpawn(StartChild(SaveProfile(r, e), e), e.call, e, "succeeded")
SaveObservedSpawn(r, e) ==
    IF e.key = None THEN r
    ELSE InsertAgentEvent(SaveProfile(r, e), <<"seen", e.key, e.parent>>,
                          LifecycleRow(e, None, "succeeded"))
-----------------------------------------------------------------------------
(* Tool calls and their results, rows of one table.                        *)

Failures == {"failed", "denied", "cancelled"}
Outcome(old, new) ==
    IF old = "unknown" \/ (old = "succeeded" /\ new \in Failures) THEN new ELSE old
MergeTool(old, new) ==
    [caller |-> OrRequest(old.caller, new.caller), agent |-> Or(old.agent, new.agent),
     sub |-> old.sub \/ new.sub, within |-> Or(old.within, new.within), outcome |-> old.outcome]
UpsertTool(r, id, new) ==
    LET merged(old) == [MergeTool(old, new) EXCEPT !.outcome = Outcome(@, new.outcome)]
    IN IF Known(r.tools, id) THEN [r EXCEPT !.tools[id] = merged(@)]
       ELSE [r EXCEPT !.tools = Put(@, id, new)]

SaveInvocation(r, call, new) ==
    LET own == <<"invocation", call>>
        result == <<"result", call>>
        stored == UpsertTool(r, own, new)
        answer == stored.tools[result]
    IN IF ~Known(r.tools, result) THEN stored
       ELSE [stored EXCEPT
               !.tools[result] = MergeTool(@, new),
               !.tools[own].outcome =
                  IF answer.outcome # "unknown" /\ @ \in {"unknown", "succeeded"}
                  THEN answer.outcome ELSE @]

\* A result has the facts of its call, when the call is stored.
SaveResult(r, call, outcome, agent, sub) ==
    LET own == <<"invocation", call>>
        bare == [caller |-> NoRequest, agent |-> agent, sub |-> sub, within |-> None,
                 outcome |-> outcome]
        asked == Known(r.tools, own)
        new == IF asked THEN [MergeTool(r.tools[own], bare) EXCEPT !.outcome = outcome] ELSE bare
        stored == UpsertTool(r, <<"result", call>>, new)
    IN IF asked /\ outcome # "unknown"
       THEN [stored EXCEPT !.tools[own].outcome = Outcome(@, outcome)] ELSE stored

AssignCallers(r, calls, request) ==
    LET assigned(row) == [row EXCEPT !.caller = OrRequest(@, request)]
    IN [r EXCEPT !.tools = [id \in DOMAIN @ |-> IF id[2] \in calls THEN assigned(@[id]) ELSE @[id]]]
-----------------------------------------------------------------------------
(* save_event: a request seen again keeps the larger count and the first   *)
(* of every other fact; without any count it is no request.                *)

SaveEvent(r, id, session, beneath, folder, tokens, e) ==
    LET new == [session |-> session, tokens |-> tokens, folder |-> folder, beneath |-> beneath,
                agent |-> e.key, parent |-> e.parent, class |-> e.class, name |-> e.name,
                depth |-> e.depth]
        Merge(old) ==
            [session |-> old.session, tokens |-> Larger(old.tokens, tokens),
             folder |-> OrCode(old.folder, folder), beneath |-> Or(old.beneath, beneath),
             agent |-> Or(old.agent, e.key), parent |-> Or(old.parent, e.parent),
             class |-> OrCode(old.class, e.class), name |-> Or(old.name, e.name),
             depth |-> OrDepth(old.depth, e.depth)]
    IN IF tokens = NoCount THEN r
       ELSE [r EXCEPT !.events =
               Put(@, id, IF Known(@, id) THEN Merge(@[id]) ELSE new)]
-----------------------------------------------------------------------------
(* process_line for Claude: every line carries its session and agent; a    *)
(* child's own file says which child it is.                                *)

FreshCtx(stem) ==
    [session |-> stem, created |-> 0, own |-> FALSE, total |-> 0, folder |-> "unknown",
     agent |-> UnknownAgent,
     calls |-> {}, nested |-> {}, exec |-> {}]
WithCtx(s, changes) ==
    [s EXCEPT !.ctx = [f \in DOMAIN @ |-> IF Known(changes, f) THEN changes[f] ELSE @[f]]]

\* claude_file_agent: the place of the file, and its sidecar once it is there
ClaudeFileAgent(file, sidecar) ==
    IF file.agent = None THEN UnknownAgent
    ELSE LET told == [UnknownAgent EXCEPT !.key = file.agent, !.parent = file.session,
                                          !.how = "structural"]
         IN IF ~sidecar THEN told
            ELSE [told EXCEPT !.class = Classify(file.role, "unknown"), !.name = file.role,
                              !.depth = file.depth, !.call = file.call,
                              !.basis = IF file.depth = NoDepth THEN "unknown" ELSE "explicit"]

\* claude_agent_for_line
Under(e, parent, how, depth) ==
    [e EXCEPT !.parent = parent, !.how = how, !.depth = depth, !.basis = Counted(depth)]
BesideFile(e, line, own, same) ==
    IF e.class = "main" \/ e.parent # None THEN e
    ELSE IF ~same /\ own.key # None THEN Under(e, own.key, "structural", Below(own.depth))
    ELSE IF line.session # None THEN Under(e, line.session, "fallback", 1) ELSE e
ClaudeAgentForLine(r, line, own) ==
    LET same == line.agent # None /\ line.agent = own.key
        base == IF same \/ (line.agent = None /\ own.key # None) THEN own
                ELSE IF line.agent # None \/ line.sidechain \/ line.session = None
                THEN [UnknownAgent EXCEPT !.key = line.agent]
                ELSE MainAgent(line.session)
        named == IF line.name = None THEN base
                 ELSE [base EXCEPT !.class = Classify(line.name, "unknown"), !.name = line.name]
    IN BesideFile(Enrich(r, named), line, own, same)

ClaudeParentAgent(r, line, own) ==
    Enrich(r, IF line.agent # None
              THEN [UnknownAgent EXCEPT !.key = line.agent, !.name = line.name,
                                        !.class = Classify(line.name, "unknown")]
              ELSE IF own.key # None THEN own
              ELSE IF line.session # None THEN MainAgent(line.session) ELSE UnknownAgent)

\* process_claude_agent_lifecycle: Agent calls, then the answer of one.
ClaudeCalls(r, line, parent) ==
    FoldLeft(LAMBDA acc, use : IF use.spawns THEN SaveSpawnAttempt(acc, use.id, parent, use.role)
                               ELSE acc,
             r, line.uses)
Answered(line, call, row, by) ==
    [UnknownAgent EXCEPT !.key = line.child, !.parent = by,
                         !.how = IF by = None THEN "unknown" ELSE "explicit",
                         !.class = row.class, !.name = row.name, !.depth = row.depth,
                         !.basis = Counted(row.depth), !.call = call]
ClaudeAnswer(r, line, parent) ==
    LET call == line.results[1].id
        child == Answered(line, call, AskedRow(r, call), Or(AskedRow(r, call).parent, parent.key))
    IN IF \/ ~line.answers \/ line.results = <<>>
          \/ ~Known(r.lifecycle, <<"spawn", call>>) /\ line.child = None
       THEN r
       ELSE CompleteSpawn(r, call, Enrich(r, child),
                          IF line.child # None THEN "succeeded" ELSE line.status)
ClaudeLifecycle(r, line, own) ==
    LET parent == ClaudeParentAgent(r, line, own)
    IN ClaudeAnswer(ClaudeCalls(r, line, parent), line, parent)

\* process_claude_tool_evidence
UsesBy(r, line, e) ==
    FoldLeft(LAMBDA acc, use :
                SaveInvocation(acc, use.id,
                   [caller |-> line.message, agent |-> e.key, sub |-> IsKnownChild(e),
                    within |-> use.within, outcome |-> "unknown"]),
             r, line.uses)
ResultsBy(r, line, e) ==
    FoldLeft(LAMBDA acc, result : SaveResult(acc, result.id, result.outcome, e.key, IsKnownChild(e)),
             r, line.results)
ToolsBy(r, line, e) == ResultsBy(UsesBy(r, line, e), line, e)
LineAgent(r, line, own) == Enrich(r, ClaudeAgentForLine(r, line, own))
ClaudeTools(r, line, own) == ToolsBy(r, line, LineAgent(r, line, own))

RequestBy(r, file, line, e) ==
    SaveEvent(r, line.message, Or(line.session, file.stem),
              IF file.agent = None THEN None ELSE file.session, line.folder, line.tokens, Enrich(r, e))
RequestSeen(r, file, line, e, subs) ==
    IF ~subs /\ IsKnownChild(e) THEN r ELSE RequestBy(SaveObservedStart(r, e), file, line, e)
ClaudeRequest(r, file, line, own, subs) ==
    IF line.message = NoRequest \/ line.type # "assistant" THEN r
    ELSE RequestSeen(r, file, line, LineAgent(r, line, own), subs)

ClaudeLine(s, file, line, subs) ==
    LET own == s.ctx.agent
    IN IF ~InWindow(line) THEN s
       ELSE [s EXCEPT !.rows = ClaudeRequest(ClaudeTools(ClaudeLifecycle(@, line, own), line, own),
                                             file, line, own, subs)]
-----------------------------------------------------------------------------
(* process_line for Codex: the session, the turn and the running total     *)
(* come from earlier lines; a forked file begins with a copy of its        *)
(* parent's history, which is not its own until a turn of its own starts.  *)

\* codex_agent_for_session
CodexAgent(line) ==
    IF ~line.spawned THEN MainAgent(line.session)
    ELSE [key |-> line.session, parent |-> line.parent,
          how |-> IF line.parent = None THEN "unknown" ELSE "explicit",
          class |-> Classify(line.name, "builtin"), name |-> line.name, depth |-> line.depth,
          basis |-> IF line.depth = NoDepth THEN "unknown" ELSE "explicit", call |-> None]

Excluded(ctx, subs) == ~subs /\ ctx.agent.key # None /\ ctx.agent.class # "main"

SessionMeta(s, line, subs) ==
    LET agent == CodexAgent(line)
    IN [WithCtx(s, [session |-> line.session, created |-> line.at, agent |-> agent,
                      folder |-> Or(line.folder, s.ctx.folder)])
          EXCEPT !.rows = IF subs /\ agent.class # "main" /\ InWindow(line)
                          THEN SaveObservedStart(SaveObservedSpawn(SaveProfile(@, agent), agent), agent)
                          ELSE SaveProfile(@, agent)]

\* A turn that got no count leaves its calls without a request.
TurnContext(s, line) ==
    WithCtx(s, [calls |-> {}, nested |-> {}, folder |-> Or(line.folder, s.ctx.folder)])

\* Fault: any turn is a turn of the fork, those it copied too.
TaskStartedAny(s, line) == WithCtx(s, [own |-> TRUE])

TaskStarted(s, line) == WithCtx(s, [own |-> s.ctx.own \/ line.at >= s.ctx.created])

\* save_codex_quotas: the freshest of a window and hour
SaveCodexQuotas(r, line) ==
    IF line.slot = None \/ (Known(r.slots, line.slot) /\ r.slots[line.slot] >= line.at) THEN r
    ELSE [r EXCEPT !.slots = Put(@, line.slot, line.at)]

CountBy(r, ctx, id, used, e) ==
    SaveEvent(IF e.key = None THEN r ELSE SaveObservedStart(r, e), id, ctx.session, None, ctx.folder,
              used, e)
CountFor(r, ctx, id, used) == CountBy(r, ctx, id, used, Enrich(r, ctx.agent))

\* What a request used is how far the total moved, unless the total is new or went back.
TokenCount(s, line, subs) ==
    LET before == s.ctx.total
        moved == [s EXCEPT !.ctx.total = IF line.total # 0 THEN line.total ELSE @]
        both == line.total # 0 /\ before # 0
        used == IF both /\ line.total >= before THEN line.total - before ELSE line.tokens
        id == <<s.ctx.session, line.at, IF line.total # 0 THEN line.total ELSE used>>
    IN IF ~InWindow(line) \/ ~s.ctx.own \/ Excluded(s.ctx, subs) THEN moved
       ELSE IF line.tokens = NoCount \/ (both /\ line.total = before)
       THEN [moved EXCEPT !.rows = SaveCodexQuotas(@, line)]
       ELSE [WithCtx(moved, [calls |-> {}, nested |-> {}])
               EXCEPT !.rows = AssignCallers(CountFor(SaveCodexQuotas(@, line), s.ctx, id, used),
                                             s.ctx.calls \cup s.ctx.nested, id)]

\* process_codex_tool_evidence and track_codex_exec
CodexCall(s, line) ==
    LET agent == s.ctx.agent
        open == [s EXCEPT !.ctx.exec = IF line.exec THEN @ \cup {line.call} ELSE @]
    IN IF ~s.ctx.own \/ ~InWindow(line) THEN open
       ELSE [open EXCEPT !.ctx.calls = @ \cup {line.call},
                         !.rows = SaveInvocation(@, line.call,
                            [caller |-> NoRequest, agent |-> agent.key, sub |-> IsKnownChild(agent),
                             within |-> line.within, outcome |-> line.status])]
CodexOutput(s, line) ==
    LET closed == [s EXCEPT !.ctx.exec = @ \ {line.call}]
    IN IF ~s.ctx.own \/ ~InWindow(line) THEN closed
       ELSE [closed EXCEPT !.rows = SaveResult(@, line.call, line.status, s.ctx.agent.key,
                                               IsKnownChild(s.ctx.agent))]

\* process_nested_mcp: an MCP call of the one exec that is open
NestedMcp(s, line, subs) ==
    LET agent == s.ctx.agent
        sub == IsKnownChild(agent)
        asked == SaveInvocation(s.rows, line.call,
                    [caller |-> NoRequest, agent |-> agent.key, sub |-> sub,
                     within |-> CHOOSE e \in s.ctx.exec : TRUE, outcome |-> "unknown"])
    IN IF \/ ~s.ctx.own \/ ~InWindow(line) \/ Excluded(s.ctx, subs)
          \/ Cardinality(s.ctx.exec) # 1
       THEN s
       ELSE [s EXCEPT !.ctx.nested = @ \cup {line.call},
                      !.rows = SaveResult(asked, line.call, line.status, agent.key, sub)]

CodexLine(s, line, subs) ==
    CASE line.type = "session_meta" -> SessionMeta(s, line, subs)
      [] line.type = "turn_context" -> TurnContext(s, line)
      [] line.type = "task_started" -> TaskStarted(s, line)
      [] line.type = "token_count" -> TokenCount(s, line, subs)
      [] line.type = "call" -> CodexCall(s, line)
      [] line.type = "output" -> CodexOutput(s, line)
      [] line.type = "mcp" -> NestedMcp(s, line, subs)

ProcessLine(s, file, line, subs) ==
    CASE line.type = "broken" -> [s EXCEPT !.gap = TRUE]
      [] line.type # "broken" /\ file.provider = "claude" -> ClaudeLine(s, file, line, subs)
      [] line.type # "broken" /\ file.provider = "codex" -> CodexLine(s, line, subs)
-----------------------------------------------------------------------------
(* scan                                                                    *)

NoRows == [events |-> <<>>, tools |-> <<>>, profiles |-> <<>>, lifecycle |-> <<>>, slots |-> <<>>]
Idle == [pc |-> "idle"]
NotThere == [lines |-> 0, part |-> FALSE, written |-> 0, inode |-> 0, sidecar |-> FALSE]
NoCheckpoint == [written |-> -1]
Spend(what) == left[what] > 0 /\ left' = [left EXCEPT ![what] = @ - 1]
Paths == DOMAIN corpus
Length(f) == Len(corpus[f].lines)

\* What a file can hold: broken lines and those of its client.
IsList(s) == s \in Seq(ToSet(s))
CodexTypes ==
    {"session_meta", "turn_context", "task_started", "token_count", "call", "output", "mcp"}
LineFormed(line, provider) ==
    \/ line.type = "broken"
    \/ provider = "claude" /\ IsList(line.uses) /\ IsList(line.results)
    \/ provider = "codex" /\ line.type \in CodexTypes
Legible(held) ==
    \A f \in DOMAIN held :
       /\ IsList(held[f].lines) /\ held[f].pauses \subseteq DOMAIN held[f].lines
       /\ \A n \in DOMAIN held[f].lines : LineFormed(held[f].lines[n], held[f].provider)

\* What a file's size says: complete lines and a piece of the next.
Size(d) == 2 * d.lines + IF d.part THEN 1 ELSE 0

\* scan_generation
ScanKey(c) == <<c.subs, c.parser, c.resources>>

InitTranscripts(held, settings, bounds) ==
    /\ corpus = held
    /\ disk = [f \in DOMAIN held |-> NotThere]
    /\ conf = settings
    /\ key = <<>>
    /\ files = [f \in DOMAIN held |-> NoCheckpoint]
    /\ rows = NoRows
    /\ gaps = {}
    /\ scan = Idle
    /\ left = bounds

\* prepare_file_scan_with_purge, then walk
StartScan ==
    /\ scan.pc = "idle" /\ Spend("scans")
    /\ key' = ScanKey(conf)
    /\ files' = IF key' = key THEN files ELSE [f \in Paths |-> NoCheckpoint]
    /\ scan' = [pc |-> "files", todo |-> {f \in Paths : disk[f].written > 0}, subs |-> conf.subs]
    /\ UNCHANGED <<corpus, disk, conf, rows, gaps>>

FileAgent(f) ==
    IF corpus[f].provider = "claude" THEN ClaudeFileAgent(corpus[f], disk[f].sidecar)
    ELSE UnknownAgent
Hidden(f, subs) == corpus[f].provider = "claude" /\ corpus[f].agent # None /\ ~subs
\* The sidecar of a child came after its file was read.
Renamed(f) ==
    /\ corpus[f].provider = "claude" /\ files[f] # NoCheckpoint
    /\ files[f].ctx.agent # FileAgent(f)
Unchanged(f) ==
    /\ files[f] # NoCheckpoint /\ ~Renamed(f)
    /\ files[f].size = Size(disk[f]) /\ files[f].written = disk[f].written

\* The file as it is when it is looked at; it is opened later.
StatFile(f) ==
    LET d == disk[f]
        old == files[f]
        resumes == ~Renamed(f) /\ old # NoCheckpoint /\ old.inode = d.inode
                   /\ Size(d) >= old.size
    IN /\ scan.pc = "files" /\ f \in scan.todo
       /\ scan' = IF Hidden(f, scan.subs) \/ Unchanged(f) THEN [scan EXCEPT !.todo = @ \ {f}]
                  ELSE [pc |-> "open", todo |-> scan.todo, subs |-> scan.subs, file |-> f, size |-> Size(d),
                        written |-> d.written, inode |-> d.inode, resumes |-> resumes,
                        agent |-> FileAgent(f)]
       /\ UNCHANGED <<corpus, disk, conf, key, files, rows, gaps, left>>

NextFile == [pc |-> "files", todo |-> scan.todo \ {scan.file}, subs |-> scan.subs]

ReadFrom == IF scan.resumes THEN files[scan.file].offset ELSE 0
LinesRead == SubSeq(corpus[scan.file].lines, ReadFrom + 1, disk[scan.file].lines)

StoreFile(f, end) ==
    /\ rows' = end.rows
    /\ files' = [files EXCEPT ![f] =
          [size |-> scan.size, written |-> scan.written, inode |-> scan.inode,
           offset |-> Larger(ReadFrom, disk[f].lines), ctx |-> end.ctx]]
    /\ gaps' = IF end.gap THEN gaps \cup {f} ELSE IF scan.resumes THEN gaps ELSE gaps \ {f}
\* One transaction: the rows of the lines that are complete by now, and the checkpoint.
ReadFile ==
    LET f == scan.file
        file == corpus[f]
        resumed == IF scan.resumes THEN files[f].ctx ELSE FreshCtx(file.stem)
        ctx == IF file.provider = "claude" /\ (~scan.resumes \/ resumed.agent.key = None)
               THEN [resumed EXCEPT !.agent = scan.agent] ELSE resumed
    IN /\ scan.pc = "open"
       /\ StoreFile(f, FoldLeft(LAMBDA s, line : ProcessLine(s, file, line, scan.subs),
                                [rows |-> rows, ctx |-> ctx, gap |-> FALSE], LinesRead))
       /\ scan' = NextFile
       /\ UNCHANGED <<corpus, disk, conf, key, left>>

\* The file cannot be opened, or its transaction is rolled back.
FileUnavailable ==
    /\ scan.pc = "open" /\ Spend("faults")
    /\ scan' = NextFile
    /\ UNCHANGED <<corpus, disk, conf, key, files, rows, gaps>>

\* Every file seen, the deadline, or the process is killed.
EndScan ==
    /\ scan.pc = "files" /\ scan.todo = {}
    /\ scan' = Idle
    /\ UNCHANGED <<corpus, disk, conf, key, files, rows, gaps, left>>
ScanStops ==
    /\ scan.pc # "idle" /\ Spend("faults")
    /\ scan' = Idle
    /\ UNCHANGED <<corpus, disk, conf, key, files, rows, gaps>>

ScanStep ==
    \/ StartScan \/ ReadFile \/ FileUnavailable \/ EndScan \/ ScanStops
    \/ \E f \in Paths : StatFile(f)
-----------------------------------------------------------------------------
(* The client and the owner.                                               *)

Touch(f, changes) ==
    disk' = [disk EXCEPT ![f] = [k \in DOMAIN @ |->
                CASE Known(changes, k) -> changes[k]
                  [] k = "written" -> @[k] + 1
                  [] ~Known(changes, k) /\ k # "written" -> @[k]]]

\* Lines up to n, and perhaps a piece of the next.
AppendLines(f, n, part) ==
    /\ Spend("writes")
    /\ n >= disk[f].lines /\ (part => n < Length(f))
    /\ n > disk[f].lines \/ (part /\ ~disk[f].part)
    /\ Touch(f, [lines |-> n, part |-> part])

\* The file is written anew under another inode, with all it had.
Replace(f) ==
    /\ Spend("replacements")
    /\ disk[f].written > 0
    /\ Touch(f, [inode |-> disk[f].inode + 1, part |-> FALSE])

WriteSidecar(f) ==
    /\ corpus[f].agent # None /\ ~disk[f].sidecar
    /\ disk' = [disk EXCEPT ![f].sidecar = TRUE]
    /\ UNCHANGED left

ClientStep ==
    /\ \E f \in Paths :
          \/ \E n \in corpus[f].pauses, part \in BOOLEAN : AppendLines(f, n, part)
          \/ Replace(f) \/ WriteSidecar(f)
    /\ UNCHANGED <<corpus, conf, key, files, rows, gaps, scan>>

\* The owner chooses other settings; another parser is installed between scans.
OwnerStep ==
    /\ Spend("changes")
    /\ \E c \in Settings \ {conf} :
          /\ c.parser # conf.parser => scan.pc = "idle"
          /\ conf' = c
    /\ UNCHANGED <<corpus, disk, key, files, rows, gaps, scan>>

TranscriptNext == ScanStep \/ ClientStep \/ OwnerStep
-----------------------------------------------------------------------------
(* What a scan would leave as it is, and what the client's files then say. *)

CaughtUp ==
    /\ scan.pc = "idle" /\ key = ScanKey(conf)
    /\ \A f \in Paths : disk[f].written = 0 \/ Hidden(f, conf.subs) \/ Unchanged(f)

Written(f) == {n \in 1..disk[f].lines : InWindow(corpus[f].lines[n])}
Of(provider) == {f \in Paths : corpus[f].provider = provider}
Lines(provider) == UNION {{f} \X Written(f) : f \in Of(provider)}
LineAt(p) == corpus[p[1]].lines[p[2]]

\* bucket_rows_for_agent_setting
Selected(e) ==
    \/ conf.subs
    \/ e.beneath = None /\ \/ e.class = "main"
                           \/ e.agent = None /\ e.parent = None /\ e.depth = NoDepth
OfChild(p) ==
    LET file == corpus[p[1]] IN
    IF file.provider = "claude" THEN file.agent # None \/ LineAt(p).agent # None ELSE file.child
Admitted(provider) == {p \in Lines(provider) : conf.subs \/ ~OfChild(p)}

Messages == {p \in Admitted("claude") : LineAt(p).message # NoRequest /\ LineAt(p).tokens # NoCount}

\* The counts of a Codex file, and the first after a line in its turn.
Counts(f) == {n \in Written(f) : corpus[f].lines[n].type = "token_count" /\ corpus[f].lines[n].spent > 0}
InTurn(f, n) ==
    {m \in Counts(f) : m > n /\ \A k \in n..m : corpus[f].lines[k].type # "turn_context"}
OpenExecs(f, n) ==
    {corpus[f].lines[k].call : k \in {j \in 1..n : corpus[f].lines[j].exec}}
      \ {corpus[f].lines[k].call : k \in {j \in 1..n : corpus[f].lines[j].type = "output"}}
Calls(f) ==
    {n \in Written(f) : /\ n >= corpus[f].own
                        /\ \/ corpus[f].lines[n].type = "call"
                           \/ corpus[f].lines[n].type = "mcp" /\ Cardinality(OpenExecs(f, n)) = 1}
RequestOf(f, n) ==
    IF InTurn(f, n) = {} THEN NoRequest
    ELSE LET line == corpus[f].lines[Min(InTurn(f, n))] IN <<corpus[f].session, line.at, line.total>>

\* Every Claude message is one request, with its last count.
MessagesAgree ==
    {<<id, rows.events[id].tokens>> :
        id \in {x \in DOMAIN rows.events : Len(x) = 1 /\ Selected(rows.events[x])}}
      = {<<LineAt(p).message, LineAt(p).tokens>> :
           p \in {m \in Messages : \A o \in Messages :
                     LineAt(o).message = LineAt(m).message => LineAt(o).tokens <= LineAt(m).tokens}}
\* The requests of a Codex session add up to what it used.
TotalsAgree ==
    \A f \in Of("codex") :
        MapThenSumSet(LAMBDA id : rows.events[id].tokens,
           {id \in DOMAIN rows.events : rows.events[id].session = corpus[f].session
                                          /\ Selected(rows.events[id])})
          = MapThenSumSet(LAMBDA p : LineAt(p).spent, {p \in Admitted("codex") : p[1] = f})
\* A call is of the request that made it, and of the agent of its file.
CallsAgree ==
    /\ \A p \in Admitted("claude") : \A use \in ToSet(LineAt(p).uses) :
          rows.tools[<<"invocation", use.id>>].caller = LineAt(p).message
    /\ \A f \in Of("codex") : \A n \in Calls(f) :
          conf.subs \/ ~corpus[f].child =>
             LET call == rows.tools[<<"invocation", corpus[f].lines[n].call>>] IN
             call.caller = RequestOf(f, n) /\ call.agent = corpus[f].session

\* The gaps that are reported are the lines nobody could read.
GapsAgree ==
    {f \in gaps : ~Hidden(f, conf.subs)}
      = {f \in Paths : ~Hidden(f, conf.subs) /\ \E n \in 1..disk[f].lines : corpus[f].lines[n].type = "broken"}

\* However the scans cut the files, once all is read the rows say what the files
\* say: a total is not counted from the start again after a restart, a copied
\* history is not counted in the fork, a line that was cut off or came between
\* the look and the read is not lost, a call waits for its request over a cut.
RowsAgreeWithFiles == CaughtUp => MessagesAgree /\ TotalsAgree /\ CallsAgree /\ GapsAgree

\* The rows of an agent say what its profile says, and once its own file, its
\* sidecar and the call that started it are read, in whatever order, that is its
\* true place (docs/usage-coverage.md: "stronger late evidence repairs retained
\* parent/depth attribution").
LineageAgrees ==
    /\ \A table \in {rows.events, rows.lifecycle} : \A id \in DOMAIN table :
          LET row == table[id] IN
          row.agent # None /\ Known(rows.profiles, row.agent) =>
             LET p == rows.profiles[row.agent] IN
             row.parent = p.parent /\ row.depth = p.depth /\ row.class = p.class
    /\ CaughtUp /\ conf.subs => \A f \in Of("claude") :
          corpus[f].agent # None /\ disk[f].sidecar /\ Known(rows.lifecycle, <<"start", corpus[f].agent>>)
            /\ Known(rows.tools, <<"invocation", corpus[f].call>>) =>
             LET p == rows.profiles[corpus[f].agent] IN
             /\ p.parent = corpus[f].above
             /\ Known(rows.profiles, p.parent) /\ rows.profiles[p.parent].depth # NoDepth =>
                   p.depth = rows.profiles[p.parent].depth + 1
=============================================================================
