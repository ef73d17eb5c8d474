------------------------------ MODULE Collection ------------------------------
(***************************************************************************)
(* One run of the Companion around the reader of transcripts: execute in   *)
(* observatory-core/src/run.rs, and what the readers emit, emission.rs in  *)
(* observatory-adapters.                                                   *)
(*                                                                         *)
(* The scan stores rows, each stamped with the generation of its run.  The *)
(* reader makes records of the rows that are newer than its mark, or join  *)
(* one that is, and the run moves the mark once the records are durable.   *)
(* Before the upload the records that wait are cut to the settings of the  *)
(* day.  So a record is only as good as the mark: whatever a mark passes   *)
(* over is not looked at again.                                            *)
(***************************************************************************)
EXTENDS Transcripts

CONSTANT Touching   \* the calls whose arguments name a knowledge source

VARIABLES
    run,        \* phase, settings, what was emitted and what may leave
    gen,        \* change generation
    stamps,     \* generation of each stored row
    accesses,   \* resource accesses: the configuration each was classified under
    mark,       \* what was emitted last: generation and settings
    records     \* content, what the server holds of it, whether it is superseded

collectionVars == <<run, gen, stamps, accesses, mark, records>>

NoMark == [gen |-> 0]
NoRun == [pc |-> "idle"]
Calm == <<corpus, disk, conf, key, files, rows, gaps, scan>>

InitCollection ==
    /\ run = NoRun
    /\ gen = 0
    /\ stamps = <<>>
    /\ accesses = <<>>
    /\ mark = NoMark
    /\ records = <<>>
-----------------------------------------------------------------------------
(* Rows and the records made of them.  A row is named by its table and id. *)

Named(kind, ids) == {<<kind, id>> : id \in ids}
RowsOf(r, taken) ==
    Named("request", DOMAIN r.events) \cup Named("agent", DOMAIN r.lifecycle)
      \cup Named("tool", DOMAIN r.tools) \cup Named("access", DOMAIN taken)
RowAt(r, taken, id) ==
    CASE id[1] = "request" -> r.events[id[2]]
      [] id[1] = "agent" -> r.lifecycle[id[2]]
      [] id[1] = "tool" -> r.tools[id[2]]
      [] id[1] = "access" -> taken[id[2]]
Row(id) == RowAt(rows, accesses, id)
Stored == RowsOf(rows, accesses)

ToolsOf(call) == {t \in DOMAIN rows.tools : t[2] = call}
BySubagent(call) == \E t \in ToolsOf(call) : rows.tools[t].sub

\* display_name: a role of the provider, or a custom one as a keyed hash
ShownName(row, c) ==
    IF (row.class = "builtin" /\ c.names # "off") \/ (row.class = "custom" /\ c.names = "hashed")
    THEN row.name ELSE None

\* ToolIndex::request_summary
CallsOf(request, c) ==
    {t \in DOMAIN rows.tools :
        /\ t[1] = "invocation" /\ rows.tools[t].caller = request /\ rows.tools[t].within = None
        /\ c.subs \/ ~rows.tools[t].sub}

\* The record of a row under settings c.
Content(id, c) ==
    LET row == Row(id) IN
    CASE id[1] = "request" ->
            Put([row EXCEPT !.name = ShownName(row, c), !.folder = IF c.project THEN @ ELSE None],
                "calls", IF c.detail = "tools" THEN Cardinality(CallsOf(id[2], c)) ELSE NoCount)
      [] id[1] = "agent" -> [row EXCEPT !.name = ShownName(row, c)]
      [] id[1] = "tool" -> row
      [] id[1] = "access" ->
            [source |-> row, outcome |-> IF Known(rows.tools, <<"invocation", id[2]>>)
                                         THEN rows.tools[<<"invocation", id[2]>>].outcome
                                         ELSE "unknown"]

ChildRow(row) ==
    row.class # "main" /\ (row.agent # None \/ row.parent # None \/ row.depth # NoDepth)
\* What emit_detail selects, and record_matches_execution_settings lets out.
Admits(c, id, content) ==
    CASE id[1] = "request" ->
            c.detail # "buckets" /\ (c.subs \/ ~(content.beneath # None \/ ChildRow(content)))
      [] id[1] = "agent" -> c.detail # "buckets" /\ c.subs
      [] id[1] = "tool" -> c.detail = "tools" /\ (c.subs \/ ~BySubagent(id[2][2]))
      [] id[1] = "access" -> c.detail = "tools" /\ (c.subs \/ ~BySubagent(id[2]))
Emitted(c) ==
    {id \in Stored : Admits(c, id, Row(id)) /\ (id[1] = "access" => c.resources # None /\ c.shares)}

\* Fault: a row is due only when it is new itself.
ChangedItself(after, id) == id \notin DOMAIN records \/ stamps[id] > after

\* Changes: a row is due when it, or a row its record is made of, is new.
ChangedSince(after, id) ==
    LET newer(t) == stamps[<<"tool", t>>] > after IN
    \/ id \notin DOMAIN records
    \/ stamps[id] > after
    \/ id[1] = "request" /\ \E t \in DOMAIN rows.tools : rows.tools[t].caller = id[2] /\ newer(t)
    \/ id[1] = "access" /\ \E t \in ToolsOf(id[2]) : newer(t)
Due(c) ==
    IF mark # NoMark /\ mark.conf = c /\ mark.gen < gen
    THEN {id \in Emitted(c) : ChangedSince(mark.gen, id)} ELSE Emitted(c)
-----------------------------------------------------------------------------
(* The run.                                                                *)

\* The purge of reset_file_scan takes the accesses and what is queued of them.
Superseded(stored, ids) ==
    [id \in DOMAIN stored |->
        IF id \in ids THEN [stored[id] EXCEPT !.superseded = TRUE] ELSE stored[id]]

StartRun ==
    /\ run.pc = "idle"
    /\ gen' = gen + 1
    /\ run' = [pc |-> IF conf.on THEN "scan" ELSE "advance", conf |-> conf]
    /\ IF conf.on
       THEN /\ StartScan
            /\ accesses' = IF key' = key THEN accesses ELSE <<>>
            /\ records' = IF key' = key THEN records
                          ELSE Superseded(records, {id \in DOMAIN records : id[1] = "access"})
       ELSE /\ Spend("scans")
            /\ UNCHANGED <<Calm, accesses, records>>
    /\ UNCHANGED <<stamps, mark>>

\* save_evidence, at every call that is read
Classified(lines) ==
    {use.id : use \in UNION {ToSet(line.uses) : line \in {l \in ToSet(lines) : InWindow(l)}}}
      \cap Touching

\* A step of the scan; the triggers stamp what it wrote.
Scan ==
    /\ run.pc = "scan" /\ scan.pc # "idle"
    /\ \/ ReadFile \/ FileUnavailable \/ EndScan \/ ScanStops
       \/ \E f \in Paths : StatFile(f)
    /\ accesses' =
          IF files' = files \/ run.conf.resources = None THEN accesses
          ELSE Over([call \in Classified(LinesRead) |-> run.conf.resources], accesses)
    /\ stamps' =
          Over([id \in {i \in RowsOf(rows', accesses') :
                          i \notin Stored \/ RowAt(rows', accesses', i) # Row(i)} |-> gen], stamps)
    /\ UNCHANGED <<run, gen, mark, records>>

\* emit_detail, after the scan or what there was of it
Emit(sent, marks) ==
    /\ run.pc = "scan" /\ scan.pc = "idle"
    /\ run' = [pc |-> "persist", conf |-> run.conf,
               sink |-> [id \in Due(run.conf) \cap sent |-> Content(id, run.conf)],
               after |-> IF marks /\ run.conf.detail # "buckets"
                         THEN [gen |-> gen, conf |-> run.conf] ELSE NoMark]
    /\ UNCHANGED <<Calm, gen, stamps, accesses, mark, records>>
EmitDetail == Emit(Stored, TRUE) /\ UNCHANGED left
\* The reader fails on the way, or before it emits anything.
ReaderFails ==
    /\ Spend("faults")
    /\ \E kinds \in {{}, {"request"}} : Emit({id \in Stored : id[1] \in kinds}, FALSE)

\* upsert_record, all in one transaction.  The check that isolates a malformed
\* record first (run.rs:1163-1182) is left out: no reader here makes one.
Persist ==
    /\ run.pc = "persist"
    /\ records' = Over([id \in DOMAIN run.sink |->
          [content |-> run.sink[id], superseded |-> FALSE,
           held |-> IF Known(records, id) THEN records[id].held ELSE <<>>]], records)
    /\ run' = [run EXCEPT !.pc = "mark"]
    /\ UNCHANGED <<Calm, left, gen, stamps, accesses, mark>>

SetMark ==
    /\ run.pc = "mark"
    /\ mark' = IF run.after = NoMark THEN mark ELSE run.after
    /\ run' = [pc |-> "advance", conf |-> run.conf]
    /\ UNCHANGED <<Calm, left, gen, stamps, accesses, records>>

\* What is written from here on is newer than every mark.
Advance ==
    /\ run.pc = "advance"
    /\ gen' = gen + 1
    /\ run' = [run EXCEPT !.pc = "review"]
    /\ UNCHANGED <<Calm, left, stamps, accesses, mark, records>>

\* apply_current_privacy_policy
Tightened(id, content, c) ==
    CASE id[1] = "request" ->
            [content EXCEPT !.calls = IF c.detail = "tools" THEN @ ELSE NoCount,
                            !.folder = IF c.project THEN @ ELSE None,
                            !.name = ShownName(content, c)]
      [] id[1] = "agent" -> [content EXCEPT !.name = ShownName(content, c)]
      [] id[1] \in {"tool", "access"} -> content

Pending == {id \in DOMAIN records : ~records[id].superseded /\ records[id].held # <<records[id].content>>}

\* pending_records_for_current_settings: what waits is cut to the settings.
Review ==
    LET c == run.conf
        access == {id \in Pending : id[1] = "access"}
        stale == {id \in access : c.shares /\ records[id].content.source # c.resources}
        cut == Over([id \in Pending \ access |->
                       [records[id] EXCEPT !.content = Tightened(id, @, c)]], records)
        open == Pending \ (stale \cup (IF c.shares THEN {} ELSE access))
    IN /\ run.pc = "review"
       /\ records' = Superseded(cut, stale)
       /\ run' = [pc |-> "upload", sent |-> {id \in open : Admits(c, id, cut[id].content)}]
       /\ UNCHANGED <<Calm, left, gen, stamps, accesses, mark>>

\* The server takes what was sent, or cannot be reached.
Upload ==
    /\ run.pc = "upload"
    /\ \E taken \in {{}, run.sent} :
          records' = [id \in DOMAIN records |->
             IF id \in taken THEN [records[id] EXCEPT !.held = <<records[id].content>>] ELSE records[id]]
    /\ run' = NoRun
    /\ UNCHANGED <<Calm, left, gen, stamps, accesses, mark>>

RunDies ==
    /\ run.pc # "idle" /\ Spend("faults")
    /\ run' = NoRun
    /\ scan' = Idle
    /\ UNCHANGED <<corpus, disk, conf, key, files, rows, gaps, gen, stamps, accesses, mark, records>>

RunStep ==
    \/ StartRun \/ Scan \/ EmitDetail \/ ReaderFails \/ Persist \/ SetMark \/ Advance \/ Review
    \/ Upload \/ RunDies
\* The owner's choice reaches the next run.
Outside ==
    /\ ClientStep \/ OwnerStep
    /\ conf'.parser # conf.parser => run.pc = "idle"
    /\ UNCHANGED collectionVars

CollectionNext == RunStep \/ Outside

CollectionInit ==
    /\ \E held, settings, bounds :
          Legible(held) /\ settings \in Settings /\ InitTranscripts(held, settings, bounds)
    /\ InitCollection
CollectionSpec == CollectionInit /\ [][CollectionNext]_<<transcriptVars, collectionVars>>
-----------------------------------------------------------------------------
\* The content says what the row says, but for what some settings hide: a name, a
\* folder, the calls or those of subagents among them.
Unhidden == [detail |-> "tools", names |-> "hashed", project |-> TRUE, subs |-> TRUE]
Hideable == {"name", "folder", "calls"}
Says(id, content) ==
    LET full == Content(id, Unhidden) IN
    \/ content = full
    \/ /\ id[1] \in {"request", "agent"} /\ DOMAIN content = DOMAIN full
       /\ \A f \in DOMAIN full \ Hideable : content[f] = full[f]
       /\ content.name \in {full.name, None}
       /\ id[1] = "request" =>
             /\ content.folder \in {full.folder, None}
             /\ content.calls \in {NoCount} \cup {Cardinality(CallsOf(id[2], [subs |-> s])) : s \in BOOLEAN}
Joined(id) ==
    {id} \cup (IF id[1] = "request" THEN {<<"tool", t>> : t \in {u \in DOMAIN rows.tools : rows.tools[u].caller = id[2]}}
               ELSE IF id[1] = "access" THEN {<<"tool", t>> : t \in ToolsOf(id[2])} ELSE {})

\* What the mark passes over is in the records: each row the settings of the mark
\* admit has one that says nothing else than the row and the rows it is made of,
\* whatever run wrote them, stopped before its mark or failed on the way.
MarksCoverTheirRecords ==
    mark # NoMark =>
      \A id \in Emitted(mark.conf) :
         (\A other \in Joined(id) : stamps[other] <= mark.gen) =>
            id \in DOMAIN records /\ Says(id, records[id].content)

\* companion/README.md: a change of settings "re-emits everything once"; run.rs: "turning
\* the setting back on re-emits from saved events".  So what the mark covers is as
\* complete as its settings ask, once no run is under way.
LooseningRestores ==
    run.pc = "idle" /\ mark # NoMark /\ mark.conf = conf /\ mark.gen = gen - 1 =>
      \A id \in Emitted(conf) : id \in DOMAIN records /\ records[id].content = Content(id, conf)
=============================================================================
