----------------------------- MODULE CompanionMC -----------------------------
(***************************************************************************)
(* Small sets of transcripts for TLC: a main agent with a child and a      *)
(* grandchild in files of their own; a main agent whose child is in its    *)
(* file, with a broken line, faults and changes of settings; two Codex     *)
(* sessions, one forked from the other.                                    *)
(***************************************************************************)
EXTENDS Collection, TLC

Bounds(scans, writes, replacements, faults, changes) ==
    [scans |-> scans, writes |-> writes, replacements |-> replacements, faults |-> faults,
     changes |-> changes]

\* Claude Code
Said(message, tokens) ==
    [type |-> "assistant", at |-> 1, session |-> "s", agent |-> None, sidechain |-> FALSE,
     name |-> None, message |-> <<message>>, tokens |-> tokens, folder |-> "unknown",
     uses |-> <<>>, results |-> <<>>, answers |-> FALSE, child |-> None, status |-> "unknown"]
Using(line, id, role) ==
    [line EXCEPT !.uses = <<[id |-> id, spawns |-> role # None, role |-> role, within |-> None]>>]
Answer(id, outcome, child) ==
    [Said("answer", NoCount) EXCEPT !.type = "user", !.message = NoRequest,
        !.results = <<[id |-> id, outcome |-> outcome]>>, !.answers = TRUE, !.child = child]
By(agent, line) == [line EXCEPT !.agent = agent, !.sidechain = TRUE]
Broken == [Answer("t0", "unknown", None) EXCEPT !.type = "broken", !.results = <<>>]
MainFile(pauses, lines) ==
    [provider |-> "claude", session |-> "s", stem |-> "s", agent |-> None, role |-> None,
     depth |-> NoDepth, call |-> None, above |-> None, child |-> FALSE, own |-> 1,
     pauses |-> pauses, lines |-> lines]
ChildFile(agent, role, depth, call, above, pauses, lines) ==
    [MainFile(pauses, lines) EXCEPT !.stem = agent, !.agent = agent, !.role = role,
        !.depth = depth, !.call = call, !.above = above, !.child = TRUE]

Main ==
    <<Using(Said("m1", 1), "t1", "Plan"), [Said("m1", 3) EXCEPT !.folder = "f"],
      Answer("t1", "succeeded", "a"), Said("m4", 2)>>
Child == <<By("a", Using(Said("m2", 2), "t2", "Other")), By("a", Answer("t2", "failed", "b"))>>
Grandchild == <<By("b", Said("m3", 5))>>
\* "told": the sidecars carry the depth.
Nested(told) ==
    [main |-> MainFile({4}, Main),
     child |-> ChildFile("a", "Plan", IF told THEN 1 ELSE NoDepth, "t1", "s", {1, 2}, Child),
     grand |-> ChildFile("b", "Other", IF told THEN 2 ELSE NoDepth, "t2", "a", {1}, Grandchild)]
Beside ==
    [main |-> MainFile({2, 5}, <<Head(Main), Broken>> \o Tail(Main)),
     child |-> ChildFile("a", "Plan", 1, "t1", "s", {2, 3}, Append(Child, Grandchild[1]))]

\* Codex
Turn ==
    [type |-> "turn_context", at |-> 2, session |-> "x", spawned |-> FALSE, parent |-> None,
     name |-> None, depth |-> NoDepth, total |-> 0, tokens |-> 0, spent |-> 0, slot |-> None,
     call |-> None, exec |-> FALSE, within |-> None, status |-> "unknown", folder |-> None]
Meta(session, at) == [Turn EXCEPT !.type = "session_meta", !.session = session, !.at = at]
Task(at) == [Turn EXCEPT !.type = "task_started", !.at = at]
Count(at, total, tokens, spent) ==
    [Turn EXCEPT !.type = "token_count", !.at = at, !.total = total, !.tokens = tokens,
                 !.spent = spent, !.slot = "h"]
Call(call, at) == [Turn EXCEPT !.type = "call", !.call = call, !.at = at]
Exec(call) == [Call(call, 2) EXCEPT !.exec = TRUE]
Mcp(call) == [Call(call, 2) EXCEPT !.type = "mcp", !.status = "failed"]
Output(call) == [Call(call, 2) EXCEPT !.type = "output", !.status = "succeeded"]
CodexFile(session, own, child, pauses, lines) ==
    [MainFile(pauses, lines) EXCEPT !.provider = "codex", !.session = session, !.stem = session,
        !.own = own, !.child = child]

First ==
    <<Meta("x", 1), Task(2), Call("c1", 2), Count(2, 2, 2, 2),
      Exec("e1"), Mcp("n1"), Output("e1"), Count(3, 5, 3, 3), Count(4, 5, 3, 0),
      Turn, Count(5, 1, 1, 1)>>
\* The fork: its own meta, what the first had said by then, and a turn of its own.
Fork ==
    <<[Meta("y", 4) EXCEPT !.spawned = TRUE, !.parent = "x", !.depth = 1],
      Task(2), Call("c1", 2), Count(2, 2, 2, 0), Task(5), Call("c2", 5), Count(5, 3, 1, 1)>>
Forked ==
    [x |-> CodexFile("x", 2, FALSE, {3, 6, 11}, First),
     y |-> CodexFile("y", 5, TRUE, {4, 6, 7}, Fork)]

\* A main agent and its child, for whole runs.
Small ==
    [main |-> MainFile({1, 3}, <<Main[1], Main[2], Main[3]>>),
     child |-> ChildFile("a", "Plan", 1, "t1", "s", {1}, <<By("a", Said("m2", 2))>>)]
Single == [main |-> MainFile({3}, Small.main.lines)]

\* All of them are files the two clients can write.
ASSUME FilesAssumption ==
    \A held \in {Nested(TRUE), Nested(FALSE), Beside, Forked, Small, Single} : Legible(held)

\* The owner's choices: all of it; without subagents; another parser and other
\* knowledge sources; buckets only; no names, projects or sources.
Everything ==
    [on |-> TRUE, subs |-> TRUE, parser |-> 1, resources |-> "A", shares |-> TRUE,
     detail |-> "tools", names |-> "hashed", project |-> TRUE]
Alone == [Everything EXCEPT !.subs = FALSE]
Upgraded == [Everything EXCEPT !.parser = 2, !.resources = "B"]
OnlyBuckets == [Everything EXCEPT !.detail = "buckets"]
Private == [Everything EXCEPT !.names = "off", !.project = FALSE, !.shares = FALSE]
MCSettings == {Everything, Alone, Upgraded, OnlyBuckets, Private}

VARIABLE scope
Reading(held, bounds) == scope = "read" /\ InitTranscripts(held, Everything, bounds)
Collecting(held, bounds) == scope = "collect" /\ InitTranscripts(held, Everything, bounds)
MCInit ==
    /\ InitCollection
    /\ \/ Reading(Nested(TRUE), Bounds(3, 4, 0, 0, 0))
       \/ Reading(Beside, Bounds(2, 3, 1, 1, 0))
       \/ Reading(Beside, Bounds(2, 2, 0, 0, 1))
       \/ Reading(Forked, Bounds(3, 3, 0, 1, 0))
       \/ Collecting(Small, Bounds(3, 2, 0, 1, 1))
MCNext ==
    /\ UNCHANGED scope
    /\ \/ scope = "read" /\ TranscriptNext /\ UNCHANGED collectionVars
       \/ scope = "collect" /\ CollectionNext
mcVars == <<transcriptVars, collectionVars, scope>>
Spec == MCInit /\ [][MCNext]_mcVars

\* Three runs of one file, nothing fails, the owner changes the settings twice.
LoosenedSpec ==
    InitCollection /\ Collecting(Single, Bounds(3, 1, 0, 0, 2)) /\ [][MCNext]_mcVars
=============================================================================
