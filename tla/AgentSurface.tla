---------------------------- MODULE AgentSurface ----------------------------
(***************************************************************************)
(* The pure core of agent-surface: what a configuration file yields        *)
(* (entries.ts, normalize.ts, redact.ts), how two sides are compared       *)
(* (diff.ts), what a difference is said to mean (direction.ts, the         *)
(* interpretations, categories.ts) and the exit code (verdict.ts).         *)
(*                                                                         *)
(* A parsed file is a set of items. An item has the section it stands in   *)
(* (at), its place there (slot: a list index, the name of a member, or the *)
(* pointer of a hook), its text and, for hooks and servers, the rest of    *)
(* what is written (more). The text of a permission rule is [tool, body,   *)
(* tail], that of a server is [scheme, target], every other one a string;  *)
(* Junk stands for a value of the wrong JSON type. The rest of a server is *)
(* its arguments, its environment and headers (sets of name, value pairs)  *)
(* and what is outside the documented set. The rest of a hook is its event *)
(* with its matcher, what else its entry keeps (type, prompt and timeout,  *)
(* of the documented types) and every other member of it and of its group, *)
(* which no entry holds. A digest is modelled as the raw text itself: two  *)
(* texts have the same digest only if they are equal.                      *)
(***************************************************************************)
EXTENDS Naturals, FiniteSets

CONSTANTS
    Secret,       \* the literals redact.ts recognises as credential-like
    Opaque,       \* Bash specs with &&, a wrapper, an assignment, a redirect
    Variables,    \* server targets that contain a $VAR reference
    Loopback,     \* server targets on a loopback host
    SensitiveEnv, \* the names isSensitiveEnvName accepts
    McpTools      \* tool names that start with mcp__

PermissionLists == {"allow", "ask", "deny"}
WideningModes == {"bypassPermissions", "auto", "dontAsk"}
NonWideningModes == {"acceptEdits", "plan", "default"}
IgnoredSpecTools == {"Write", "NotebookEdit", "Glob", "MultiEdit"}
PathTools == {"Read", "Edit"}

\* The supported files, in path order.
Files == {"settings", "local", "mcp"}
Rank == [settings |-> 1, local |-> 2, mcp |-> 3]

Junk == "junk"
None == "none"

-----------------------------------------------------------------------------
(* Redaction and normalization *)

Shown(text) == IF text \in Secret THEN "<redacted>" ELSE text

\* <field>_sha256: there only when the text shown differs from the raw one.
HiddenDigest(text) == IF Shown(text) # text THEN text ELSE None

\* A trailing ":*" and a trailing " *" are one spelling; an empty prefix
\* before either is the whole tool.
Canonical(rule) ==
    [tool |-> rule.tool,
     body |-> Shown(rule.body),
     tail |-> IF rule.tail \in {"colon", "space"}
              THEN IF rule.body = "" THEN "star" ELSE "trailing"
              ELSE rule.tail]

-----------------------------------------------------------------------------
(* Entries of one file *)

\* The strings of an item that redactTree walks, by the field they stand in.
Literals(i) ==
    CASE i.at \in PermissionLists -> {<<"rule", i.text.body>>}
      [] i.at = "hook" -> {<<"text", i.text>>, <<"kept", i.more.kept>>, <<"rest", i.more.rest>>}
      [] i.at = "mcp" -> {<<"target", i.text.target>>, <<"args", i.more.args>>,
                          <<"extra", i.more.extra>>} \cup i.more.env \cup i.more.headers
      [] OTHER -> {<<"text", i.text>>}

KindOf(i) ==
    CASE i.at \in PermissionLists -> "perm"
      [] i.at = "defaultMode" -> "mode"
      [] i.at = "env" -> "env_key"
      [] i.at = "flag" -> "plugin_flag"
      [] OTHER -> i.at

KeyOf(i) ==
    CASE i.at \in PermissionLists -> <<"perm", i.at, Canonical(i.text)>>
      [] i.at = "dir" -> <<"dir", Shown(i.text)>>
      [] i.at = "hook" -> <<"hook", i.more.event, i.text>>
      [] OTHER -> <<KindOf(i), i.slot>>

\* What the entry carries of the value: the text as displayed, the digest of
\* the raw text where there is one, and the other fields.  Of a hook it drops
\* every member but the six it names.
ValueOf(i) ==
    CASE i.at \in PermissionLists -> <<Canonical(i.text)>>
      [] i.at = "env" -> <<i.text>>
      [] i.at = "hook" -> <<Shown(i.text), HiddenDigest(i.text),
                            Shown(i.more.kept), HiddenDigest(i.more.kept)>>
      [] i.at = "helper" -> <<Shown(i.text), HiddenDigest(i.text)>>
      [] i.at = "mcp" ->
            [to |-> <<i.text.scheme, Shown(i.text.target), HiddenDigest(i.text.target)>>,
             args |-> IF i.more.args = Junk THEN <<None, None>>
                      ELSE <<Shown(i.more.args), HiddenDigest(i.more.args)>>,
             env |-> i.more.env, headers |-> i.more.headers,
             extra |-> Shown(i.more.extra)]
      [] OTHER -> <<Shown(i.text)>>

EntryOf(f, i) ==
    [kind |-> KindOf(i), key |-> KeyOf(i), value |-> ValueOf(i), file |-> f,
     slot |-> i.slot]

\* The string a literal was found in: a permission rule is one string.
WrittenAround(i, l) == IF i.at \in PermissionLists THEN i.text ELSE l[2]

\* Faulty variant of CredentialsOf: the entry carries no digest.
CredentialsUndigested(f, i) ==
    {[kind |-> "credential", key |-> <<"credential", i.at, i.slot, l[1]>>,
      value |-> <<"present">>, file |-> f, slot |-> i.slot]
        : l \in {m \in Literals(i) : m[2] \in Secret}}

CredentialsOf(f, i) ==
    {[kind |-> "credential", key |-> <<"credential", i.at, i.slot, l[1]>>,
      value |-> <<WrittenAround(i, l)>>, file |-> f, slot |-> i.slot]
        : l \in {m \in Literals(i) : m[2] \in Secret}}

\* A value the extractor cannot use: reported as incomplete at its pointer.
Unusable(i) ==
    CASE i.at \in PermissionLists -> i.text.tool = ""
      [] i.at = "mcp" -> i.more.args = Junk
      [] i.at \in {"dir", "defaultMode", "hook", "env", "helper"} -> i.text = Junk
      [] OTHER -> FALSE

\* A server with unusable arguments still yields its entry; no other
\* unusable value does.
Extract(f, items) ==
    [entries |->
        {EntryOf(f, i) : i \in {j \in items : ~Unusable(j) \/ j.at = "mcp"}}
            \cup UNION {CredentialsOf(f, i) : i \in items},
     incomplete |-> {<<f, i.at, i.slot>> : i \in {j \in items : Unusable(j)}}]

-----------------------------------------------------------------------------
(* The keyed difference of two sets of entries *)

NoEntry == [kind |-> None, key |-> <<None>>, value |-> <<None>>, file |-> None,
            slot |-> None]

Group(entries, k) == {e \in entries : e.key = k}

\* A group is represented by its first entry in the order of the files.
First(group) ==
    IF group = {} THEN NoEntry
    ELSE CHOOSE e \in group : \A o \in group : Rank[e.file] <= Rank[o.file]

\* The multiset of a group's semantic projections, with and without the file.
Signature(group) ==
    [x \in {<<e.file, e.value>> : e \in group} |->
        Cardinality({e \in group : <<e.file, e.value>> = x})]

ValueSignature(group) ==
    [x \in {e.value : e \in group} |-> Cardinality({e \in group : e.value = x})]

DeltaOf(base, head, k) ==
    LET was == Group(base, k)
        is == Group(head, k)
    IN [key |-> k, kind |-> First(was \cup is).kind,
        base |-> First(was), head |-> First(is),
        change |-> CASE is = {} -> "removed"
                     [] was = {} -> "added"
                     [] ValueSignature(was) = ValueSignature(is) -> "moved"
                     [] OTHER -> "changed"]

KeyedDeltas(base, head) ==
    {DeltaOf(base, head, k)
        : k \in {j \in {e.key : e \in base \cup head} :
                    Signature(Group(base, j)) # Signature(Group(head, j))}}

\* The hook deltas of one event, matcher and file that only appear (added)
\* or only disappear (removed).
HookDeltas(deltas, change, place) ==
    {d \in deltas : /\ d.kind = "hook"
                    /\ d.change = change
                    /\ LET e == IF change = "added" THEN d.head ELSE d.base
                       IN <<d.key[2], e.file>> = place}

\* One removed and one added hook of a place are one changed command.
RawDeltas(base, head) ==
    LET deltas == KeyedDeltas(base, head)
        hooks == {d \in deltas : d.kind = "hook" /\ d.change = "added"}
        places == {p \in {<<d.key[2], d.head.file>> : d \in hooks} :
                      /\ Cardinality(HookDeltas(deltas, "added", p)) = 1
                      /\ Cardinality(HookDeltas(deltas, "removed", p)) = 1}
        The(change, p) == CHOOSE d \in HookDeltas(deltas, change, p) : TRUE
    IN (deltas \ UNION {HookDeltas(deltas, c, p) : c \in {"added", "removed"},
                                                   p \in places})
         \cup {[The("added", p) EXCEPT !.change = "changed",
                                       !.base = The("removed", p).base] : p \in places}

-----------------------------------------------------------------------------
(* The direction table *)

WideningRules ==
    {"D-allow-added", "D-deny-removed", "D-hook-added", "D-hook-changed",
     "D-mcp-added", "D-mcp-changed", "D-env-sensitive-set", "D-enable-all-mcp",
     "D-mode-widened", "D-hooks-reenabled", "D-dir-added"}

NarrowingRules ==
    {"D-deny-added", "D-allow-removed", "D-hook-removed", "D-mcp-removed",
     "D-enable-all-mcp-off", "D-mode-narrowed", "D-hooks-disabled", "D-dir-removed"}

UnresolvedRules ==
    {"D-mcp-attrs-changed", "D-env-value-changed", "D-mode-unknown", "D-unknown"}

DirectionOf(rule) ==
    CASE rule \in WideningRules -> "widens"
      [] rule \in NarrowingRules -> "narrows"
      [] rule \in UnresolvedRules -> "unknown"
      [] OTHER -> "neutral"

ModeClass(e) ==
    IF e = NoEntry THEN "absent"
    ELSE IF e.value[1] \in WideningModes THEN "widening"
    ELSE IF e.value[1] \in NonWideningModes THEN "non-widening" ELSE "unknown"

ModeRule(d) ==
    LET from == ModeClass(d.base)
        to == ModeClass(d.head)
    IN IF "unknown" \in {from, to} THEN "D-mode-unknown"
       ELSE IF to = "widening" /\ from # "widening" THEN "D-mode-widened"
       ELSE IF from = "widening" /\ to # "widening" THEN "D-mode-narrowed" ELSE "D-mode-neutral"

\* A flag that changed is read from the head alone.
FlagRule(d, onTrue, offTrue) ==
    LET was == d.base.value[1]
        is == d.head.value[1]
    IN IF ~({was, is} \subseteq {"true", "false", None}) THEN "D-unknown"
       ELSE CASE d.change = "added" -> IF is = "true" THEN onTrue ELSE "D-flag-default"
              [] d.change = "removed" -> IF was = "true" THEN offTrue ELSE "D-flag-default"
              [] OTHER -> IF is = "true" THEN onTrue ELSE offTrue

\* Values of a server: those that are new or differ under a sensitive name,
\* and those whose name is on both sides with another digest.
McpRule(d) ==
    LET was == d.base.value
        is == d.head.value
        Altered(map) == {p \in is[map] : \E q \in was[map] : q[1] = p[1] /\ q[2] # p[2]}
    IN IF d.change = "added" THEN "D-mcp-added"
       ELSE IF d.change = "removed" THEN "D-mcp-removed"
       ELSE IF was.to # is.to \/ was.args # is.args THEN "D-mcp-changed"
       ELSE IF \E p \in is.env \ was.env : p[1] \in SensitiveEnv THEN "D-env-sensitive-set"
       ELSE IF Altered("env") \cup Altered("headers") # {} THEN "D-env-value-changed"
       ELSE "D-mcp-attrs-changed"

EnvRule(d) ==
    IF d.change = "removed" THEN "D-unknown"
    ELSE IF d.key[2] \in SensitiveEnv THEN "D-env-sensitive-set"
    ELSE IF d.change = "changed" THEN "D-env-value-changed" ELSE "D-unknown"

PermRule(d) ==
    IF d.change = "changed" THEN "D-moved"
    ELSE CASE <<d.key[2], d.change>> = <<"allow", "added">> -> "D-allow-added"
           [] <<d.key[2], d.change>> = <<"ask", "added">> -> "D-ask-added"
           [] <<d.key[2], d.change>> = <<"deny", "added">> -> "D-deny-added"
           [] <<d.key[2], d.change>> = <<"allow", "removed">> -> "D-allow-removed"
           [] <<d.key[2], d.change>> = <<"ask", "removed">> -> "D-ask-removed"
           [] OTHER -> "D-deny-removed"

HookRule(d) ==
    CASE d.change = "added" -> "D-hook-added"
      [] d.change = "removed" -> "D-hook-removed"
      [] OTHER -> IF d.base.key # d.head.key THEN "D-hook-changed" ELSE "D-hook-attrs-changed"

RuleOf(d) ==
    IF d.change = "moved" THEN "D-moved" ELSE
    CASE d.kind = "perm" -> PermRule(d)
      [] d.kind = "hook" -> HookRule(d)
      [] d.kind = "mcp" -> McpRule(d)
      [] d.kind = "env_key" -> EnvRule(d)
      [] d.kind = "dir" -> CASE d.change = "added" -> "D-dir-added"
                             [] d.change = "removed" -> "D-dir-removed"
                             [] OTHER -> "D-moved"
      [] d.kind = "mode" -> ModeRule(d)
      [] d.key = <<"plugin_flag", "enableAllProjectMcpServers">> ->
            FlagRule(d, "D-enable-all-mcp", "D-enable-all-mcp-off")
      [] d.key = <<"plugin_flag", "disableAllHooks">> ->
            FlagRule(d, "D-hooks-disabled", "D-hooks-reenabled")
      [] OTHER -> "D-unknown"

-----------------------------------------------------------------------------
(* The interpretations: the claims made about the subject of a delta *)

\* A claim: the breadth and the direction it sets (None where it sets none),
\* its tier and its flag.
Claim(breadth, direction, tier, flag) ==
    [breadth |-> breadth, direction |-> direction, tier |-> tier, flag |-> flag]

Scoped(rule) == rule.tail \notin {"bare", "star"}

\* I1: the same rule string in an earlier list (deny, ask, allow).
Shadowing(e, entries) ==
    LET earlier == IF e.key[2] = "allow" THEN {"deny", "ask"}
                   ELSE IF e.key[2] = "ask" THEN {"deny"} ELSE {}
    IN IF \E o \in entries : \E list \in earlier : o.key = <<"perm", list, e.key[3]>>
       THEN {Claim(None, "neutral", "projected", "shadowed")} ELSE {}

\* I2: a bare tool or Tool(*) is the whole tool.
WholeTool(rule) ==
    IF ~Scoped(rule) THEN {Claim("whole_tool", None, "proven", None)} ELSE {}

\* I3 and I4: how far a Bash spec reaches, by where its wildcard stands.
BashBreadth(rule) ==
    IF rule.tool # "Bash" \/ ~Scoped(rule) THEN {}
    ELSE CASE rule.tail = "trailing" -> {Claim("prefix", None, "projected", None)}
           [] rule.tail = "exact" -> {Claim("exact", None, "proven", None)}
           [] rule.tail = "stuck" -> {Claim("glob", None, "projected", "breadth_unresolved")}
           [] OTHER -> {Claim("glob", None, "projected", "breadth_unresolved"),
                        Claim("glob", None, "projected", "broad")}

\* Faulty variant of IgnoredShape: an unanchored glob is ignored in any list.
IgnoredInAnyList(list, rule) ==
    /\ Scoped(rule)
    /\ \/ rule.tool \in IgnoredSpecTools \cup McpTools
       \/ rule.tool \in PathTools /\ rule.tail = "lead"

\* I8: shapes the documentation says are not evaluated.
IgnoredShape(list, rule) ==
    /\ Scoped(rule)
    /\ \/ rule.tool \in IgnoredSpecTools \cup McpTools
       \/ list = "allow" /\ rule.tool \in PathTools /\ rule.tail = "lead"

\* The list of what is deliberately not interpreted.
NotInterpretedRule(rule) ==
    /\ Scoped(rule)
    /\ \/ rule.tool = "Bash" /\ rule.body \in Opaque
       \/ rule.tool \in PathTools /\ rule.tail # "lead"
       \/ rule.tool \notin {"Bash"} \cup PathTools \cup IgnoredSpecTools \cup McpTools

PermClaims(e, entries) ==
    LET rule == e.key[3]
    IN Shadowing(e, entries)
         \cup (IF IgnoredShape(e.key[2], rule)
               THEN {Claim(None, "neutral", "proven", "ignored_by_claude_code")} ELSE {})
         \cup (IF NotInterpretedRule(rule)
               THEN {Claim(None, None, "unresolved", None)}
               ELSE WholeTool(rule) \cup BashBreadth(rule))

\* I5: a mode outside the documented values is never decided.
ModeClaims(e) ==
    IF ModeClass(e) = "unknown" THEN {Claim(None, "unknown", "unresolved", None)} ELSE {}

\* I7: how a server is reached.
McpClaims(e) ==
    LET scheme == e.value.to[1]
        target == e.value.to[2]
    IN IF scheme \notin {"stdio", "http", "https"} \/ target = Junk
       THEN {Claim(None, None, "unresolved", None)}
       ELSE IF target \in Variables THEN {Claim(None, None, "unresolved", "variable_reference")}
       ELSE IF scheme = "http" /\ target \notin Loopback
       THEN {Claim(None, None, "proven", "plaintext")} ELSE {}

ClaimsOn(e, entries) ==
    CASE e.kind = "perm" -> PermClaims(e, entries)
      [] e.kind = "mode" -> ModeClaims(e)
      [] e.kind = "mcp" -> McpClaims(e)
      [] e.key = <<"plugin_flag", "enabledPlugins">> ->
            {Claim(None, None, "unresolved", None)}
      [] OTHER -> {}

Weakest(tiers) ==
    IF "unresolved" \in tiers THEN "unresolved"
    ELSE IF "projected" \in tiers THEN "projected" ELSE "proven"

CategoryOf(rule, breadth) ==
    CASE rule = "D-allow-added" ->
            IF breadth = "whole_tool" THEN "whole-tool-allow" ELSE "scoped-allow"
      [] rule = "D-deny-removed" -> "deny-removed"
      [] rule \in {"D-hook-added", "D-hook-changed"} -> "hook"
      [] rule \in {"D-mcp-added", "D-mcp-changed", "D-enable-all-mcp"} -> "mcp"
      [] rule = "D-mode-widened" -> "mode"
      [] rule = "D-dir-added" -> "directory"
      [] rule = "D-hooks-reenabled" -> "hooks-reenabled"
      [] rule = "D-env-sensitive-set" -> "env"
      [] OTHER -> None

\* A delta with its rule, and the claims about its subject merged into it:
\* a claim that names a direction overrides the table's, and the tier is the
\* weakest of those that speak about the direction.
Classify(d, base, head) ==
    LET rule == RuleOf(d)
        subject == IF d.head # NoEntry THEN d.head ELSE d.base
        claims == ClaimsOn(subject, IF d.head # NoEntry THEN head ELSE base)
        directed == {c \in claims : c.direction # None}
        measured == {c \in claims : c.breadth # None}
        direction == IF directed = {} THEN DirectionOf(rule)
                     ELSE (CHOOSE c \in directed : TRUE).direction
        breadth == IF measured = {} THEN "unknown"
                   ELSE (CHOOSE c \in measured : TRUE).breadth
    IN [key |-> d.key, rule |-> rule, change |-> d.change, direction |-> direction,
        tier |-> Weakest({IF rule \in UnresolvedRules THEN "unresolved" ELSE "proven"}
                           \cup {c.tier : c \in directed}
                           \cup {c.tier : c \in {x \in claims : x.tier = "unresolved"}}),
        breadth |-> breadth,
        breadth_tier |-> Weakest({c.tier : c \in measured}),
        flags |-> ({c.flag : c \in claims} \ {None})
                    \cup (IF subject.file = "local" THEN {"tracked_local"} ELSE {}),
        category |-> IF direction = "widens" THEN CategoryOf(rule, breadth) ELSE None]

Deltas(base, head) == {Classify(d, base, head) : d \in RawDeltas(base, head)}

-----------------------------------------------------------------------------
(* The verdict *)

Categories ==
    {"hook", "mcp", "mode", "whole-tool-allow", "directory", "hooks-reenabled",
     "deny-removed", "env", "scoped-allow"}

DefaultFailing == Categories \ {"scoped-allow"}

\* --fail-on: the named categories replace the default ones; naming only
\* "projected" keeps them.
FailingCategories(names) ==
    IF names \ {"projected"} = {} THEN DefaultFailing ELSE names \ {"projected"}

IsUndecided(d) == d.tier # "proven" \/ "breadth_unresolved" \in d.flags

IsProjectedWidening(d) ==
    d.direction = "widens" /\ "projected" \in {d.tier, d.breadth_tier}

Expands(deltas, names) ==
    \E d \in deltas : /\ d.direction = "widens"
                      /\ d.tier = "proven"
                      /\ d.category \in FailingCategories(names)

Verdict(deltas, incomplete, names) ==
    IF incomplete # {} THEN "incomplete"
    ELSE IF \/ Expands(deltas, names)
            \/ "projected" \in names /\ \E d \in deltas : IsProjectedWidening(d) THEN "expands"
    ELSE IF \E d \in deltas : IsUndecided(d) THEN "undecided"
    ELSE IF deltas = {} THEN "no-change" ELSE "pass"

ExitCode(verdict, strict) ==
    CASE verdict = "incomplete" -> 3
      [] verdict = "expands" -> 1
      [] verdict = "undecided" -> IF strict THEN 1 ELSE 2
      [] OTHER -> 0
=============================================================================
