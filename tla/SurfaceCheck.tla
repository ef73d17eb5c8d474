---------------------------- MODULE SurfaceCheck ----------------------------
(***************************************************************************)
(* One invocation after another of "agent-surface check" (cli.ts), reading *)
(* its two sides through git, from a directory or from a saved snapshot    *)
(* (git.ts, discover.ts, snapshot.ts, snapshotfile.ts) while branches move *)
(* and the worktree is switched under it, in a repository that merges a    *)
(* change when the check of its head exits 0 (docs/integration.md).        *)
(*                                                                         *)
(* A commit is its tree: what each supported file holds.  A ref is the     *)
(* tree it names now; a resolved ref is that tree for good.                *)
(***************************************************************************)
EXTENDS AgentSurface

CONSTANTS
    Themes,     \* sets of <<file, item>>: what the files of a behaviour may hold
    Unreadable, \* files git may fail to read after the lookup (a bound)
    MaxItems,   \* items in the first tree
    MaxMerges,  \* merges in a behaviour
    MaxMoves    \* merges up to which a branch is reset or a worktree compared

ASSUME CheckBounds == Unreadable \subseteq Files /\ {MaxItems, MaxMerges, MaxMoves} \subseteq Nat

Sections ==
    PermissionLists \cup {"defaultMode", "env", "flag", "hook", "dir", "mcp", "helper",
                          "sandbox", "unknown"}

\* An item stands in a section of a supported file; servers are taken from
\* .mcp.json alone (entries.ts:260-264).
WellPlaced(p) ==
    /\ p = <<p[1], p[2]>> /\ p[1] \in Files
    /\ p[2].at \in Sections
    /\ p[2].at = "mcp" => p[1] = "mcp"

\* The fields of an item; the labels of a server's own literals are no names
\* of its environment or headers.
IsItem(i) ==
    /\ i = [at |-> i.at, slot |-> i.slot, text |-> i.text, more |-> i.more]
    /\ i.at \notin {"hook", "mcp"} => i.more = None
    /\ i.at = "hook" =>
          i.more = [event |-> i.more.event, kept |-> i.more.kept, rest |-> i.more.rest]
    /\ i.at = "mcp" =>
          /\ i.text = [scheme |-> i.text.scheme, target |-> i.text.target]
          /\ i.more = [args |-> i.more.args, env |-> i.more.env,
                       headers |-> i.more.headers, extra |-> i.more.extra]
          /\ \A v \in i.more.env \cup i.more.headers : v[1] \notin {"target", "args", "extra"}

ASSUME ThemesAssumption ==
    \A t \in Themes : IsFiniteSet(t) /\ \A p \in t : WellPlaced(p) /\ IsItem(p[2])

\* Neither what redaction writes nor a missing value is taken for a credential.
ASSUME SecretAssumption == Secret \cap {"<redacted>", None} = {}

VARIABLES
    theme,    \* the items this behaviour's files may hold
    trusted,  \* the tree of main at the start, and the one saved as a baseline
    main,     \* the tree main names
    pr,       \* the tree the branch under review names
    work,     \* the tree checked out in the worktree
    merges,
    overlooked, \* history: what the items say that an admitted check did not look at
    scan      \* the invocation in progress, or the last one

vars == <<theme, trusted, main, pr, work, merges, overlooked, scan>>
repository == <<theme, trusted, main, pr, work, merges, overlooked>>

-----------------------------------------------------------------------------
(* Trees and sides *)

\* What a supported file is: not there, there and not usable (a tree object,
\* a link out of the root, over the size limit, not JSONC, a duplicate key),
\* not under git's control, or the items it parses to.
Content(status, items) == [status |-> status, items |-> items]
Broken == Content("incomplete", {})

Tree(placed) ==
    [f \in Files |->
        LET here == {p[2] : p \in {q \in placed : q[1] = f}}
        IN Content(IF here = {} THEN "absent" ELSE "read", here)]

Placed(tree) == UNION {{<<f, i>> : i \in tree[f].items} : f \in Files}

\* The entries and the incomplete records of one file that was looked at.
ReadOf(f, content) ==
    CASE content.status = "read" -> Extract(f, content.items)
      [] content.status = "incomplete" -> [entries |-> {}, incomplete |-> {<<f, "file", "">>}]
      [] OTHER -> [entries |-> {}, incomplete |-> {}]

SnapshotOf(tree) ==
    [entries |-> UNION {ReadOf(f, tree[f]).entries : f \in Files},
     incomplete |-> UNION {ReadOf(f, tree[f]).incomplete : f \in Files}]

\* A side: its kind, the tree it was taken from, the files still to be read,
\* what was found in the others, and (a history) the files whose lookup failed.
Side(kind, tree, left, found) ==
    [kind |-> kind, tree |-> tree, left |-> left, lost |-> {},
     entries |-> found.entries, incomplete |-> found.incomplete]

Nothing == [entries |-> {}, incomplete |-> {}]
NoSide == Side(None, Tree({}), {}, Nothing)
RefSide(tree) == Side("ref", tree, Files, Nothing)
WorktreeSide == Side("worktree", Tree({}), Files, Nothing)

\* The side after the files that hold these contents were read.
Read(side, found) ==
    [side EXCEPT !.left = @ \ DOMAIN found,
                 !.entries = @ \cup UNION {ReadOf(f, found[f]).entries : f \in DOMAIN found},
                 !.incomplete =
                    @ \cup UNION {ReadOf(f, found[f]).incomplete : f \in DOMAIN found}]

\* A tree of which some files are not found, and the part of a side's tree
\* that the check was shown.
Without(tree, files) == [f \in Files |-> IF f \in files THEN Content("absent", {}) ELSE tree[f]]
Seen(side) == Without(side.tree, side.lost)

\* A saved snapshot is carried through verbatim; no file is read again.  It
\* lacks what git lost when it was taken.
SavedSide(tree, missing) ==
    [Side("snapshot", tree, {}, SnapshotOf(Without(tree, missing))) EXCEPT !.lost = missing]

\* What is found of a tree when git fails on some files and does not find others.
Found(tree, failed, missing) ==
    [f \in Files |-> IF f \in failed THEN Broken ELSE Without(tree, missing)[f]]

\* Faulty variant of ReadRef: the files are read by the name of the ref.
ReadByName(side) == {Read(side, IF side.tree = main THEN main ELSE pr)}

\* At a ref every file is the blob of the commit the ref was resolved to.  A
\* lookup that ends with any status but 0, or is killed, is taken for a file
\* that is not there; git not started, or failing after the lookup, makes the
\* file unreadable.
ReadRef(side) ==
    UNION {
        {[Read(side, Found(side.tree, failed, missing)) EXCEPT !.lost = missing] :
            missing \in SUBSET {f \in Files \ failed : side.tree[f].status # "absent"}}
        : failed \in SUBSET Unreadable}

NextFile(side) == CHOOSE f \in side.left : \A g \in side.left : Rank[f] <= Rank[g]

\* In a worktree a file is what is there when it is read, one after another.
\* settings.local.json is left out when git says it is not tracked, or when
\* git says nothing.
ReadWorktree(side) ==
    LET f == NextFile(side)
    IN {Read(side, [g \in {f} |-> content]) :
            content \in {work[f]} \cup
                (IF f = "local" /\ work[f].status # "absent"
                 THEN {Content("ignored", {})} ELSE {})}

-----------------------------------------------------------------------------
(* What a tree lets the agent do *)

Items(tree, sections) == {i \in UNION {tree[f].items : f \in Files} : i.at \in sections}

Rules(tree, list) == {Canonical(i.text) : i \in Items(tree, {list})}

\* What a tree lets the agent run or reach without being asked: hooks,
\* servers and what they are given, directories, whole tools not denied,
\* a widening mode, every server enabled.  A directory named by what redaction
\* writes is left out: its key is that of every redacted one (entries.ts:372),
\* so next to one of those it comes as a move.
Grants(tree) ==
    {<<"hook", i.more.event, i.text>> : i \in Items(tree, {"hook"})}
      \cup {<<"server", i.slot, i.text.scheme, i.text.target, i.more.args>> :
                i \in Items(tree, {"mcp"})}
      \cup {<<"environment", p>> :
                p \in {<<i.slot, i.text>> : i \in Items(tree, {"env"})}
                        \cup UNION {i.more.env : i \in Items(tree, {"mcp"})}}
      \cup {<<"directory", i.text>> :
                i \in {j \in Items(tree, {"dir"}) : j.text # "<redacted>"}}
      \cup {<<"tool", r>> : r \in {q \in Rules(tree, "allow") : ~Scoped(q)} \ Rules(tree, "deny")}
      \cup {<<"mode">> : i \in {j \in Items(tree, {"defaultMode"}) : j.text \in WideningModes}}
      \cup {<<"every server">> :
                i \in {j \in Items(tree, {"flag"}) :
                          j.slot = "enableAllProjectMcpServers" /\ j.text = "true"}}

\* What it forbids: denied rules of a shape that is evaluated, every hook.
Limits(tree) ==
    {<<"deny", r>> : r \in {q \in Rules(tree, "deny") :
                               ~Scoped(q) \/ q.tool \notin IgnoredSpecTools \cup McpTools}}
      \cup {<<"no hooks">> :
                i \in {j \in Items(tree, {"flag"}) :
                          j.slot = "disableAllHooks" /\ j.text = "true"}}

\* What one item grants or forbids; a denied rule also keeps a tool from being
\* granted.
Says(p) ==
    LET alone == Tree({p})
    IN Grants(alone) \cup Limits(alone)
         \cup {<<"tool", r>> : r \in Rules(alone, "deny")}

\* The modes and flags that stand in an earlier file as well: a comparison
\* takes a key from the first file that has it.
Doubled(tree) ==
    {p \in Placed(tree) :
        /\ p[2].at \in {"defaultMode", "flag"}
        /\ \E q \in Placed(tree) : KeyOf(q[2]) = KeyOf(p[2]) /\ Rank[q[1]] < Rank[p[1]]}

\* What a check of this side does not look at.
Unseen(side) == {p \in Placed(side.tree) : p[1] \in side.lost} \cup Doubled(Seen(side))

-----------------------------------------------------------------------------
(* The repository *)

\* inside: a directory or snapshot of the check lies in the repository.
Idle == [phase |-> "idle", base |-> NoSide, head |-> NoSide, inside |-> FALSE,
         verdict |-> None, exit |-> 0]

\* Faulty variant of Incomplete: the exit code is left alone.
IncompleteOnly(check) == [check EXCEPT !.phase = "done", !.verdict = "incomplete"]

Incomplete(check) == [check EXCEPT !.phase = "done", !.verdict = "incomplete", !.exit = 3]

\* A place of a file holds one value.
WellFormed(placed) ==
    \A p, q \in placed :
        <<p[1], p[2].at, p[2].slot>> = <<q[1], q[2].at, q[2].slot>> => p = q

SmallTrees(t) ==
    {Tree(s) : s \in {u \in SUBSET t : Cardinality(u) <= MaxItems /\ WellFormed(u)}}

\* One change to what the files hold: at most one item goes, one comes.
Edits(tree) ==
    {Tree(s) : s \in {u \in {(Placed(tree) \ gone) \cup come :
                                gone \in {{}} \cup {{p} : p \in Placed(tree)},
                                come \in {{}} \cup {{p} : p \in theme \ Placed(tree)}}
                       : WellFormed(u)}}

Init ==
    /\ theme \in Themes
    /\ trusted \in SmallTrees(theme)
    /\ main = trusted
    /\ pr = trusted
    /\ work = trusted
    /\ merges = 0
    /\ overlooked = {}
    /\ scan = Idle

\* The author pushes the change to be reviewed, none after the last merge; a
\* file of it may not parse.
Push ==
    /\ scan.phase = "idle"
    /\ merges < MaxMerges
    /\ pr' \in (Edits(main) \cup {[main EXCEPT ![f] = Broken] : f \in Files}) \ {main}
    /\ pr = main
    /\ UNCHANGED <<theme, trusted, main, work, merges, overlooked, scan>>

\* While a check runs the branch is reset, or the worktree switched.
ResetBranch ==
    /\ scan.phase = "read"
    /\ scan.head.kind = "ref"
    /\ merges <= MaxMoves
    /\ pr # main
    /\ pr' = main
    /\ UNCHANGED <<theme, trusted, main, work, merges, overlooked, scan>>

Checkout ==
    /\ scan.head.kind = "worktree"
    /\ scan.phase = "read"
    /\ work # pr
    /\ work' = pr
    /\ UNCHANGED <<theme, trusted, main, pr, merges, overlooked, scan>>

-----------------------------------------------------------------------------
(* check --base <side> --head <side> *)

\* A side that does not resolve: a missing ref or directory, a snapshot file
\* of another schema version.
Unresolvable ==
    /\ scan.inside \in BOOLEAN
    /\ scan.phase \in {"idle", "head"}
    /\ pr # main
    /\ scan' = Incomplete(scan)
    /\ UNCHANGED repository

ResolveBase ==
    /\ scan.phase = "idle"
    /\ pr # main
    /\ \/ scan' = [scan EXCEPT !.phase = "head", !.base = RefSide(main)]
       \/ \E inside \in BOOLEAN, missing \in SUBSET {f \in Files : trusted[f].status # "absent"} :
            scan' = [scan EXCEPT !.phase = "head", !.base = SavedSide(trusted, missing),
                                 !.inside = inside]
    /\ UNCHANGED repository

ResolveHead ==
    /\ scan.phase = "head"
    /\ \/ scan' = [scan EXCEPT !.phase = "guard", !.head = RefSide(pr)]
       \/ /\ merges <= MaxMoves
          /\ \E inside \in BOOLEAN :
               scan' = [scan EXCEPT !.phase = "guard", !.head = WorktreeSide,
                                    !.inside = @ \/ inside]
    /\ UNCHANGED repository

\* A directory or snapshot inside the repository is refused, unless
\* --allow-in-repo is given or git names no top level.
GuardInRepo(accepted) ==
    /\ scan.phase = "guard"
    /\ scan' = IF scan.inside /\ ~accepted
               THEN Incomplete(scan)
               ELSE [scan EXCEPT !.phase = "read", !.inside = FALSE]
    /\ UNCHANGED repository

\* takeSnapshot of the base, then of the head.
ReadBase ==
    /\ scan.phase = "read"
    /\ scan.base.left # {}
    /\ \E side \in ReadRef(scan.base) : scan' = [scan EXCEPT !.base = side]
    /\ UNCHANGED repository

ReadHead ==
    /\ scan.phase = "read"
    /\ scan.base.left = {}
    /\ scan.head.left # {}
    /\ \E side \in IF scan.head.kind = "ref" THEN ReadRef(scan.head)
                                            ELSE ReadWorktree(scan.head) :
          scan' = [scan EXCEPT !.head = side]
    /\ UNCHANGED repository

\* diffSnapshots and the exit code, with the default --fail-on.
Conclude(strict) ==
    /\ scan.phase = "read"
    /\ scan.base.left \cup scan.head.left = {}
    /\ LET verdict == Verdict(Deltas(scan.base.entries, scan.head.entries),
                              scan.base.incomplete \cup scan.head.incomplete, {})
       IN scan' = [scan EXCEPT !.phase = "done", !.verdict = verdict,
                               !.exit = ExitCode(verdict, strict)]
    /\ UNCHANGED repository

\* A change whose two commits were compared with exit 0 is merged.
Merge ==
    /\ scan.phase = "done"
    /\ scan.base.kind = "ref"
    /\ scan.head.kind = "ref"
    /\ scan.exit = 0
    /\ merges < MaxMerges
    /\ main' = scan.head.tree
    /\ pr' = main'
    /\ work' = main'
    /\ merges' = merges + 1
    /\ overlooked' = overlooked \cup UNION {Says(p) : p \in Unseen(scan.base) \cup Unseen(scan.head)}
    /\ scan' = Idle
    /\ UNCHANGED <<theme, trusted>>

Dismiss ==
    /\ scan.phase = "done"
    /\ pr' = main
    /\ work' = main
    /\ scan' = Idle
    /\ UNCHANGED <<theme, trusted, main, merges, overlooked>>

Next ==
    \/ Push
    \/ ResetBranch
    \/ Checkout
    \/ Unresolvable
    \/ ResolveBase
    \/ ResolveHead
    \/ \E accepted \in BOOLEAN : GuardInRepo(accepted)
    \/ ReadBase
    \/ ReadHead
    \/ \E strict \in BOOLEAN : Conclude(strict)
    \/ Merge
    \/ Dismiss

Spec == Init /\ [][Next]_vars

-----------------------------------------------------------------------------
(* Properties *)

Contents == [status : {"absent", "read", "incomplete", "ignored"},
             items : SUBSET {p[2] : p \in theme}]

IsSide(side) ==
    /\ side.kind \in {None, "ref", "worktree", "snapshot"}
    /\ side.left \subseteq Files /\ side.lost \subseteq Files
    /\ \A f \in Files : side.tree[f] \in Contents

\* The shape of the state, and the exit code that goes with each verdict
\* (the table at the head of verdict.ts).
TypeOK ==
    /\ theme \in Themes
    /\ \A t \in {trusted, main, pr, work}, f \in Files : t[f] \in Contents
    /\ merges \in 0..MaxMerges
    /\ scan.inside \in BOOLEAN
    /\ scan.phase \in {"idle", "head", "guard", "read", "done"}
    /\ IsSide(scan.base) /\ IsSide(scan.head)
    /\ <<scan.verdict, scan.exit>> \in
          {<<None, 0>>, <<"no-change", 0>>, <<"pass", 0>>, <<"expands", 1>>,
           <<"undecided", 1>>, <<"undecided", 2>>, <<"incomplete", 3>>}

Settled == scan.verdict \notin {None, "incomplete"}

\* A verdict other than "incomplete" compares commits: each side given as a
\* ref holds the entries of the commit that ref named when it was resolved, all
\* of them and nothing unreadable among them, however the ref moved since.  The
\* one thing it may lack is a file whose lookup failed, which the code takes
\* for a file that is not there (git.ts:170-177, discover.ts).
ReviewedSidesAreCommits ==
    Settled =>
        \A side \in {scan.base, scan.head} :
            side.kind = "ref" =>
                /\ side.left = {}
                /\ side.entries = SnapshotOf(Seen(side)).entries
                /\ SnapshotOf(Seen(side)).incomplete = {}

\* agent-surface/README.md:11 and git.ts:166: the tool never renders an
\* incomplete scan as clean, and a file is absent when its path is missing.  So
\* two commits that pass were both read whole.  The code does not keep this.
CleanScansAreWhole ==
    (Settled /\ scan.exit = 0) =>
        \A side \in {scan.base, scan.head} :
            side.kind = "ref" => side.entries = SnapshotOf(side.tree).entries

\* What an item says, without the spelling of a rule, its index in a list or a
\* group, and what a hook holds besides its documented members.  The text is
\* the raw one, before redaction; where a rule or a directory is redacted its
\* place counts, for the credential entry names it.
Sense(p) ==
    LET i == p[2]
        plain == CredentialsOf(p[1], i) = {}
        loose == i.at = "hook" \/ (i.at \in PermissionLists \cup {"dir"} /\ plain)
    IN <<p[1], i.at, IF loose THEN None ELSE i.slot,
         IF i.at \in PermissionLists /\ plain THEN Canonical(i.text) ELSE i.text,
         IF i.at = "hook" THEN <<i.more.event, i.more.kept>> ELSE i.more>>

\* The recognised literals of the hooks, each at its place: in a member that
\* no entry holds they are still found.
HookSecrets(tree) ==
    UNION {CredentialsOf(p[1], p[2]) : p \in {q \in Placed(tree) : q[2].at = "hook"}}

\* How often each thing is said, and the literals hooks hold.
Meaning(tree) ==
    <<[x \in {Sense(p) : p \in Placed(tree)} |->
          Cardinality({p \in Placed(tree) : Sense(p) = x})],
      HookSecrets(tree)>>

\* "no-change" is said exactly when the parts of the two sides that were found
\* mean the same: a change inside a redacted literal is still a change, and a
\* rule that is only spelled differently or stands at another index is none
\* (entries.ts:25-42 and 624-629).  What a hook holds besides event, matcher,
\* type, command, prompt and timeout is no part of the meaning: extractHook
\* drops it (entries.ts:431-438).
NoChangeMeansSame ==
    (Settled /\ scan.base.kind # "worktree" /\ scan.head.kind = "ref") =>
        (scan.verdict = "no-change" <=> Meaning(Seen(scan.base)) = Meaning(Seen(scan.head)))

Sensitive(g) == g[1] # "environment" \/ g[2][1] \in SensitiveEnv

\* A chain of merges, each admitted by exit 0, leads nowhere one check would
\* not: main grants nothing the trusted tree did not and still forbids all it
\* did (README.md:43 and the default failing categories, categories.ts:26),
\* except for what stood in a file an admitted check took for absent, and a
\* mode or flag below another file's of the same name, of which the comparison
\* reads the first alone (diff.ts:83).  Each check compares two neighbours only.
AdmittedStepsAddUp ==
    /\ {g \in Grants(main) : Sensitive(g)} \subseteq Grants(trusted) \cup overlooked
    /\ Limits(trusted) \subseteq Limits(main) \cup overlooked
=============================================================================
