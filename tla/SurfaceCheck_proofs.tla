---------------------------- MODULE SurfaceCheck_proofs ----------------------------
(***************************************************************************)
(* What a verdict of agent-surface is about, for every theme of files,     *)
(* every set of recognised literals, any number of merges and any failures *)
(* of git: which commits it compares, that a chain of admitted merges is   *)
(* no looser than the tree it began with, but for what the checks did not  *)
(* look at, and that "no-change" means no change of what they did.         *)
(***************************************************************************)
EXTENDS SurfaceCheck, FiniteSetTheorems, FunctionTheorems, TLAPS

-----------------------------------------------------------------------------
(* One side.                                                               *)

Whole(side) ==
    /\ side.entries = SnapshotOf(Seen(side)).entries
    /\ side.incomplete = SnapshotOf(Seen(side)).incomplete

\* A ref is read all at once: before, nothing is known of it; after, all of it
\* but the files whose lookup failed, or something is on record as unreadable.
RefInv(side) ==
    side.kind = "ref" =>
        /\ DOMAIN side.tree = Files
        /\ side.lost \subseteq Files
        /\ \/ side.left = Files /\ side.entries = {} /\ side.incomplete = {}
           \/ side.left = {} /\ (Whole(side) \/ side.incomplete # {})

Sides == {"kind", "tree", "left", "lost", "entries", "incomplete"}

LEMMA RefSideHolds ==
    ASSUME NEW tree, DOMAIN tree = Files
    PROVE  RefInv(RefSide(tree)) /\ DOMAIN RefSide(tree) = Sides
BY DEF RefInv, RefSide, Side, Nothing, Sides

LEMMA OtherSideHolds ==
    ASSUME NEW tree, NEW missing
    PROVE  /\ RefInv(SavedSide(tree, missing)) /\ DOMAIN SavedSide(tree, missing) = Sides
           /\ SavedSide(tree, missing).kind = "snapshot" /\ SavedSide(tree, missing).left = {}
           /\ RefInv(WorktreeSide) /\ DOMAIN WorktreeSide = Sides /\ WorktreeSide.kind = "worktree"
           /\ RefInv(NoSide) /\ DOMAIN NoSide = Sides /\ NoSide.kind # "ref" /\ NoSide.left = {}
BY DEF RefInv, SavedSide, WorktreeSide, NoSide, Side, Sides, None

\* A file that is looked at and does not read is on record.
LEMMA BrokenIsOnRecord ==
    ASSUME NEW f
    PROVE  <<f, "file", "">> \in ReadOf(f, Broken).incomplete
BY DEF ReadOf, Broken, Content

LEMMA ReadIs ==
    ASSUME NEW side, DOMAIN side = Sides, NEW found
    PROVE  /\ DOMAIN Read(side, found) = Sides
           /\ Read(side, found).kind = side.kind /\ Read(side, found).tree = side.tree
           /\ Read(side, found).left = side.left \ DOMAIN found
           /\ Read(side, found).lost = side.lost
           /\ Read(side, found).entries =
                 side.entries \cup UNION {ReadOf(f, found[f]).entries : f \in DOMAIN found}
           /\ Read(side, found).incomplete =
                 side.incomplete \cup UNION {ReadOf(f, found[f]).incomplete : f \in DOMAIN found}
BY DEF Read, Sides

\* What ReadRef gives: the files it lost, those it failed on, and the contents found.
LEMMA ReadRefIs ==
    ASSUME NEW side, DOMAIN side = Sides, NEW after \in ReadRef(side)
    PROVE  \E failed \in SUBSET Files, missing \in SUBSET Files :
              LET found == Found(side.tree, failed, missing)
              IN  /\ DOMAIN after = Sides /\ after.kind = side.kind /\ after.tree = side.tree
                  /\ after.lost = missing /\ after.left = side.left \ Files
                  /\ after.entries =
                        side.entries \cup UNION {ReadOf(f, found[f]).entries : f \in Files}
                  /\ after.incomplete =
                        side.incomplete \cup UNION {ReadOf(f, found[f]).incomplete : f \in Files}
<1>1. PICK failed \in SUBSET Files, missing \in SUBSET Files :
         after = [Read(side, Found(side.tree, failed, missing)) EXCEPT !.lost = missing]
    <2>1. PICK failed \in SUBSET Unreadable :
             after \in {[Read(side, Found(side.tree, failed, missing)) EXCEPT !.lost = missing] :
                           missing \in SUBSET {f \in Files \ failed : side.tree[f].status # "absent"}}
        BY DEF ReadRef
    <2>2. PICK missing \in SUBSET {f \in Files \ failed : side.tree[f].status # "absent"} :
             after = [Read(side, Found(side.tree, failed, missing)) EXCEPT !.lost = missing]
        BY <2>1
    <2>3. failed \in SUBSET Files /\ missing \in SUBSET Files
        BY CheckBounds
    <2>. QED  BY <2>2, <2>3
<1>. DEFINE found == Found(side.tree, failed, missing)
<1>2. DOMAIN found = Files
    BY DEF Found
<1>. HIDE DEF found
<1>3. after = [Read(side, found) EXCEPT !.lost = missing]
    BY <1>1 DEF found
<1>4. /\ DOMAIN Read(side, found) = Sides
      /\ Read(side, found).kind = side.kind /\ Read(side, found).tree = side.tree
      /\ Read(side, found).left = side.left \ Files
      /\ Read(side, found).entries =
            side.entries \cup UNION {ReadOf(f, found[f]).entries : f \in Files}
      /\ Read(side, found).incomplete =
            side.incomplete \cup UNION {ReadOf(f, found[f]).incomplete : f \in Files}
    BY <1>2, ReadIs
<1>5. /\ DOMAIN after = Sides /\ after.kind = side.kind /\ after.tree = side.tree
      /\ after.lost = missing /\ after.left = side.left \ Files
      /\ after.entries = Read(side, found).entries
      /\ after.incomplete = Read(side, found).incomplete
    BY <1>3, <1>4 DEF Sides
<1>. QED  BY <1>4, <1>5 DEF found

LEMMA ReadRefHolds ==
    ASSUME NEW side, DOMAIN side = Sides, side.kind = "ref", RefInv(side), side.left # {},
           NEW after \in ReadRef(side)
    PROVE  RefInv(after) /\ DOMAIN after = Sides /\ after.kind = "ref" /\ after.tree = side.tree
<1>1. /\ DOMAIN side.tree = Files /\ side.left = Files
      /\ side.entries = {} /\ side.incomplete = {}
    BY DEF RefInv
<1>2. PICK failed \in SUBSET Files, missing \in SUBSET Files :
         LET found == Found(side.tree, failed, missing)
         IN  /\ DOMAIN after = Sides /\ after.kind = side.kind /\ after.tree = side.tree
             /\ after.lost = missing /\ after.left = side.left \ Files
             /\ after.entries =
                   side.entries \cup UNION {ReadOf(f, found[f]).entries : f \in Files}
             /\ after.incomplete =
                   side.incomplete \cup UNION {ReadOf(f, found[f]).incomplete : f \in Files}
    BY ReadRefIs
<1>. DEFINE found == Found(side.tree, failed, missing)
<1>3. /\ after.left = {}
      /\ after.entries = UNION {ReadOf(f, found[f]).entries : f \in Files}
      /\ after.incomplete = UNION {ReadOf(f, found[f]).incomplete : f \in Files}
    BY <1>1, <1>2
<1>4. CASE failed = {}
    <2>1. found = Seen(after)
        BY <1>2, <1>4 DEF Found, Seen, Without
    <2>. HIDE DEF found
    <2>2. Whole(after)
        BY <1>3, <2>1 DEF Whole, SnapshotOf
    <2>. QED  BY <1>1, <1>2, <1>3, <2>2 DEF RefInv
<1>5. CASE failed # {}
    <2>1. PICK f \in failed : f \in Files /\ found[f] = Broken
        BY <1>5 DEF Found
    <2>. HIDE DEF found
    <2>2. <<f, "file", "">> \in ReadOf(f, found[f]).incomplete
        BY <2>1, BrokenIsOnRecord
    <2>3. ReadOf(f, found[f]).incomplete \subseteq after.incomplete
        BY <1>3, <2>1
    <2>4. after.incomplete # {}
        BY <2>2, <2>3
    <2>. QED  BY <1>1, <1>2, <1>3, <2>4 DEF RefInv
<1>. QED  BY <1>4, <1>5

LEMMA ReadWorktreeHolds ==
    ASSUME NEW side, DOMAIN side = Sides, side.kind # "ref", NEW after \in ReadWorktree(side)
    PROVE  RefInv(after) /\ DOMAIN after = Sides /\ after.kind = side.kind
<1>1. \E found : after = Read(side, found)
    BY DEF ReadWorktree
<1>. QED  BY <1>1, ReadIs DEF RefInv
-----------------------------------------------------------------------------
(* One check.                                                              *)

Phases == {"idle", "head", "guard", "read", "done"}
Check == {"phase", "base", "head", "inside", "verdict", "exit"}
Passing == {"no-change", "pass"}

\* A verdict is there at the end only, and says what was read.
CheckInv(check) ==
    /\ DOMAIN check = Check
    /\ RefInv(check.base) /\ DOMAIN check.base = Sides
    /\ RefInv(check.head) /\ DOMAIN check.head = Sides
    /\ check.base.kind = "ref" \/ check.base.left = {}
    /\ check.phase # "done" => check.verdict = None /\ check.exit = 0
    /\ check.phase = "done" /\ check.verdict # "incomplete" =>
          /\ check.base.left = {} /\ check.base.incomplete = {}
          /\ check.head.left = {} /\ check.head.incomplete = {}
          /\ check.verdict = Verdict(Deltas(check.base.entries, check.head.entries), {}, {})
          /\ check.exit = 0 => check.verdict \in Passing
    /\ check.phase = "done" /\ check.verdict = "incomplete" => check.exit = 3

\* main stays where the base was resolved: only a merge moves it, and a merge
\* ends the check.
ReviewInv ==
    /\ DOMAIN trusted = Files /\ DOMAIN main = Files /\ DOMAIN pr = Files
    /\ CheckInv(scan)
    /\ scan.base.kind = "ref" => scan.base.tree = main

LEMMA TreeDomain ==
    ASSUME NEW placed
    PROVE  DOMAIN Tree(placed) = Files
BY DEF Tree

LEMMA IncompleteHolds ==
    ASSUME NEW check, CheckInv(check)
    PROVE  CheckInv(Incomplete(check)) /\ Incomplete(check).base = check.base
BY DEF CheckInv, Incomplete, Check

LEMMA IdleHolds == CheckInv(Idle) /\ Idle.base.kind # "ref"
<1>1. /\ DOMAIN Idle = Check /\ Idle.base = NoSide /\ Idle.head = NoSide
      /\ Idle.phase = "idle" /\ Idle.verdict = None /\ Idle.exit = 0
    BY DEF Idle, Check
<1>. QED  BY <1>1, OtherSideHolds DEF CheckInv

\* The exit code is 0 for two verdicts only.
LEMMA VerdictIs ==
    ASSUME NEW deltas, NEW incomplete, NEW strict
    PROVE  /\ Verdict(deltas, incomplete, {}) # None
           /\ Verdict(deltas, incomplete, {}) = "incomplete" <=> incomplete # {}
           /\ ExitCode("incomplete", strict) = 3
           /\ ExitCode(Verdict(deltas, incomplete, {}), strict) = 0 =>
                 Verdict(deltas, incomplete, {}) \in Passing
<1>. DEFINE v == Verdict(deltas, incomplete, {})
<1>1. /\ incomplete # {} => v = "incomplete"
      /\ incomplete = {} => v \in {"expands", "undecided"} \cup Passing
    BY DEF Verdict, Passing
<1>. HIDE DEF v
<1>2. v # None /\ (v = "incomplete" <=> incomplete # {})
    BY <1>1 DEF None, Passing
<1>3. /\ ExitCode("incomplete", strict) = 3 /\ ExitCode("expands", strict) = 1
      /\ ExitCode("undecided", strict) \in {1, 2}
    BY DEF ExitCode
<1>. QED  BY <1>1, <1>2, <1>3 DEF v

LEMMA ReviewInit ==
    ASSUME Init
    PROVE  ReviewInv
<1>1. DOMAIN trusted = Files
    BY TreeDomain DEF Init, SmallTrees
<1>. QED  BY <1>1, IdleHolds DEF Init, ReviewInv

LEMMA ReviewStep ==
    ASSUME ReviewInv, [Next]_vars
    PROVE  ReviewInv'
<1>. USE DEF ReviewInv
<1>1. CASE UNCHANGED vars
    BY <1>1 DEF vars
<1>2. CASE Push
    <2>1. DOMAIN pr' = Files
        <3>1. \/ pr' \in Edits(main)
              \/ \E f \in Files : pr' = [main EXCEPT ![f] = Broken]
            BY <1>2 DEF Push
        <3>2. pr' \in Edits(main) => \E s : pr' = Tree(s)
            BY DEF Edits
        <3>. QED  BY <3>1, <3>2, TreeDomain
    <2>. QED  BY <1>2, <2>1 DEF Push
<1>3. CASE ResetBranch \/ Checkout
    BY <1>3 DEF ResetBranch, Checkout
<1>4. CASE Unresolvable
    BY <1>4, IncompleteHolds DEF Unresolvable, repository
<1>5. CASE ResolveBase
    <2>1. CASE scan' = [scan EXCEPT !.phase = "head", !.base = RefSide(main)]
        <3>1. /\ RefInv(RefSide(main)) /\ DOMAIN RefSide(main) = Sides
              /\ RefSide(main).kind = "ref" /\ RefSide(main).tree = main
            BY RefSideHolds DEF RefSide, Side
        <3>. HIDE DEF RefSide
        <3>2. CheckInv(scan') /\ scan'.base = RefSide(main)
            BY <1>5, <2>1, <3>1 DEF ResolveBase, CheckInv, Check
        <3>. QED  BY <1>5, <3>1, <3>2 DEF ResolveBase, repository
    <2>2. ASSUME NEW inside \in BOOLEAN, NEW missing,
                 scan' = [scan EXCEPT !.phase = "head", !.base = SavedSide(trusted, missing),
                                      !.inside = inside]
          PROVE  ReviewInv'
        <3>1. PICK saved : saved = SavedSide(trusted, missing)
            OBVIOUS
        <3>2. RefInv(saved) /\ DOMAIN saved = Sides /\ saved.kind = "snapshot" /\ saved.left = {}
            BY <3>1, OtherSideHolds
        <3>3. CheckInv(scan') /\ scan'.base = saved
            BY <1>5, <2>2, <3>1, <3>2 DEF ResolveBase, CheckInv, Check
        <3>. QED  BY <1>5, <3>2, <3>3 DEF ResolveBase, repository
    <2>. QED  BY <1>5, <2>1, <2>2 DEF ResolveBase
<1>6. CASE ResolveHead
    <2>1. PICK side, inside :
             /\ \/ scan' = [scan EXCEPT !.phase = "guard", !.head = side]
                \/ scan' = [scan EXCEPT !.phase = "guard", !.head = side, !.inside = @ \/ inside]
             /\ RefInv(side) /\ DOMAIN side = Sides
        BY <1>6, RefSideHolds, OtherSideHolds DEF ResolveHead
    <2>2. CheckInv(scan')
        BY <1>6, <2>1 DEF ResolveHead, CheckInv, Check
    <2>3. scan'.base = scan.base
        BY <2>1 DEF CheckInv, Check
    <2>. QED  BY <1>6, <2>2, <2>3 DEF ResolveHead, repository
<1>7. CASE \E accepted \in BOOLEAN : GuardInRepo(accepted)
    <2>1. \/ scan' = Incomplete(scan)
          \/ scan.phase = "guard" /\ scan' = [scan EXCEPT !.phase = "read", !.inside = FALSE]
        BY <1>7 DEF GuardInRepo
    <2>2. ASSUME scan.phase = "guard", scan' = [scan EXCEPT !.phase = "read", !.inside = FALSE]
          PROVE  CheckInv(scan') /\ scan'.base = scan.base
        BY <2>2 DEF CheckInv, Check
    <2>. QED  BY <1>7, <2>1, <2>2, IncompleteHolds DEF GuardInRepo, repository
<1>8. CASE ReadBase
    <2>1. PICK side \in ReadRef(scan.base) : scan' = [scan EXCEPT !.base = side]
        BY <1>8 DEF ReadBase
    <2>2. scan.phase = "read" /\ scan.base.left # {} /\ scan.base.kind = "ref"
        BY <1>8 DEF ReadBase, CheckInv
    <2>3. /\ RefInv(side) /\ DOMAIN side = Sides
          /\ side.kind = "ref" /\ side.tree = scan.base.tree
        BY <2>2, ReadRefHolds DEF CheckInv
    <2>4. CheckInv(scan') /\ scan'.base = side
        BY <2>1, <2>2, <2>3 DEF CheckInv, Check
    <2>. QED  BY <1>8, <2>2, <2>3, <2>4 DEF ReadBase, repository
<1>9. CASE ReadHead
    <2>1. PICK side \in IF scan.head.kind = "ref" THEN ReadRef(scan.head) ELSE ReadWorktree(scan.head) :
             scan' = [scan EXCEPT !.head = side]
        BY <1>9 DEF ReadHead
    <2>2. scan.phase = "read" /\ scan.head.left # {}
        BY <1>9 DEF ReadHead
    <2>3. RefInv(side) /\ DOMAIN side = Sides
        BY <2>1, <2>2, ReadRefHolds, ReadWorktreeHolds DEF CheckInv
    <2>4. CheckInv(scan')
        BY <2>1, <2>2, <2>3 DEF CheckInv, Check
    <2>. QED  BY <1>9, <2>4 DEF ReadHead, repository
<1>10. CASE \E strict \in BOOLEAN : Conclude(strict)
    <2>1. PICK strict \in BOOLEAN : Conclude(strict)
        BY <1>10
    <2>. DEFINE missing == scan.base.incomplete \cup scan.head.incomplete
                verdict == Verdict(Deltas(scan.base.entries, scan.head.entries), missing, {})
    <2>2. /\ scan.base.left = {} /\ scan.head.left = {} /\ scan.phase = "read"
          /\ scan' = [scan EXCEPT !.phase = "done", !.verdict = verdict,
                                  !.exit = ExitCode(verdict, strict)]
        BY <2>1 DEF Conclude
    <2>3. /\ verdict # None /\ (verdict = "incomplete" <=> missing # {})
          /\ ExitCode("incomplete", strict) = 3
          /\ ExitCode(verdict, strict) = 0 => verdict \in Passing
        BY VerdictIs
    <2>4. verdict # "incomplete" =>
             /\ scan.base.incomplete = {} /\ scan.head.incomplete = {}
             /\ verdict = Verdict(Deltas(scan.base.entries, scan.head.entries), {}, {})
        <3>1. missing = {} => scan.base.incomplete = {} /\ scan.head.incomplete = {}
            OBVIOUS
        <3>. QED  BY <2>3, <3>1
    <2>. HIDE DEF verdict, missing
    <2>5. CheckInv(scan')
        BY <2>2, <2>3, <2>4 DEF CheckInv, Check
    <2>. QED  BY <2>1, <2>5 DEF Conclude, repository
<1>11. CASE Merge
    <2>1. DOMAIN scan.head.tree = Files
        BY <1>11 DEF Merge, CheckInv, RefInv
    <2>. QED  BY <1>11, <2>1, IdleHolds DEF Merge
<1>12. CASE Dismiss
    BY <1>12, IdleHolds DEF Dismiss
<1>. QED  BY <1>1, <1>2, <1>3, <1>4, <1>5, <1>6, <1>7, <1>8, <1>9, <1>10, <1>11, <1>12 DEF Next

\* A verdict other than "incomplete" is about commits, whatever moved while they
\* were read, and about all of them but the files whose lookup failed
\* (resolveCommit and readBlobAtRef in git.ts).
THEOREM ReviewedSides == Spec => []ReviewedSidesAreCommits
<1>1. ReviewInv => ReviewedSidesAreCommits
    <2>. SUFFICES ASSUME ReviewInv, Settled, NEW side \in {scan.base, scan.head}, side.kind = "ref"
                  PROVE  /\ side.left = {} /\ side.entries = SnapshotOf(Seen(side)).entries
                         /\ SnapshotOf(Seen(side)).incomplete = {}
        BY DEF ReviewedSidesAreCommits
    <2>1. scan.phase = "done" /\ scan.verdict # "incomplete"
        BY DEF Settled, ReviewInv, CheckInv
    <2>2. side.left = {} /\ side.incomplete = {} /\ RefInv(side)
        BY <2>1 DEF ReviewInv, CheckInv
    <2>3. Files # {}
        BY DEF Files
    <2>. QED  BY <2>2, <2>3 DEF RefInv, Whole
<1>. QED  BY <1>1, ReviewInit, ReviewStep, PTL DEF Spec

\* main moves only from the commit the base was resolved to, to the one the
\* head was resolved to.  What the check was shown of the two (all of each but
\* the files whose lookup failed) reads, and the comparison of it found nothing
\* that expands and nothing undecided (git.ts:170, verdict.ts, and the merge on
\* exit 0 of docs/integration.md).
MergedAsReviewed ==
    main' # main =>
        LET was == SnapshotOf(Seen(scan.base))
            is == SnapshotOf(Seen(scan.head))
            deltas == Deltas(was.entries, is.entries)
        IN  /\ scan.base.tree = main /\ scan.head.tree = main'
            /\ was.incomplete = {} /\ is.incomplete = {}
            /\ ~Expands(deltas, {}) /\ \A d \in deltas : ~IsUndecided(d)

THEOREM MergesAreReviewed == Spec => [][MergedAsReviewed]_vars
<1>1. ReviewInv /\ [Next]_vars => [MergedAsReviewed]_vars
    <2>. SUFFICES ASSUME ReviewInv, Next, main' # main PROVE MergedAsReviewed
        BY DEF MergedAsReviewed
    <2>1. Merge
        BY DEF Next, Push, ResetBranch, Checkout, Unresolvable, ResolveBase, ResolveHead,
           GuardInRepo, ReadBase, ReadHead, Conclude, Dismiss, repository
    <2>2. /\ scan.phase = "done" /\ scan.exit = 0 /\ main' = scan.head.tree
          /\ scan.base.kind = "ref" /\ scan.head.kind = "ref" /\ scan.base.tree = main
        BY <2>1 DEF Merge, ReviewInv
    <2>3. scan.verdict # "incomplete"
        BY <2>2 DEF ReviewInv, CheckInv
    <2>4. /\ scan.base.left = {} /\ scan.base.incomplete = {} /\ RefInv(scan.base)
          /\ scan.head.left = {} /\ scan.head.incomplete = {} /\ RefInv(scan.head)
          /\ Verdict(Deltas(scan.base.entries, scan.head.entries), {}, {}) \in Passing
        BY <2>2, <2>3 DEF ReviewInv, CheckInv
    <2>5. Whole(scan.base) /\ Whole(scan.head)
        BY <2>2, <2>4 DEF RefInv, Files
    <2>6. ASSUME NEW deltas, Verdict(deltas, {}, {}) \in Passing
          PROVE  ~Expands(deltas, {}) /\ \A d \in deltas : ~IsUndecided(d)
        BY <2>6 DEF Verdict, Passing
    <2>. QED  BY <2>2, <2>4, <2>5, <2>6 DEF Whole, MergedAsReviewed
<1>. QED  BY <1>1, ReviewInit, ReviewStep, PTL DEF Spec
-----------------------------------------------------------------------------
(* The shape of the state.                                                 *)

Verdicts ==
    {<<None, 0>>, <<"no-change", 0>>, <<"pass", 0>>, <<"expands", 1>>,
     <<"undecided", 1>>, <<"undecided", 2>>, <<"incomplete", 3>>}

IsTree(tree) == DOMAIN tree = Files /\ \A f \in Files : tree[f] \in Contents

LEMMA TreeTyped ==
    ASSUME NEW placed, \A p \in placed : \E q \in theme : p[2] = q[2]
    PROVE  IsTree(Tree(placed))
<1>. SUFFICES ASSUME NEW f \in Files
              PROVE  Tree(placed)[f] \in Contents
    BY TreeDomain DEF IsTree
<1>. DEFINE here == {p[2] : p \in {q \in placed : q[1] = f}}
<1>1. Tree(placed)[f] = [status |-> IF here = {} THEN "absent" ELSE "read", items |-> here]
    BY DEF Tree, Content
<1>2. here \in SUBSET {p[2] : p \in theme}
    OBVIOUS
<1>. HIDE DEF here
<1>. QED  BY <1>1, <1>2 DEF Contents

LEMMA BrokenTyped ==
    ASSUME NEW tree, IsTree(tree), NEW f \in Files
    PROVE  IsTree([tree EXCEPT ![f] = Broken])
<1>1. Broken \in Contents
    BY DEF Broken, Content, Contents
<1>. QED  BY <1>1 DEF IsTree

LEMMA EditsTyped ==
    ASSUME NEW tree, IsTree(tree), NEW after \in Edits(tree)
    PROVE  IsTree(after)
<1>1. PICK s : /\ after = Tree(s)
               /\ \A p \in s : p \in Placed(tree) \/ p \in theme
    BY DEF Edits
<1>2. ASSUME NEW p \in Placed(tree)
      PROVE  \E q \in theme : p[2] = q[2]
    <2>1. PICK f \in Files : \E i \in tree[f].items : p = <<f, i>>
        BY DEF Placed
    <2>2. tree[f].items \subseteq {q[2] : q \in theme}
        BY DEF IsTree, Contents
    <2>. QED  BY <2>1, <2>2
<1>3. \A p \in s : \E q \in theme : p[2] = q[2]
    BY <1>1, <1>2
<1>. QED  BY <1>1, <1>3, TreeTyped

IsScan(check) ==
    /\ DOMAIN check = Check
    /\ check.inside \in BOOLEAN
    /\ check.phase \in Phases
    /\ IsSide(check.base) /\ DOMAIN check.base = Sides /\ IsTree(check.base.tree)
    /\ IsSide(check.head) /\ DOMAIN check.head = Sides /\ IsTree(check.head.tree)
    /\ <<check.verdict, check.exit>> \in Verdicts

ShapeInv ==
    /\ theme \in Themes
    /\ IsTree(trusted) /\ IsTree(main) /\ IsTree(pr) /\ IsTree(work)
    /\ merges \in 0..MaxMerges
    /\ IsScan(scan)

IsWholeSide(side) == IsSide(side) /\ DOMAIN side = Sides /\ IsTree(side.tree)

LEMMA SidesTyped ==
    ASSUME NEW tree, IsTree(tree), NEW missing \in SUBSET Files
    PROVE  /\ IsWholeSide(RefSide(tree)) /\ IsWholeSide(SavedSide(tree, missing))
           /\ IsWholeSide(WorktreeSide) /\ IsWholeSide(NoSide)
<1>1. IsTree(Tree({}))
    BY TreeTyped
<1>. QED  BY <1>1 DEF IsWholeSide, IsSide, IsTree, RefSide, SavedSide, WorktreeSide, NoSide,
                      Side, Sides, None

LEMMA ReadTyped ==
    ASSUME NEW side, IsWholeSide(side),
           NEW after \in ReadRef(side) \cup ReadWorktree(side)
    PROVE  IsWholeSide(after)
<1>1. CASE after \in ReadRef(side)
    <2>1. /\ DOMAIN after = Sides /\ after.kind = side.kind /\ after.tree = side.tree
          /\ after.left \subseteq side.left /\ after.lost \subseteq Files
        BY <1>1, ReadRefIs DEF IsWholeSide
    <2>. QED  BY <2>1 DEF IsWholeSide, IsSide
<1>2. CASE after \in ReadWorktree(side)
    <2>1. \E found : after = Read(side, found)
        BY <1>2 DEF ReadWorktree
    <2>. QED  BY <2>1, ReadIs DEF IsWholeSide, IsSide
<1>. QED  BY <1>1, <1>2

LEMMA IdleTyped == IsScan(Idle)
<1>1. IsWholeSide(NoSide)
    BY SidesTyped, TreeTyped
<1>. HIDE DEF NoSide
<1>. QED  BY <1>1 DEF IsScan, Idle, Check, Phases, Verdicts, IsWholeSide

LEMMA ExitTyped ==
    ASSUME NEW deltas, NEW incomplete, NEW strict \in BOOLEAN
    PROVE  <<Verdict(deltas, incomplete, {}), ExitCode(Verdict(deltas, incomplete, {}), strict)>>
             \in Verdicts
<1>1. Verdict(deltas, incomplete, {}) \in {"incomplete", "expands", "undecided", "no-change", "pass"}
    BY DEF Verdict
<1>2. /\ ExitCode("incomplete", strict) = 3 /\ ExitCode("expands", strict) = 1
      /\ ExitCode("undecided", strict) \in {1, 2}
      /\ ExitCode("no-change", strict) = 0 /\ ExitCode("pass", strict) = 0
    BY DEF ExitCode
<1>. QED  BY <1>1, <1>2 DEF Verdicts

LEMMA ShapeInit ==
    ASSUME Init
    PROVE  ShapeInv
<1>1. PICK s \in SUBSET theme : trusted = Tree(s)
    BY DEF Init, SmallTrees
<1>2. IsTree(trusted)
    BY <1>1, TreeTyped
<1>. QED  BY <1>2, IdleTyped, CheckBounds DEF Init, ShapeInv

LEMMA ShapeStep ==
    ASSUME ShapeInv, [Next]_vars
    PROVE  ShapeInv'
<1>. USE DEF ShapeInv
<1>a. theme' = theme
    BY DEF vars, Next, Push, ResetBranch, Checkout, Unresolvable, ResolveBase, ResolveHead,
           GuardInRepo, ReadBase, ReadHead, Conclude, Merge, Dismiss, repository
<1>b. ASSUME IsTree(trusted'), IsTree(main'), IsTree(pr'), IsTree(work'), merges' \in 0..MaxMerges,
             IsScan(scan')
      PROVE  ShapeInv'
    BY <1>a, <1>b DEF IsTree, IsScan, IsSide, Contents
<1>1. CASE UNCHANGED vars
    BY <1>1, <1>b DEF vars
<1>2. CASE Push
    <2>1. pr' \in Edits(main) \/ \E f \in Files : pr' = [main EXCEPT ![f] = Broken]
        BY <1>2 DEF Push
    <2>2. IsTree(pr')
        BY <2>1, EditsTyped, BrokenTyped
    <2>. QED  BY <1>2, <1>b, <2>2 DEF Push
<1>3. CASE ResetBranch \/ Checkout
    BY <1>3, <1>b DEF ResetBranch, Checkout
<1>4. CASE Unresolvable
    <2>1. IsScan(scan')
        BY <1>4 DEF Unresolvable, Incomplete, IsScan, Check, Phases, Verdicts
    <2>. QED  BY <1>4, <1>b, <2>1 DEF Unresolvable, repository
<1>5. CASE ResolveBase
    <2>1. ASSUME NEW side, IsWholeSide(side), NEW inside \in BOOLEAN,
                 \/ scan' = [scan EXCEPT !.phase = "head", !.base = side]
                 \/ scan' = [scan EXCEPT !.phase = "head", !.base = side, !.inside = inside]
          PROVE  IsScan(scan')
        BY <2>1 DEF IsScan, IsWholeSide, Check, Phases
    <2>2. IsWholeSide(RefSide(main)) /\ \A missing \in SUBSET Files : IsWholeSide(SavedSide(trusted, missing))
        BY SidesTyped
    <2>. HIDE DEF RefSide, SavedSide
    <2>3. CASE scan' = [scan EXCEPT !.phase = "head", !.base = RefSide(main)]
        BY <1>5, <1>b, <2>1, <2>2, <2>3 DEF ResolveBase, repository
    <2>4. ASSUME NEW inside \in BOOLEAN, NEW missing \in SUBSET Files,
                 scan' = [scan EXCEPT !.phase = "head", !.base = SavedSide(trusted, missing),
                                      !.inside = inside]
          PROVE  ShapeInv'
        BY <1>5, <1>b, <2>1, <2>2, <2>4 DEF ResolveBase, repository
    <2>. QED  BY <1>5, <2>3, <2>4 DEF ResolveBase
<1>6. CASE ResolveHead
    <2>1. ASSUME NEW side, IsWholeSide(side), NEW inside \in BOOLEAN,
                 \/ scan' = [scan EXCEPT !.phase = "guard", !.head = side]
                 \/ scan' = [scan EXCEPT !.phase = "guard", !.head = side, !.inside = @ \/ inside]
          PROVE  IsScan(scan')
        BY <2>1 DEF IsScan, IsWholeSide, Check, Phases
    <2>2. IsWholeSide(RefSide(pr)) /\ IsWholeSide(WorktreeSide)
        BY SidesTyped
    <2>. HIDE DEF RefSide, WorktreeSide
    <2>3. CASE scan' = [scan EXCEPT !.phase = "guard", !.head = RefSide(pr)]
        BY <1>6, <1>b, <2>1, <2>2, <2>3 DEF ResolveHead, repository
    <2>4. ASSUME NEW inside \in BOOLEAN,
                 scan' = [scan EXCEPT !.phase = "guard", !.head = WorktreeSide, !.inside = @ \/ inside]
          PROVE  ShapeInv'
        BY <1>6, <1>b, <2>1, <2>2, <2>4 DEF ResolveHead, repository
    <2>. QED  BY <1>6, <2>3, <2>4 DEF ResolveHead
<1>7. CASE \E accepted \in BOOLEAN : GuardInRepo(accepted)
    <2>1. \/ scan' = Incomplete(scan)
          \/ scan' = [scan EXCEPT !.phase = "read", !.inside = FALSE]
        BY <1>7 DEF GuardInRepo
    <2>2. IsScan(scan')
        BY <2>1 DEF Incomplete, IsScan, Check, Phases, Verdicts
    <2>. QED  BY <1>7, <1>b, <2>2 DEF GuardInRepo, repository
<1>8. CASE ReadBase
    <2>1. PICK side \in ReadRef(scan.base) : scan' = [scan EXCEPT !.base = side]
        BY <1>8 DEF ReadBase
    <2>2. IsWholeSide(side)
        BY ReadTyped DEF IsScan, IsWholeSide
    <2>3. IsScan(scan')
        BY <2>1, <2>2 DEF IsScan, IsWholeSide, Check
    <2>. QED  BY <1>8, <1>b, <2>3 DEF ReadBase, repository
<1>9. CASE ReadHead
    <2>1. PICK side \in ReadRef(scan.head) \cup ReadWorktree(scan.head) :
             scan' = [scan EXCEPT !.head = side]
        BY <1>9 DEF ReadHead
    <2>2. IsWholeSide(side)
        BY ReadTyped DEF IsScan, IsWholeSide
    <2>3. IsScan(scan')
        BY <2>1, <2>2 DEF IsScan, IsWholeSide, Check
    <2>. QED  BY <1>9, <1>b, <2>3 DEF ReadHead, repository
<1>10. CASE \E strict \in BOOLEAN : Conclude(strict)
    <2>1. PICK strict \in BOOLEAN : Conclude(strict)
        BY <1>10
    <2>2. PICK verdict, exit :
             /\ scan' = [scan EXCEPT !.phase = "done", !.verdict = verdict, !.exit = exit]
             /\ <<verdict, exit>> \in Verdicts
        BY <2>1, ExitTyped DEF Conclude
    <2>3. IsScan(scan')
        BY <2>2 DEF IsScan, Check, Phases
    <2>. QED  BY <2>1, <1>b, <2>3 DEF Conclude, repository
<1>11. CASE Merge
    <2>1. merges' \in 0..MaxMerges
        BY <1>11, CheckBounds DEF Merge
    <2>. QED  BY <1>11, <1>b, <2>1, IdleTyped DEF Merge, IsScan
<1>12. CASE Dismiss
    BY <1>12, <1>b, IdleTyped DEF Dismiss
<1>. QED  BY <1>1, <1>2, <1>3, <1>4, <1>5, <1>6, <1>7, <1>8, <1>9, <1>10, <1>11, <1>12 DEF Next

\* The state keeps its shape, and every exit code goes with its verdict (the
\* table at the head of verdict.ts).
THEOREM SurfaceTypes == Spec => []TypeOK
<1>1. ShapeInv => TypeOK
    BY DEF ShapeInv, IsScan, IsTree, TypeOK, Phases, Verdicts
<1>. QED  BY <1>1, ShapeInit, ShapeStep, PTL DEF Spec
-----------------------------------------------------------------------------
(* What is compared: the entries of the items of two trees.                *)

Told(placed) ==
    {EntryOf(p[1], p[2]) : p \in placed}
        \cup UNION {CredentialsOf(p[1], p[2]) : p \in placed}

Readable(placed) ==
    /\ WellFormed(placed)
    /\ \A p \in placed : WellPlaced(p) /\ ~Unusable(p[2])

\* What exit 0 says of a comparison.
Admitted(base, head) ==
    ~Expands(Deltas(base, head), {}) /\ \A d \in Deltas(base, head) : ~IsUndecided(d)

LEMMA ToldKinds ==
    ASSUME NEW placed, Readable(placed), NEW e \in Told(placed)
    PROVE  /\ e.kind = e.key[1] /\ e.file \in Files /\ e.kind # None /\ e # NoEntry
<1>1. CASE \E p \in placed : e = EntryOf(p[1], p[2])
    <2>1. PICK p \in placed : e = EntryOf(p[1], p[2])
        BY <1>1
    <2>2. p[1] \in Files /\ p[2].at \in Sections
        BY DEF Readable, WellPlaced
    <2>3. /\ e.kind = KindOf(p[2]) /\ e.key = KeyOf(p[2]) /\ e.file = p[1]
        BY <2>1 DEF EntryOf
    <2>4. KindOf(p[2]) = KeyOf(p[2])[1] /\ KindOf(p[2]) # None
        BY <2>2 DEF KindOf, KeyOf, Sections, PermissionLists, None
    <2>. QED  BY <2>2, <2>3, <2>4 DEF NoEntry
<1>2. CASE \E p \in placed : e \in CredentialsOf(p[1], p[2])
    <2>1. PICK p \in placed : e \in CredentialsOf(p[1], p[2])
        BY <1>2
    <2>2. p[1] \in Files
        BY DEF Readable, WellPlaced
    <2>3. e.kind = "credential" /\ e.key[1] = "credential" /\ e.file = p[1]
        BY <2>1 DEF CredentialsOf
    <2>. QED  BY <2>2, <2>3 DEF NoEntry, None
<1>. QED  BY <1>1, <1>2 DEF Told

LEMMA FirstIsOne ==
    ASSUME NEW group, group # {}, \A e \in group : e.file \in Files
    PROVE  First(group) \in group /\ \A o \in group : Rank[First(group).file] <= Rank[o.file]
<1>1. \A e \in group : Rank[e.file] \in 1..3
    BY DEF Rank, Files
<1>2. \E e \in group : \A o \in group : Rank[e.file] <= Rank[o.file]
    <2>1. CASE \E e \in group : Rank[e.file] = 1
        BY <1>1, <2>1
    <2>2. CASE (\A e \in group : Rank[e.file] # 1) /\ \E e \in group : Rank[e.file] = 2
        BY <1>1, <2>2
    <2>3. CASE \A e \in group : Rank[e.file] # 1 /\ Rank[e.file] # 2
        BY <1>1, <2>3
    <2>. QED  BY <2>1, <2>2, <2>3
<1>. QED  BY <1>2 DEF First

LEMMA SignatureDiffers ==
    ASSUME NEW was, NEW is, NEW e, \/ e \in was /\ \A o \in is : o.value # e.value \/ o.file # e.file
                                   \/ e \in is /\ \A o \in was : o.value # e.value \/ o.file # e.file
    PROVE  Signature(was) # Signature(is)
<1>1. \A group : DOMAIN Signature(group) = {<<o.file, o.value>> : o \in group}
    BY DEF Signature
<1>. DEFINE Pairs(group) == {<<o.file, o.value>> : o \in group}
<1>2. \A group, p : p \in Pairs(group) <=> \E o \in group : p = <<o.file, o.value>>
    OBVIOUS
<1>. HIDE DEF Pairs
<1>3. <<e.file, e.value>> \in Pairs(was) <=> <<e.file, e.value>> \notin Pairs(is)
    BY <1>2
<1>. QED  BY <1>1, <1>3 DEF Pairs

LEMMA ValuesDiffer ==
    ASSUME NEW was, NEW is, NEW e, \/ e \in was /\ \A o \in is : o.value # e.value
                                   \/ e \in is /\ \A o \in was : o.value # e.value
    PROVE  ValueSignature(was) # ValueSignature(is) /\ Signature(was) # Signature(is)
<1>1. \A group : DOMAIN ValueSignature(group) = {o.value : o \in group}
    BY DEF ValueSignature
<1>2. {o.value : o \in was} # {o.value : o \in is}
    OBVIOUS
<1>. QED  BY <1>1, <1>2, SignatureDiffers

\* The delta of a key whose values are not all on both sides.
LEMMA DeltaIs ==
    ASSUME NEW before, NEW after, Readable(before), Readable(after),
           NEW k, NEW e, NEW was, NEW is,
           was = Group(Told(before), k), is = Group(Told(after), k),
           \/ e \in was /\ \A o \in is : o.value # e.value
           \/ e \in is /\ \A o \in was : o.value # e.value,
           NEW d, d = DeltaOf(Told(before), Told(after), k)
    PROVE  /\ d \in KeyedDeltas(Told(before), Told(after))
           /\ d.key = k /\ d.kind = k[1]
           /\ DOMAIN d = {"key", "kind", "base", "head", "change"}
           /\ IF was = {} THEN d.base = NoEntry ELSE d.base \in was /\ d.base # NoEntry
           /\ IF is = {} THEN d.head = NoEntry ELSE d.head \in is /\ d.head # NoEntry
           /\ d.change = IF is = {} THEN "removed" ELSE IF was = {} THEN "added" ELSE "changed"
<1>1. /\ ValueSignature(was) # ValueSignature(is) /\ Signature(was) # Signature(is)
    BY ValuesDiffer
<1>2. \A o \in was \cup is : o.key = k /\ o.kind = k[1] /\ o.file \in Files /\ o # NoEntry
    BY ToldKinds DEF Group
<1>3. First(was \cup is) \in was \cup is
    BY <1>2, FirstIsOne
<1>4. IF was = {} THEN First(was) = NoEntry ELSE First(was) \in was
    BY <1>2, FirstIsOne DEF First
<1>5. IF is = {} THEN First(is) = NoEntry ELSE First(is) \in is
    BY <1>2, FirstIsOne DEF First
<1>6. /\ d.key = k /\ d.kind = First(was \cup is).kind /\ d.base = First(was) /\ d.head = First(is)
      /\ DOMAIN d = {"key", "kind", "base", "head", "change"}
      /\ d.change = IF is = {} THEN "removed" ELSE IF was = {} THEN "added" ELSE "changed"
    BY <1>1 DEF DeltaOf
<1>7. d \in KeyedDeltas(Told(before), Told(after))
    BY <1>1, <1>2, <1>3 DEF KeyedDeltas, Group
<1>. QED  BY <1>2, <1>3, <1>4, <1>5, <1>6, <1>7

\* The places where one hook comes and one goes, and the pair.
Paired(deltas) ==
    {p \in {<<d.key[2], d.head.file>> : d \in {h \in deltas : h.kind = "hook" /\ h.change = "added"}} :
        /\ Cardinality(HookDeltas(deltas, "added", p)) = 1
        /\ Cardinality(HookDeltas(deltas, "removed", p)) = 1}
PairOf(deltas, p) ==
    LET The(change) == CHOOSE d \in HookDeltas(deltas, change, p) : TRUE
    IN [The("added") EXCEPT !.change = "changed", !.base = The("removed").base]

LEMMA RawDeltasAre ==
    ASSUME NEW base, NEW head, NEW deltas, deltas = KeyedDeltas(base, head), NEW d
    PROVE  d \in RawDeltas(base, head) <=>
              \/ /\ d \in deltas
                 /\ \A p \in Paired(deltas), c \in {"added", "removed"} : d \notin HookDeltas(deltas, c, p)
              \/ \E p \in Paired(deltas) : d = PairOf(deltas, p)
<1>1. RawDeltas(base, head) =
          (deltas \ UNION {HookDeltas(deltas, c, p) : c \in {"added", "removed"}, p \in Paired(deltas)})
             \cup {PairOf(deltas, p) : p \in Paired(deltas)}
    BY DEF RawDeltas, Paired, PairOf
<1>. QED  BY <1>1

LEMMA RawDelta ==
    ASSUME NEW base, NEW head, NEW d \in KeyedDeltas(base, head), d.kind # "hook"
    PROVE  d \in RawDeltas(base, head)
<1>1. \A deltas, c, p : d \notin HookDeltas(deltas, c, p)
    BY DEF HookDeltas
<1>. QED  BY <1>1, RawDeltasAre

\* A hook that is on the head alone is told as added or as a changed command.
LEMMA HookDelta ==
    ASSUME NEW before, NEW after, Readable(before), Readable(after),
           NEW k, k[1] = "hook", Group(Told(before), k) = {}, Group(Told(after), k) # {}
    PROVE  \E d \in RawDeltas(Told(before), Told(after)) :
              /\ d.kind = "hook" /\ d.key[1] = "hook" /\ d.head \in Told(after) /\ d.head.kind = "hook"
              /\ \/ d.change = "added"
                 \/ d.change = "changed" /\ d.base.key # d.head.key
<1>. DEFINE deltas == KeyedDeltas(Told(before), Told(after))
            d == DeltaOf(Told(before), Told(after), k)
<1>1. PICK none, come, one : none = Group(Told(before), k) /\ come = Group(Told(after), k) /\ one \in come
    OBVIOUS
<1>2. /\ d \in deltas /\ d.key = k /\ d.kind = "hook" /\ d.change = "added"
      /\ d.head \in Group(Told(after), k)
    <2>1. PICK x : x = DeltaOf(Told(before), Told(after), k)
        OBVIOUS
    <2>2. none = {} /\ come # {}
        BY <1>1
    <2>3. /\ x \in KeyedDeltas(Told(before), Told(after)) /\ x.key = k /\ x.kind = k[1]
          /\ x.change = "added" /\ x.head \in come
        BY <1>1, <2>1, <2>2, DeltaIs
    <2>. QED  BY <1>1, <2>1, <2>3
<1>3. \A x \in deltas :
         /\ DOMAIN x = {"key", "kind", "base", "head", "change"} /\ x.kind = x.key[1]
         /\ x.change = "added" => Group(Told(before), x.key) = {} /\ x.head \in Group(Told(after), x.key)
         /\ x.change = "removed" => Group(Told(after), x.key) = {} /\ x.base \in Group(Told(before), x.key)
    <2>. SUFFICES ASSUME NEW j \in {e.key : e \in Told(before) \cup Told(after)}, NEW x,
                         x = DeltaOf(Told(before), Told(after), j)
                  PROVE  /\ DOMAIN x = {"key", "kind", "base", "head", "change"} /\ x.kind = x.key[1]
                         /\ x.change = "added" => Group(Told(before), x.key) = {} /\ x.head \in Group(Told(after), x.key)
                         /\ x.change = "removed" => Group(Told(after), x.key) = {} /\ x.base \in Group(Told(before), x.key)
        BY DEF KeyedDeltas
    <2>. DEFINE was == Group(Told(before), j)
                is == Group(Told(after), j)
    <2>1. \A o \in was \cup is : o.file \in Files /\ o.kind = j[1]
        BY ToldKinds DEF Group
    <2>2. was \cup is # {}
        BY DEF Group
    <2>3. /\ x.key = j /\ x.base = First(was) /\ x.head = First(is) /\ x.kind = First(was \cup is).kind
          /\ DOMAIN x = {"key", "kind", "base", "head", "change"}
          /\ x.change = "added" => was = {} /\ is # {}
          /\ x.change = "removed" => is = {}
        BY DEF DeltaOf
    <2>. HIDE DEF was, is
    <2>4. (was # {} => First(was) \in was) /\ (is # {} => First(is) \in is) /\ First(was \cup is) \in was \cup is
        BY <2>1, <2>2, FirstIsOne
    <2>. QED  BY <2>1, <2>2, <2>3, <2>4 DEF was, is
<1>. HIDE DEF deltas, d
<1>4. d.head \in Told(after) /\ d.head.kind = "hook"
    BY <1>2, ToldKinds DEF Group
<1>5. CASE \A p \in Paired(deltas), c \in {"added", "removed"} : d \notin HookDeltas(deltas, c, p)
    BY <1>2, <1>4, <1>5, RawDeltasAre DEF deltas
<1>6. CASE \E p \in Paired(deltas), c \in {"added", "removed"} : d \in HookDeltas(deltas, c, p)
    <2>1. PICK p \in Paired(deltas) : \E c \in {"added", "removed"} : d \in HookDeltas(deltas, c, p)
        BY <1>6
    <2>2. /\ Cardinality(HookDeltas(deltas, "added", p)) = 1
          /\ Cardinality(HookDeltas(deltas, "removed", p)) = 1
        BY <2>1 DEF Paired
    <2>3. HookDeltas(deltas, "added", p) # {} /\ HookDeltas(deltas, "removed", p) # {}
        BY <2>2, FS_EmptySet
    <2>. DEFINE The(c) == CHOOSE h \in HookDeltas(deltas, c, p) : TRUE
    <2>4. The("added") \in HookDeltas(deltas, "added", p) /\ The("removed") \in HookDeltas(deltas, "removed", p)
        BY <2>3
    <2>5. PairOf(deltas, p) = [The("added") EXCEPT !.change = "changed", !.base = The("removed").base]
        BY DEF PairOf
    <2>6. PICK a, r : a = The("added") /\ r = The("removed")
        OBVIOUS
    <2>7. /\ a \in deltas /\ a.kind = "hook" /\ a.change = "added"
          /\ r \in deltas /\ r.change = "removed"
        BY <2>4, <2>6 DEF HookDeltas
    <2>8. PICK x : x = [a EXCEPT !.change = "changed", !.base = r.base]
        OBVIOUS
    <2>9. /\ x.kind = "hook" /\ x.change = "changed" /\ x.head = a.head /\ x.base = r.base /\ x.key = a.key
        BY <1>3, <2>7, <2>8
    <2>10. /\ x.head \in Told(after) /\ x.head.kind = "hook"
           /\ x.head.key = a.key /\ x.base.key = r.key /\ x.key[1] = "hook"
        <3>1. a.head \in Group(Told(after), a.key) /\ r.base \in Group(Told(before), r.key)
            BY <1>3, <2>7
        <3>2. a.key[1] = "hook"
            BY <1>3, <2>7
        <3>. QED  BY <2>9, <3>1, <3>2, ToldKinds DEF Group
    <2>11. a.key # r.key
        BY <1>3, <2>7
    <2>12. x \in RawDeltas(Told(before), Told(after))
        BY <2>1, <2>5, <2>6, <2>8, RawDeltasAre DEF deltas
    <2>. QED  BY <2>9, <2>10, <2>11, <2>12
<1>. QED  BY <1>5, <1>6

-----------------------------------------------------------------------------
(* What exit 0 excludes.                                                   *)

SubjectOf(d) == IF d.head # NoEntry THEN d.head ELSE d.base
ClaimsAbout(d, base, head) == ClaimsOn(SubjectOf(d), IF d.head # NoEntry THEN head ELSE base)

LEMMA RuleIs ==
    ASSUME NEW d, d.kind = d.key[1], d.change # "moved"
    PROVE  /\ d.kind = "perm" => RuleOf(d) = PermRule(d)
           /\ d.kind = "hook" => RuleOf(d) = HookRule(d)
           /\ d.kind = "mcp" => RuleOf(d) = McpRule(d)
           /\ d.kind = "env_key" => RuleOf(d) = EnvRule(d)
           /\ d.kind = "mode" => RuleOf(d) = ModeRule(d)
           /\ d.kind = "dir" /\ d.change = "added" => RuleOf(d) = "D-dir-added"
           /\ d.kind = "credential" => RuleOf(d) = "D-unknown"
           /\ d.key = <<"plugin_flag", "enableAllProjectMcpServers">> =>
                 RuleOf(d) = FlagRule(d, "D-enable-all-mcp", "D-enable-all-mcp-off")
           /\ d.key = <<"plugin_flag", "disableAllHooks">> =>
                 RuleOf(d) = FlagRule(d, "D-hooks-disabled", "D-hooks-reenabled")
<1>. DEFINE keys == {<<"plugin_flag", "enableAllProjectMcpServers">>, <<"plugin_flag", "disableAllHooks">>}
<1>1. d.key \in keys => d.kind = "plugin_flag"
    OBVIOUS
<1>2. d.kind = "dir" /\ d.change = "added" => RuleOf(d) = "D-dir-added"
    <2>. SUFFICES ASSUME d.kind = "dir", d.change = "added" PROVE RuleOf(d) = "D-dir-added"
        OBVIOUS
    <2>. DEFINE DirRule == CASE d.change = "added" -> "D-dir-added"
                             [] d.change = "removed" -> "D-dir-removed"
                             [] OTHER -> "D-moved"
    <2>1. DirRule = "D-dir-added"
        OBVIOUS
    <2>2. RuleOf(d) = DirRule
        BY <1>1 DEF RuleOf
    <2>. QED  BY <2>1, <2>2
<1>3. <<"plugin_flag", "enableAllProjectMcpServers">> # <<"plugin_flag", "disableAllHooks">>
    OBVIOUS
<1>. QED  BY <1>1, <1>2, <1>3 DEF RuleOf

LEMMA WeakestIs ==
    ASSUME NEW tiers
    PROVE  /\ "unresolved" \in tiers => Weakest(tiers) = "unresolved"
           /\ "projected" \in tiers => Weakest(tiers) # "proven"
           /\ \/ Weakest(tiers) = "proven"
              \/ Weakest(tiers) \in tiers
BY DEF Weakest

\* The tiers that count for a delta.
TiersOf(rule, claims) ==
    {IF rule \in UnresolvedRules THEN "unresolved" ELSE "proven"}
        \cup {c.tier : c \in {x \in claims : x.direction # None}}
        \cup {c.tier : c \in {x \in claims : x.tier = "unresolved"}}

LEMMA ClassifyIs ==
    ASSUME NEW base, NEW head, NEW d, NEW c, c = Classify(d, base, head),
           NEW claims, claims = ClaimsAbout(d, base, head)
    PROVE  /\ c.tier = Weakest(TiersOf(RuleOf(d), claims))
           /\ (\A x \in claims : x.direction = None) =>
                 /\ c.direction = DirectionOf(RuleOf(d))
                 /\ c.direction = "widens" => c.category = CategoryOf(RuleOf(d), c.breadth)
           /\ (\A x \in claims : x.breadth \in {None, "whole_tool"})
                 /\ (\E x \in claims : x.breadth = "whole_tool") => c.breadth = "whole_tool"
<1>. DEFINE directed == {x \in claims : x.direction # None}
            measured == {x \in claims : x.breadth # None}
            direction == IF directed = {} THEN DirectionOf(RuleOf(d))
                         ELSE (CHOOSE x \in directed : TRUE).direction
            breadth == IF measured = {} THEN "unknown" ELSE (CHOOSE x \in measured : TRUE).breadth
<1>1. /\ c.tier = Weakest(TiersOf(RuleOf(d), claims))
      /\ c.direction = direction /\ c.breadth = breadth
      /\ c.category = IF direction = "widens" THEN CategoryOf(RuleOf(d), breadth) ELSE None
    BY DEF Classify, ClaimsAbout, SubjectOf, TiersOf
<1>2. (\A x \in claims : x.direction = None) => directed = {}
    OBVIOUS
<1>3. (\A x \in claims : x.breadth \in {None, "whole_tool"})
         /\ (\E x \in claims : x.breadth = "whole_tool") => breadth = "whole_tool"
    BY DEF None
<1>. QED  BY <1>1, <1>2, <1>3

\* A delta that widens and is not decided otherwise by a claim is of a failing
\* category, unless it adds a rule that is not seen to allow a whole tool.
LEMMA Refused ==
    ASSUME NEW base, NEW head, Admitted(base, head), NEW d \in RawDeltas(base, head),
           NEW claims, claims = ClaimsAbout(d, base, head)
    PROVE  /\ RuleOf(d) \notin UnresolvedRules
           /\ \A x \in claims : x.tier # "unresolved" /\ (x.direction # None => x.tier # "projected")
           /\ (\A x \in claims : x.direction = None) =>
                 \/ RuleOf(d) \notin WideningRules
                 \/ /\ RuleOf(d) = "D-allow-added"
                    /\ ~ /\ \A x \in claims : x.breadth \in {None, "whole_tool"}
                         /\ \E x \in claims : x.breadth = "whole_tool"
<1>1. PICK c : c = Classify(d, base, head)
    OBVIOUS
<1>2. c \in Deltas(base, head)
    BY <1>1 DEF Deltas
<1>3. c.tier = "proven"
    BY <1>2 DEF Admitted, IsUndecided
<1>4. c.direction # "widens" \/ c.category \notin DefaultFailing
    BY <1>2, <1>3 DEF Admitted, Expands, FailingCategories
<1>5. Weakest(TiersOf(RuleOf(d), claims)) = "proven"
    BY <1>1, <1>3, ClassifyIs
<1>6. "unresolved" \notin TiersOf(RuleOf(d), claims) /\ "projected" \notin TiersOf(RuleOf(d), claims)
    BY <1>5, WeakestIs
<1>7. /\ RuleOf(d) \notin UnresolvedRules
      /\ \A x \in claims : x.tier # "unresolved" /\ (x.direction # None => x.tier # "projected")
    <2>1. RuleOf(d) \notin UnresolvedRules
        BY <1>6 DEF TiersOf
    <2>2. ASSUME NEW x \in claims
          PROVE  x.tier # "unresolved" /\ (x.direction # None => x.tier # "projected")
        BY <1>6, <2>2 DEF TiersOf
    <2>. QED  BY <2>1, <2>2
<1>8. ASSUME \A x \in claims : x.direction = None, RuleOf(d) \in WideningRules
      PROVE  /\ RuleOf(d) = "D-allow-added"
             /\ ~ /\ \A x \in claims : x.breadth \in {None, "whole_tool"}
                  /\ \E x \in claims : x.breadth = "whole_tool"
    <2>0. DirectionOf(RuleOf(d)) = "widens"
        BY <1>8 DEF DirectionOf, WideningRules, NarrowingRules, UnresolvedRules
    <2>1. c.direction = "widens"
        BY <1>1, <1>8, <2>0, ClassifyIs
    <2>2. CategoryOf(RuleOf(d), c.breadth) \notin DefaultFailing
        BY <1>1, <1>4, <1>8, <2>1, ClassifyIs
    <2>3. RuleOf(d) = "D-allow-added"
        BY <1>8, <2>2 DEF CategoryOf, WideningRules, DefaultFailing, Categories
    <2>4. c.breadth # "whole_tool"
        BY <2>2, <2>3 DEF CategoryOf, DefaultFailing, Categories
    <2>. QED  BY <1>1, <2>3, <2>4, ClassifyIs
<1>. QED  BY <1>7, <1>8

\* A delta of a rule that widens, whose subject is not one that claims are
\* made about.
LEMMA PlainRefused ==
    ASSUME NEW base, NEW head, Admitted(base, head), NEW d \in RawDeltas(base, head),
           SubjectOf(d).kind \notin {"perm", "mode", "mcp"},
           SubjectOf(d).key # <<"plugin_flag", "enabledPlugins">>
    PROVE  RuleOf(d) \notin UnresolvedRules /\ RuleOf(d) \notin WideningRules \ {"D-allow-added"}
<1>1. ClaimsAbout(d, base, head) = {}
    BY DEF ClaimsAbout, ClaimsOn
<1>. QED  BY <1>1, Refused

-----------------------------------------------------------------------------
(* What is on both sides when nothing was refused.                         *)

\* The delta d of key k, from one group of entries to the other.
Tells(d, k, was, is) ==
    /\ d.key = k /\ d.kind = k[1]
    /\ IF was = {} THEN d.base = NoEntry ELSE d.base \in was /\ d.base # NoEntry
    /\ IF is = {} THEN d.head = NoEntry ELSE d.head \in is /\ d.head # NoEntry
    /\ d.change = IF is = {} THEN "removed" ELSE IF was = {} THEN "added" ELSE "changed"
    /\ d.base = First(was) /\ d.head = First(is)

\* A value that is on one side only is a delta.
LEMMA Noticed ==
    ASSUME NEW before, NEW after, Readable(before), Readable(after),
           NEW k, k[1] # "hook", NEW e, NEW was, NEW is,
           was = Group(Told(before), k), is = Group(Told(after), k),
           \/ e \in was /\ \A o \in is : o.value # e.value
           \/ e \in is /\ \A o \in was : o.value # e.value
    PROVE  \E d \in RawDeltas(Told(before), Told(after)) : Tells(d, k, was, is)
<1>1. PICK d : d = DeltaOf(Told(before), Told(after), k)
    OBVIOUS
<1>a. d.base = First(was) /\ d.head = First(is)
    BY <1>1 DEF DeltaOf
<1>2. d \in KeyedDeltas(Told(before), Told(after)) /\ Tells(d, k, was, is)
    BY <1>1, <1>a, DeltaIs DEF Tells
<1>3. d \in RawDeltas(Told(before), Told(after))
    BY <1>2, RawDelta DEF Tells
<1>. QED  BY <1>2, <1>3

LEMMA CredentialsStay ==
    ASSUME NEW before, NEW after, Readable(before), Readable(after),
           Admitted(Told(before), Told(after)), NEW k, k[1] = "credential"
    PROVE  /\ \A e \in Group(Told(after), k) : \E o \in Group(Told(before), k) : o.value = e.value
           /\ \A e \in Group(Told(before), k) : \E o \in Group(Told(after), k) : o.value = e.value
<1>1. PICK was, is : was = Group(Told(before), k) /\ is = Group(Told(after), k)
    OBVIOUS
<1>2. ASSUME NEW e, \/ e \in was /\ \A o \in is : o.value # e.value
                    \/ e \in is /\ \A o \in was : o.value # e.value
      PROVE  FALSE
    <2>1. PICK d \in RawDeltas(Told(before), Told(after)) : Tells(d, k, was, is)
        <3>1. k[1] # "hook"
            OBVIOUS
        <3>. QED  BY <1>1, <1>2, <3>1, Noticed
    <2>2. RuleOf(d) = "D-unknown"
        BY <2>1, RuleIs DEF Tells
    <2>. QED  BY <2>2, Refused DEF UnresolvedRules
<1>. QED  BY <1>1, <1>2

\* Where the text of a directory, a mode or a flag is recognised, it stays.
IsPlain(i) == i.at \in {"dir", "defaultMode", "flag"}

LEMMA CredentialIs ==
    ASSUME NEW placed, Readable(placed), NEW k, k[1] = "credential", NEW at, k[2] = at,
           at \in {"dir", "defaultMode", "flag"}, NEW e \in Group(Told(placed), k)
    PROVE  \E p \in placed : p[2].at = at /\ p[2].slot = k[3] /\ e.value = <<p[2].text>>
<1>1. e \in Told(placed) /\ e.key = k
    BY DEF Group
<1>2. ASSUME NEW p \in placed, e = EntryOf(p[1], p[2])
      PROVE  FALSE
    <2>1. p[2].at \in Sections
        BY DEF Readable, WellPlaced
    <2>2. KeyOf(p[2]) = k
        BY <1>1, <1>2 DEF EntryOf
    <2>. QED  BY <2>1, <2>2 DEF KeyOf, KindOf, Sections, PermissionLists
<1>3. PICK p \in placed : e \in CredentialsOf(p[1], p[2])
    BY <1>1, <1>2 DEF Told
<1>4. PICK l \in Literals(p[2]) :
         /\ e.key = <<"credential", p[2].at, p[2].slot, l[1]>>
         /\ e.value = <<WrittenAround(p[2], l)>>
    BY <1>3 DEF CredentialsOf
<1>5. p[2].at = at /\ p[2].slot = k[3]
    BY <1>1, <1>4
<1>6. l = <<"text", p[2].text>> /\ e.value = <<l[2]>>
    BY <1>4, <1>5 DEF Literals, WrittenAround, PermissionLists
<1>. QED  BY <1>5, <1>6

LEMMA CredentialOf ==
    ASSUME NEW placed, NEW p \in placed, IsPlain(p[2]), p[2].text \in Secret
    PROVE  \E e \in Group(Told(placed), <<"credential", p[2].at, p[2].slot, "text">>) :
              e.value = <<p[2].text>>
<1>1. <<"text", p[2].text>> \in Literals(p[2])
    BY DEF Literals, PermissionLists, IsPlain
<1>2. WrittenAround(p[2], <<"text", p[2].text>>) = p[2].text
    BY DEF WrittenAround, PermissionLists, IsPlain
<1>. DEFINE e == [kind |-> "credential", key |-> <<"credential", p[2].at, p[2].slot, "text">>,
                  value |-> <<p[2].text>>, file |-> p[1], slot |-> p[2].slot]
<1>3. e \in CredentialsOf(p[1], p[2])
    <2>1. PICK l : l = <<"text", p[2].text>>
        OBVIOUS
    <2>2. /\ l \in Literals(p[2]) /\ l[2] \in Secret
          /\ e = [kind |-> "credential", key |-> <<"credential", p[2].at, p[2].slot, l[1]>>,
                  value |-> <<WrittenAround(p[2], l)>>, file |-> p[1], slot |-> p[2].slot]
        BY <1>1, <1>2, <2>1
    <2>. QED  BY <2>2 DEF CredentialsOf
<1>. QED  BY <1>3 DEF Told, Group

LEMMA SecretsStay ==
    ASSUME NEW before, NEW after, Readable(before), Readable(after),
           Admitted(Told(before), Told(after))
    PROVE  /\ \A p \in after : IsPlain(p[2]) /\ p[2].text \in Secret =>
                 \E q \in before : q[2].at = p[2].at /\ q[2].slot = p[2].slot /\ q[2].text = p[2].text
           /\ \A p \in before : IsPlain(p[2]) /\ p[2].text \in Secret =>
                 \E q \in after : q[2].at = p[2].at /\ q[2].slot = p[2].slot /\ q[2].text = p[2].text
<1>1. ASSUME NEW from, NEW to, Readable(from), Readable(to),
             \A k : k[1] = "credential" =>
                       \A e \in Group(Told(from), k) : \E o \in Group(Told(to), k) : o.value = e.value,
             NEW p \in from, IsPlain(p[2]), p[2].text \in Secret
      PROVE  \E q \in to : q[2].at = p[2].at /\ q[2].slot = p[2].slot /\ q[2].text = p[2].text
    <2>1. PICK k : k = <<"credential", p[2].at, p[2].slot, "text">>
        OBVIOUS
    <2>2. PICK e \in Group(Told(from), k) : e.value = <<p[2].text>>
        BY <1>1, <2>1, CredentialOf
    <2>3. PICK o \in Group(Told(to), k) : o.value = e.value
        BY <1>1, <2>1, <2>2
    <2>4. k[1] = "credential" /\ k[2] = p[2].at /\ k[3] = p[2].slot
        BY <2>1
    <2>5. PICK q \in to : q[2].at = p[2].at /\ q[2].slot = k[3] /\ o.value = <<q[2].text>>
        BY <1>1, <2>3, <2>4, CredentialIs DEF IsPlain
    <2>. QED  BY <2>2, <2>3, <2>4, <2>5
<1>. QED  BY <1>1, CredentialsStay

\* An entry of a key that is no credential's is that of an item.
LEMMA EntryFrom ==
    ASSUME NEW placed, NEW k, k[1] # "credential", NEW e \in Group(Told(placed), k)
    PROVE  \E p \in placed : e = EntryOf(p[1], p[2]) /\ KeyOf(p[2]) = k
<1>1. e \in Told(placed) /\ e.key = k
    BY DEF Group
<1>2. ASSUME NEW p \in placed, e \in CredentialsOf(p[1], p[2])
      PROVE  FALSE
    BY <1>1, <1>2 DEF CredentialsOf
<1>3. PICK p \in placed : e = EntryOf(p[1], p[2])
    BY <1>1, <1>2 DEF Told
<1>4. e.key = KeyOf(p[2])
    BY <1>3 DEF EntryOf
<1>. QED  BY <1>1, <1>3, <1>4

LEMMA EntryIn ==
    ASSUME NEW placed, NEW p \in placed, NEW k, k = KeyOf(p[2]), NEW e, e = EntryOf(p[1], p[2])
    PROVE  /\ e \in Group(Told(placed), k)
           /\ e.kind = KindOf(p[2]) /\ e.key = k /\ e.value = ValueOf(p[2]) /\ e.file = p[1]
BY DEF EntryOf, Told, Group

LEMMA HooksStay ==
    ASSUME NEW before, NEW after, Readable(before), Readable(after),
           Admitted(Told(before), Told(after)), NEW p \in after, p[2].at = "hook"
    PROVE  \E q \in before : q[2].at = "hook" /\ q[2].more.event = p[2].more.event /\ q[2].text = p[2].text
<1>1. PICK k : k = KeyOf(p[2])
    OBVIOUS
<1>2. k = <<"hook", p[2].more.event, p[2].text>>
    BY <1>1 DEF KeyOf, PermissionLists
<1>3. Group(Told(after), k) # {}
    BY <1>1, EntryIn
<1>4. Group(Told(before), k) # {}
    <2>. SUFFICES ASSUME Group(Told(before), k) = {} PROVE FALSE
        OBVIOUS
    <2>0. k[1] = "hook"
        BY <1>2
    <2>1. PICK d \in RawDeltas(Told(before), Told(after)) :
              /\ d.kind = "hook" /\ d.key[1] = "hook" /\ d.head \in Told(after) /\ d.head.kind = "hook"
              /\ \/ d.change = "added"
                 \/ d.change = "changed" /\ d.base.key # d.head.key
        BY <1>3, <2>0, HookDelta
    <2>2. RuleOf(d) \in {"D-hook-added", "D-hook-changed"}
        BY <2>1, RuleIs DEF HookRule
    <2>3. d.head # NoEntry /\ d.head.key[1] = "hook"
        BY <2>1, ToldKinds
    <2>4. SubjectOf(d) = d.head
        BY <2>3 DEF SubjectOf
    <2>. QED  BY <2>1, <2>2, <2>3, <2>4, PlainRefused DEF WideningRules
<1>5. PICK e : e \in Group(Told(before), k)
    BY <1>4
<1>6. k[1] # "credential"
    BY <1>2
<1>7. PICK q \in before : KeyOf(q[2]) = k
    BY <1>5, <1>6, EntryFrom
<1>8. q[2].at = "hook"
    <2>1. q[2].at \in Sections
        BY DEF Readable, WellPlaced
    <2>. QED  BY <1>2, <1>7, <2>1 DEF KeyOf, KindOf, Sections, PermissionLists
<1>9. KeyOf(q[2]) = <<"hook", q[2].more.event, q[2].text>>
    BY <1>8 DEF KeyOf, PermissionLists
<1>. QED  BY <1>2, <1>7, <1>8, <1>9

LEMMA DirectoriesStay ==
    ASSUME NEW before, NEW after, Readable(before), Readable(after),
           Admitted(Told(before), Told(after)),
           NEW p \in after, p[2].at = "dir", p[2].text # "<redacted>"
    PROVE  \E q \in before : q[2].at = "dir" /\ q[2].text = p[2].text
<1>1. CASE p[2].text \in Secret
    BY <1>1, SecretsStay DEF IsPlain
<1>2. CASE p[2].text \notin Secret
    <2>1. PICK k, was, is : k = KeyOf(p[2]) /\ was = Group(Told(before), k) /\ is = Group(Told(after), k)
        OBVIOUS
    <2>2. k = <<"dir", p[2].text>>
        BY <1>2, <2>1 DEF KeyOf, PermissionLists, Shown
    <2>3. is # {}
        BY <2>1, EntryIn
    <2>4. was # {}
        <3>. SUFFICES ASSUME was = {} PROVE FALSE
            OBVIOUS
        <3>1. PICK e : e \in is
            BY <2>3
        <3>2. k[1] # "hook" /\ k[1] = "dir"
            BY <2>2
        <3>3. PICK d \in RawDeltas(Told(before), Told(after)) : Tells(d, k, was, is)
            BY <2>1, <3>1, <3>2, Noticed
        <3>4. /\ d.kind = "dir" /\ d.change = "added" /\ d.head \in Told(after)
              /\ d.head.key = k /\ d.head # NoEntry
            BY <2>1, <2>3, <3>2, <3>3 DEF Tells, Group
        <3>5. RuleOf(d) = "D-dir-added"
            BY <3>2, <3>3, <3>4, RuleIs DEF Tells
        <3>6. SubjectOf(d) = d.head /\ d.head.kind = "dir"
            BY <3>2, <3>4, ToldKinds DEF SubjectOf
        <3>. QED  BY <2>2, <3>4, <3>5, <3>6, PlainRefused DEF WideningRules
    <2>5. PICK e : e \in was
        BY <2>4
    <2>6. k[1] # "credential"
        BY <2>2
    <2>7. PICK q \in before : KeyOf(q[2]) = k
        BY <2>1, <2>5, <2>6, EntryFrom
    <2>8. q[2].at \in Sections
        BY DEF Readable, WellPlaced
    <2>9. q[2].at = "dir"
        BY <2>2, <2>7, <2>8 DEF KeyOf, KindOf, Sections, PermissionLists
    <2>10. KeyOf(q[2]) = <<"dir", Shown(q[2].text)>>
        BY <2>9 DEF KeyOf, PermissionLists
    <2>11. Shown(q[2].text) = p[2].text
        BY <2>2, <2>7, <2>10
    <2>12. q[2].text = p[2].text
        BY <2>8, <2>11 DEF Shown
    <2>. QED  BY <2>9, <2>12
<1>. QED  BY <1>1, <1>2

LEMMA EnvironmentStays ==
    ASSUME NEW before, NEW after, Readable(before), Readable(after),
           Admitted(Told(before), Told(after)),
           NEW p \in after, p[2].at = "env", p[2].slot \in SensitiveEnv
    PROVE  \E q \in before : q[2].at = "env" /\ q[2].slot = p[2].slot /\ q[2].text = p[2].text
<1>1. PICK k, e, was, is : /\ k = KeyOf(p[2]) /\ e = EntryOf(p[1], p[2])
                           /\ was = Group(Told(before), k) /\ is = Group(Told(after), k)
    OBVIOUS
<1>2. k = <<"env_key", p[2].slot>> /\ ValueOf(p[2]) = <<p[2].text>>
    BY <1>1 DEF KeyOf, KindOf, ValueOf, PermissionLists
<1>3. e \in is /\ e.value = <<p[2].text>>
    BY <1>1, <1>2, EntryIn
<1>4. k[1] # "hook" /\ k[1] = "env_key" /\ k[1] # "credential" /\ k[2] = p[2].slot
    BY <1>2
<1>5. \E o \in was : o.value = e.value
    <2>. SUFFICES ASSUME \A o \in was : o.value # e.value PROVE FALSE
        OBVIOUS
    <2>1. PICK d \in RawDeltas(Told(before), Told(after)) : Tells(d, k, was, is)
        BY <1>1, <1>3, <1>4, Noticed
    <2>2. /\ d.kind = "env_key" /\ d.key = k /\ d.change \in {"added", "changed"}
          /\ d.head \in is /\ d.head # NoEntry
        BY <1>3, <1>4, <2>1 DEF Tells
    <2>3. RuleOf(d) = "D-env-sensitive-set"
        BY <1>4, <2>2, RuleIs DEF EnvRule
    <2>4. SubjectOf(d) = d.head /\ d.head.kind = "env_key" /\ d.head.key = k
        BY <1>1, <1>4, <2>2, ToldKinds DEF SubjectOf, Group
    <2>. QED  BY <1>2, <2>3, <2>4, PlainRefused DEF WideningRules
<1>6. PICK o \in was : o.value = e.value
    BY <1>5
<1>7. PICK q \in before : o = EntryOf(q[1], q[2]) /\ KeyOf(q[2]) = k
    BY <1>1, <1>4, <1>6, EntryFrom
<1>8. q[2].at = "env"
    <2>1. q[2].at \in Sections
        BY DEF Readable, WellPlaced
    <2>. QED  BY <1>4, <1>7, <2>1 DEF KeyOf, KindOf, Sections, PermissionLists
<1>9. KeyOf(q[2]) = <<"env_key", q[2].slot>> /\ o.value = <<q[2].text>>
    BY <1>7, <1>8 DEF KeyOf, KindOf, ValueOf, EntryOf, PermissionLists
<1>. QED  BY <1>2, <1>3, <1>6, <1>7, <1>8, <1>9

\* Where a section stands in one file, a key there has one value.
LEMMA SoleValue ==
    ASSUME NEW placed, Readable(placed), NEW p \in placed, p[2].at \in {"defaultMode", "flag", "mcp"},
           \A q \in placed : q[2].at = p[2].at => q[1] = p[1],
           NEW k, k = KeyOf(p[2]), NEW e \in Group(Told(placed), k)
    PROVE  e.value = ValueOf(p[2])
<1>1. k = <<KindOf(p[2]), p[2].slot>> /\ k[1] \in {"mode", "plugin_flag", "mcp"}
      /\ (k[1] = "mode" <=> p[2].at = "defaultMode") /\ (k[1] = "plugin_flag" <=> p[2].at = "flag")
      /\ (k[1] = "mcp" <=> p[2].at = "mcp")
    BY DEF KeyOf, KindOf, PermissionLists
<1>2. k[1] # "credential"
    BY <1>1
<1>3. PICK q \in placed : e = EntryOf(q[1], q[2]) /\ KeyOf(q[2]) = k
    BY <1>2, EntryFrom
<1>4. q[2].at = p[2].at
    <2>1. q[2].at \in Sections
        BY DEF Readable, WellPlaced
    <2>. QED  BY <1>1, <1>3, <2>1 DEF KeyOf, KindOf, Sections, PermissionLists
<1>5. KeyOf(q[2]) = <<KindOf(q[2]), q[2].slot>>
    BY <1>4 DEF KeyOf, KindOf, PermissionLists
<1>6. q[2].slot = p[2].slot /\ q[1] = p[1]
    BY <1>1, <1>3, <1>4, <1>5
<1>7. q = p
    BY <1>4, <1>6 DEF Readable, WellFormed
<1>. QED  BY <1>3, <1>7 DEF EntryOf

\* The text shown and its digest tell the text.
LEMMA ShownTells ==
    ASSUME NEW a, NEW b, Shown(a) = Shown(b), HiddenDigest(a) = HiddenDigest(b)
    PROVE  a = b
BY SecretAssumption DEF Shown, HiddenDigest

LEMMA ServersStay ==
    ASSUME NEW before, NEW after, Readable(before), Readable(after),
           Admitted(Told(before), Told(after)), NEW p \in after, p[2].at = "mcp"
    PROVE  \E q \in before :
              /\ q[2].at = "mcp" /\ q[2].slot = p[2].slot
              /\ q[2].text.scheme = p[2].text.scheme /\ q[2].text.target = p[2].text.target
              /\ q[2].more.args = p[2].more.args
              /\ \A v \in p[2].more.env : v[1] \in SensitiveEnv => v \in q[2].more.env
<1>1. PICK k, e, was, is : /\ k = KeyOf(p[2]) /\ e = EntryOf(p[1], p[2])
                           /\ was = Group(Told(before), k) /\ is = Group(Told(after), k)
    OBVIOUS
<1>2. k = <<"mcp", p[2].slot>>
    BY <1>1 DEF KeyOf, KindOf, PermissionLists
<1>3. e \in is /\ e.value = ValueOf(p[2])
    BY <1>1, EntryIn
<1>4. k[1] # "hook" /\ k[1] = "mcp" /\ k[1] # "credential"
    BY <1>2
<1>5. \A o \in is : o.value = ValueOf(p[2])
    <2>1. \A q \in after : q[2].at = p[2].at => q[1] = p[1]
        BY DEF Readable, WellPlaced
    <2>. QED  BY <1>1, <2>1, SoleValue
<1>6. ASSUME NEW d \in RawDeltas(Told(before), Told(after)), Tells(d, k, was, is)
      PROVE  RuleOf(d) = McpRule(d) /\ RuleOf(d) \notin WideningRules \cup UnresolvedRules
    <2>1. d.kind = "mcp" /\ d.key = k /\ d.change # "moved" /\ d.head \in is /\ d.head # NoEntry
        BY <1>3, <1>4, <1>6 DEF Tells
    <2>2. RuleOf(d) = McpRule(d)
        BY <1>4, <2>1, RuleIs
    <2>3. SubjectOf(d) = d.head /\ d.head.kind = "mcp"
        BY <1>1, <1>4, <2>1, ToldKinds DEF SubjectOf, Group
    <2>4. PICK claims : claims = ClaimsAbout(d, Told(before), Told(after))
        OBVIOUS
    <2>5. \A x \in claims : x.direction = None
        BY <2>3, <2>4 DEF ClaimsAbout, ClaimsOn, McpClaims, Claim
    <2>6. McpRule(d) # "D-allow-added"
        BY DEF McpRule
    <2>. QED  BY <2>2, <2>4, <2>5, <2>6, Refused
<1>7. was # {}
    <2>. SUFFICES ASSUME was = {} PROVE FALSE
        OBVIOUS
    <2>1. PICK d \in RawDeltas(Told(before), Told(after)) : Tells(d, k, was, is)
        BY <1>1, <1>3, <1>4, Noticed
    <2>2. d.change = "added"
        BY <1>3, <2>1 DEF Tells
    <2>3. McpRule(d) = "D-mcp-added"
        BY <2>2 DEF McpRule
    <2>. QED  BY <1>6, <2>1, <2>3 DEF WideningRules
<1>8. PICK o : o \in was
    BY <1>7
<1>9. PICK q \in before : o = EntryOf(q[1], q[2]) /\ KeyOf(q[2]) = k
    BY <1>1, <1>4, <1>8, EntryFrom
<1>10. q[2].at = "mcp"
    <2>1. q[2].at \in Sections
        BY DEF Readable, WellPlaced
    <2>. QED  BY <1>4, <1>9, <2>1 DEF KeyOf, KindOf, Sections, PermissionLists
<1>11. \A x \in was : x.value = ValueOf(q[2])
    <2>1. \A x \in before : x[2].at = q[2].at => x[1] = q[1]
        BY <1>10 DEF Readable, WellPlaced
    <2>. QED  BY <1>1, <1>9, <1>10, <2>1, SoleValue
<1>12. q[2].slot = p[2].slot
    BY <1>2, <1>9, <1>10 DEF KeyOf, KindOf, PermissionLists
<1>13. PICK old, new : old = ValueOf(q[2]) /\ new = ValueOf(p[2])
    OBVIOUS
<1>14. old.to = new.to /\ old.args = new.args /\ \A v \in new.env : v[1] \in SensitiveEnv => v \in old.env
    <2>1. CASE old = new
        BY <2>1
    <2>2. CASE old # new
        <3>1. \A x \in was : x.value # e.value
            BY <1>3, <1>11, <1>13, <2>2
        <3>2. PICK d \in RawDeltas(Told(before), Told(after)) : Tells(d, k, was, is)
            BY <1>1, <1>3, <1>4, <3>1, Noticed
        <3>3. d.change = "changed" /\ d.base.value = old /\ d.head.value = new
            BY <1>3, <1>5, <1>7, <1>11, <1>13, <3>2 DEF Tells
        <3>4. McpRule(d) \notin WideningRules
            BY <1>6, <3>2
        <3>. QED  BY <3>3, <3>4 DEF McpRule, WideningRules
    <2>. QED  BY <2>1, <2>2
<1>15. ASSUME NEW i, i.at = "mcp", i.more.args # Junk
       PROVE  /\ ValueOf(i).to = <<i.text.scheme, Shown(i.text.target), HiddenDigest(i.text.target)>>
              /\ ValueOf(i).args = <<Shown(i.more.args), HiddenDigest(i.more.args)>>
              /\ ValueOf(i).env = i.more.env
    BY <1>15 DEF ValueOf, PermissionLists
<1>16. p[2].more.args # Junk /\ q[2].more.args # Junk
    BY <1>10 DEF Readable, Unusable, PermissionLists
<1>17. /\ old.to = <<q[2].text.scheme, Shown(q[2].text.target), HiddenDigest(q[2].text.target)>>
       /\ old.args = <<Shown(q[2].more.args), HiddenDigest(q[2].more.args)>>
       /\ old.env = q[2].more.env
       /\ new.to = <<p[2].text.scheme, Shown(p[2].text.target), HiddenDigest(p[2].text.target)>>
       /\ new.args = <<Shown(p[2].more.args), HiddenDigest(p[2].more.args)>>
       /\ new.env = p[2].more.env
    BY <1>10, <1>13, <1>15, <1>16
<1>18. /\ q[2].text.scheme = p[2].text.scheme
       /\ Shown(q[2].text.target) = Shown(p[2].text.target)
       /\ HiddenDigest(q[2].text.target) = HiddenDigest(p[2].text.target)
       /\ Shown(q[2].more.args) = Shown(p[2].more.args)
       /\ HiddenDigest(q[2].more.args) = HiddenDigest(p[2].more.args)
    <2>1. ASSUME NEW x, NEW y, x.to = y.to, NEW a, NEW b, NEW c, NEW f, NEW g, NEW h,
                 x.to = <<a, b, c>>, y.to = <<f, g, h>>
          PROVE  a = f /\ b = g /\ c = h
        <3>1. <<a, b, c>> = <<f, g, h>>
            BY <2>1
        <3>. QED  BY <3>1
    <2>2. ASSUME NEW x, NEW y, x.args = y.args, NEW a, NEW b, NEW f, NEW g,
                 x.args = <<a, b>>, y.args = <<f, g>>
          PROVE  a = f /\ b = g
        <3>1. <<a, b>> = <<f, g>>
            BY <2>2
        <3>. QED  BY <3>1
    <2>3. old.to = new.to /\ old.args = new.args
        BY <1>14
    <2>. QED  BY <1>17, <2>1, <2>2, <2>3
<1>. QED  BY <1>10, <1>12, <1>14, <1>17, <1>18, ShownTells

\* No earlier file has the key of this item.
Leads(p, placed) == ~\E q \in placed : KeyOf(q[2]) = KeyOf(p[2]) /\ Rank[q[1]] < Rank[p[1]]

\* The item a key is compared by.
LEMMA LeaderIsFirst ==
    ASSUME NEW placed, Readable(placed), NEW p \in placed, p[2].at \in {"defaultMode", "flag"},
           Leads(p, placed), NEW k, k = KeyOf(p[2]), NEW group, group = Group(Told(placed), k)
    PROVE  First(group).value = ValueOf(p[2]) /\ \E e \in group : e.value = ValueOf(p[2])
<1>1. k = <<KindOf(p[2]), p[2].slot>> /\ k[1] \in {"mode", "plugin_flag"} /\ k[1] # "credential"
      /\ (k[1] = "mode" <=> p[2].at = "defaultMode") /\ (k[1] = "plugin_flag" <=> p[2].at = "flag")
    BY DEF KeyOf, KindOf, PermissionLists
<1>2. PICK e \in group : e.value = ValueOf(p[2]) /\ e.file = p[1]
    BY EntryIn
<1>3. \A o \in group : o.file \in Files
    BY ToldKinds DEF Group
<1>4. PICK f : f = First(group)
    OBVIOUS
<1>5. f \in group /\ Rank[f.file] <= Rank[p[1]]
    BY <1>2, <1>3, <1>4, FirstIsOne
<1>6. PICK q \in placed : f = EntryOf(q[1], q[2]) /\ KeyOf(q[2]) = k
    BY <1>1, <1>5, EntryFrom
<1>7. f.file = q[1] /\ f.value = ValueOf(q[2])
    BY <1>6 DEF EntryOf
<1>8. p[1] \in Files /\ q[1] \in Files
    BY DEF Readable, WellPlaced
<1>9. q[1] = p[1]
    <2>1. ~(Rank[q[1]] < Rank[p[1]])
        BY <1>6 DEF Leads
    <2>2. Rank[q[1]] <= Rank[p[1]]
        BY <1>5, <1>7
    <2>. QED  BY <1>8, <2>1, <2>2 DEF Rank, Files
<1>10. q[2].at = p[2].at
    <2>1. q[2].at \in Sections
        BY DEF Readable, WellPlaced
    <2>. QED  BY <1>1, <1>6, <2>1 DEF KeyOf, KindOf, Sections, PermissionLists
<1>11. KeyOf(q[2]) = <<KindOf(q[2]), q[2].slot>>
    BY <1>10 DEF KeyOf, KindOf, PermissionLists
<1>12. q[2].slot = p[2].slot
    BY <1>1, <1>6, <1>11
<1>13. q = p
    BY <1>9, <1>10, <1>12 DEF Readable, WellFormed
<1>. QED  BY <1>2, <1>4, <1>7, <1>13

LEMMA ModesStay ==
    ASSUME NEW before, NEW after, Readable(before), Readable(after),
           Admitted(Told(before), Told(after)),
           NEW p \in after, p[2].at = "defaultMode", p[2].text \in WideningModes, Leads(p, after)
    PROVE  \E q \in before : q[2].at = "defaultMode" /\ q[2].text \in WideningModes
<1>1. CASE p[2].text \in Secret
    <2>1. IsPlain(p[2])
        BY DEF IsPlain
    <2>2. PICK q \in before : q[2].at = p[2].at /\ q[2].slot = p[2].slot /\ q[2].text = p[2].text
        BY <1>1, <2>1, SecretsStay
    <2>. QED  BY <2>2
<1>2. CASE p[2].text \notin Secret
    <2>. SUFFICES ASSUME \A q \in before : q[2].at = "defaultMode" => q[2].text \notin WideningModes
                  PROVE  FALSE
        OBVIOUS
    <2>1. PICK k, e, was, is : /\ k = KeyOf(p[2]) /\ e = EntryOf(p[1], p[2])
                               /\ was = Group(Told(before), k) /\ is = Group(Told(after), k)
        OBVIOUS
    <2>2. k = <<"mode", p[2].slot>> /\ ValueOf(p[2]) = <<p[2].text>>
        BY <1>2, <2>1 DEF KeyOf, KindOf, ValueOf, Shown, PermissionLists
    <2>3. e \in is /\ e.value = <<p[2].text>>
        <3>1. e \in is /\ e.value = ValueOf(p[2])
            BY <2>1, EntryIn
        <3>. QED  BY <2>2, <3>1
    <2>4. k[1] # "hook" /\ k[1] = "mode" /\ k[1] # "credential"
        BY <2>2
    <2>5. First(is).value = <<p[2].text>>
        <3>1. p[2].at \in {"defaultMode", "flag"}
            OBVIOUS
        <3>2. First(is).value = ValueOf(p[2])
            BY <2>1, <3>1, LeaderIsFirst
        <3>. QED  BY <2>2, <3>2
    <2>6. ASSUME NEW o \in was
          PROVE  o.value[1] \notin WideningModes
        <3>1. PICK q \in before : o = EntryOf(q[1], q[2]) /\ KeyOf(q[2]) = k
            BY <2>1, <2>4, EntryFrom
        <3>2. q[2].at \in Sections
            BY DEF Readable, WellPlaced
        <3>3. q[2].at = "defaultMode"
            BY <2>4, <3>1, <3>2 DEF KeyOf, KindOf, Sections, PermissionLists
        <3>4. o.value = <<Shown(q[2].text)>>
            BY <3>1, <3>3 DEF EntryOf, ValueOf, PermissionLists
        <3>. QED  BY <3>3, <3>4 DEF Shown, WideningModes
    <2>7. \A o \in was : o.value # e.value
        <3>1. e.value[1] = p[2].text
            BY <2>3
        <3>. QED  BY <2>6, <3>1
    <2>8. PICK d \in RawDeltas(Told(before), Told(after)) : Tells(d, k, was, is)
        BY <2>1, <2>3, <2>4, <2>7, Noticed
    <2>9. /\ d.kind = "mode" /\ d.key = k /\ d.change # "moved" /\ d.head = First(is) /\ d.head \in is /\ d.head # NoEntry
          /\ d.base = NoEntry \/ (d.base # NoEntry /\ d.base \in was)
        BY <2>3, <2>4, <2>8 DEF Tells
    <2>10. ModeClass(d.head) = "widening"
        <3>1. d.head.value[1] = p[2].text
            BY <2>5, <2>9
        <3>. QED  BY <2>9, <3>1 DEF ModeClass
    <2>11. ModeClass(d.base) # "widening"
        BY <2>6, <2>9 DEF ModeClass
    <2>12. RuleOf(d) \in {"D-mode-unknown", "D-mode-widened"}
        <3>1. RuleOf(d) = ModeRule(d)
            BY <2>4, <2>9, RuleIs
        <3>. QED  BY <2>10, <2>11, <3>1 DEF ModeRule
    <2>13. SubjectOf(d) = d.head /\ d.head.kind = "mode" /\ d.head.key[1] = "mode"
        BY <2>1, <2>4, <2>9, ToldKinds DEF SubjectOf, Group
    <2>14. ClaimsAbout(d, Told(before), Told(after)) = {}
        <3>1. ModeClaims(d.head) = {}
            BY <2>10 DEF ModeClaims
        <3>2. d.head.key # <<"plugin_flag", "enabledPlugins">>
            BY <2>13
        <3>3. \A x : ClaimsOn(d.head, x) = ModeClaims(d.head)
            BY <2>13, <3>2 DEF ClaimsOn
        <3>. QED  BY <2>13, <3>1, <3>3 DEF ClaimsAbout
    <2>. QED  BY <2>12, <2>14, Refused DEF WideningRules, UnresolvedRules
<1>. QED  BY <1>1, <1>2

\* A flag that is on: the delta to or from another value is refused.
IsOn(p, slot) == p[2].at = "flag" /\ p[2].slot = slot /\ p[2].text = "true"

LEMMA FlagOff ==
    ASSUME NEW placed, Readable(placed), NEW slot, \A q \in placed : ~IsOn(q, slot),
           NEW o \in Group(Told(placed), <<"plugin_flag", slot>>)
    PROVE  o.value[1] # "true"
<1>1. PICK k : k = <<"plugin_flag", slot>>
    OBVIOUS
<1>2. k[1] = "plugin_flag" /\ k[1] # "credential" /\ k[2] = slot
    BY <1>1
<1>3. PICK q \in placed : o = EntryOf(q[1], q[2]) /\ KeyOf(q[2]) = k
    BY <1>1, <1>2, EntryFrom
<1>4. q[2].at \in Sections
    BY DEF Readable, WellPlaced
<1>5. q[2].at = "flag"
    BY <1>2, <1>3, <1>4 DEF KeyOf, KindOf, Sections, PermissionLists
<1>6. o.value = <<Shown(q[2].text)>> /\ q[2].slot = slot
    BY <1>2, <1>3, <1>5 DEF EntryOf, ValueOf, KeyOf, KindOf, PermissionLists
<1>. QED  BY <1>5, <1>6 DEF Shown, IsOn

LEMMA FlagOn ==
    ASSUME NEW placed, Readable(placed), NEW p \in placed, NEW slot, IsOn(p, slot),
           p[2].text \notin Secret, Leads(p, placed),
           NEW group, group = Group(Told(placed), <<"plugin_flag", slot>>)
    PROVE  First(group).value = <<"true">> /\ \E e \in group : e.value = <<"true">>
<1>1. KeyOf(p[2]) = <<"plugin_flag", slot>> /\ ValueOf(p[2]) = <<"true">> /\ p[2].at = "flag"
    BY DEF IsOn, KeyOf, KindOf, ValueOf, Shown, PermissionLists
<1>. QED  BY <1>1, LeaderIsFirst

LEMMA FlagsStay ==
    ASSUME NEW before, NEW after, Readable(before), Readable(after),
           Admitted(Told(before), Told(after))
    PROVE  /\ \A p \in after : IsOn(p, "enableAllProjectMcpServers") /\ Leads(p, after) =>
                 \E q \in before : IsOn(q, "enableAllProjectMcpServers")
           /\ \A p \in before : IsOn(p, "disableAllHooks") /\ Leads(p, before) =>
                 \E q \in after : IsOn(q, "disableAllHooks")
<1>1. ASSUME NEW p \in after, IsOn(p, "enableAllProjectMcpServers"), Leads(p, after),
             \A q \in before : ~IsOn(q, "enableAllProjectMcpServers")
      PROVE  FALSE
    <2>1. p[2].text \notin Secret
        BY <1>1, SecretsStay DEF IsOn, IsPlain
    <2>2. PICK k, was, is : /\ k = <<"plugin_flag", "enableAllProjectMcpServers">>
                            /\ was = Group(Told(before), k) /\ is = Group(Told(after), k)
        OBVIOUS
    <2>3. First(is).value = <<"true">> /\ \E e \in is : e.value = <<"true">>
        BY <1>1, <2>1, <2>2, FlagOn
    <2>4. \A o \in was : o.value[1] # "true"
        BY <1>1, <2>2, FlagOff
    <2>5. PICK e \in is : e.value = <<"true">>
        BY <2>3
    <2>6. \A o \in was : o.value # e.value
        BY <2>4, <2>5
    <2>7. k[1] # "hook" /\ k[1] = "plugin_flag"
        BY <2>2
    <2>8. PICK d \in RawDeltas(Told(before), Told(after)) : Tells(d, k, was, is)
        BY <2>2, <2>5, <2>6, <2>7, Noticed
    <2>9. /\ d.kind = d.key[1] /\ d.key = k /\ d.change \in {"added", "changed"}
          /\ d.head \in is /\ d.head # NoEntry /\ d.head.value[1] = "true"
        BY <2>3, <2>5, <2>8 DEF Tells
    <2>10. RuleOf(d) \in {"D-unknown", "D-enable-all-mcp"}
        <3>1. RuleOf(d) = FlagRule(d, "D-enable-all-mcp", "D-enable-all-mcp-off")
            BY <2>2, <2>9, RuleIs
        <3>. QED  BY <2>9, <3>1 DEF FlagRule
    <2>11. SubjectOf(d) = d.head /\ d.head.kind = "plugin_flag" /\ d.head.key = k
        BY <2>2, <2>7, <2>9, ToldKinds DEF SubjectOf, Group
    <2>12. k # <<"plugin_flag", "enabledPlugins">>
        BY <2>2
    <2>. QED  BY <2>10, <2>11, <2>12, PlainRefused DEF WideningRules, UnresolvedRules
<1>2. ASSUME NEW p \in before, IsOn(p, "disableAllHooks"), Leads(p, before),
             \A q \in after : ~IsOn(q, "disableAllHooks")
      PROVE  FALSE
    <2>1. p[2].text \notin Secret
        BY <1>2, SecretsStay DEF IsOn, IsPlain
    <2>2. PICK k, was, is : /\ k = <<"plugin_flag", "disableAllHooks">>
                            /\ was = Group(Told(before), k) /\ is = Group(Told(after), k)
        OBVIOUS
    <2>3. First(was).value = <<"true">> /\ \E e \in was : e.value = <<"true">>
        BY <1>2, <2>1, <2>2, FlagOn
    <2>4. \A o \in is : o.value[1] # "true"
        BY <1>2, <2>2, FlagOff
    <2>5. PICK e \in was : e.value = <<"true">>
        BY <2>3
    <2>6. \A o \in is : o.value # e.value
        BY <2>4, <2>5
    <2>7. k[1] # "hook" /\ k[1] = "plugin_flag"
        BY <2>2
    <2>8. PICK d \in RawDeltas(Told(before), Told(after)) : Tells(d, k, was, is)
        BY <2>2, <2>5, <2>6, <2>7, Noticed
    <2>9. /\ d.kind = d.key[1] /\ d.key = k /\ d.change \in {"removed", "changed"}
          /\ d.base = First(was) /\ d.base \in was /\ d.base # NoEntry
          /\ (d.head = NoEntry \/ (d.head \in is /\ d.head # NoEntry))
        BY <2>5, <2>8 DEF Tells
    <2>10. d.base.value[1] = "true"
        BY <2>3, <2>9
    <2>11. d.head.value[1] # "true"
        <3>1. NoEntry.value[1] # "true"
            BY DEF NoEntry, None
        <3>. QED  BY <2>4, <2>9, <3>1
    <2>12. RuleOf(d) \in {"D-unknown", "D-hooks-reenabled"}
        <3>1. RuleOf(d) = FlagRule(d, "D-hooks-disabled", "D-hooks-reenabled")
            BY <2>2, <2>9, RuleIs
        <3>. QED  BY <2>9, <2>10, <2>11, <3>1 DEF FlagRule
    <2>13. SubjectOf(d).kind = "plugin_flag" /\ SubjectOf(d).key = k
        BY <2>2, <2>7, <2>9, ToldKinds DEF SubjectOf, Group
    <2>14. k # <<"plugin_flag", "enabledPlugins">>
        BY <2>2
    <2>. QED  BY <2>12, <2>13, <2>14, PlainRefused DEF WideningRules, UnresolvedRules
<1>. QED  BY <1>1, <1>2

\* A rule of a permission list that is on one side only.
LEMMA RuleKey ==
    ASSUME NEW placed, Readable(placed), NEW list \in PermissionLists, NEW r,
           NEW k, k = <<"perm", list, r>>
    PROVE  Group(Told(placed), k) # {} <=>
              \E p \in placed : p[2].at = list /\ Canonical(p[2].text) = r
<1>1. k[1] = "perm" /\ k[1] # "credential" /\ k[2] = list /\ k[3] = r
    OBVIOUS
<1>2. ASSUME NEW p \in placed, p[2].at = list, Canonical(p[2].text) = r
      PROVE  Group(Told(placed), k) # {}
    <2>1. KeyOf(p[2]) = k
        BY <1>2 DEF KeyOf, PermissionLists
    <2>. QED  BY <2>1, EntryIn
<1>3. ASSUME NEW e \in Group(Told(placed), k)
      PROVE  \E p \in placed : p[2].at = list /\ Canonical(p[2].text) = r
    <2>1. PICK p \in placed : KeyOf(p[2]) = k
        BY <1>1, EntryFrom
    <2>2. p[2].at \in Sections
        BY DEF Readable, WellPlaced
    <2>3. p[2].at \in PermissionLists
        BY <1>1, <2>1, <2>2 DEF KeyOf, KindOf, Sections, PermissionLists
    <2>4. KeyOf(p[2]) = <<"perm", p[2].at, Canonical(p[2].text)>>
        BY <2>3 DEF KeyOf, PermissionLists
    <2>. QED  BY <2>1, <2>4
<1>. QED  BY <1>2, <1>3

\* Of a rule of a shape that is evaluated no claim names a direction, unless
\* the rule is in an earlier list too.
Evaluated(r) == ~Scoped(r) \/ r.tool \notin IgnoredSpecTools \cup McpTools

LEMMA PermClaimsAre ==
    ASSUME NEW e, NEW entries, NEW list, NEW r, e.kind = "perm", e.key = <<"perm", list, r>>,
           Evaluated(r), list = "deny" \/ ~Scoped(r),
           NEW claims, claims = ClaimsOn(e, entries),
           NEW x \in claims
    PROVE  x \in Shadowing(e, entries) \/ x.direction = None
<1>1. e.key[2] = list /\ e.key[3] = r /\ e.key # <<"plugin_flag", "enabledPlugins">>
    OBVIOUS
<1>2. claims = PermClaims(e, entries)
    BY <1>1 DEF ClaimsOn
<1>3. ~IgnoredShape(list, r)
    BY DEF IgnoredShape, Evaluated
<1>4. \/ x \in Shadowing(e, entries)
      \/ x = Claim(None, None, "unresolved", None)
      \/ x \in WholeTool(r) \cup BashBreadth(r)
    BY <1>1, <1>2, <1>3 DEF PermClaims
<1>5. \A y \in WholeTool(r) \cup BashBreadth(r) : y.direction = None
    BY DEF WholeTool, BashBreadth, Claim
<1>. QED  BY <1>4, <1>5 DEF Claim

LEMMA DenialsStay ==
    ASSUME NEW before, NEW after, Readable(before), Readable(after),
           Admitted(Told(before), Told(after)),
           NEW p \in before, p[2].at = "deny", NEW r, r = Canonical(p[2].text), Evaluated(r)
    PROVE  \E q \in after : q[2].at = "deny" /\ Canonical(q[2].text) = r
<1>1. PICK k, was, is : /\ k = <<"perm", "deny", r>>
                        /\ was = Group(Told(before), k) /\ is = Group(Told(after), k)
    OBVIOUS
<1>2. was # {}
    BY <1>1, RuleKey DEF PermissionLists
<1>. SUFFICES ASSUME is = {} PROVE FALSE
    BY <1>1, RuleKey DEF PermissionLists
<1>3. PICK e : e \in was
    BY <1>2
<1>4. k[1] # "hook" /\ k[1] = "perm" /\ k[2] = "deny" /\ k[3] = r
    BY <1>1
<1>5. PICK d \in RawDeltas(Told(before), Told(after)) : Tells(d, k, was, is)
    BY <1>1, <1>3, <1>4, Noticed
<1>6. /\ d.kind = "perm" /\ d.key = k /\ d.change = "removed" /\ d.head = NoEntry
      /\ d.base \in was
    BY <1>2, <1>4, <1>5 DEF Tells
<1>7. RuleOf(d) = "D-deny-removed"
    <2>1. RuleOf(d) = PermRule(d)
        BY <1>4, <1>6, RuleIs
    <2>. QED  BY <1>4, <1>6, <2>1 DEF PermRule
<1>8. SubjectOf(d) = d.base /\ d.base.kind = "perm" /\ d.base.key = k
    BY <1>1, <1>4, <1>6, ToldKinds DEF SubjectOf, Group
<1>9. PICK claims : claims = ClaimsAbout(d, Told(before), Told(after))
    OBVIOUS
<1>10. claims = ClaimsOn(d.base, Told(before))
    BY <1>6, <1>8, <1>9 DEF ClaimsAbout
<1>11. Shadowing(d.base, Told(before)) = {}
    BY <1>4, <1>8 DEF Shadowing
<1>12. \A x \in claims : x.direction = None
    BY <1>1, <1>8, <1>10, <1>11, PermClaimsAre
<1>. QED  BY <1>7, <1>9, <1>12, Refused DEF WideningRules

LEMMA WholeToolsStay ==
    ASSUME NEW before, NEW after, Readable(before), Readable(after),
           Admitted(Told(before), Told(after)),
           NEW p \in after, p[2].at = "allow", NEW r, r = Canonical(p[2].text), ~Scoped(r)
    PROVE  \E q \in before : q[2].at = "allow" /\ Canonical(q[2].text) = r
<1>1. PICK k, was, is : /\ k = <<"perm", "allow", r>>
                        /\ was = Group(Told(before), k) /\ is = Group(Told(after), k)
    OBVIOUS
<1>2. is # {}
    BY <1>1, RuleKey DEF PermissionLists
<1>. SUFFICES ASSUME was = {} PROVE FALSE
    BY <1>1, RuleKey DEF PermissionLists
<1>3. PICK e : e \in is
    BY <1>2
<1>4. k[1] # "hook" /\ k[1] = "perm" /\ k[2] = "allow" /\ k[3] = r
    BY <1>1
<1>5. PICK d \in RawDeltas(Told(before), Told(after)) : Tells(d, k, was, is)
    BY <1>1, <1>3, <1>4, Noticed
<1>6. /\ d.kind = "perm" /\ d.key = k /\ d.change = "added"
      /\ d.head \in is /\ d.head # NoEntry
    BY <1>2, <1>4, <1>5 DEF Tells
<1>7. RuleOf(d) = "D-allow-added"
    <2>1. RuleOf(d) = PermRule(d)
        BY <1>4, <1>6, RuleIs
    <2>. QED  BY <1>4, <1>6, <2>1 DEF PermRule
<1>8. SubjectOf(d) = d.head /\ d.head.kind = "perm" /\ d.head.key = k
    BY <1>1, <1>4, <1>6, ToldKinds DEF SubjectOf, Group
<1>9. PICK claims : claims = ClaimsAbout(d, Told(before), Told(after))
    OBVIOUS
<1>10. claims = ClaimsOn(d.head, Told(after))
    BY <1>6, <1>8, <1>9 DEF ClaimsAbout
<1>11. \A x \in Shadowing(d.head, Told(after)) :
          x = Claim(None, "neutral", "projected", "shadowed") /\ x \in claims
    <2>1. claims = PermClaims(d.head, Told(after))
        <3>1. d.head.key # <<"plugin_flag", "enabledPlugins">>
            BY <1>4, <1>8
        <3>. QED  BY <1>8, <1>10, <3>1 DEF ClaimsOn
    <2>. QED  BY <2>1 DEF Shadowing, PermClaims
<1>12. Shadowing(d.head, Told(after)) = {}
    BY <1>9, <1>11, Refused DEF Claim, None
<1>13. \A x \in claims : x.direction = None
    BY <1>1, <1>8, <1>10, <1>12, PermClaimsAre DEF Evaluated
<1>14. claims = {Claim("whole_tool", None, "proven", None)}
    <2>1. claims = PermClaims(d.head, Told(after))
        <3>1. d.head.key # <<"plugin_flag", "enabledPlugins">>
            BY <1>4, <1>8
        <3>. QED  BY <1>8, <1>10, <3>1 DEF ClaimsOn
    <2>2. ~IgnoredShape("allow", r) /\ ~NotInterpretedRule(r)
        BY DEF IgnoredShape, NotInterpretedRule
    <2>3. WholeTool(r) = {Claim("whole_tool", None, "proven", None)} /\ BashBreadth(r) = {}
        BY DEF WholeTool, BashBreadth
    <2>4. d.head.key[2] = "allow" /\ d.head.key[3] = r
        BY <1>4, <1>8
    <2>. QED  BY <1>12, <2>1, <2>2, <2>3, <2>4 DEF PermClaims
<1>15. \A x \in claims : x.breadth = "whole_tool"
    BY <1>14 DEF Claim
<1>16. \E x \in claims : x.breadth = "whole_tool"
    BY <1>14, <1>15
<1>. QED  BY <1>7, <1>9, <1>13, <1>15, <1>16, Refused DEF WideningRules

-----------------------------------------------------------------------------
(* From the items of two trees to what the trees grant and forbid.         *)

Sound(tree) ==
    /\ DOMAIN tree = Files
    /\ Placed(tree) \subseteq theme
    /\ WellFormed(Placed(tree))
    /\ \A f \in Files : tree[f].items # {} => tree[f].status = "read"

LEMMA ItemsPlaced ==
    ASSUME NEW tree, NEW sections, NEW i
    PROVE  i \in Items(tree, sections) <=> \E p \in Placed(tree) : p[2] = i /\ i.at \in sections
<1>1. \A p : p \in Placed(tree) <=> \E f \in Files : \E j \in tree[f].items : p = <<f, j>>
    BY DEF Placed
<1>2. i \in Items(tree, sections) <=> i.at \in sections /\ \E f \in Files : i \in tree[f].items
    BY DEF Items
<1>3. ASSUME NEW f \in Files, i \in tree[f].items
      PROVE  \E p \in Placed(tree) : p[2] = i
    <2>1. <<f, i>> \in Placed(tree) /\ <<f, i>>[2] = i
        BY <1>1, <1>3
    <2>. QED  BY <2>1
<1>4. ASSUME NEW p \in Placed(tree), p[2] = i
      PROVE  \E f \in Files : i \in tree[f].items
    <2>1. PICK f \in Files : \E j \in tree[f].items : p = <<f, j>>
        BY <1>1
    <2>. QED  BY <1>4, <2>1
<1>. QED  BY <1>2, <1>3, <1>4

LEMMA SnapshotTold ==
    ASSUME theme \in Themes, NEW tree, Sound(tree), SnapshotOf(tree).incomplete = {}
    PROVE  SnapshotOf(tree).entries = Told(Placed(tree)) /\ Readable(Placed(tree))
<1>1. \A p : p \in Placed(tree) <=> \E f \in Files : \E j \in tree[f].items : p = <<f, j>>
    BY DEF Placed
<1>2. \A f \in Files : ReadOf(f, tree[f]).incomplete = {}
    BY DEF SnapshotOf
<1>3. ASSUME NEW f \in Files, NEW j \in tree[f].items
      PROVE  ~Unusable(j) /\ tree[f].status = "read"
    <2>1. tree[f].status = "read"
        BY <1>3 DEF Sound
    <2>2. Extract(f, tree[f].items).incomplete = {}
        BY <1>2, <2>1 DEF ReadOf
    <2>3. \A i \in tree[f].items : Unusable(i) => <<f, i.at, i.slot>> \in Extract(f, tree[f].items).incomplete
        BY DEF Extract
    <2>. QED  BY <2>1, <2>2, <2>3
<1>4. Readable(Placed(tree))
    <2>1. ASSUME NEW p \in Placed(tree)
          PROVE  WellPlaced(p) /\ ~Unusable(p[2])
        <3>1. WellPlaced(p)
            BY ThemesAssumption DEF Sound
        <3>2. PICK f \in Files : \E j \in tree[f].items : p = <<f, j>>
            BY <1>1
        <3>. QED  BY <1>3, <3>1, <3>2
    <2>. QED  BY <2>1 DEF Readable, Sound
<1>5. ASSUME NEW f \in Files
      PROVE  ReadOf(f, tree[f]).entries =
                {EntryOf(f, i) : i \in tree[f].items} \cup UNION {CredentialsOf(f, i) : i \in tree[f].items}
    <2>1. CASE tree[f].items = {}
        <3>1. Extract(f, {}).entries = {}
            BY DEF Extract
        <3>2. ReadOf(f, tree[f]).entries = {}
            BY <2>1, <3>1 DEF ReadOf
        <3>. QED  BY <2>1, <3>2
    <2>2. CASE tree[f].items # {}
        <3>1. \A i \in tree[f].items : ~Unusable(i)
            BY <1>3
        <3>2. tree[f].status = "read"
            BY <2>2 DEF Sound
        <3>3. ReadOf(f, tree[f]) = Extract(f, tree[f].items)
            BY <3>2 DEF ReadOf
        <3>. QED  BY <3>1, <3>3 DEF Extract
    <2>. QED  BY <2>1, <2>2
<1>6. ASSUME NEW e
      PROVE  e \in SnapshotOf(tree).entries <=> e \in Told(Placed(tree))
    <2>1. e \in SnapshotOf(tree).entries <=> \E f \in Files : e \in ReadOf(f, tree[f]).entries
        BY DEF SnapshotOf
    <2>2. e \in SnapshotOf(tree).entries <=>
             \E f \in Files : \E j \in tree[f].items : e = EntryOf(f, j) \/ e \in CredentialsOf(f, j)
        BY <1>5, <2>1
    <2>3. e \in Told(Placed(tree)) <=>
             \E p \in Placed(tree) : e = EntryOf(p[1], p[2]) \/ e \in CredentialsOf(p[1], p[2])
        BY DEF Told
    <2>4. ASSUME NEW f \in Files, NEW j \in tree[f].items, e = EntryOf(f, j) \/ e \in CredentialsOf(f, j)
          PROVE  \E p \in Placed(tree) : e = EntryOf(p[1], p[2]) \/ e \in CredentialsOf(p[1], p[2])
        <3>1. PICK p : p = <<f, j>>
            OBVIOUS
        <3>2. p[1] = f /\ p[2] = j /\ p \in Placed(tree)
            BY <1>1, <3>1
        <3>. QED  BY <2>4, <3>2
    <2>5. ASSUME NEW p \in Placed(tree), e = EntryOf(p[1], p[2]) \/ e \in CredentialsOf(p[1], p[2])
          PROVE  \E f \in Files : \E j \in tree[f].items : e = EntryOf(f, j) \/ e \in CredentialsOf(f, j)
        <3>1. PICK f, j : f \in Files /\ j \in tree[f].items /\ p = <<f, j>>
            BY <1>1
        <3>2. p[1] = f /\ p[2] = j
            BY <3>1
        <3>. QED  BY <2>5, <3>1, <3>2
    <2>. QED  BY <2>2, <2>3, <2>4, <2>5
<1>. QED  BY <1>4, <1>6

LEMMA GrantsAre ==
    ASSUME NEW tree, NEW g
    PROVE  g \in Grants(tree) <=>
              \/ \E i \in Items(tree, {"hook"}) : g = <<"hook", i.more.event, i.text>>
              \/ \E i \in Items(tree, {"mcp"}) :
                    g = <<"server", i.slot, i.text.scheme, i.text.target, i.more.args>>
              \/ \E i \in Items(tree, {"env"}) : g = <<"environment", <<i.slot, i.text>>>>
              \/ \E i \in Items(tree, {"mcp"}) : \E v \in i.more.env : g = <<"environment", v>>
              \/ \E i \in Items(tree, {"dir"}) : i.text # "<redacted>" /\ g = <<"directory", i.text>>
              \/ \E r \in Rules(tree, "allow") : ~Scoped(r) /\ r \notin Rules(tree, "deny") /\ g = <<"tool", r>>
              \/ \E i \in Items(tree, {"defaultMode"}) : i.text \in WideningModes /\ g = <<"mode">>
              \/ \E i \in Items(tree, {"flag"}) :
                    i.slot = "enableAllProjectMcpServers" /\ i.text = "true" /\ g = <<"every server">>
<1>. DEFINE hooks == {<<"hook", i.more.event, i.text>> : i \in Items(tree, {"hook"})}
            servers == {<<"server", i.slot, i.text.scheme, i.text.target, i.more.args>> :
                           i \in Items(tree, {"mcp"})}
            environment == {<<"environment", p>> :
                               p \in {<<i.slot, i.text>> : i \in Items(tree, {"env"})}
                                       \cup UNION {i.more.env : i \in Items(tree, {"mcp"})}}
            directories == {<<"directory", i.text>> :
                               i \in {j \in Items(tree, {"dir"}) : j.text # "<redacted>"}}
            tools == {<<"tool", r>> : r \in {q \in Rules(tree, "allow") : ~Scoped(q)} \ Rules(tree, "deny")}
            modes == {<<"mode">> : i \in {j \in Items(tree, {"defaultMode"}) : j.text \in WideningModes}}
            flags == {<<"every server">> :
                         i \in {j \in Items(tree, {"flag"}) :
                                   j.slot = "enableAllProjectMcpServers" /\ j.text = "true"}}
<1>1. Grants(tree) = hooks \cup servers \cup environment \cup directories \cup tools \cup modes \cup flags
    BY DEF Grants
<1>2. g \in hooks <=> \E i \in Items(tree, {"hook"}) : g = <<"hook", i.more.event, i.text>>
    OBVIOUS
<1>3. g \in servers <=> \E i \in Items(tree, {"mcp"}) :
                           g = <<"server", i.slot, i.text.scheme, i.text.target, i.more.args>>
    OBVIOUS
<1>4. g \in environment <=>
         \/ \E i \in Items(tree, {"env"}) : g = <<"environment", <<i.slot, i.text>>>>
         \/ \E i \in Items(tree, {"mcp"}) : \E v \in i.more.env : g = <<"environment", v>>
    OBVIOUS
<1>5. g \in directories <=>
         \E i \in Items(tree, {"dir"}) : i.text # "<redacted>" /\ g = <<"directory", i.text>>
    OBVIOUS
<1>6. g \in tools <=>
         \E r \in Rules(tree, "allow") : ~Scoped(r) /\ r \notin Rules(tree, "deny") /\ g = <<"tool", r>>
    OBVIOUS
<1>7. g \in modes <=> \E i \in Items(tree, {"defaultMode"}) : i.text \in WideningModes /\ g = <<"mode">>
    OBVIOUS
<1>8. g \in flags <=> \E i \in Items(tree, {"flag"}) :
         i.slot = "enableAllProjectMcpServers" /\ i.text = "true" /\ g = <<"every server">>
    OBVIOUS
<1>. HIDE DEF hooks, servers, environment, directories, tools, modes, flags
<1>. QED  BY <1>1, <1>2, <1>3, <1>4, <1>5, <1>6, <1>7, <1>8

LEMMA LimitsAre ==
    ASSUME NEW tree, NEW l
    PROVE  l \in Limits(tree) <=>
              \/ \E r \in Rules(tree, "deny") : Evaluated(r) /\ l = <<"deny", r>>
              \/ \E i \in Items(tree, {"flag"}) :
                    i.slot = "disableAllHooks" /\ i.text = "true" /\ l = <<"no hooks">>
BY DEF Limits, Evaluated

\* The items of a tree and of the tree of one item.
LEMMA RulesPlaced ==
    ASSUME NEW tree, NEW list, NEW r
    PROVE  r \in Rules(tree, list) <=>
              \E p \in Placed(tree) : p[2].at = list /\ Canonical(p[2].text) = r
<1>1. r \in Rules(tree, list) <=> \E i \in Items(tree, {list}) : r = Canonical(i.text)
    BY DEF Rules
<1>. QED  BY <1>1, ItemsPlaced

LEMMA AloneItems ==
    ASSUME NEW f \in Files, NEW i, NEW p, p = <<f, i>>, NEW section, NEW j
    PROVE  j \in Items(Tree({p}), {section}) <=> j = i /\ i.at = section
<1>1. \A g \in Files : Tree({p})[g].items = {q[2] : q \in {x \in {p} : x[1] = g}}
    BY DEF Tree, Content
<1>2. p[1] = f /\ p[2] = i
    OBVIOUS
<1>3. \A g \in Files : j \in Tree({p})[g].items <=> j = i /\ g = f
    BY <1>1, <1>2
<1>4. j \in Items(Tree({p}), {section}) <=> j.at = section /\ \E g \in Files : j \in Tree({p})[g].items
    BY DEF Items
<1>. QED  BY <1>3, <1>4

\* What one item says.
Speaks(i, g) ==
    \/ i.at = "hook" /\ g = <<"hook", i.more.event, i.text>>
    \/ i.at = "mcp" /\ g = <<"server", i.slot, i.text.scheme, i.text.target, i.more.args>>
    \/ i.at = "env" /\ g = <<"environment", <<i.slot, i.text>>>>
    \/ i.at = "mcp" /\ \E v \in i.more.env : g = <<"environment", v>>
    \/ i.at = "dir" /\ i.text # "<redacted>" /\ g = <<"directory", i.text>>
    \/ i.at = "allow" /\ ~Scoped(Canonical(i.text)) /\ g = <<"tool", Canonical(i.text)>>
    \/ i.at = "deny" /\ g = <<"tool", Canonical(i.text)>>
    \/ i.at = "deny" /\ Evaluated(Canonical(i.text)) /\ g = <<"deny", Canonical(i.text)>>
    \/ i.at = "defaultMode" /\ i.text \in WideningModes /\ g = <<"mode">>
    \/ /\ i.at = "flag" /\ i.slot = "enableAllProjectMcpServers" /\ i.text = "true"
       /\ g = <<"every server">>
    \/ i.at = "flag" /\ i.slot = "disableAllHooks" /\ i.text = "true" /\ g = <<"no hooks">>

LEMMA SaysIs ==
    ASSUME NEW f \in Files, NEW i, NEW p, p = <<f, i>>, NEW g,
           Speaks(i, g)
    PROVE  g \in Says(p)
<1>1. PICK alone : alone = Tree({p})
    OBVIOUS
<1>2. \A section, j : j \in Items(alone, {section}) <=> j = i /\ i.at = section
    BY <1>1, AloneItems
<1>3. \A list, r : r \in Rules(alone, list) <=> i.at = list /\ r = Canonical(i.text)
    <2>. SUFFICES ASSUME NEW list, NEW r
                  PROVE  r \in Rules(alone, list) <=> i.at = list /\ r = Canonical(i.text)
        OBVIOUS
    <2>1. r \in Rules(alone, list) <=> \E j \in Items(alone, {list}) : r = Canonical(j.text)
        BY DEF Rules
    <2>. QED  BY <1>2, <2>1
<1>4. Grants(alone) \cup Limits(alone) \cup {<<"tool", r>> : r \in Rules(alone, "deny")} = Says(p)
    BY <1>1 DEF Says
<1>5. CASE i.at \in {"hook", "mcp", "env", "dir", "defaultMode"}
           \/ (i.at = "flag" /\ i.slot = "enableAllProjectMcpServers" /\ g = <<"every server">>)
    <2>1. g \in Grants(alone)
        BY <1>2, <1>5, GrantsAre DEF Speaks
    <2>. QED  BY <1>4, <2>1
<1>6. CASE i.at = "allow"
    <2>1. g \in Grants(alone)
        BY <1>3, <1>6, GrantsAre DEF Speaks
    <2>. QED  BY <1>4, <2>1
<1>7. CASE i.at = "deny" /\ g = <<"tool", Canonical(i.text)>>
    BY <1>3, <1>4, <1>7
<1>8. CASE \/ i.at = "deny" /\ Evaluated(Canonical(i.text)) /\ g = <<"deny", Canonical(i.text)>>
           \/ i.at = "flag" /\ i.slot = "disableAllHooks" /\ i.text = "true" /\ g = <<"no hooks">>
    <2>1. g \in Limits(alone)
        BY <1>2, <1>3, <1>8, LimitsAre
    <2>. QED  BY <1>4, <2>1
<1>. QED  BY <1>5, <1>6, <1>7, <1>8 DEF Speaks

\* What a set of items says.
Said(placed) == UNION {Says(p) : p \in placed}

\* One admitted step grants nothing sensitive that was not granted, and drops
\* no limit, but for the modes and flags it does not compare.
LEMMA AdmittedIsAsStrict ==
    ASSUME theme \in Themes,
           NEW base, Sound(base), SnapshotOf(base).incomplete = {},
           NEW head, Sound(head), SnapshotOf(head).incomplete = {},
           Admitted(SnapshotOf(base).entries, SnapshotOf(head).entries)
    PROVE  /\ \A g \in Grants(head) : Sensitive(g) => g \in Grants(base) \cup Said(Doubled(head))
           /\ Limits(base) \subseteq Limits(head) \cup Said(Doubled(base))
<1>1. PICK before, after : before = Placed(base) /\ after = Placed(head)
    OBVIOUS
<1>2. Readable(before) /\ Readable(after) /\ Admitted(Told(before), Told(after))
    BY <1>1, SnapshotTold
<1>3. ASSUME NEW tree, tree \in {base, head}, NEW p \in Placed(tree),
             p[2].at \in {"defaultMode", "flag"}, ~Leads(p, Placed(tree)), NEW g,
             \/ p[2].at = "defaultMode" /\ p[2].text \in WideningModes /\ g = <<"mode">>
             \/ IsOn(p, "enableAllProjectMcpServers") /\ g = <<"every server">>
             \/ IsOn(p, "disableAllHooks") /\ g = <<"no hooks">>
      PROVE  g \in Said(Doubled(tree))
    <2>1. p \in Doubled(tree)
        BY <1>3 DEF Doubled, Leads
    <2>2. p = <<p[1], p[2]>> /\ p[1] \in Files
        BY <1>1, <1>2, <1>3 DEF Readable, WellPlaced
    <2>3. g \in Says(p)
        BY <1>3, <2>2, SaysIs DEF IsOn, Speaks
    <2>. QED  BY <2>1, <2>3 DEF Said
<1>4. \A sections, i :
         /\ i \in Items(base, sections) <=> \E p \in before : p[2] = i /\ i.at \in sections
         /\ i \in Items(head, sections) <=> \E p \in after : p[2] = i /\ i.at \in sections
    BY <1>1, ItemsPlaced
<1>5. ASSUME NEW r, NEW list
      PROVE  /\ r \in Rules(base, list) <=> \E p \in before : p[2].at = list /\ Canonical(p[2].text) = r
             /\ r \in Rules(head, list) <=> \E p \in after : p[2].at = list /\ Canonical(p[2].text) = r
    BY <1>1, RulesPlaced
<1>6. ASSUME NEW g \in Grants(head), Sensitive(g)
      PROVE  g \in Grants(base) \cup Said(Doubled(head))
    <2>1. CASE \E i \in Items(head, {"hook"}) : g = <<"hook", i.more.event, i.text>>
        <3>1. PICK p \in after : p[2].at = "hook" /\ g = <<"hook", p[2].more.event, p[2].text>>
            BY <1>4, <2>1
        <3>2. PICK q \in before : /\ q[2].at = "hook" /\ q[2].more.event = p[2].more.event
                                  /\ q[2].text = p[2].text
            BY <1>2, <3>1, HooksStay
        <3>3. q[2] \in Items(base, {"hook"}) /\ g = <<"hook", q[2].more.event, q[2].text>>
            BY <1>4, <3>1, <3>2
        <3>. QED  BY <3>3, GrantsAre
    <2>2. CASE \E i \in Items(head, {"mcp"}) :
                  g = <<"server", i.slot, i.text.scheme, i.text.target, i.more.args>>
        <3>1. PICK p \in after : /\ p[2].at = "mcp"
                                 /\ g = <<"server", p[2].slot, p[2].text.scheme, p[2].text.target, p[2].more.args>>
            BY <1>4, <2>2
        <3>2. PICK q \in before :
                 /\ q[2].at = "mcp" /\ q[2].slot = p[2].slot
                 /\ q[2].text.scheme = p[2].text.scheme /\ q[2].text.target = p[2].text.target
                 /\ q[2].more.args = p[2].more.args
            BY <1>2, <3>1, ServersStay
        <3>3. /\ q[2] \in Items(base, {"mcp"})
              /\ g = <<"server", q[2].slot, q[2].text.scheme, q[2].text.target, q[2].more.args>>
            BY <1>4, <3>1, <3>2
        <3>. QED  BY <3>3, GrantsAre
    <2>3. CASE \E i \in Items(head, {"env"}) : g = <<"environment", <<i.slot, i.text>>>>
        <3>1. PICK p \in after : p[2].at = "env" /\ g = <<"environment", <<p[2].slot, p[2].text>>>>
            BY <1>4, <2>3
        <3>2. p[2].slot \in SensitiveEnv
            <4>1. g[1] = "environment" /\ g[2][1] = p[2].slot
                BY <3>1
            <4>. QED  BY <1>6, <4>1 DEF Sensitive
        <3>3. PICK q \in before : q[2].at = "env" /\ q[2].slot = p[2].slot /\ q[2].text = p[2].text
            BY <1>2, <3>1, <3>2, EnvironmentStays
        <3>4. q[2] \in Items(base, {"env"}) /\ g = <<"environment", <<q[2].slot, q[2].text>>>>
            BY <1>4, <3>1, <3>3
        <3>. QED  BY <3>4, GrantsAre
    <2>4. CASE \E i \in Items(head, {"mcp"}) : \E v \in i.more.env : g = <<"environment", v>>
        <3>0. PICK i \in Items(head, {"mcp"}) : \E v \in i.more.env : g = <<"environment", v>>
            BY <2>4
        <3>1. PICK p, v : p \in after /\ p[2].at = "mcp" /\ v \in p[2].more.env /\ g = <<"environment", v>>
            BY <1>4, <3>0
        <3>2. v[1] \in SensitiveEnv
            <4>1. g[1] = "environment" /\ g[2] = v
                BY <3>1
            <4>. QED  BY <1>6, <4>1 DEF Sensitive
        <3>3. PICK q \in before : q[2].at = "mcp" /\ v \in q[2].more.env
            BY <1>2, <3>1, <3>2, ServersStay
        <3>4. q[2] \in Items(base, {"mcp"})
            BY <1>4, <3>3
        <3>. QED  BY <3>1, <3>3, <3>4, GrantsAre
    <2>5. CASE \E i \in Items(head, {"dir"}) : i.text # "<redacted>" /\ g = <<"directory", i.text>>
        <3>1. PICK p \in after : /\ p[2].at = "dir" /\ p[2].text # "<redacted>"
                                 /\ g = <<"directory", p[2].text>>
            BY <1>4, <2>5
        <3>2. PICK q \in before : q[2].at = "dir" /\ q[2].text = p[2].text
            BY <1>2, <3>1, DirectoriesStay
        <3>3. q[2] \in Items(base, {"dir"}) /\ g = <<"directory", q[2].text>>
            BY <1>4, <3>1, <3>2
        <3>. QED  BY <3>3, GrantsAre
    <2>6. CASE \E r \in Rules(head, "allow") : ~Scoped(r) /\ r \notin Rules(head, "deny") /\ g = <<"tool", r>>
        <3>1. PICK r \in Rules(head, "allow") : ~Scoped(r) /\ r \notin Rules(head, "deny") /\ g = <<"tool", r>>
            BY <2>6
        <3>2. PICK p \in after : p[2].at = "allow" /\ Canonical(p[2].text) = r
            BY <1>5, <3>1
        <3>3. \E q \in before : q[2].at = "allow" /\ Canonical(q[2].text) = r
            BY <1>2, <3>1, <3>2, WholeToolsStay
        <3>4. ASSUME NEW q \in before, q[2].at = "deny", Canonical(q[2].text) = r
              PROVE  FALSE
            <4>1. Evaluated(r)
                BY <3>1 DEF Evaluated
            <4>2. \E x \in after : x[2].at = "deny" /\ Canonical(x[2].text) = r
                BY <1>2, <3>4, <4>1, DenialsStay
            <4>. QED  BY <1>5, <3>1, <4>2
        <3>5. r \in Rules(base, "allow") /\ r \notin Rules(base, "deny")
            BY <1>5, <3>3, <3>4
        <3>. QED  BY <3>1, <3>5, GrantsAre
    <2>7. CASE \E i \in Items(head, {"defaultMode"}) : i.text \in WideningModes /\ g = <<"mode">>
        <3>1. PICK p \in after : p[2].at = "defaultMode" /\ p[2].text \in WideningModes
            BY <1>4, <2>7
        <3>2. CASE Leads(p, after)
            <4>1. PICK q \in before : q[2].at = "defaultMode" /\ q[2].text \in WideningModes
                BY <1>2, <3>1, <3>2, ModesStay
            <4>2. q[2] \in {j \in Items(base, {"defaultMode"}) : j.text \in WideningModes}
                BY <1>4, <4>1
            <4>. QED  BY <2>7, <4>2, GrantsAre
        <3>3. CASE ~Leads(p, after)
            BY <1>1, <1>3, <2>7, <3>1, <3>3
        <3>. QED  BY <3>2, <3>3
    <2>8. CASE \E i \in Items(head, {"flag"}) :
                  i.slot = "enableAllProjectMcpServers" /\ i.text = "true" /\ g = <<"every server">>
        <3>0. PICK i \in Items(head, {"flag"}) : i.slot = "enableAllProjectMcpServers" /\ i.text = "true"
            BY <2>8
        <3>1. PICK p \in after : IsOn(p, "enableAllProjectMcpServers")
            <4>1. PICK p \in after : p[2] = i /\ i.at = "flag"
                BY <1>4
            <4>. QED  BY <3>0, <4>1 DEF IsOn
        <3>2. CASE Leads(p, after)
            <4>1. PICK q \in before : IsOn(q, "enableAllProjectMcpServers")
                BY <1>2, <3>1, <3>2, FlagsStay
            <4>2. q[2] \in {j \in Items(base, {"flag"}) :
                               j.slot = "enableAllProjectMcpServers" /\ j.text = "true"}
                BY <1>4, <4>1 DEF IsOn
            <4>. QED  BY <2>8, <4>2, GrantsAre
        <3>3. CASE ~Leads(p, after)
            <4>1. p[2].at \in {"defaultMode", "flag"}
                BY <3>1 DEF IsOn
            <4>. QED  BY <1>1, <1>3, <2>8, <3>1, <3>3, <4>1
        <3>. QED  BY <3>2, <3>3
    <2>. QED  BY <2>1, <2>2, <2>3, <2>4, <2>5, <2>6, <2>7, <2>8, GrantsAre
<1>7. ASSUME NEW l \in Limits(base)
      PROVE  l \in Limits(head) \cup Said(Doubled(base))
    <2>1. CASE \E r \in Rules(base, "deny") : Evaluated(r) /\ l = <<"deny", r>>
        <3>1. PICK r \in Rules(base, "deny") : Evaluated(r) /\ l = <<"deny", r>>
            BY <2>1
        <3>2. PICK p \in before : p[2].at = "deny" /\ Canonical(p[2].text) = r
            BY <1>5, <3>1
        <3>3. \E q \in after : q[2].at = "deny" /\ Canonical(q[2].text) = r
            BY <1>2, <3>1, <3>2, DenialsStay
        <3>4. r \in Rules(head, "deny")
            BY <1>5, <3>3
        <3>. QED  BY <3>1, <3>4, LimitsAre
    <2>2. CASE \E i \in Items(base, {"flag"}) :
                  i.slot = "disableAllHooks" /\ i.text = "true" /\ l = <<"no hooks">>
        <3>0. PICK i \in Items(base, {"flag"}) : i.slot = "disableAllHooks" /\ i.text = "true"
            BY <2>2
        <3>1. PICK p \in before : IsOn(p, "disableAllHooks")
            <4>1. PICK p \in before : p[2] = i /\ i.at = "flag"
                BY <1>4
            <4>. QED  BY <3>0, <4>1 DEF IsOn
        <3>2. CASE Leads(p, before)
            <4>1. PICK q \in after : IsOn(q, "disableAllHooks")
                BY <1>2, <3>1, <3>2, FlagsStay
            <4>2. q[2] \in {j \in Items(head, {"flag"}) : j.slot = "disableAllHooks" /\ j.text = "true"}
                BY <1>4, <4>1 DEF IsOn
            <4>. QED  BY <2>2, <4>2, LimitsAre
        <3>3. CASE ~Leads(p, before)
            <4>1. p[2].at \in {"defaultMode", "flag"}
                BY <3>1 DEF IsOn
            <4>. QED  BY <1>1, <1>3, <2>2, <3>1, <3>3, <4>1
        <3>. QED  BY <3>2, <3>3
    <2>. QED  BY <2>1, <2>2, LimitsAre
<1>. QED  BY <1>6, <1>7

\* What a tree says and what the part of it that was found says.
LEMMA WithoutPlaced ==
    ASSUME NEW tree, NEW files, NEW p
    PROVE  p \in Placed(Without(tree, files)) <=>
              p \in Placed(tree) /\ \E f \in Files \ files : \E i : p = <<f, i>>
<1>1. \A f \in Files :
         Without(tree, files)[f].items = IF f \in files THEN {} ELSE tree[f].items
    BY DEF Without, Content
<1>2. p \in Placed(tree) <=> \E f \in Files : \E i \in tree[f].items : p = <<f, i>>
    BY DEF Placed
<1>3. p \in Placed(Without(tree, files)) <=>
         \E f \in Files : \E i \in Without(tree, files)[f].items : p = <<f, i>>
    BY DEF Placed
<1>4. p \in Placed(Without(tree, files)) <=>
         \E f \in Files \ files : \E i \in tree[f].items : p = <<f, i>>
    BY <1>1, <1>3
<1>5. ASSUME NEW f, NEW i, NEW g, NEW j, p = <<f, i>>, p = <<g, j>>
      PROVE  f = g /\ i = j
    BY <1>5
<1>. QED  BY <1>2, <1>4, <1>5

LEMMA LostSound ==
    ASSUME NEW tree, Sound(tree), NEW files
    PROVE  Sound(Without(tree, files))
<1>1. PICK after : after = Without(tree, files)
    OBVIOUS
<1>2. /\ DOMAIN after = Files
      /\ \A f \in Files : after[f].items # {} => after[f] = tree[f]
    BY <1>1 DEF Without, Content
<1>3. Placed(after) \subseteq Placed(tree)
    BY <1>1, WithoutPlaced
<1>4. \A f \in Files : after[f].items # {} => after[f].status = "read"
    BY <1>2 DEF Sound
<1>5. Sound(after)
    BY <1>2, <1>3, <1>4 DEF Sound, WellFormed
<1>. QED  BY <1>1, <1>5

\* The items of the files that were not found.
LostOf(tree, files) == {p \in Placed(tree) : p[1] \in files}

LEMMA FoundOrLost ==
    ASSUME NEW tree, NEW files, NEW part, part = Without(tree, files)
    PROVE  /\ \A p \in Placed(part) : p \in Placed(tree)
           /\ \A p \in Placed(tree) : p \in Placed(part) \/ p \in LostOf(tree, files)
           /\ \A p \in LostOf(tree, files) : \E f \in Files : p = <<f, p[2]>>
<1>1. \A p \in Placed(tree) : \E f \in Files : p = <<f, p[2]>> /\ p[1] = f
    <2>. SUFFICES ASSUME NEW p \in Placed(tree)
                  PROVE  \E f \in Files : p = <<f, p[2]>> /\ p[1] = f
        OBVIOUS
    <2>1. PICK f \in Files : \E i \in tree[f].items : p = <<f, i>>
        BY DEF Placed
    <2>. QED  BY <2>1
<1>2. \A p \in Placed(part) : p \in Placed(tree)
    BY WithoutPlaced
<1>3. ASSUME NEW p \in Placed(tree), p \notin LostOf(tree, files)
      PROVE  p \in Placed(part)
    <2>1. PICK f \in Files : p = <<f, p[2]>> /\ p[1] = f
        BY <1>1
    <2>2. f \notin files
        BY <1>3, <2>1 DEF LostOf
    <2>. QED  BY <2>1, <2>2, WithoutPlaced
<1>. QED  BY <1>1, <1>2, <1>3 DEF LostOf

\* What an item that was not found says is said by what was lost.
LEMMA LostSays ==
    ASSUME NEW tree, NEW files, NEW p \in LostOf(tree, files), NEW g, g \in Says(p)
    PROVE  g \in Said(LostOf(tree, files))
BY DEF Said

-----------------------------------------------------------------------------
(* The trees of a behaviour, and the chain of its merges.                  *)

TreesInv ==
    /\ theme \in Themes
    /\ Sound(trusted) /\ Sound(main) /\ Sound(pr)
    /\ scan.head.kind = "ref" => Sound(scan.head.tree)

LEMMA TreeSound ==
    ASSUME theme \in Themes, NEW placed, placed \subseteq theme, WellFormed(placed)
    PROVE  Sound(Tree(placed))
<1>1. \A p \in placed : p = <<p[1], p[2]>> /\ p[1] \in Files
    BY ThemesAssumption DEF WellPlaced
<1>. DEFINE here(f) == {p[2] : p \in {q \in placed : q[1] = f}}
<1>2. /\ DOMAIN Tree(placed) = Files
      /\ \A f \in Files : /\ Tree(placed)[f].items = here(f)
                          /\ Tree(placed)[f].status = IF here(f) = {} THEN "absent" ELSE "read"
    BY DEF Tree, Content
<1>3. Placed(Tree(placed)) = placed
    <2>1. ASSUME NEW f \in Files, NEW i \in Tree(placed)[f].items
          PROVE  <<f, i>> \in placed
        <3>1. PICK p \in placed : p[1] = f /\ p[2] = i
            BY <1>2
        <3>. QED  BY <1>1, <3>1
    <2>2. ASSUME NEW p \in placed
          PROVE  p[1] \in Files /\ p[2] \in Tree(placed)[p[1]].items
        BY <1>1, <1>2
    <2>3. ASSUME NEW p
          PROVE  p \in Placed(Tree(placed)) <=> p \in placed
        <3>1. p \in Placed(Tree(placed)) <=> \E f \in Files : \E i \in Tree(placed)[f].items : p = <<f, i>>
            BY DEF Placed
        <3>2. CASE p \in placed
            <4>1. p[1] \in Files /\ p[2] \in Tree(placed)[p[1]].items /\ p = <<p[1], p[2]>>
                BY <1>1, <2>2, <3>2
            <4>. QED  BY <3>1, <3>2, <4>1
        <3>. QED  BY <2>1, <3>1, <3>2
    <2>. QED  BY <2>3
<1>. HIDE DEF here
<1>4. \A f \in Files : Tree(placed)[f].items # {} => Tree(placed)[f].status = "read"
    BY <1>2
<1>. QED  BY <1>2, <1>3, <1>4 DEF Sound

LEMMA BrokenSound ==
    ASSUME NEW tree, Sound(tree), NEW f \in Files
    PROVE  Sound([tree EXCEPT ![f] = Broken])
<1>1. PICK after : after = [tree EXCEPT ![f] = Broken]
    OBVIOUS
<1>2. /\ DOMAIN after = Files
      /\ \A g \in Files : after[g] = IF g = f THEN Broken ELSE tree[g]
    BY <1>1 DEF Sound
<1>3. Broken.items = {}
    BY DEF Broken, Content
<1>4. Placed(after) \subseteq Placed(tree)
    BY <1>2, <1>3 DEF Placed
<1>5. \A g \in Files : after[g].items # {} => after[g].status = "read"
    BY <1>2, <1>3 DEF Sound
<1>6. Sound(after)
    BY <1>2, <1>4, <1>5 DEF Sound, WellFormed
<1>. QED  BY <1>1, <1>6

LEMMA EditsSound ==
    ASSUME theme \in Themes, NEW tree, Sound(tree), NEW after \in Edits(tree)
    PROVE  Sound(after)
<1>1. PICK s : after = Tree(s) /\ WellFormed(s) /\ s \subseteq Placed(tree) \cup theme
    BY DEF Edits
<1>. QED  BY <1>1, TreeSound DEF Sound

LEMMA TreesInit ==
    ASSUME Init
    PROVE  TreesInv
<1>1. theme \in Themes /\ main = trusted /\ pr = trusted /\ scan = Idle
    BY DEF Init
<1>2. PICK s : trusted = Tree(s) /\ s \subseteq theme /\ WellFormed(s)
    BY DEF Init, SmallTrees
<1>3. scan.head.kind # "ref"
    BY <1>1, OtherSideHolds DEF Idle
<1>. QED  BY <1>1, <1>2, <1>3, TreeSound DEF TreesInv

\* Only Push, ResetBranch and the merge move a tree; the head is resolved once.
LEMMA TreesStep ==
    ASSUME ReviewInv, TreesInv, [Next]_vars
    PROVE  TreesInv'
<1>. USE DEF TreesInv
<1>1. theme' = theme /\ trusted' = trusted
    BY DEF Next, Push, ResetBranch, Checkout, Unresolvable, ResolveBase, ResolveHead,
       GuardInRepo, ReadBase, ReadHead, Conclude, Merge, Dismiss, repository, vars
<1>2. ASSUME NEW tree, Sound(tree)
      PROVE  Sound(tree)'
    BY <1>1, <1>2 DEF Sound, Placed, WellFormed
<1>3. DOMAIN scan = Check
    BY DEF ReviewInv, CheckInv
<1>4. CASE main' = main /\ pr' = pr /\ scan'.head = scan.head
    BY <1>1, <1>2, <1>4
<1>5. CASE UNCHANGED vars \/ Checkout
    BY <1>4, <1>5 DEF vars, Checkout
<1>6. CASE Push
    <2>1. Sound(pr')
        BY <1>6, EditsSound, BrokenSound DEF Push
    <2>. QED  BY <1>1, <1>2, <1>6, <2>1 DEF Push
<1>7. CASE ResetBranch
    BY <1>1, <1>2, <1>7 DEF ResetBranch
<1>8. CASE Unresolvable
    <2>1. scan'.head = scan.head
        BY <1>3, <1>8 DEF Unresolvable, Incomplete, Check
    <2>. QED  BY <1>4, <1>8, <2>1 DEF Unresolvable, repository
<1>9. CASE ResolveBase
    <2>1. scan'.head = scan.head
        BY <1>3, <1>9 DEF ResolveBase, Check
    <2>. QED  BY <1>4, <1>9, <2>1 DEF ResolveBase, repository
<1>10. CASE ResolveHead
    <2>1. /\ RefSide(pr).tree = pr /\ WorktreeSide.kind # "ref"
        BY DEF RefSide, WorktreeSide, Side
    <2>2. scan'.head = RefSide(pr) \/ scan'.head = WorktreeSide
        BY <1>3, <1>10 DEF ResolveHead, Check
    <2>3. scan'.head.kind = "ref" => scan'.head.tree = pr
        BY <2>1, <2>2
    <2>4. main' = main /\ pr' = pr
        BY <1>10 DEF ResolveHead, repository
    <2>. QED  BY <1>1, <1>2, <2>3, <2>4
<1>11. CASE \E accepted \in BOOLEAN : GuardInRepo(accepted)
    <2>1. scan'.head = scan.head
        BY <1>3, <1>11 DEF GuardInRepo, Incomplete, Check
    <2>. QED  BY <1>4, <1>11, <2>1 DEF GuardInRepo, repository
<1>12. CASE ReadBase
    <2>1. scan'.head = scan.head
        BY <1>3, <1>12 DEF ReadBase, Check
    <2>. QED  BY <1>4, <1>12, <2>1 DEF ReadBase, repository
<1>13. CASE ReadHead
    <2>1. PICK side \in IF scan.head.kind = "ref" THEN ReadRef(scan.head) ELSE ReadWorktree(scan.head) :
             scan' = [scan EXCEPT !.head = side]
        BY <1>13 DEF ReadHead
    <2>2. scan'.head = side /\ scan.head.left # {}
        BY <1>3, <1>13, <2>1 DEF Check, ReadHead
    <2>3. side.kind = "ref" => scan.head.kind = "ref" /\ side.tree = scan.head.tree
        BY <2>1, <2>2, ReadRefHolds, ReadWorktreeHolds DEF ReviewInv, CheckInv
    <2>4. main' = main /\ pr' = pr
        BY <1>13 DEF ReadHead, repository
    <2>. QED  BY <1>1, <1>2, <2>2, <2>3, <2>4
<1>14. CASE \E strict \in BOOLEAN : Conclude(strict)
    <2>1. scan'.head = scan.head
        BY <1>3, <1>14 DEF Conclude, Check
    <2>. QED  BY <1>4, <1>14, <2>1 DEF Conclude, repository
<1>15. CASE Merge
    <2>1. main' = scan.head.tree /\ pr' = main' /\ scan.head.kind = "ref" /\ scan' = Idle
        BY <1>15 DEF Merge
    <2>2. scan'.head.kind # "ref"
        BY <2>1, OtherSideHolds DEF Idle
    <2>. QED  BY <1>1, <1>2, <2>1, <2>2
<1>16. CASE Dismiss
    <2>1. main' = main /\ pr' = main /\ scan' = Idle
        BY <1>16 DEF Dismiss
    <2>2. scan'.head.kind # "ref"
        BY <2>1, OtherSideHolds DEF Idle
    <2>. QED  BY <1>1, <1>2, <2>1, <2>2
<1>. QED  BY <1>5, <1>6, <1>7, <1>8, <1>9, <1>10, <1>11, <1>12, <1>13, <1>14, <1>15, <1>16 DEF Next

\* What is not found of a tree is all that its other part may grant less or
\* forbid less; a denied rule that is not found may grant a tool.
LEMMA LostTells ==
    ASSUME NEW tree, NEW files, NEW part, part = Without(tree, files)
    PROVE  /\ Grants(tree) \subseteq Grants(part) \cup Said(LostOf(tree, files))
           /\ Grants(part) \subseteq Grants(tree) \cup Said(LostOf(tree, files))
           /\ Limits(part) \subseteq Limits(tree)
           /\ Limits(tree) \subseteq Limits(part) \cup Said(LostOf(tree, files))
<1>. DEFINE lost == LostOf(tree, files)
<1>1. \A section, i : i \in Items(part, {section}) => i \in Items(tree, {section})
    BY FoundOrLost, ItemsPlaced
<1>2. ASSUME NEW i, NEW section, i \in Items(tree, {section}), NEW g, Speaks(i, g), g \notin Said(lost)
      PROVE  i \in Items(part, {section})
    <2>. SUFFICES ASSUME i \notin Items(part, {section})
                  PROVE  FALSE
        OBVIOUS
    <2>1. PICK p \in Placed(tree) : p[2] = i /\ i.at \in {section}
        BY <1>2, ItemsPlaced
    <2>2. p \in lost
        BY <2>1, FoundOrLost, ItemsPlaced
    <2>3. PICK f \in Files : p = <<f, i>>
        BY <2>1, <2>2, FoundOrLost
    <2>4. g \in Says(p)
        BY <1>2, <2>3, SaysIs
    <2>. QED  BY <1>2, <2>2, <2>4, LostSays
<1>3. ASSUME NEW r, NEW list, r \in Rules(part, list)
      PROVE  r \in Rules(tree, list)
    BY <1>3, FoundOrLost, RulesPlaced
<1>4. ASSUME NEW r, NEW list, r \in Rules(tree, list), r \notin Rules(part, list)
      PROVE  /\ list = "allow" /\ ~Scoped(r) => <<"tool", r>> \in Said(lost)
             /\ list = "deny" => <<"tool", r>> \in Said(lost)
             /\ list = "deny" /\ Evaluated(r) => <<"deny", r>> \in Said(lost)
    <2>1. PICK p \in Placed(tree) : p[2].at = list /\ Canonical(p[2].text) = r
        BY <1>4, RulesPlaced
    <2>2. p \in lost
        BY <1>4, <2>1, FoundOrLost, RulesPlaced
    <2>3. PICK f \in Files : p = <<f, p[2]>>
        BY <2>2, FoundOrLost
    <2>4. ASSUME NEW g, Speaks(p[2], g)
          PROVE  g \in Said(lost)
        <3>1. g \in Says(p)
            BY <2>3, <2>4, SaysIs
        <3>. QED  BY <2>2, <3>1, LostSays
    <2>. HIDE DEF lost
    <2>5. /\ list = "allow" /\ ~Scoped(r) => Speaks(p[2], <<"tool", r>>)
          /\ list = "deny" => Speaks(p[2], <<"tool", r>>)
          /\ list = "deny" /\ Evaluated(r) => Speaks(p[2], <<"deny", r>>)
        BY <2>1 DEF Speaks
    <2>. QED  BY <2>4, <2>5
<1>. HIDE DEF lost
<1>6. ASSUME NEW g \in Grants(tree), g \notin Said(lost)
      PROVE  g \in Grants(part)
    <2>1. CASE \E i \in Items(tree, {"hook"}) : g = <<"hook", i.more.event, i.text>>
        <3>1. PICK i \in Items(tree, {"hook"}) : g = <<"hook", i.more.event, i.text>>
            BY <2>1
        <3>2. i.at = "hook"
            BY <3>1 DEF Items
        <3>3. Speaks(i, g)
            BY <3>1, <3>2 DEF Speaks
        <3>4. i \in Items(part, {"hook"})
            BY <1>2, <1>6, <3>1, <3>3
        <3>. QED  BY <3>1, <3>4, GrantsAre
    <2>2. CASE \E i \in Items(tree, {"mcp"}) :
                  g = <<"server", i.slot, i.text.scheme, i.text.target, i.more.args>>
        <3>1. PICK i \in Items(tree, {"mcp"}) :
                  g = <<"server", i.slot, i.text.scheme, i.text.target, i.more.args>>
            BY <2>2
        <3>2. i.at = "mcp"
            BY <3>1 DEF Items
        <3>3. Speaks(i, g)
            BY <3>1, <3>2 DEF Speaks
        <3>4. i \in Items(part, {"mcp"})
            BY <1>2, <1>6, <3>1, <3>3
        <3>. QED  BY <3>1, <3>4, GrantsAre
    <2>3. CASE \E i \in Items(tree, {"env"}) : g = <<"environment", <<i.slot, i.text>>>>
        <3>1. PICK i \in Items(tree, {"env"}) : g = <<"environment", <<i.slot, i.text>>>>
            BY <2>3
        <3>2. i.at = "env"
            BY <3>1 DEF Items
        <3>3. Speaks(i, g)
            BY <3>1, <3>2 DEF Speaks
        <3>4. i \in Items(part, {"env"})
            BY <1>2, <1>6, <3>1, <3>3
        <3>. QED  BY <3>1, <3>4, GrantsAre
    <2>4. CASE \E i \in Items(tree, {"mcp"}) : \E v \in i.more.env : g = <<"environment", v>>
        <3>1. PICK i \in Items(tree, {"mcp"}) : \E v \in i.more.env : g = <<"environment", v>>
            BY <2>4
        <3>2. i.at = "mcp"
            BY <3>1 DEF Items
        <3>3. Speaks(i, g)
            BY <3>1, <3>2 DEF Speaks
        <3>4. i \in Items(part, {"mcp"})
            BY <1>2, <1>6, <3>1, <3>3
        <3>. QED  BY <3>1, <3>4, GrantsAre
    <2>5. CASE \E i \in Items(tree, {"dir"}) : i.text # "<redacted>" /\ g = <<"directory", i.text>>
        <3>1. PICK i \in Items(tree, {"dir"}) : i.text # "<redacted>" /\ g = <<"directory", i.text>>
            BY <2>5
        <3>2. i.at = "dir"
            BY <3>1 DEF Items
        <3>3. Speaks(i, g)
            BY <3>1, <3>2 DEF Speaks
        <3>4. i \in Items(part, {"dir"})
            BY <1>2, <1>6, <3>1, <3>3
        <3>. QED  BY <3>1, <3>4, GrantsAre
    <2>6. CASE \E r \in Rules(tree, "allow") : ~Scoped(r) /\ r \notin Rules(tree, "deny") /\ g = <<"tool", r>>
        <3>1. PICK r \in Rules(tree, "allow") : ~Scoped(r) /\ r \notin Rules(tree, "deny") /\ g = <<"tool", r>>
            BY <2>6
        <3>2. r \in Rules(part, "allow")
            BY <1>4, <1>6, <3>1
        <3>3. r \notin Rules(part, "deny")
            BY <1>3, <3>1
        <3>. QED  BY <3>1, <3>2, <3>3, GrantsAre
    <2>7. CASE \E i \in Items(tree, {"defaultMode"}) : i.text \in WideningModes /\ g = <<"mode">>
        <3>1. PICK i \in Items(tree, {"defaultMode"}) : i.text \in WideningModes /\ g = <<"mode">>
            BY <2>7
        <3>2. i.at = "defaultMode"
            BY <3>1 DEF Items
        <3>3. Speaks(i, g)
            BY <3>1, <3>2 DEF Speaks
        <3>4. i \in Items(part, {"defaultMode"})
            BY <1>2, <1>6, <3>1, <3>3
        <3>. QED  BY <3>1, <3>4, GrantsAre
    <2>8. CASE \E i \in Items(tree, {"flag"}) :
                  i.slot = "enableAllProjectMcpServers" /\ i.text = "true" /\ g = <<"every server">>
        <3>1. PICK i \in Items(tree, {"flag"}) :
                  i.slot = "enableAllProjectMcpServers" /\ i.text = "true" /\ g = <<"every server">>
            BY <2>8
        <3>2. i.at = "flag"
            BY <3>1 DEF Items
        <3>3. Speaks(i, g)
            BY <3>1, <3>2 DEF Speaks
        <3>4. i \in Items(part, {"flag"})
            BY <1>2, <1>6, <3>1, <3>3
        <3>. QED  BY <3>1, <3>4, GrantsAre
    <2>. QED  BY <2>1, <2>2, <2>3, <2>4, <2>5, <2>6, <2>7, <2>8, GrantsAre
<1>7. ASSUME NEW g \in Grants(part), g \notin Said(lost)
      PROVE  g \in Grants(tree)
    <2>1. CASE \E r \in Rules(part, "allow") : ~Scoped(r) /\ r \notin Rules(part, "deny") /\ g = <<"tool", r>>
        <3>1. PICK r \in Rules(part, "allow") : ~Scoped(r) /\ r \notin Rules(part, "deny") /\ g = <<"tool", r>>
            BY <2>1
        <3>2. r \in Rules(tree, "allow")
            BY <1>3, <3>1
        <3>3. r \notin Rules(tree, "deny")
            BY <1>4, <1>7, <3>1
        <3>. QED  BY <3>1, <3>2, <3>3, GrantsAre
    <2>2. CASE ~\E r \in Rules(part, "allow") : ~Scoped(r) /\ r \notin Rules(part, "deny") /\ g = <<"tool", r>>
        <3>1. \/ \E i \in Items(part, {"hook"}) : g = <<"hook", i.more.event, i.text>>
              \/ \E i \in Items(part, {"mcp"}) :
                    g = <<"server", i.slot, i.text.scheme, i.text.target, i.more.args>>
              \/ \E i \in Items(part, {"env"}) : g = <<"environment", <<i.slot, i.text>>>>
              \/ \E i \in Items(part, {"mcp"}) : \E v \in i.more.env : g = <<"environment", v>>
              \/ \E i \in Items(part, {"dir"}) : i.text # "<redacted>" /\ g = <<"directory", i.text>>
              \/ \E i \in Items(part, {"defaultMode"}) : i.text \in WideningModes /\ g = <<"mode">>
              \/ \E i \in Items(part, {"flag"}) :
                    i.slot = "enableAllProjectMcpServers" /\ i.text = "true" /\ g = <<"every server">>
            BY <2>2, GrantsAre
        <3>2. \A section \in {"hook", "mcp", "env", "dir", "defaultMode", "flag"} :
                 \A i \in Items(part, {section}) : i \in Items(tree, {section})
            BY <1>1
        <3>. QED  BY <3>1, <3>2, GrantsAre
    <2>. QED  BY <2>1, <2>2
<1>8. ASSUME NEW l \in Limits(part)
      PROVE  l \in Limits(tree)
    <2>1. \A i \in Items(part, {"flag"}) : i \in Items(tree, {"flag"})
        BY <1>1
    <2>2. \A r \in Rules(part, "deny") : r \in Rules(tree, "deny")
        BY <1>3
    <2>. QED  BY <2>1, <2>2, LimitsAre
<1>9. ASSUME NEW l \in Limits(tree), l \notin Said(lost)
      PROVE  l \in Limits(part)
    <2>1. CASE \E r \in Rules(tree, "deny") : Evaluated(r) /\ l = <<"deny", r>>
        <3>1. PICK r \in Rules(tree, "deny") : Evaluated(r) /\ l = <<"deny", r>>
            BY <2>1
        <3>2. r \in Rules(part, "deny")
            BY <1>4, <1>9, <3>1
        <3>. QED  BY <3>1, <3>2, LimitsAre
    <2>2. CASE \E i \in Items(tree, {"flag"}) :
                  i.slot = "disableAllHooks" /\ i.text = "true" /\ l = <<"no hooks">>
        <3>1. PICK i \in Items(tree, {"flag"}) :
                  i.slot = "disableAllHooks" /\ i.text = "true" /\ l = <<"no hooks">>
            BY <2>2
        <3>2. i.at = "flag"
            BY <3>1 DEF Items
        <3>3. Speaks(i, l)
            BY <3>1, <3>2 DEF Speaks
        <3>4. i \in Items(part, {"flag"})
            BY <1>2, <1>9, <3>1, <3>3
        <3>. QED  BY <3>1, <3>4, LimitsAre
    <2>. QED  BY <2>1, <2>2, LimitsAre
<1>. QED  BY <1>6, <1>7, <1>8, <1>9 DEF lost

\* What a side is not compared by, of a side whose tree is sound.
LEMMA UnseenSays ==
    ASSUME NEW side
    PROVE  /\ Said(LostOf(side.tree, side.lost)) \subseteq Said(Unseen(side))
           /\ Said(Doubled(Seen(side))) \subseteq Said(Unseen(side))
BY DEF Said, Unseen, LostOf

\* What one admitted merge keeps, a chain of them keeps: main grants nothing
\* sensitive that the tree the chain began with did not, and forbids all that
\* it did (the default failing categories, categories.ts:26), except for what
\* a check it was admitted by did not look at.
ChainInv ==
    /\ \A g \in Grants(main) : Sensitive(g) => g \in Grants(trusted) \cup overlooked
    /\ Limits(trusted) \subseteq Limits(main) \cup overlooked

LEMMA ChainStep ==
    ASSUME ReviewInv, TreesInv, TreesInv', [MergedAsReviewed]_vars, ChainInv, [Next]_vars
    PROVE  ChainInv'
<1>1. trusted' = trusted
    BY DEF Next, Push, ResetBranch, Checkout, Unresolvable, ResolveBase, ResolveHead,
       GuardInRepo, ReadBase, ReadHead, Conclude, Merge, Dismiss, repository, vars
<1>2. CASE UNCHANGED <<main, overlooked>>
    BY <1>1, <1>2 DEF ChainInv
<1>3. CASE Merge
    <2>1. PICK gap : gap = UNION {Says(p) : p \in Unseen(scan.base) \cup Unseen(scan.head)}
        OBVIOUS
    <2>2. overlooked' = overlooked \cup gap
        BY <1>3, <2>1 DEF Merge
    <2>3. CASE main' = main
        BY <1>1, <2>2, <2>3 DEF ChainInv
    <2>4. CASE main' # main
        <3>1. /\ scan.base.tree = main /\ scan.head.tree = main'
              /\ SnapshotOf(Seen(scan.base)).incomplete = {} /\ SnapshotOf(Seen(scan.head)).incomplete = {}
              /\ Admitted(SnapshotOf(Seen(scan.base)).entries, SnapshotOf(Seen(scan.head)).entries)
            BY <2>4 DEF MergedAsReviewed, Admitted, vars
        <3>2. PICK base, head : base = scan.base /\ head = scan.head
            OBVIOUS
        <3>3. PICK before, after : before = base.tree /\ after = head.tree
            OBVIOUS
        <3>4. before = main /\ after = main'
            BY <3>1, <3>2, <3>3
        <3>5. theme \in Themes /\ Sound(before) /\ Sound(after)
            BY <1>3, <3>2, <3>3, <3>4 DEF TreesInv, Merge
        <3>6. Seen(base) = Without(before, base.lost) /\ Seen(head) = Without(after, head.lost)
            BY <3>3 DEF Seen
        <3>7. Sound(Seen(base)) /\ Sound(Seen(head))
            BY <3>5, <3>6, LostSound
        <3>8. /\ \A g \in Grants(Seen(head)) : Sensitive(g) => g \in Grants(Seen(base)) \cup Said(Doubled(Seen(head)))
              /\ Limits(Seen(base)) \subseteq Limits(Seen(head)) \cup Said(Doubled(Seen(base)))
            BY <3>1, <3>2, <3>5, <3>7, AdmittedIsAsStrict
        <3>9. /\ Said(LostOf(before, base.lost)) \subseteq gap /\ Said(Doubled(Seen(base))) \subseteq gap
              /\ Said(LostOf(after, head.lost)) \subseteq gap /\ Said(Doubled(Seen(head))) \subseteq gap
            <4>1. Said(Unseen(base)) \subseteq gap /\ Said(Unseen(head)) \subseteq gap
                BY <2>1, <3>2 DEF Said
            <4>. QED  BY <3>3, <4>1, UnseenSays
        <3>10. /\ Grants(after) \subseteq Grants(Seen(head)) \cup Said(LostOf(after, head.lost))
               /\ Limits(Seen(head)) \subseteq Limits(after)
            BY <3>6, LostTells
        <3>11. /\ Grants(Seen(base)) \subseteq Grants(before) \cup Said(LostOf(before, base.lost))
               /\ Limits(before) \subseteq Limits(Seen(base)) \cup Said(LostOf(before, base.lost))
            BY <3>6, LostTells
        <3>12. \A g \in Grants(after) : Sensitive(g) => g \in Grants(before) \cup gap
            BY <3>8, <3>9, <3>10, <3>11
        <3>13. Limits(before) \subseteq Limits(after) \cup gap
            BY <3>8, <3>9, <3>10, <3>11
        <3>14. /\ \A g \in Grants(main') : Sensitive(g) => g \in Grants(main) \cup gap
               /\ Limits(main) \subseteq Limits(main') \cup gap
            BY <3>4, <3>12, <3>13
        <3>. QED  BY <1>1, <2>2, <3>14 DEF ChainInv
    <2>. QED  BY <2>3, <2>4
<1>4. Merge \/ UNCHANGED <<main, overlooked>>
    BY DEF Next, Push, ResetBranch, Checkout, Unresolvable, ResolveBase, ResolveHead,
       GuardInRepo, ReadBase, ReadHead, Conclude, Dismiss, repository, vars
<1>. QED  BY <1>2, <1>3, <1>4

\* A chain of merges, each admitted by exit 0, leads nowhere one check would
\* not (README.md:43), but for the files git was not able to look up and the
\* modes and flags below another of their name: for any number of merges, any
\* files, any number of them in the same place, and any literals taken for
\* credentials.
THEOREM AdmittedStepsHold == Spec => []AdmittedStepsAddUp
<1>1. Init => ReviewInv /\ TreesInv /\ ChainInv
    BY ReviewInit, TreesInit DEF Init, ChainInv
<1>2. ReviewInv /\ TreesInv /\ ChainInv /\ [MergedAsReviewed]_vars /\ [Next]_vars
          => ReviewInv' /\ TreesInv' /\ ChainInv'
    BY ReviewStep, TreesStep, ChainStep
<1>3. ChainInv => AdmittedStepsAddUp
    BY DEF ChainInv, AdmittedStepsAddUp
<1>. QED  BY <1>1, <1>2, <1>3, MergesAreReviewed, PTL DEF Spec

-----------------------------------------------------------------------------
(* Two sides that compare equal: as many entries of each class.            *)

\* The class of an item: what its entry is compared by.
ClassOf(p) == <<p[1], KeyOf(p[2]), ValueOf(p[2])>>
OfClass(placed, c) == {p \in placed : ClassOf(p) = c}
OfSense(placed, x) == {p \in placed : Sense(p) = x}

\* An item with a literal that is taken for a credential; an item whose place
\* and spelling do not count.
Marked(p) == CredentialsOf(p[1], p[2]) # {}
Loose(p) == p[2].at = "hook" \/ (p[2].at \in PermissionLists \cup {"dir"} /\ ~Marked(p))
LooseOf(placed, c) == {p \in placed : Loose(p) /\ ClassOf(p) = c}

Itemized(placed) ==
    IsFiniteSet(placed) /\ Readable(placed) /\ \A p \in placed : IsItem(p[2])

LEMMA MarkedIs ==
    ASSUME NEW p
    PROVE  /\ Marked(p) <=> \E l \in Literals(p[2]) : l[2] \in Secret
           /\ p[2].at \in PermissionLists => (Marked(p) <=> p[2].text.body \in Secret)
           /\ p[2].at = "dir" => (Marked(p) <=> p[2].text \in Secret)
<1>1. Marked(p) <=> \E l \in Literals(p[2]) : l[2] \in Secret
    BY DEF Marked, CredentialsOf
<1>2. p[2].at \in PermissionLists => Literals(p[2]) = {<<"rule", p[2].text.body>>}
    BY DEF Literals, PermissionLists
<1>3. p[2].at = "dir" => Literals(p[2]) = {<<"text", p[2].text>>}
    BY DEF Literals, PermissionLists
<1>6. ASSUME NEW field, NEW text, Literals(p[2]) = {<<field, text>>}
      PROVE  Marked(p) <=> text \in Secret
    <2>1. <<field, text>>[2] = text
        OBVIOUS
    <2>2. \A l \in Literals(p[2]) : l[2] = text
        BY <1>6, <2>1
    <2>3. <<field, text>> \in Literals(p[2])
        BY <1>6
    <2>. QED  BY <1>1, <2>1, <2>2, <2>3
<1>4. p[2].at \in PermissionLists => (Marked(p) <=> p[2].text.body \in Secret)
    BY <1>2, <1>6
<1>5. p[2].at = "dir" => (Marked(p) <=> p[2].text \in Secret)
    BY <1>3, <1>6
<1>. QED  BY <1>1, <1>4, <1>5

LEMMA SectionOfKey ==
    ASSUME NEW i, NEW j, i.at \in Sections, j.at \in Sections, KeyOf(i) = KeyOf(j)
    PROVE  i.at = j.at
<1>1. \A x : x.at \in PermissionLists => KeyOf(x) = <<"perm", x.at, Canonical(x.text)>>
    BY DEF KeyOf, PermissionLists
<1>2. \A x : x.at = "dir" => KeyOf(x) = <<"dir", Shown(x.text)>>
    BY DEF KeyOf, PermissionLists
<1>3. \A x : x.at = "hook" => KeyOf(x) = <<"hook", x.more.event, x.text>>
    BY DEF KeyOf, PermissionLists
<1>4. \A x : x.at \in Sections \ (PermissionLists \cup {"dir", "hook"}) => KeyOf(x) = <<KindOf(x), x.slot>>
    BY DEF KeyOf, PermissionLists, Sections
<1>5. \A x : x.at \in Sections \ PermissionLists =>
         KindOf(x) = IF x.at = "defaultMode" THEN "mode" ELSE IF x.at = "env" THEN "env_key"
                     ELSE IF x.at = "flag" THEN "plugin_flag" ELSE x.at
    BY DEF KindOf, PermissionLists, Sections
<1>6. CASE i.at \in PermissionLists
    <2>1. KeyOf(j)[1] = "perm" /\ KeyOf(j)[2] = i.at
        BY <1>1, <1>6
    <2>2. j.at \in PermissionLists
        BY <1>2, <1>3, <1>4, <1>5, <2>1 DEF Sections, PermissionLists
    <2>. QED  BY <1>1, <2>1, <2>2
<1>7. CASE i.at \notin PermissionLists
    <2>1. KeyOf(i)[1] = IF i.at = "defaultMode" THEN "mode" ELSE IF i.at = "env" THEN "env_key"
                        ELSE IF i.at = "flag" THEN "plugin_flag" ELSE i.at
        BY <1>2, <1>3, <1>4, <1>5, <1>7 DEF Sections
    <2>2. j.at \notin PermissionLists
        BY <1>1, <1>7, <2>1 DEF Sections, PermissionLists
    <2>3. KeyOf(j)[1] = IF j.at = "defaultMode" THEN "mode" ELSE IF j.at = "env" THEN "env_key"
                        ELSE IF j.at = "flag" THEN "plugin_flag" ELSE j.at
        BY <1>2, <1>3, <1>4, <1>5, <2>2 DEF Sections
    <2>. QED  BY <1>7, <2>1, <2>2, <2>3 DEF Sections, PermissionLists
<1>. QED  BY <1>6, <1>7

\* What a class says of an item, section by section.
LEMMA ClassTells ==
    ASSUME NEW p, NEW q, WellPlaced(p), WellPlaced(q), IsItem(p[2]), IsItem(q[2]),
           ~Unusable(p[2]), ~Unusable(q[2]), ClassOf(p) = ClassOf(q)
    PROVE  /\ p[1] = q[1] /\ p[2].at = q[2].at
           /\ p[2].at \in PermissionLists => Canonical(p[2].text) = Canonical(q[2].text)
           /\ p[2].at = "dir" => Shown(p[2].text) = Shown(q[2].text)
           /\ p[2].at = "hook" =>
                 /\ p[2].more.event = q[2].more.event /\ p[2].text = q[2].text
                 /\ p[2].more.kept = q[2].more.kept
           /\ p[2].at \in {"env", "helper"} => p = q
           /\ p[2].at \in {"defaultMode", "flag", "sandbox", "unknown"} =>
                 p[2].slot = q[2].slot /\ Shown(p[2].text) = Shown(q[2].text)
           /\ p[2].at = "mcp" =>
                 /\ p[2].slot = q[2].slot /\ p[2].text = q[2].text
                 /\ p[2].more.args = q[2].more.args /\ p[2].more.env = q[2].more.env
                 /\ p[2].more.headers = q[2].more.headers
                 /\ Shown(p[2].more.extra) = Shown(q[2].more.extra)
<1>1. PICK i, j : i = p[2] /\ j = q[2]
    OBVIOUS
<1>2. /\ p = <<p[1], i>> /\ q = <<q[1], j>> /\ i.at \in Sections /\ j.at \in Sections
    BY <1>1 DEF WellPlaced
<1>3. p[1] = q[1] /\ KeyOf(i) = KeyOf(j) /\ ValueOf(i) = ValueOf(j)
    BY <1>1 DEF ClassOf
<1>4. i.at = j.at
    BY <1>2, <1>3, SectionOfKey
<1>5. /\ i = [at |-> i.at, slot |-> i.slot, text |-> i.text, more |-> i.more]
      /\ j = [at |-> j.at, slot |-> j.slot, text |-> j.text, more |-> j.more]
      /\ i.at \notin {"hook", "mcp"} => i.more = None /\ j.more = None
    BY <1>1, <1>4 DEF IsItem
<1>6. ASSUME i.at \in PermissionLists
      PROVE  Canonical(i.text) = Canonical(j.text)
    <2>1. ValueOf(i) = <<Canonical(i.text)>> /\ ValueOf(j) = <<Canonical(j.text)>>
        BY <1>4, <1>6 DEF ValueOf, PermissionLists
    <2>2. <<Canonical(i.text)>> = <<Canonical(j.text)>>
        BY <1>3, <2>1
    <2>. QED  BY <2>2
<1>7. ASSUME i.at = "dir"
      PROVE  Shown(i.text) = Shown(j.text)
    <2>1. ValueOf(i) = <<Shown(i.text)>> /\ ValueOf(j) = <<Shown(j.text)>>
        BY <1>4, <1>7 DEF ValueOf, PermissionLists
    <2>2. <<Shown(i.text)>> = <<Shown(j.text)>>
        BY <1>3, <2>1
    <2>. QED  BY <2>2
<1>8. ASSUME i.at = "hook"
      PROVE  i.more.event = j.more.event /\ i.text = j.text /\ i.more.kept = j.more.kept
    <2>1. KeyOf(i) = <<"hook", i.more.event, i.text>> /\ KeyOf(j) = <<"hook", j.more.event, j.text>>
        BY <1>4, <1>8 DEF KeyOf, PermissionLists
    <2>2. /\ ValueOf(i) = <<Shown(i.text), HiddenDigest(i.text), Shown(i.more.kept), HiddenDigest(i.more.kept)>>
          /\ ValueOf(j) = <<Shown(j.text), HiddenDigest(j.text), Shown(j.more.kept), HiddenDigest(j.more.kept)>>
        BY <1>4, <1>8 DEF ValueOf, PermissionLists
    <2>3. /\ <<"hook", i.more.event, i.text>> = <<"hook", j.more.event, j.text>>
          /\ <<Shown(i.text), HiddenDigest(i.text), Shown(i.more.kept), HiddenDigest(i.more.kept)>>
                = <<Shown(j.text), HiddenDigest(j.text), Shown(j.more.kept), HiddenDigest(j.more.kept)>>
        BY <1>3, <2>1, <2>2
    <2>4. /\ i.more.event = j.more.event /\ i.text = j.text
          /\ Shown(i.more.kept) = Shown(j.more.kept) /\ HiddenDigest(i.more.kept) = HiddenDigest(j.more.kept)
        BY <2>3
    <2>. QED  BY <2>4, ShownTells
<1>9. ASSUME i.at \in {"env", "helper", "defaultMode", "flag", "sandbox", "unknown"}
      PROVE  i.slot = j.slot
    <2>1. KeyOf(i) = <<KindOf(i), i.slot>> /\ KeyOf(j) = <<KindOf(j), j.slot>>
        BY <1>4, <1>9 DEF KeyOf, PermissionLists
    <2>2. <<KindOf(i), i.slot>> = <<KindOf(j), j.slot>>
        BY <1>3, <2>1
    <2>. QED  BY <2>2
<1>10. ASSUME i.at = "env"
       PROVE  i = j
    <2>1. ValueOf(i) = <<i.text>> /\ ValueOf(j) = <<j.text>>
        BY <1>4, <1>10 DEF ValueOf, PermissionLists
    <2>2. <<i.text>> = <<j.text>>
        BY <1>3, <2>1
    <2>3. i.text = j.text
        BY <2>2
    <2>. QED  BY <1>4, <1>5, <1>9, <1>10, <2>3
<1>11. ASSUME i.at = "helper"
       PROVE  i = j
    <2>1. /\ ValueOf(i) = <<Shown(i.text), HiddenDigest(i.text)>>
          /\ ValueOf(j) = <<Shown(j.text), HiddenDigest(j.text)>>
        BY <1>4, <1>11 DEF ValueOf, PermissionLists
    <2>2. <<Shown(i.text), HiddenDigest(i.text)>> = <<Shown(j.text), HiddenDigest(j.text)>>
        BY <1>3, <2>1
    <2>3. Shown(i.text) = Shown(j.text) /\ HiddenDigest(i.text) = HiddenDigest(j.text)
        BY <2>2
    <2>4. i.text = j.text
        BY <2>3, ShownTells
    <2>. QED  BY <1>4, <1>5, <1>9, <1>11, <2>4
<1>12. ASSUME i.at \in {"defaultMode", "flag", "sandbox", "unknown"}
       PROVE  Shown(i.text) = Shown(j.text)
    <2>1. ValueOf(i) = <<Shown(i.text)>> /\ ValueOf(j) = <<Shown(j.text)>>
        BY <1>4, <1>12 DEF ValueOf, PermissionLists
    <2>2. <<Shown(i.text)>> = <<Shown(j.text)>>
        BY <1>3, <2>1
    <2>. QED  BY <2>2
<1>13. ASSUME i.at = "mcp"
       PROVE  /\ i.slot = j.slot /\ i.text = j.text
              /\ i.more.args = j.more.args /\ i.more.env = j.more.env
              /\ i.more.headers = j.more.headers /\ Shown(i.more.extra) = Shown(j.more.extra)
    <2>1. KeyOf(i) = <<KindOf(i), i.slot>> /\ KeyOf(j) = <<KindOf(j), j.slot>>
        BY <1>4, <1>13 DEF KeyOf, PermissionLists
    <2>2. i.more.args # Junk /\ j.more.args # Junk
        BY <1>1, <1>4, <1>13 DEF Unusable, PermissionLists
    <2>3. ASSUME NEW x, x.at = "mcp", x.more.args # Junk
          PROVE  /\ ValueOf(x).to = <<x.text.scheme, Shown(x.text.target), HiddenDigest(x.text.target)>>
                 /\ ValueOf(x).args = <<Shown(x.more.args), HiddenDigest(x.more.args)>>
                 /\ ValueOf(x).env = x.more.env /\ ValueOf(x).headers = x.more.headers
                 /\ ValueOf(x).extra = Shown(x.more.extra)
        BY <2>3 DEF ValueOf, PermissionLists
    <2>4. /\ <<i.text.scheme, Shown(i.text.target), HiddenDigest(i.text.target)>>
                = <<j.text.scheme, Shown(j.text.target), HiddenDigest(j.text.target)>>
          /\ <<Shown(i.more.args), HiddenDigest(i.more.args)>> = <<Shown(j.more.args), HiddenDigest(j.more.args)>>
          /\ i.more.env = j.more.env /\ i.more.headers = j.more.headers
          /\ Shown(i.more.extra) = Shown(j.more.extra)
        BY <1>3, <1>4, <1>13, <2>2, <2>3
    <2>8. /\ i.text.scheme = j.text.scheme
          /\ Shown(i.text.target) = Shown(j.text.target)
          /\ HiddenDigest(i.text.target) = HiddenDigest(j.text.target)
          /\ Shown(i.more.args) = Shown(j.more.args)
          /\ HiddenDigest(i.more.args) = HiddenDigest(j.more.args)
        BY <2>4
    <2>5. i.text.scheme = j.text.scheme /\ i.text.target = j.text.target
        BY <2>8, ShownTells
    <2>6. i.more.args = j.more.args
        BY <2>8, ShownTells
    <2>7. i.text = j.text
        BY <1>1, <1>4, <1>13, <2>5 DEF IsItem
    <2>9. <<KindOf(i), i.slot>> = <<KindOf(j), j.slot>>
        BY <1>3, <2>1
    <2>10. i.slot = j.slot
        BY <2>9
    <2>. QED  BY <2>4, <2>6, <2>7, <2>10
<1>. QED  BY <1>1, <1>2, <1>3, <1>4, <1>6, <1>7, <1>8, <1>9, <1>10, <1>11, <1>12, <1>13

\* Among loose items the sense is the class; any other item is the only one of
\* its sense.
LEMMA SenseTells ==
    ASSUME NEW p, NEW q, WellPlaced(p), WellPlaced(q), IsItem(p[2]), IsItem(q[2])
    PROVE  /\ Loose(p) /\ Loose(q) => (Sense(p) = Sense(q) <=> ClassOf(p) = ClassOf(q))
           /\ Sense(p) = Sense(q) => (Loose(p) <=> Loose(q))
           /\ Sense(p) = Sense(q) /\ ~Loose(p) => p = q
<1>1. PICK i, j : i = p[2] /\ j = q[2]
    OBVIOUS
<1>2. /\ p = <<p[1], i>> /\ q = <<q[1], j>> /\ i.at \in Sections /\ j.at \in Sections
    BY <1>1 DEF WellPlaced
<1>. DEFINE slotOf(x) == IF Loose(x) THEN None ELSE x[2].slot
            textOf(x) == IF x[2].at \in PermissionLists /\ Loose(x) THEN Canonical(x[2].text) ELSE x[2].text
            moreOf(x) == IF x[2].at = "hook" THEN <<x[2].more.event, x[2].more.kept>> ELSE x[2].more
<1>3. \A x : Sense(x) = <<x[1], x[2].at, slotOf(x), textOf(x), moreOf(x)>>
    <2>1. ASSUME NEW x
          PROVE  Sense(x) = <<x[1], x[2].at, slotOf(x), textOf(x), moreOf(x)>>
        <3>1. CASE CredentialsOf(x[1], x[2]) = {} /\ x[2].at \in PermissionLists
            BY <3>1 DEF Sense, Loose, Marked
        <3>2. CASE CredentialsOf(x[1], x[2]) = {} /\ x[2].at \notin PermissionLists
            BY <3>2 DEF Sense, Loose, Marked
        <3>3. CASE CredentialsOf(x[1], x[2]) # {} /\ x[2].at \in PermissionLists
            <4>1. x[2].at # "hook"
                BY <3>3 DEF PermissionLists
            <4>. QED  BY <3>3, <4>1 DEF Sense, Loose, Marked
        <3>4. CASE CredentialsOf(x[1], x[2]) # {} /\ x[2].at \notin PermissionLists
            BY <3>4 DEF Sense, Loose, Marked
        <3>. QED  BY <3>1, <3>2, <3>3, <3>4
    <2>. HIDE DEF slotOf, textOf, moreOf
    <2>. QED  BY <2>1
<1>4. Sense(p) = Sense(q) <=>
          /\ p[1] = q[1] /\ i.at = j.at /\ slotOf(p) = slotOf(q) /\ textOf(p) = textOf(q)
          /\ moreOf(p) = moreOf(q)
    <2>1. Sense(p) = <<p[1], i.at, slotOf(p), textOf(p), moreOf(p)>>
        BY <1>1, <1>3
    <2>2. Sense(q) = <<q[1], j.at, slotOf(q), textOf(q), moreOf(q)>>
        BY <1>1, <1>3
    <2>. HIDE DEF slotOf, textOf, moreOf
    <2>. QED  BY <2>1, <2>2
<1>5. /\ i = [at |-> i.at, slot |-> i.slot, text |-> i.text, more |-> i.more]
      /\ j = [at |-> j.at, slot |-> j.slot, text |-> j.text, more |-> j.more]
      /\ i.at \notin {"hook", "mcp"} => i.more = None
      /\ j.at \notin {"hook", "mcp"} => j.more = None
    BY <1>1 DEF IsItem
<1>6. "<redacted>" \notin Secret
    BY SecretAssumption
<1>7. \A rule : Canonical(rule).body = Shown(rule.body)
    BY DEF Canonical
<1>8. \A text : Shown(text) \notin Secret /\ (text \notin Secret => Shown(text) = text)
    BY <1>6 DEF Shown
<1>9. ASSUME Sense(p) = Sense(q)
      PROVE  Loose(p) <=> Loose(q)
    <2>1. CASE i.at \in PermissionLists
        <3>0. i.at # "hook"
            BY <2>1 DEF PermissionLists
        <3>1. Loose(p) <=> i.text.body \notin Secret
            BY <1>1, <2>1, <3>0, MarkedIs DEF Loose
        <3>2. Loose(q) <=> j.text.body \notin Secret
            BY <1>1, <1>4, <1>9, <2>1, <3>0, MarkedIs DEF Loose
        <3>3. textOf(p).body \in Secret <=> i.text.body \in Secret
            BY <1>1, <1>7, <1>8, <2>1, <3>1
        <3>4. textOf(q).body \in Secret <=> j.text.body \in Secret
            BY <1>1, <1>4, <1>9, <1>7, <1>8, <2>1, <3>2
        <3>5. textOf(p) = textOf(q)
            BY <1>4, <1>9
        <3>. HIDE DEF textOf
        <3>. QED  BY <3>1, <3>2, <3>3, <3>4, <3>5
    <2>2. CASE i.at = "dir"
        <3>1. Loose(p) <=> i.text \notin Secret
            BY <1>1, <2>2, MarkedIs DEF Loose
        <3>2. Loose(q) <=> j.text \notin Secret
            BY <1>1, <1>4, <1>9, <2>2, MarkedIs DEF Loose
        <3>3. i.text = j.text
            BY <1>1, <1>4, <1>9, <2>2 DEF PermissionLists
        <3>. QED  BY <3>1, <3>2, <3>3
    <2>3. CASE i.at \notin PermissionLists \cup {"dir"}
        BY <1>1, <1>4, <1>9, <2>3 DEF Loose
    <2>. QED  BY <2>1, <2>2, <2>3
<1>10. ASSUME Sense(p) = Sense(q), ~Loose(p)
       PROVE  p = q
    <2>1. ~Loose(q) /\ i.at # "hook" /\ i.at = j.at
        BY <1>1, <1>4, <1>9, <1>10 DEF Loose
    <2>2. i.slot = j.slot /\ i.text = j.text /\ i.more = j.more
        BY <1>1, <1>4, <1>10, <2>1
    <2>. HIDE DEF slotOf, textOf, moreOf
    <2>. QED  BY <1>2, <1>4, <1>5, <1>10, <2>1, <2>2
<1>11. ASSUME Loose(p), Loose(q)
       PROVE  Sense(p) = Sense(q) <=> ClassOf(p) = ClassOf(q)
    <2>1. /\ i.at \in PermissionLists \cup {"dir", "hook"} /\ j.at \in PermissionLists \cup {"dir", "hook"}
          /\ i.at = "dir" => i.text \notin Secret
          /\ j.at = "dir" => j.text \notin Secret
        BY <1>1, <1>11, MarkedIs DEF Loose
    <2>2. i.at = j.at /\ i.at # "hook" => moreOf(p) = moreOf(q)
        BY <1>1, <1>5, <2>1 DEF PermissionLists
    <2>3. Sense(p) = Sense(q) <=>
             p[1] = q[1] /\ i.at = j.at /\ textOf(p) = textOf(q) /\ moreOf(p) = moreOf(q)
        BY <1>4, <1>11
    <2>4. ClassOf(p) = ClassOf(q) <=> p[1] = q[1] /\ KeyOf(i) = KeyOf(j) /\ ValueOf(i) = ValueOf(j)
        BY <1>1 DEF ClassOf
    <2>5. KeyOf(i) = KeyOf(j) => i.at = j.at
        BY <1>2, SectionOfKey
    <2>6. ASSUME i.at = j.at
          PROVE  textOf(p) = textOf(q) /\ moreOf(p) = moreOf(q) <=> KeyOf(i) = KeyOf(j) /\ ValueOf(i) = ValueOf(j)
        <3>1. CASE i.at \in PermissionLists
            <4>0. moreOf(p) = moreOf(q)
                BY <2>2, <2>6, <3>1 DEF PermissionLists
            <4>1. /\ KeyOf(i) = <<"perm", i.at, Canonical(i.text)>> /\ KeyOf(j) = <<"perm", j.at, Canonical(j.text)>>
                  /\ ValueOf(i) = <<Canonical(i.text)>> /\ ValueOf(j) = <<Canonical(j.text)>>
                BY <2>6, <3>1 DEF KeyOf, ValueOf, PermissionLists
            <4>2. textOf(p) = Canonical(i.text) /\ textOf(q) = Canonical(j.text)
                BY <1>1, <1>11, <2>6, <3>1
            <4>3. KeyOf(i) = KeyOf(j) => Canonical(i.text) = Canonical(j.text)
                <5>1. ASSUME KeyOf(i) = KeyOf(j)
                      PROVE  Canonical(i.text) = Canonical(j.text)
                    <6>1. <<"perm", i.at, Canonical(i.text)>> = <<"perm", j.at, Canonical(j.text)>>
                        BY <4>1, <5>1
                    <6>. QED  BY <6>1
                <5>. QED  BY <5>1
            <4>. HIDE DEF textOf, moreOf
            <4>. QED  BY <2>6, <4>0, <4>1, <4>2, <4>3
        <3>2. CASE i.at = "dir"
            <4>0. moreOf(p) = moreOf(q)
                BY <2>2, <2>6, <3>2
            <4>1. /\ KeyOf(i) = <<"dir", Shown(i.text)>> /\ KeyOf(j) = <<"dir", Shown(j.text)>>
                  /\ ValueOf(i) = <<Shown(i.text)>> /\ ValueOf(j) = <<Shown(j.text)>>
                BY <2>6, <3>2 DEF KeyOf, ValueOf, PermissionLists
            <4>2. textOf(p) = i.text /\ textOf(q) = j.text
                BY <1>1, <2>6, <3>2 DEF PermissionLists
            <4>3. Shown(i.text) = i.text /\ Shown(j.text) = j.text
                BY <1>8, <2>1, <2>6, <3>2
            <4>4. KeyOf(i) = KeyOf(j) => i.text = j.text
                <5>1. ASSUME KeyOf(i) = KeyOf(j)
                      PROVE  i.text = j.text
                    <6>1. <<"dir", i.text>> = <<"dir", j.text>>
                        BY <4>1, <4>3, <5>1
                    <6>. QED  BY <6>1
                <5>. QED  BY <5>1
            <4>. HIDE DEF textOf, moreOf
            <4>. QED  BY <4>0, <4>1, <4>2, <4>3, <4>4
        <3>3. CASE i.at = "hook"
            <4>1. textOf(p) = i.text /\ textOf(q) = j.text
                BY <1>1, <2>6, <3>3 DEF PermissionLists
            <4>2. moreOf(p) = <<i.more.event, i.more.kept>> /\ moreOf(q) = <<j.more.event, j.more.kept>>
                BY <1>1, <2>6, <3>3
            <4>3. /\ KeyOf(i) = <<"hook", i.more.event, i.text>> /\ KeyOf(j) = <<"hook", j.more.event, j.text>>
                  /\ ValueOf(i) = <<Shown(i.text), HiddenDigest(i.text),
                                    Shown(i.more.kept), HiddenDigest(i.more.kept)>>
                  /\ ValueOf(j) = <<Shown(j.text), HiddenDigest(j.text),
                                    Shown(j.more.kept), HiddenDigest(j.more.kept)>>
                BY <2>6, <3>3 DEF KeyOf, ValueOf, PermissionLists
            <4>4. KeyOf(i) = KeyOf(j) <=> i.more.event = j.more.event /\ i.text = j.text
                BY <4>3
            <4>5. ValueOf(i) = ValueOf(j) => i.more.kept = j.more.kept
                <5>1. ASSUME ValueOf(i) = ValueOf(j)
                      PROVE  Shown(i.more.kept) = Shown(j.more.kept) /\ HiddenDigest(i.more.kept) = HiddenDigest(j.more.kept)
                    BY <4>3, <5>1
                <5>. QED  BY <5>1, ShownTells
            <4>6. i.text = j.text /\ i.more.kept = j.more.kept => ValueOf(i) = ValueOf(j)
                BY <4>3
            <4>. HIDE DEF textOf, moreOf
            <4>. QED  BY <4>1, <4>2, <4>4, <4>5, <4>6
        <3>. QED  BY <2>1, <3>1, <3>2, <3>3
    <2>. HIDE DEF textOf, moreOf
    <2>. QED  BY <2>3, <2>4, <2>5, <2>6
<1>. QED  BY <1>9, <1>10, <1>11

\* The entry of a literal, what it says, and whether a hook has one that says
\* it.
CredentialOn(p, l) ==
    [kind |-> "credential", key |-> <<"credential", p[2].at, p[2].slot, l[1]>>,
     value |-> <<WrittenAround(p[2], l)>>, file |-> p[1], slot |-> p[2].slot]
Tag(p, l) == <<p[1], <<"credential", p[2].at, p[2].slot, l[1]>>, <<WrittenAround(p[2], l)>>>>
HookTag(placed, c) ==
    \E p \in placed : p[2].at = "hook" /\ \E l \in Literals(p[2]) : l[2] \in Secret /\ c = Tag(p, l)

LEMMA TagTells ==
    ASSUME NEW p, NEW q, NEW l, NEW m, Tag(p, l) = Tag(q, m)
    PROVE  /\ p[1] = q[1] /\ p[2].at = q[2].at /\ p[2].slot = q[2].slot /\ l[1] = m[1]
           /\ WrittenAround(p[2], l) = WrittenAround(q[2], m)
           /\ CredentialOn(p, l) = CredentialOn(q, m)
<1>1. PICK a, b, x, y : a = p[2] /\ b = q[2] /\ x = WrittenAround(p[2], l) /\ y = WrittenAround(q[2], m)
    OBVIOUS
<1>2. <<p[1], <<"credential", a.at, a.slot, l[1]>>, <<x>>>> = <<q[1], <<"credential", b.at, b.slot, m[1]>>, <<y>>>>
    BY <1>1 DEF Tag
<1>3. /\ p[1] = q[1] /\ <<"credential", a.at, a.slot, l[1]>> = <<"credential", b.at, b.slot, m[1]>>
      /\ <<x>> = <<y>>
    BY <1>2
<1>4. a.at = b.at /\ a.slot = b.slot /\ l[1] = m[1] /\ x = y
    BY <1>3
<1>. QED  BY <1>1, <1>3, <1>4 DEF CredentialOn

LEMMA TagIs ==
    ASSUME NEW p, NEW q, NEW l, NEW m, CredentialOn(p, l) = CredentialOn(q, m)
    PROVE  Tag(p, l) = Tag(q, m)
<1>1. \A x, y : /\ CredentialOn(x, y).file = x[1]
                /\ CredentialOn(x, y).key = <<"credential", x[2].at, x[2].slot, y[1]>>
                /\ CredentialOn(x, y).value = <<WrittenAround(x[2], y)>>
    BY DEF CredentialOn
<1>. QED  BY <1>1 DEF Tag

\* Two sides whose other items are the same, that say each loose thing equally
\* often, and whose hooks hold the same recognised literals.
Alike(before, after) ==
    /\ \A p : ~Loose(p) => (p \in before <=> p \in after)
    /\ \A c : Cardinality(LooseOf(before, c)) = Cardinality(LooseOf(after, c))
    /\ \A c : HookTag(before, c) <=> HookTag(after, c)

\* The literals of the hooks of two trees are the same when what their entries
\* say is.
LEMMA HookSecretsAre ==
    ASSUME NEW base, NEW head, NEW before, NEW after, before = Placed(base), after = Placed(head)
    PROVE  HookSecrets(base) = HookSecrets(head) <=> \A c : HookTag(before, c) <=> HookTag(after, c)
<1>1. ASSUME NEW tree, NEW e
      PROVE  e \in HookSecrets(tree) <=>
                \E p \in Placed(tree) : p[2].at = "hook" /\
                    \E l \in Literals(p[2]) : l[2] \in Secret /\ e = CredentialOn(p, l)
    <2>1. \A p : e \in CredentialsOf(p[1], p[2]) <=>
                    \E l \in Literals(p[2]) : l[2] \in Secret /\ e = CredentialOn(p, l)
        BY DEF CredentialsOf, CredentialOn
    <2>. QED  BY <2>1 DEF HookSecrets
<1>2. ASSUME NEW one, NEW other, HookSecrets(one) = HookSecrets(other), NEW c, HookTag(Placed(one), c)
      PROVE  HookTag(Placed(other), c)
    <2>1. PICK p \in Placed(one) : p[2].at = "hook" /\ \E l \in Literals(p[2]) : l[2] \in Secret /\ c = Tag(p, l)
        BY <1>2 DEF HookTag
    <2>2. PICK l \in Literals(p[2]) : l[2] \in Secret /\ c = Tag(p, l)
        BY <2>1
    <2>3. CredentialOn(p, l) \in HookSecrets(other)
        BY <1>1, <1>2, <2>1, <2>2
    <2>4. PICK q \in Placed(other) :
             q[2].at = "hook" /\ \E m \in Literals(q[2]) : m[2] \in Secret /\ CredentialOn(p, l) = CredentialOn(q, m)
        BY <1>1, <2>3
    <2>5. PICK m \in Literals(q[2]) : m[2] \in Secret /\ CredentialOn(p, l) = CredentialOn(q, m)
        BY <2>4
    <2>6. c = Tag(q, m)
        BY <2>2, <2>5, TagIs
    <2>. QED  BY <2>4, <2>5, <2>6 DEF HookTag
<1>3. ASSUME NEW one, NEW other, \A c : HookTag(Placed(one), c) => HookTag(Placed(other), c),
             NEW e \in HookSecrets(one)
      PROVE  e \in HookSecrets(other)
    <2>1. PICK p \in Placed(one) :
             p[2].at = "hook" /\ \E l \in Literals(p[2]) : l[2] \in Secret /\ e = CredentialOn(p, l)
        BY <1>1
    <2>2. PICK l \in Literals(p[2]) : l[2] \in Secret /\ e = CredentialOn(p, l)
        BY <2>1
    <2>3. HookTag(Placed(one), Tag(p, l))
        BY <2>1, <2>2 DEF HookTag
    <2>4. HookTag(Placed(other), Tag(p, l))
        BY <1>3, <2>3
    <2>5. PICK q \in Placed(other) :
             q[2].at = "hook" /\ \E m \in Literals(q[2]) : m[2] \in Secret /\ Tag(p, l) = Tag(q, m)
        BY <2>4 DEF HookTag
    <2>6. PICK m \in Literals(q[2]) : m[2] \in Secret /\ Tag(p, l) = Tag(q, m)
        BY <2>5
    <2>7. e = CredentialOn(q, m)
        BY <2>2, <2>6, TagTells
    <2>. QED  BY <1>1, <2>5, <2>6, <2>7
<1>4. HookSecrets(base) = HookSecrets(head) => \A c : HookTag(before, c) <=> HookTag(after, c)
    BY <1>2
<1>5. (\A c : HookTag(before, c) <=> HookTag(after, c)) => HookSecrets(base) = HookSecrets(head)
    <2>1. ASSUME \A c : HookTag(before, c) <=> HookTag(after, c)
          PROVE  HookSecrets(base) = HookSecrets(head)
        <3>1. \A e \in HookSecrets(base) : e \in HookSecrets(head)
            BY <1>3, <2>1
        <3>2. \A e \in HookSecrets(head) : e \in HookSecrets(base)
            BY <1>3, <2>1
        <3>. QED  BY <3>1, <3>2
    <2>. QED  BY <2>1
<1>. QED  BY <1>4, <1>5

\* How often, of an item of either side.
LEMMA SenseCounts ==
    ASSUME NEW placed, Itemized(placed), NEW p, WellPlaced(p), IsItem(p[2])
    PROVE  /\ Loose(p) => OfSense(placed, Sense(p)) = LooseOf(placed, ClassOf(p))
           /\ ~Loose(p) => OfSense(placed, Sense(p)) = placed \cap {p}
<1>1. \A q \in placed : WellPlaced(q) /\ IsItem(q[2])
    BY DEF Itemized, Readable
<1>2. \A q \in placed : /\ Loose(p) => (Sense(q) = Sense(p) <=> Loose(q) /\ ClassOf(q) = ClassOf(p))
                        /\ ~Loose(p) => (Sense(q) = Sense(p) <=> q = p)
    <2>1. ASSUME NEW q \in placed
          PROVE  /\ Loose(p) => (Sense(q) = Sense(p) <=> Loose(q) /\ ClassOf(q) = ClassOf(p))
                 /\ ~Loose(p) => (Sense(q) = Sense(p) <=> q = p)
        <3>1. WellPlaced(q) /\ IsItem(q[2])
            BY <1>1
        <3>2. /\ Loose(q) /\ Loose(p) => (Sense(q) = Sense(p) <=> ClassOf(q) = ClassOf(p))
              /\ Sense(q) = Sense(p) => (Loose(q) <=> Loose(p))
              /\ Sense(q) = Sense(p) /\ ~Loose(q) => q = p
            BY <3>1, SenseTells
        <3>. QED  BY <3>2
    <2>. QED  BY <2>1
<1>. QED  BY <1>2 DEF OfSense, LooseOf

LEMMA LooseAreLoose ==
    ASSUME NEW placed, NEW c, NEW p \in LooseOf(placed, c)
    PROVE  p \in placed /\ Loose(p) /\ ClassOf(p) = c
BY DEF LooseOf

LEMMA CountIs ==
    ASSUME NEW placed, IsFiniteSet(placed), NEW part, part \subseteq placed
    PROVE  /\ IsFiniteSet(part) /\ Cardinality(part) \in Nat
           /\ Cardinality(part) = 0 <=> part = {}
BY FS_Subset, FS_CardinalityType, FS_EmptySet

\* The two sides mean the same exactly when they are alike.
LEMMA MeaningIs ==
    ASSUME NEW base, NEW head, NEW before, NEW after, before = Placed(base), after = Placed(head),
           Itemized(before), Itemized(after)
    PROVE  Meaning(base) = Meaning(head) <=> Alike(before, after)
<1>. DEFINE counts(placed) == [x \in {Sense(p) : p \in placed} |-> Cardinality(OfSense(placed, x))]
<1>1. PICK was, is : was = counts(before) /\ is = counts(after)
    OBVIOUS
<1>0. Meaning(base) = Meaning(head) <=>
          was = is /\ \A c : HookTag(before, c) <=> HookTag(after, c)
    <2>1. Meaning(base) = <<was, HookSecrets(base)>> /\ Meaning(head) = <<is, HookSecrets(head)>>
        BY <1>1 DEF Meaning, OfSense
    <2>2. HookSecrets(base) = HookSecrets(head) <=> \A c : HookTag(before, c) <=> HookTag(after, c)
        BY HookSecretsAre
    <2>. QED  BY <2>1, <2>2
<1>2. /\ IsFiniteSet(before) /\ IsFiniteSet(after)
      /\ \A p \in before \cup after : WellPlaced(p) /\ IsItem(p[2])
    BY DEF Itemized, Readable
<1>3. \A x : /\ OfSense(before, x) \subseteq before /\ OfSense(after, x) \subseteq after
             /\ OfSense(before, x) = {} <=> x \notin {Sense(p) : p \in before}
             /\ OfSense(after, x) = {} <=> x \notin {Sense(p) : p \in after}
    BY DEF OfSense
<1>4. \A x : /\ Cardinality(OfSense(before, x)) = 0 <=> x \notin {Sense(p) : p \in before}
             /\ Cardinality(OfSense(after, x)) = 0 <=> x \notin {Sense(p) : p \in after}
    BY <1>2, <1>3, CountIs
<1>5. ASSUME was = is, NEW x
      PROVE  Cardinality(OfSense(before, x)) = Cardinality(OfSense(after, x))
    <2>1. DOMAIN was = {Sense(p) : p \in before} /\ DOMAIN is = {Sense(p) : p \in after}
        BY <1>1
    <2>2. CASE x \in {Sense(p) : p \in before}
        <3>1. x \in {Sense(p) : p \in after}
            BY <1>5, <2>1, <2>2
        <3>2. was[x] = Cardinality(OfSense(before, x)) /\ is[x] = Cardinality(OfSense(after, x))
            BY <1>1, <2>2, <3>1
        <3>. QED  BY <1>5, <3>2
    <2>3. CASE x \notin {Sense(p) : p \in before}
        <3>1. x \notin {Sense(p) : p \in after}
            BY <1>5, <2>1, <2>3
        <3>. QED  BY <1>4, <2>3, <3>1
    <2>. QED  BY <2>2, <2>3
<1>6. ASSUME \A x : Cardinality(OfSense(before, x)) = Cardinality(OfSense(after, x))
      PROVE  was = is
    <2>1. {Sense(p) : p \in before} = {Sense(p) : p \in after}
        BY <1>4, <1>6
    <2>. QED  BY <1>1, <1>6, <2>1
<1>7. ASSUME was = is, \A c : HookTag(before, c) <=> HookTag(after, c)
      PROVE  Alike(before, after)
    <2>1. ASSUME NEW p, ~Loose(p)
          PROVE  p \in before <=> p \in after
        <3>1. CASE p \in before \cup after
            <4>1. OfSense(before, Sense(p)) = before \cap {p} /\ OfSense(after, Sense(p)) = after \cap {p}
                BY <1>2, <2>1, <3>1, SenseCounts
            <4>2. Cardinality(before \cap {p}) = Cardinality(after \cap {p})
                BY <1>5, <1>7, <4>1
            <4>3. /\ Cardinality(before \cap {p}) = 0 <=> before \cap {p} = {}
                  /\ Cardinality(after \cap {p}) = 0 <=> after \cap {p} = {}
                <5>1. before \cap {p} \subseteq before /\ after \cap {p} \subseteq after
                    OBVIOUS
                <5>. QED  BY <1>2, <5>1, CountIs
            <4>. QED  BY <4>2, <4>3
        <3>. QED  BY <3>1
    <2>2. ASSUME NEW c
          PROVE  Cardinality(LooseOf(before, c)) = Cardinality(LooseOf(after, c))
        <3>1. CASE \E p \in LooseOf(before, c) \cup LooseOf(after, c) : TRUE
            <4>1. PICK p \in LooseOf(before, c) \cup LooseOf(after, c) : TRUE
                BY <3>1
            <4>2. p \in before \cup after /\ Loose(p) /\ ClassOf(p) = c
                BY <4>1, LooseAreLoose
            <4>3. OfSense(before, Sense(p)) = LooseOf(before, c) /\ OfSense(after, Sense(p)) = LooseOf(after, c)
                BY <1>2, <4>2, SenseCounts
            <4>. QED  BY <1>5, <1>7, <4>3
        <3>2. CASE LooseOf(before, c) = {} /\ LooseOf(after, c) = {}
            BY <3>2
        <3>. QED  BY <3>1, <3>2
    <2>. QED  BY <1>7, <2>1, <2>2 DEF Alike
<1>8. ASSUME Alike(before, after)
      PROVE  was = is
    <2>1. ASSUME NEW x
          PROVE  Cardinality(OfSense(before, x)) = Cardinality(OfSense(after, x))
        <3>1. CASE \E p \in before \cup after : Sense(p) = x
            <4>1. PICK p \in before \cup after : Sense(p) = x
                BY <3>1
            <4>2. WellPlaced(p) /\ IsItem(p[2])
                BY <1>2
            <4>3. CASE Loose(p)
                <5>1. OfSense(before, x) = LooseOf(before, ClassOf(p)) /\ OfSense(after, x) = LooseOf(after, ClassOf(p))
                    BY <4>1, <4>2, <4>3, SenseCounts
                <5>. QED  BY <1>8, <5>1 DEF Alike
            <4>4. CASE ~Loose(p)
                <5>1. OfSense(before, x) = before \cap {p} /\ OfSense(after, x) = after \cap {p}
                    BY <4>1, <4>2, <4>4, SenseCounts
                <5>2. p \in before <=> p \in after
                    BY <1>8, <4>4 DEF Alike
                <5>3. before \cap {p} = after \cap {p}
                    BY <5>2
                <5>. QED  BY <5>1, <5>3
            <4>. QED  BY <4>3, <4>4
        <3>2. CASE ~\E p \in before \cup after : Sense(p) = x
            <4>1. OfSense(before, x) = {} /\ OfSense(after, x) = {}
                BY <3>2 DEF OfSense
            <4>. QED  BY <4>1
        <3>. QED  BY <3>1, <3>2
    <2>. QED  BY <1>6, <2>1
<1>. QED  BY <1>0, <1>7, <1>8 DEF Alike

-----------------------------------------------------------------------------
(* The entries of two sides, counted by what they are compared by.         *)

Named(e) == <<e.file, e.key, e.value>>
NamedIn(entries, c) == {e \in entries : Named(e) = c}
SameNames(base, head) ==
    \A c : Cardinality(NamedIn(base, c)) = Cardinality(NamedIn(head, c))

LEMMA KeysAre ==
    ASSUME NEW i, i.at \in Sections
    PROVE  KeyOf(i)[1] # "credential"
<1>1. CASE i.at \in PermissionLists
    BY <1>1 DEF KeyOf, PermissionLists
<1>2. CASE i.at = "dir"
    BY <1>2 DEF KeyOf, PermissionLists
<1>3. CASE i.at = "hook"
    BY <1>3 DEF KeyOf, PermissionLists
<1>4. CASE i.at \in Sections \ (PermissionLists \cup {"dir", "hook"})
    <2>1. KeyOf(i) = <<KindOf(i), i.slot>>
        BY <1>4 DEF KeyOf, PermissionLists, Sections
    <2>2. KindOf(i) # "credential"
        BY <1>4 DEF KindOf, PermissionLists, Sections
    <2>. QED  BY <2>1, <2>2
<1>. QED  BY <1>1, <1>2, <1>3, <1>4

LEMMA ToldAre ==
    ASSUME NEW placed, NEW e
    PROVE  e \in Told(placed) <=>
              \/ \E p \in placed : e = EntryOf(p[1], p[2])
              \/ \E p \in placed : \E l \in Literals(p[2]) : l[2] \in Secret /\ e = CredentialOn(p, l)
<1>1. \A p : e \in CredentialsOf(p[1], p[2]) <=>
                \E l \in Literals(p[2]) : l[2] \in Secret /\ e = CredentialOn(p, l)
    BY DEF CredentialsOf, CredentialOn
<1>. QED  BY <1>1 DEF Told

LEMMA NamesAre ==
    ASSUME NEW p
    PROVE  /\ Named(EntryOf(p[1], p[2])) = ClassOf(p)
           /\ \A l : Named(CredentialOn(p, l)) =
                        <<p[1], <<"credential", p[2].at, p[2].slot, l[1]>>, <<WrittenAround(p[2], l)>>>>
BY DEF Named, EntryOf, ClassOf, CredentialOn

\* A side lists an item once.
LEMMA EntryOnce ==
    ASSUME NEW placed, Itemized(placed), NEW p \in placed, NEW q \in placed,
           EntryOf(p[1], p[2]) = EntryOf(q[1], q[2])
    PROVE  p = q
<1>1. PICK i, j : i = p[2] /\ j = q[2]
    OBVIOUS
<1>2. /\ WellPlaced(p) /\ WellPlaced(q) /\ IsItem(i) /\ IsItem(j) /\ ~Unusable(i) /\ ~Unusable(j)
      /\ i.at \in Sections /\ j.at \in Sections
    BY <1>1 DEF Itemized, Readable, WellPlaced
<1>3. PICK a, b : a = EntryOf(p[1], i) /\ b = EntryOf(q[1], j)
    OBVIOUS
<1>4. /\ a.file = p[1] /\ a.key = KeyOf(i) /\ a.value = ValueOf(i) /\ a.slot = i.slot
      /\ b.file = q[1] /\ b.key = KeyOf(j) /\ b.value = ValueOf(j) /\ b.slot = j.slot
    BY <1>3 DEF EntryOf
<1>5. p[1] = q[1] /\ KeyOf(i) = KeyOf(j) /\ ValueOf(i) = ValueOf(j) /\ i.slot = j.slot
    BY <1>1, <1>3, <1>4
<1>6. i.at = j.at
    BY <1>2, <1>5, SectionOfKey
<1>. QED  BY <1>1, <1>5, <1>6 DEF Itemized, Readable, WellFormed

\* As many entries of a class as items of it.
LEMMA ItemCounts ==
    ASSUME NEW placed, Itemized(placed), NEW c, c[2][1] # "credential"
    PROVE  /\ IsFiniteSet(OfClass(placed, c)) /\ IsFiniteSet(NamedIn(Told(placed), c))
           /\ Cardinality(NamedIn(Told(placed), c)) = Cardinality(OfClass(placed, c))
<1>. DEFINE f == [p \in OfClass(placed, c) |-> EntryOf(p[1], p[2])]
            S == OfClass(placed, c)
            T == NamedIn(Told(placed), c)
<1>1. IsFiniteSet(S)
    <2>1. S \subseteq placed /\ IsFiniteSet(placed)
        BY DEF OfClass, Itemized
    <2>. QED  BY <2>1, CountIs
<1>2. \A p \in S : f[p] \in T
    <2>1. ASSUME NEW p \in S
          PROVE  f[p] \in T
        <3>1. PICK e : e = EntryOf(p[1], p[2])
            OBVIOUS
        <3>2. p \in placed /\ ClassOf(p) = c
            BY DEF OfClass
        <3>3. e \in Told(placed) /\ Named(e) = c
            BY <3>1, <3>2, ToldAre, NamesAre
        <3>4. f[p] = e
            BY <3>1
        <3>. QED  BY <3>3, <3>4 DEF NamedIn
    <2>. QED  BY <2>1
<1>3. \A p, q \in S : f[p] = f[q] => p = q
    <2>1. ASSUME NEW p \in S, NEW q \in S, f[p] = f[q]
          PROVE  p = q
        <3>1. p \in placed /\ q \in placed
            BY DEF OfClass
        <3>2. EntryOf(p[1], p[2]) = EntryOf(q[1], q[2])
            BY <2>1
        <3>. QED  BY <3>1, <3>2, EntryOnce
    <2>. QED  BY <2>1
<1>4. \A e \in T : \E p \in S : f[p] = e
    <2>1. ASSUME NEW e \in T
          PROVE  \E p \in S : f[p] = e
        <3>1. e \in Told(placed) /\ Named(e) = c
            BY DEF NamedIn
        <3>2. CASE \E p \in placed : e = EntryOf(p[1], p[2])
            <4>1. PICK p \in placed : e = EntryOf(p[1], p[2])
                BY <3>2
            <4>2. p \in S
                BY <3>1, <4>1, NamesAre DEF OfClass
            <4>. QED  BY <4>1, <4>2
        <3>3. CASE \E p \in placed : \E l \in Literals(p[2]) : e = CredentialOn(p, l)
            <4>1. PICK p \in placed : \E l \in Literals(p[2]) : e = CredentialOn(p, l)
                BY <3>3
            <4>4. PICK l : e = CredentialOn(p, l)
                BY <4>1
            <4>2. Named(e) = <<p[1], <<"credential", p[2].at, p[2].slot, l[1]>>, <<WrittenAround(p[2], l)>>>>
                BY <4>4, NamesAre
            <4>3. c[2][1] = "credential"
                BY <3>1, <4>2
            <4>. QED  BY <4>3
        <3>. QED  BY <3>1, <3>2, <3>3, ToldAre
    <2>. QED  BY <2>1
<1>5. f \in Bijection(S, T)
    <2>1. f \in [S -> T]
        BY <1>2
    <2>. HIDE DEF f, S, T
    <2>. QED  BY <1>3, <1>4, <2>1, Fun_IsBij
<1>6. ExistsBijection(S, T)
    BY <1>5 DEF ExistsBijection
<1>. HIDE DEF f
<1>. QED  BY <1>1, <1>6, FS_Bijection

\* Whether a side has a credential entry that says this.
HasTag(placed, c) ==
    \E p \in placed : \E l \in Literals(p[2]) : l[2] \in Secret /\ c = Tag(p, l)
SameTags(before, after) == \A c : HasTag(before, c) <=> HasTag(after, c)
SameClasses(before, after) ==
    \A c : (\E p \in before : ClassOf(p) = c) <=> (\E p \in after : ClassOf(p) = c)

\* A credential entry is there once, however often the literal is.
LEMMA TagCounts ==
    ASSUME NEW placed, Itemized(placed), NEW c, c[2][1] = "credential"
    PROVE  /\ IsFiniteSet(NamedIn(Told(placed), c))
           /\ Cardinality(NamedIn(Told(placed), c)) = IF HasTag(placed, c) THEN 1 ELSE 0
<1>1. \A p \in placed : \A e : e = EntryOf(p[1], p[2]) => Named(e) # c
    <2>1. ASSUME NEW p \in placed, NEW e, e = EntryOf(p[1], p[2]), Named(e) = c
          PROVE  FALSE
        <3>1. p[2].at \in Sections
            BY DEF Itemized, Readable, WellPlaced
        <3>2. Named(e) = ClassOf(p)
            BY <2>1, NamesAre
        <3>3. c[2] = KeyOf(p[2])
            BY <2>1, <3>2 DEF ClassOf
        <3>. QED  BY <3>1, <3>3, KeysAre
    <2>. QED  BY <2>1
<1>2. \A p, l : Named(CredentialOn(p, l)) = Tag(p, l)
    BY NamesAre DEF Tag
<1>3. ASSUME HasTag(placed, c)
      PROVE  IsFiniteSet(NamedIn(Told(placed), c)) /\ Cardinality(NamedIn(Told(placed), c)) = 1
    <2>1. PICK p \in placed : \E l \in Literals(p[2]) : l[2] \in Secret /\ c = Tag(p, l)
        BY <1>3 DEF HasTag
    <2>2. PICK l \in Literals(p[2]) : l[2] \in Secret /\ c = Tag(p, l)
        BY <2>1
    <2>3. PICK e : e = CredentialOn(p, l)
        OBVIOUS
    <2>4. e \in NamedIn(Told(placed), c)
        <3>1. e \in Told(placed)
            BY <2>2, <2>3, ToldAre
        <3>. QED  BY <1>2, <2>2, <2>3, <3>1 DEF NamedIn
    <2>5. ASSUME NEW o \in NamedIn(Told(placed), c)
          PROVE  o = e
        <3>1. o \in Told(placed) /\ Named(o) = c
            BY DEF NamedIn
        <3>2. PICK q \in placed : \E m \in Literals(q[2]) : m[2] \in Secret /\ o = CredentialOn(q, m)
            BY <1>1, <3>1, ToldAre
        <3>3. PICK m : o = CredentialOn(q, m)
            BY <3>2
        <3>4. Tag(q, m) = Tag(p, l)
            BY <1>2, <2>2, <3>1, <3>3
        <3>. QED  BY <2>3, <3>3, <3>4, TagTells
    <2>6. NamedIn(Told(placed), c) = {e}
        BY <2>4, <2>5
    <2>. QED  BY <2>6, FS_Singleton
<1>4. ASSUME ~HasTag(placed, c)
      PROVE  IsFiniteSet(NamedIn(Told(placed), c)) /\ Cardinality(NamedIn(Told(placed), c)) = 0
    <2>1. ASSUME NEW o \in NamedIn(Told(placed), c)
          PROVE  FALSE
        <3>1. o \in Told(placed) /\ Named(o) = c
            BY DEF NamedIn
        <3>2. PICK q \in placed : \E m \in Literals(q[2]) : m[2] \in Secret /\ o = CredentialOn(q, m)
            BY <1>1, <3>1, ToldAre
        <3>. QED  BY <1>2, <1>4, <3>1, <3>2 DEF HasTag
    <2>. QED  BY <2>1, FS_EmptySet
<1>. QED  BY <1>3, <1>4

\* The text of a value that an entry shows without a digest of its own.
Undigested == {"mcp", "defaultMode", "flag", "sandbox", "unknown"}
LabelOf(i) == IF i.at = "mcp" THEN "extra" ELSE "text"
BareText(i) == IF i.at = "mcp" THEN i.more.extra ELSE i.text

LEMMA BareLiteral ==
    ASSUME NEW i, i.at \in Undigested, IsItem(i)
    PROVE  /\ <<LabelOf(i), BareText(i)>> \in Literals(i)
           /\ \A l \in Literals(i) : l[1] = LabelOf(i) => l[2] = BareText(i)
           /\ \A l : WrittenAround(i, l) = l[2]
<1>1. CASE i.at = "mcp"
    <2>1. Literals(i) = {<<"target", i.text.target>>, <<"args", i.more.args>>,
                         <<"extra", i.more.extra>>} \cup i.more.env \cup i.more.headers
        BY <1>1 DEF Literals, PermissionLists
    <2>2. LabelOf(i) = "extra" /\ BareText(i) = i.more.extra
        BY <1>1 DEF LabelOf, BareText
    <2>3. \A l \in i.more.env \cup i.more.headers : l[1] # "extra"
        BY <1>1 DEF IsItem
    <2>4. \A l \in Literals(i) : l[1] = "extra" => l[2] = i.more.extra
        <3>1. ASSUME NEW l \in Literals(i), l[1] = "extra"
              PROVE  l[2] = i.more.extra
            <4>1. l = <<"target", i.text.target>> \/ l = <<"args", i.more.args>> \/ l = <<"extra", i.more.extra>>
                BY <2>1, <2>3, <3>1
            <4>2. <<"target", i.text.target>>[1] = "target" /\ <<"args", i.more.args>>[1] = "args"
                OBVIOUS
            <4>3. l = <<"extra", i.more.extra>>
                BY <3>1, <4>1, <4>2
            <4>. QED  BY <4>3
        <3>. QED  BY <3>1
    <2>. QED  BY <1>1, <2>1, <2>2, <2>4 DEF WrittenAround, PermissionLists
<1>2. CASE i.at # "mcp"
    <2>1. i.at \notin PermissionLists /\ i.at # "hook"
        BY DEF Undigested, PermissionLists
    <2>2. Literals(i) = {<<"text", i.text>>} /\ LabelOf(i) = "text" /\ BareText(i) = i.text
        BY <1>2, <2>1 DEF Literals, LabelOf, BareText
    <2>3. <<"text", i.text>>[2] = i.text
        OBVIOUS
    <2>. QED  BY <2>1, <2>2, <2>3 DEF WrittenAround
<1>. QED  BY <1>1, <1>2

\* What is not loose is on the other side too.
LEMMA FixedStay ==
    ASSUME NEW before, NEW after, Itemized(before), Itemized(after),
           SameTags(before, after), SameClasses(before, after),
           NEW p \in before, ~Loose(p)
    PROVE  p \in after
<1>1. PICK i : i = p[2]
    OBVIOUS
<1>2. /\ \A q \in before \cup after : WellPlaced(q) /\ IsItem(q[2]) /\ ~Unusable(q[2])
      /\ WellFormed(before) /\ WellFormed(after)
    BY DEF Itemized, Readable
<1>3. p = <<p[1], i>> /\ i.at \in Sections
    BY <1>1, <1>2 DEF WellPlaced
<1>4. CASE i.at \in PermissionLists \cup {"dir"}
    <2>1. PICK l \in Literals(i) : l[2] \in Secret
        BY <1>1, <1>4, MarkedIs DEF Loose
    <2>2. HasTag(after, Tag(p, l))
        BY <1>1, <2>1 DEF SameTags, HasTag
    <2>3. PICK q \in after : \E m \in Literals(q[2]) : m[2] \in Secret /\ Tag(p, l) = Tag(q, m)
        BY <2>2 DEF HasTag
    <2>4. PICK m \in Literals(q[2]) : Tag(p, l) = Tag(q, m)
        BY <2>3
    <2>5. PICK j : j = q[2]
        OBVIOUS
    <2>6. p[1] = q[1] /\ i.at = j.at /\ i.slot = j.slot /\ WrittenAround(i, l) = WrittenAround(j, m)
        BY <1>1, <2>4, <2>5, TagTells
    <2>7. i.text = j.text
        <3>1. CASE i.at \in PermissionLists
            BY <2>6, <3>1 DEF WrittenAround
        <3>2. CASE i.at = "dir"
            <4>1. Literals(i) = {<<"text", i.text>>} /\ Literals(j) = {<<"text", j.text>>}
                BY <2>6, <3>2 DEF Literals, PermissionLists
            <4>2. l = <<"text", i.text>> /\ m = <<"text", j.text>>
                BY <2>1, <2>4, <2>5, <4>1
            <4>3. l[2] = i.text /\ m[2] = j.text
                BY <4>2
            <4>. QED  BY <2>6, <3>2, <4>3 DEF WrittenAround, PermissionLists
        <3>. QED  BY <1>4, <3>1, <3>2
    <2>8. /\ i = [at |-> i.at, slot |-> i.slot, text |-> i.text, more |-> i.more]
          /\ j = [at |-> j.at, slot |-> j.slot, text |-> j.text, more |-> j.more]
          /\ i.more = None /\ j.more = None
        BY <1>1, <1>2, <1>4, <2>5, <2>6 DEF IsItem, PermissionLists
    <2>9. q = <<q[1], j>>
        BY <1>2, <2>5 DEF WellPlaced
    <2>10. p = q
        BY <1>3, <2>6, <2>7, <2>8, <2>9
    <2>. QED  BY <2>10
<1>5. CASE i.at \notin PermissionLists \cup {"dir"}
    <2>1. PICK q \in after : ClassOf(p) = ClassOf(q)
        BY DEF SameClasses
    <2>2. PICK j : j = q[2]
        OBVIOUS
    <2>0. i.at # "hook"
        BY <1>1 DEF Loose
    <2>3. /\ p[1] = q[1] /\ i.at = j.at
          /\ i.at \in {"env", "helper"} => p = q
          /\ i.at \in Undigested => i.slot = j.slot /\ (i.at # "mcp" => Shown(i.text) = Shown(j.text))
          /\ i.at = "mcp" =>
                /\ i.text = j.text /\ i.more.args = j.more.args /\ i.more.env = j.more.env
                /\ i.more.headers = j.more.headers /\ Shown(i.more.extra) = Shown(j.more.extra)
        BY <1>1, <1>2, <2>1, <2>2, ClassTells DEF Undigested
    <2>4. CASE i.at \in {"env", "helper"}
        BY <2>3, <2>4
    <2>5. CASE i.at \in Undigested
        <3>1. Shown(BareText(i)) = Shown(BareText(j)) /\ LabelOf(i) = LabelOf(j)
            BY <2>3, <2>5 DEF BareText, LabelOf
        <3>2. /\ <<LabelOf(i), BareText(i)>> \in Literals(i) /\ <<LabelOf(j), BareText(j)>> \in Literals(j)
              /\ \A l \in Literals(i) : l[1] = LabelOf(i) => l[2] = BareText(i)
              /\ \A l \in Literals(j) : l[1] = LabelOf(j) => l[2] = BareText(j)
              /\ \A l : WrittenAround(i, l) = l[2] /\ WrittenAround(j, l) = l[2]
            BY <1>1, <1>2, <2>2, <2>3, <2>5, BareLiteral
        <3>3. ASSUME BareText(i) \in Secret
              PROVE  BareText(i) = BareText(j)
            <4>1. PICK l : l = <<LabelOf(i), BareText(i)>>
                OBVIOUS
            <4>2. l[1] = LabelOf(i) /\ l[2] = BareText(i)
                BY <4>1
            <4>3. HasTag(after, Tag(p, l))
                BY <1>1, <3>2, <3>3, <4>1, <4>2 DEF SameTags, HasTag
            <4>4. PICK r \in after : \E m \in Literals(r[2]) : m[2] \in Secret /\ Tag(p, l) = Tag(r, m)
                BY <4>3 DEF HasTag
            <4>5. PICK m \in Literals(r[2]) : Tag(p, l) = Tag(r, m)
                BY <4>4
            <4>6. p[1] = r[1] /\ i.at = r[2].at /\ i.slot = r[2].slot /\ l[1] = m[1]
                  /\ WrittenAround(i, l) = WrittenAround(r[2], m)
                BY <1>1, <4>5, TagTells
            <4>8. r = q
                BY <1>2, <2>2, <2>3, <2>5, <4>6 DEF WellFormed
            <4>9. m[1] = LabelOf(j) /\ m \in Literals(j) /\ m[2] = BareText(i)
                BY <2>2, <3>1, <3>2, <4>2, <4>5, <4>6, <4>8
            <4>. QED  BY <3>2, <4>9
        <3>4. ASSUME BareText(j) \in Secret
              PROVE  BareText(i) \in Secret
            <4>1. PICK l : l = <<LabelOf(j), BareText(j)>>
                OBVIOUS
            <4>2. l[1] = LabelOf(j) /\ l[2] = BareText(j)
                BY <4>1
            <4>3. HasTag(before, Tag(q, l))
                BY <2>2, <3>2, <3>4, <4>1, <4>2 DEF SameTags, HasTag
            <4>4. PICK r \in before : \E m \in Literals(r[2]) : m[2] \in Secret /\ Tag(q, l) = Tag(r, m)
                BY <4>3 DEF HasTag
            <4>5. PICK m \in Literals(r[2]) : m[2] \in Secret /\ Tag(q, l) = Tag(r, m)
                BY <4>4
            <4>6. q[1] = r[1] /\ j.at = r[2].at /\ j.slot = r[2].slot /\ l[1] = m[1]
                BY <2>2, <4>5, TagTells
            <4>8. r = p
                BY <1>1, <1>2, <2>3, <2>5, <4>6 DEF WellFormed
            <4>9. m[1] = LabelOf(i) /\ m \in Literals(i)
                BY <1>1, <3>1, <4>2, <4>5, <4>6, <4>8
            <4>. QED  BY <3>2, <4>5, <4>9
        <3>5. BareText(i) = BareText(j)
            <4>1. CASE BareText(i) \in Secret
                BY <3>3, <4>1
            <4>2. CASE BareText(i) \notin Secret
                BY <3>1, <3>4, <4>2 DEF Shown
            <4>. QED  BY <4>1, <4>2
        <3>6. /\ i = [at |-> i.at, slot |-> i.slot, text |-> i.text, more |-> i.more]
              /\ j = [at |-> j.at, slot |-> j.slot, text |-> j.text, more |-> j.more]
              /\ i.at # "mcp" => i.more = None /\ j.more = None
              /\ i.at = "mcp" =>
                    /\ i.more = [args |-> i.more.args, env |-> i.more.env,
                                 headers |-> i.more.headers, extra |-> i.more.extra]
                    /\ j.more = [args |-> j.more.args, env |-> j.more.env,
                                 headers |-> j.more.headers, extra |-> j.more.extra]
            <4>1. IsItem(i) /\ IsItem(j) /\ i.at = j.at
                BY <1>1, <1>2, <2>2, <2>3
            <4>. QED  BY <2>0, <4>1 DEF IsItem
        <3>7. i.text = j.text /\ i.more = j.more
            BY <2>3, <2>5, <3>5, <3>6 DEF BareText
        <3>8. q = <<q[1], j>>
            BY <1>2, <2>2 DEF WellPlaced
        <3>9. p = q
            BY <1>3, <2>3, <2>5, <3>6, <3>7, <3>8
        <3>. QED  BY <3>9
    <2>. QED  BY <1>3, <1>5, <2>0, <2>4, <2>5 DEF Sections, Undigested
<1>. QED  BY <1>4, <1>5

\* The items of a class: the loose ones and the others.
LEMMA ClassSplits ==
    ASSUME NEW placed, IsFiniteSet(placed), NEW c, NEW fixed,
           fixed = {p \in placed : ~Loose(p) /\ ClassOf(p) = c}
    PROVE  /\ Cardinality(OfClass(placed, c)) = Cardinality(LooseOf(placed, c)) + Cardinality(fixed)
           /\ Cardinality(LooseOf(placed, c)) \in Nat /\ Cardinality(fixed) \in Nat
<1>1. PICK loose : loose = LooseOf(placed, c)
    OBVIOUS
<1>2. loose \subseteq placed /\ fixed \subseteq placed
    BY <1>1 DEF LooseOf
<1>3. /\ IsFiniteSet(loose) /\ Cardinality(loose) \in Nat
      /\ IsFiniteSet(fixed) /\ Cardinality(fixed) \in Nat
    BY <1>2, CountIs
<1>4. OfClass(placed, c) = loose \cup fixed /\ loose \cap fixed = {}
    BY <1>1 DEF OfClass, LooseOf
<1>5. Cardinality(loose \cup fixed) = Cardinality(loose) + Cardinality(fixed) - Cardinality({})
    BY <1>3, <1>4, FS_Union
<1>6. Cardinality({}) = 0
    BY FS_EmptySet
<1>. QED  BY <1>1, <1>3, <1>4, <1>5, <1>6

\* Entries say equally often what they are compared by exactly when the items
\* are alike.
LEMMA NamesMean ==
    ASSUME NEW before, NEW after, Itemized(before), Itemized(after)
    PROVE  SameNames(Told(before), Told(after)) <=> Alike(before, after)
<1>1. IsFiniteSet(before) /\ IsFiniteSet(after)
    BY DEF Itemized
<1>. DEFINE fixed(placed, c) == {p \in placed : ~Loose(p) /\ ClassOf(p) = c}
<1>2. \A c : c[2][1] # "credential" =>
          /\ Cardinality(NamedIn(Told(before), c)) = Cardinality(OfClass(before, c))
          /\ Cardinality(NamedIn(Told(after), c)) = Cardinality(OfClass(after, c))
    BY ItemCounts
<1>3. \A c : c[2][1] = "credential" =>
          /\ Cardinality(NamedIn(Told(before), c)) = IF HasTag(before, c) THEN 1 ELSE 0
          /\ Cardinality(NamedIn(Told(after), c)) = IF HasTag(after, c) THEN 1 ELSE 0
    BY TagCounts
<1>4. \A c : /\ Cardinality(OfClass(before, c)) = Cardinality(LooseOf(before, c)) + Cardinality(fixed(before, c))
             /\ Cardinality(OfClass(after, c)) = Cardinality(LooseOf(after, c)) + Cardinality(fixed(after, c))
             /\ Cardinality(LooseOf(before, c)) \in Nat /\ Cardinality(fixed(before, c)) \in Nat
             /\ Cardinality(LooseOf(after, c)) \in Nat /\ Cardinality(fixed(after, c)) \in Nat
    <2>1. ASSUME NEW c
          PROVE  /\ Cardinality(OfClass(before, c)) = Cardinality(LooseOf(before, c)) + Cardinality(fixed(before, c))
                 /\ Cardinality(OfClass(after, c)) = Cardinality(LooseOf(after, c)) + Cardinality(fixed(after, c))
                 /\ Cardinality(LooseOf(before, c)) \in Nat /\ Cardinality(fixed(before, c)) \in Nat
                 /\ Cardinality(LooseOf(after, c)) \in Nat /\ Cardinality(fixed(after, c)) \in Nat
        <3>1. PICK a, b : a = fixed(before, c) /\ b = fixed(after, c)
            OBVIOUS
        <3>2. /\ Cardinality(OfClass(before, c)) = Cardinality(LooseOf(before, c)) + Cardinality(a)
              /\ Cardinality(LooseOf(before, c)) \in Nat /\ Cardinality(a) \in Nat
            BY <1>1, <3>1, ClassSplits
        <3>3. /\ Cardinality(OfClass(after, c)) = Cardinality(LooseOf(after, c)) + Cardinality(b)
              /\ Cardinality(LooseOf(after, c)) \in Nat /\ Cardinality(b) \in Nat
            BY <1>1, <3>1, ClassSplits
        <3>. HIDE DEF fixed
        <3>. QED  BY <3>1, <3>2, <3>3
    <2>. HIDE DEF fixed
    <2>. QED  BY <2>1
<1>5. ASSUME \A p : ~Loose(p) => (p \in before <=> p \in after), NEW c
      PROVE  fixed(before, c) = fixed(after, c)
    BY <1>5
<1>6. \A p \in before \cup after : ClassOf(p)[2][1] # "credential"
    <2>1. ASSUME NEW p \in before \cup after
          PROVE  ClassOf(p)[2][1] # "credential"
        <3>1. p[2].at \in Sections
            BY DEF Itemized, Readable, WellPlaced
        <3>2. ClassOf(p)[2] = KeyOf(p[2])
            BY DEF ClassOf
        <3>. QED  BY <3>1, <3>2, KeysAre
    <2>. QED  BY <2>1
<1>7. ASSUME SameNames(Told(before), Told(after))
      PROVE  Alike(before, after)
    <2>1. SameTags(before, after)
        <3>1. ASSUME NEW c, c[2][1] = "credential"
              PROVE  HasTag(before, c) <=> HasTag(after, c)
            <4>1. (IF HasTag(before, c) THEN 1 ELSE 0) = IF HasTag(after, c) THEN 1 ELSE 0
                BY <1>3, <1>7, <3>1 DEF SameNames
            <4>. QED  BY <4>1
        <3>2. \A p, l : Tag(p, l)[2][1] = "credential"
            BY DEF Tag
        <3>3. ASSUME NEW c, c[2][1] # "credential"
              PROVE  ~HasTag(before, c) /\ ~HasTag(after, c)
            BY <3>2, <3>3 DEF HasTag
        <3>. QED  BY <3>1, <3>3 DEF SameTags
    <2>2. \A c : c[2][1] # "credential" => Cardinality(OfClass(before, c)) = Cardinality(OfClass(after, c))
        BY <1>2, <1>7 DEF SameNames
    <2>3. SameClasses(before, after)
        <3>1. ASSUME NEW c, c[2][1] # "credential"
              PROVE  (\E p \in before : ClassOf(p) = c) <=> (\E p \in after : ClassOf(p) = c)
            <4>1. /\ OfClass(before, c) # {} <=> \E p \in before : ClassOf(p) = c
                  /\ OfClass(after, c) # {} <=> \E p \in after : ClassOf(p) = c
                BY DEF OfClass
            <4>2. OfClass(before, c) \subseteq before /\ OfClass(after, c) \subseteq after
                BY DEF OfClass
            <4>3. /\ Cardinality(OfClass(before, c)) = 0 <=> OfClass(before, c) = {}
                  /\ Cardinality(OfClass(after, c)) = 0 <=> OfClass(after, c) = {}
                BY <1>1, <4>2, CountIs
            <4>. QED  BY <2>2, <3>1, <4>1, <4>3
        <3>2. ASSUME NEW c, c[2][1] = "credential"
              PROVE  (\E p \in before : ClassOf(p) = c) <=> (\E p \in after : ClassOf(p) = c)
            BY <1>6, <3>2
        <3>. QED  BY <3>1, <3>2 DEF SameClasses
    <2>4. SameTags(after, before) /\ SameClasses(after, before)
        BY <2>1, <2>3 DEF SameTags, SameClasses
    <2>5. \A p : ~Loose(p) => (p \in before <=> p \in after)
        BY <2>1, <2>3, <2>4, FixedStay
    <2>6. ASSUME NEW c
          PROVE  Cardinality(LooseOf(before, c)) = Cardinality(LooseOf(after, c))
        <3>1. CASE c[2][1] # "credential"
            <4>1. Cardinality(OfClass(before, c)) = Cardinality(OfClass(after, c))
                BY <2>2, <3>1
            <4>2. Cardinality(fixed(before, c)) = Cardinality(fixed(after, c))
                BY <1>5, <2>5
            <4>. HIDE DEF fixed
            <4>. QED  BY <1>4, <4>1, <4>2
        <3>2. CASE c[2][1] = "credential"
            <4>1. LooseOf(before, c) = {} /\ LooseOf(after, c) = {}
                BY <1>6, <3>2 DEF LooseOf
            <4>. QED  BY <4>1
        <3>. QED  BY <3>1, <3>2
    <2>7. ASSUME NEW one, NEW other, SameTags(one, other), NEW c, HookTag(one, c)
          PROVE  HookTag(other, c)
        <3>1. PICK p \in one : p[2].at = "hook" /\ \E l \in Literals(p[2]) : l[2] \in Secret /\ c = Tag(p, l)
            BY <2>7 DEF HookTag
        <3>2. PICK l \in Literals(p[2]) : l[2] \in Secret /\ c = Tag(p, l)
            BY <3>1
        <3>3. HasTag(other, c)
            BY <2>7, <3>2 DEF SameTags, HasTag
        <3>4. PICK q \in other : \E m \in Literals(q[2]) : m[2] \in Secret /\ c = Tag(q, m)
            BY <3>3 DEF HasTag
        <3>5. PICK m \in Literals(q[2]) : m[2] \in Secret /\ c = Tag(q, m)
            BY <3>4
        <3>6. q[2].at = "hook"
            <4>1. Tag(p, l) = Tag(q, m)
                BY <3>2, <3>5
            <4>2. p[2].at = q[2].at
                BY <4>1, TagTells
            <4>. QED  BY <3>1, <4>2
        <3>. QED  BY <3>5, <3>6 DEF HookTag
    <2>8. \A c : HookTag(before, c) <=> HookTag(after, c)
        BY <2>1, <2>4, <2>7
    <2>. QED  BY <2>5, <2>6, <2>8 DEF Alike
<1>8. ASSUME Alike(before, after)
      PROVE  SameNames(Told(before), Told(after))
    <2>1. \A p : ~Loose(p) => (p \in before <=> p \in after)
        BY <1>8 DEF Alike
    <2>2. ASSUME NEW c, c[2][1] # "credential"
          PROVE  Cardinality(NamedIn(Told(before), c)) = Cardinality(NamedIn(Told(after), c))
        <3>1. Cardinality(fixed(before, c)) = Cardinality(fixed(after, c))
            BY <1>5, <2>1
        <3>2. Cardinality(LooseOf(before, c)) = Cardinality(LooseOf(after, c))
            BY <1>8 DEF Alike
        <3>. HIDE DEF fixed
        <3>. QED  BY <1>2, <1>4, <2>2, <3>1, <3>2
    <2>3. ASSUME NEW c, c[2][1] = "credential"
          PROVE  Cardinality(NamedIn(Told(before), c)) = Cardinality(NamedIn(Told(after), c))
        <3>1. \A p : \A l \in Literals(p[2]) : l[2] \in Secret => p[2].at = "hook" \/ ~Loose(p)
            BY MarkedIs DEF Loose
        <3>2. HookTag(before, c) <=> HookTag(after, c)
            BY <1>8 DEF Alike
        <3>3. \A placed : HasTag(placed, c) <=>
                  \/ HookTag(placed, c)
                  \/ \E p \in placed : ~Loose(p) /\ \E l \in Literals(p[2]) : l[2] \in Secret /\ c = Tag(p, l)
            BY <3>1 DEF HasTag, HookTag
        <3>4. HasTag(before, c) <=> HasTag(after, c)
            BY <2>1, <3>2, <3>3
        <3>. QED  BY <1>3, <2>3, <3>4
    <2>. QED  BY <2>2, <2>3 DEF SameNames
<1>. QED  BY <1>7, <1>8

\* A group's signatures agree when it says each thing equally often.
LEMMA SignatureIs ==
    ASSUME NEW base, NEW head, NEW k,
           \A c : IsFiniteSet(NamedIn(base, c)) /\ IsFiniteSet(NamedIn(head, c))
    PROVE  Signature(Group(base, k)) = Signature(Group(head, k)) <=>
              \A f, v : Cardinality(NamedIn(base, <<f, k, v>>)) = Cardinality(NamedIn(head, <<f, k, v>>))
<1>. DEFINE spots(entries) == {<<e.file, e.value>> : e \in Group(entries, k)}
            saying(entries, x) == {e \in Group(entries, k) : <<e.file, e.value>> = x}
<1>1. \A entries : Signature(Group(entries, k)) =
                      [x \in spots(entries) |-> Cardinality(saying(entries, x))]
    BY DEF Signature
<1>2. \A entries, f, v : saying(entries, <<f, v>>) = NamedIn(entries, <<f, k, v>>)
    <2>1. ASSUME NEW entries, NEW f, NEW v, NEW e
          PROVE  e \in saying(entries, <<f, v>>) <=> e \in NamedIn(entries, <<f, k, v>>)
        <3>1. e \in saying(entries, <<f, v>>) <=> e \in entries /\ e.key = k /\ e.file = f /\ e.value = v
            BY DEF Group
        <3>2. e \in NamedIn(entries, <<f, k, v>>) <=> e \in entries /\ e.key = k /\ e.file = f /\ e.value = v
            BY DEF NamedIn, Named
        <3>. QED  BY <3>1, <3>2
    <2>. HIDE DEF saying
    <2>. QED  BY <2>1
<1>3. \A entries, f, v : saying(entries, <<f, v>>) # {} <=> <<f, v>> \in spots(entries)
    OBVIOUS
<1>4. \A entries : \A x \in spots(entries) : \E f, v : x = <<f, v>>
    OBVIOUS
<1>5. /\ \A c : Cardinality(NamedIn(base, c)) = 0 <=> NamedIn(base, c) = {}
      /\ \A c : Cardinality(NamedIn(head, c)) = 0 <=> NamedIn(head, c) = {}
    BY FS_EmptySet
<1>. HIDE DEF spots, saying
<1>6. ASSUME Signature(Group(base, k)) = Signature(Group(head, k)), NEW f, NEW v
      PROVE  Cardinality(NamedIn(base, <<f, k, v>>)) = Cardinality(NamedIn(head, <<f, k, v>>))
    <2>1. PICK x : x = <<f, v>>
        OBVIOUS
    <2>2. x \in spots(base) <=> x \in spots(head)
        <3>1. DOMAIN Signature(Group(base, k)) = spots(base) /\ DOMAIN Signature(Group(head, k)) = spots(head)
            BY <1>1
        <3>. QED  BY <1>6, <3>1
    <2>3. CASE x \in spots(base)
        <3>1. /\ Signature(Group(base, k))[x] = Cardinality(saying(base, x))
              /\ Signature(Group(head, k))[x] = Cardinality(saying(head, x))
            BY <1>1, <2>2, <2>3
        <3>2. saying(base, x) = NamedIn(base, <<f, k, v>>) /\ saying(head, x) = NamedIn(head, <<f, k, v>>)
            BY <1>2, <2>1
        <3>. QED  BY <1>6, <3>1, <3>2
    <2>4. CASE x \notin spots(base)
        <3>1. saying(base, x) = {} /\ saying(head, x) = {}
            BY <1>3, <2>1, <2>2, <2>4
        <3>2. saying(base, x) = NamedIn(base, <<f, k, v>>) /\ saying(head, x) = NamedIn(head, <<f, k, v>>)
            BY <1>2, <2>1
        <3>. QED  BY <3>1, <3>2
    <2>. QED  BY <2>3, <2>4
<1>7. ASSUME \A f, v : Cardinality(NamedIn(base, <<f, k, v>>)) = Cardinality(NamedIn(head, <<f, k, v>>))
      PROVE  Signature(Group(base, k)) = Signature(Group(head, k))
    <2>1. \A f, v : <<f, v>> \in spots(base) <=> <<f, v>> \in spots(head)
        <3>1. ASSUME NEW f, NEW v
              PROVE  <<f, v>> \in spots(base) <=> <<f, v>> \in spots(head)
            <4>1. PICK x : x = <<f, v>>
                OBVIOUS
            <4>2. saying(base, x) = NamedIn(base, <<f, k, v>>) /\ saying(head, x) = NamedIn(head, <<f, k, v>>)
                BY <1>2, <4>1
            <4>3. saying(base, x) = {} <=> saying(head, x) = {}
                BY <1>5, <1>7, <4>2
            <4>4. (x \in spots(base) <=> saying(base, x) # {}) /\ (x \in spots(head) <=> saying(head, x) # {})
                BY <1>3, <4>1
            <4>. QED  BY <4>1, <4>3, <4>4
        <3>. QED  BY <3>1
    <2>2. spots(base) = spots(head)
        BY <1>4, <2>1
    <2>3. \A x \in spots(base) : Cardinality(saying(base, x)) = Cardinality(saying(head, x))
        <3>1. ASSUME NEW x \in spots(base)
              PROVE  Cardinality(saying(base, x)) = Cardinality(saying(head, x))
            <4>1. PICK f, v : x = <<f, v>>
                BY <1>4
            <4>2. saying(base, x) = NamedIn(base, <<f, k, v>>) /\ saying(head, x) = NamedIn(head, <<f, k, v>>)
                BY <1>2, <4>1
            <4>. QED  BY <1>7, <4>2
        <3>. QED  BY <3>1
    <2>. QED  BY <1>1, <2>2, <2>3
<1>. QED  BY <1>6, <1>7

\* Nothing differs exactly when both sides say the same things equally often.
LEMMA DeltasMean ==
    ASSUME NEW base, NEW head,
           \A c : IsFiniteSet(NamedIn(base, c)) /\ IsFiniteSet(NamedIn(head, c))
    PROVE  Deltas(base, head) = {} <=> SameNames(base, head)
<1>1. Deltas(base, head) = {} <=> RawDeltas(base, head) = {}
    BY DEF Deltas
<1>2. RawDeltas(base, head) = {} <=> KeyedDeltas(base, head) = {}
    <2>1. PICK deltas : deltas = KeyedDeltas(base, head)
        OBVIOUS
    <2>2. \A d : d \in RawDeltas(base, head) <=>
              \/ d \in deltas /\ \A p \in Paired(deltas), c \in {"added", "removed"} : d \notin HookDeltas(deltas, c, p)
              \/ \E p \in Paired(deltas) : d = PairOf(deltas, p)
        BY <2>1, RawDeltasAre
    <2>3. ASSUME deltas = {}
          PROVE  RawDeltas(base, head) = {}
        <3>1. Paired(deltas) = {}
            BY <2>3 DEF Paired
        <3>. QED  BY <2>2, <2>3, <3>1
    <2>4. ASSUME NEW d \in deltas
          PROVE  RawDeltas(base, head) # {}
        <3>1. CASE Paired(deltas) = {}
            BY <2>2, <3>1
        <3>2. CASE Paired(deltas) # {}
            <4>1. PICK p \in Paired(deltas) : TRUE
                BY <3>2
            <4>2. PICK x : x = PairOf(deltas, p)
                OBVIOUS
            <4>3. x \in RawDeltas(base, head)
                BY <2>2, <4>1, <4>2
            <4>. QED  BY <4>3
        <3>. QED  BY <3>1, <3>2
    <2>. QED  BY <2>1, <2>3, <2>4
<1>3. KeyedDeltas(base, head) = {} <=>
         \A k : Signature(Group(base, k)) = Signature(Group(head, k))
    <2>1. KeyedDeltas(base, head) = {} <=>
             \A k \in {e.key : e \in base \cup head} : Signature(Group(base, k)) = Signature(Group(head, k))
        BY DEF KeyedDeltas
    <2>2. \A k : k \notin {e.key : e \in base \cup head} => Group(base, k) = {} /\ Group(head, k) = {}
        BY DEF Group
    <2>. QED  BY <2>1, <2>2
<1>4. (\A k : Signature(Group(base, k)) = Signature(Group(head, k))) <=>
         \A k, f, v : Cardinality(NamedIn(base, <<f, k, v>>)) = Cardinality(NamedIn(head, <<f, k, v>>))
    BY SignatureIs
<1>5. SameNames(base, head) <=>
         \A k, f, v : Cardinality(NamedIn(base, <<f, k, v>>)) = Cardinality(NamedIn(head, <<f, k, v>>))
    <2>1. ASSUME \A k, f, v : Cardinality(NamedIn(base, <<f, k, v>>)) = Cardinality(NamedIn(head, <<f, k, v>>)),
                 NEW c
          PROVE  Cardinality(NamedIn(base, c)) = Cardinality(NamedIn(head, c))
        <3>1. CASE \E e \in base \cup head : Named(e) = c
            <4>1. PICK f, k, v : c = <<f, k, v>>
                BY <3>1 DEF Named
            <4>. QED  BY <2>1, <4>1
        <3>2. CASE ~\E e \in base \cup head : Named(e) = c
            <4>1. NamedIn(base, c) = {} /\ NamedIn(head, c) = {}
                BY <3>2 DEF NamedIn
            <4>. QED  BY <4>1
        <3>. QED  BY <3>1, <3>2
    <2>. QED  BY <2>1 DEF SameNames
<1>. QED  BY <1>1, <1>2, <1>3, <1>4, <1>5

-----------------------------------------------------------------------------
(* The verdict "no-change".                                                *)

\* The base is the commit main names, or the saved tree, carried through as it
\* was saved, without what git lost then.
BaseInv ==
    /\ scan.base.kind \in {None, "ref", "snapshot"}
    /\ scan.base.kind = "snapshot" => \E missing : scan.base = SavedSide(trusted, missing)
    /\ scan.base.kind = None => scan.phase = "idle" \/ scan.verdict = "incomplete"

LEMMA BaseStep ==
    ASSUME ReviewInv, BaseInv, [Next]_vars
    PROVE  BaseInv'
<1>. USE DEF BaseInv
<1>1. trusted' = trusted
    BY DEF Next, Push, ResetBranch, Checkout, Unresolvable, ResolveBase, ResolveHead,
       GuardInRepo, ReadBase, ReadHead, Conclude, Merge, Dismiss, repository, vars
<1>2. DOMAIN scan = Check
    BY DEF ReviewInv, CheckInv
<1>3. NoSide.kind = None /\ \A tree : RefSide(tree).kind = "ref"
    BY DEF NoSide, RefSide, Side
<1>4. CASE UNCHANGED scan
    BY <1>1, <1>4
<1>5. CASE Push \/ ResetBranch \/ Checkout \/ UNCHANGED vars
    BY <1>4, <1>5 DEF Push, ResetBranch, Checkout, vars
<1>6. CASE scan' = Incomplete(scan)
    <2>1. scan'.base = scan.base /\ scan'.verdict = "incomplete"
        BY <1>2, <1>6 DEF Incomplete, Check
    <2>. QED  BY <1>1, <2>1
<1>7. CASE scan' = Idle
    BY <1>3, <1>7 DEF Idle, None
<1>8. CASE ResolveBase
    <2>1. CASE scan'.base = RefSide(main)
        BY <1>1, <1>3, <2>1 DEF None
    <2>2. ASSUME NEW missing, scan'.base = SavedSide(trusted, missing)
          PROVE  BaseInv'
        <3>1. scan'.base.kind = "snapshot"
            BY <2>2, OtherSideHolds
        <3>. QED  BY <1>1, <2>2, <3>1 DEF None
    <2>3. scan'.base = RefSide(main) \/ \E missing : scan'.base = SavedSide(trusted, missing)
        BY <1>2, <1>8 DEF ResolveBase, Check
    <2>. QED  BY <2>1, <2>2, <2>3
<1>9. CASE scan'.base = scan.base /\ scan.base.kind # None
    BY <1>1, <1>9
<1>10. CASE ResolveHead \/ Conclude(TRUE) \/ Conclude(FALSE) \/ ReadHead \/ \E accepted \in BOOLEAN : GuardInRepo(accepted)
    <2>1. scan'.base = scan.base
        BY <1>2, <1>10 DEF ResolveHead, Conclude, ReadHead, GuardInRepo, Incomplete, Check
    <2>2. scan.base.kind # None
        BY <1>10 DEF ResolveHead, Conclude, ReadHead, GuardInRepo, ReviewInv, CheckInv, None
    <2>. QED  BY <1>9, <2>1, <2>2
<1>11. CASE ReadBase
    <2>1. scan.base.left # {}
        BY <1>11 DEF ReadBase
    <2>2. scan.base.kind = "ref"
        BY <2>1 DEF ReviewInv, CheckInv
    <2>3. PICK side \in ReadRef(scan.base) : scan' = [scan EXCEPT !.base = side]
        BY <1>11 DEF ReadBase
    <2>4. scan'.base = side
        BY <1>2, <2>3 DEF Check
    <2>5. side.kind = "ref"
        BY <2>1, <2>2, <2>3, ReadRefHolds DEF ReviewInv, CheckInv
    <2>. QED  BY <2>4, <2>5 DEF None
<1>. QED  BY <1>5, <1>6, <1>7, <1>8, <1>10, <1>11 DEF Next, Unresolvable, Merge, Dismiss

\* The comparison of two trees that read whole finds nothing exactly when the
\* trees mean the same.
LEMMA ComparedTrees ==
    ASSUME theme \in Themes, NEW base, Sound(base), SnapshotOf(base).incomplete = {},
           NEW head, Sound(head), SnapshotOf(head).incomplete = {}
    PROVE  Deltas(SnapshotOf(base).entries, SnapshotOf(head).entries) = {} <=> Meaning(base) = Meaning(head)
<1>1. PICK before, after : before = Placed(base) /\ after = Placed(head)
    OBVIOUS
<1>2. /\ SnapshotOf(base).entries = Told(before) /\ Readable(before)
      /\ SnapshotOf(head).entries = Told(after) /\ Readable(after)
    BY <1>1, SnapshotTold
<1>3. Itemized(before) /\ Itemized(after)
    <2>1. before \subseteq theme /\ after \subseteq theme
        BY <1>1 DEF Sound
    <2>2. IsFiniteSet(theme) /\ \A p \in theme : IsItem(p[2])
        BY ThemesAssumption
    <2>. QED  BY <1>2, <2>1, <2>2, CountIs DEF Itemized
<1>4. \A c : IsFiniteSet(NamedIn(Told(before), c)) /\ IsFiniteSet(NamedIn(Told(after), c))
    BY <1>3, ItemCounts, TagCounts
<1>5. Deltas(Told(before), Told(after)) = {} <=> SameNames(Told(before), Told(after))
    BY <1>4, DeltasMean
<1>6. SameNames(Told(before), Told(after)) <=> Alike(before, after)
    BY <1>3, NamesMean
<1>7. Meaning(base) = Meaning(head) <=> Alike(before, after)
    BY <1>1, <1>3, MeaningIs
<1>. QED  BY <1>2, <1>5, <1>6, <1>7

LEMMA NoChangeIs ==
    ASSUME NEW deltas
    PROVE  Verdict(deltas, {}, {}) = "no-change" <=> deltas = {}
BY DEF Verdict, Expands

LEMMA NoChangeStates ==
    ASSUME ReviewInv, TreesInv, BaseInv
    PROVE  NoChangeMeansSame
<1>. SUFFICES ASSUME Settled, scan.base.kind # "worktree", scan.head.kind = "ref"
              PROVE  scan.verdict = "no-change" <=> Meaning(Seen(scan.base)) = Meaning(Seen(scan.head))
    BY DEF NoChangeMeansSame
<1>1. scan.phase = "done" /\ scan.verdict # "incomplete"
    BY DEF Settled, ReviewInv, CheckInv
<1>2. /\ scan.base.left = {} /\ scan.base.incomplete = {} /\ scan.head.left = {} /\ scan.head.incomplete = {}
      /\ scan.verdict = Verdict(Deltas(scan.base.entries, scan.head.entries), {}, {})
      /\ RefInv(scan.base) /\ RefInv(scan.head)
    BY <1>1 DEF ReviewInv, CheckInv
<1>3. Whole(scan.head) /\ Sound(Seen(scan.head))
    <2>1. scan.head.left # Files
        BY <1>2 DEF Files
    <2>. QED  BY <1>2, <2>1, LostSound DEF RefInv, TreesInv, Seen
<1>4. scan.base.kind = "ref" \/ \E missing : scan.base = SavedSide(trusted, missing)
    BY <1>1 DEF BaseInv
<1>5. Whole(scan.base) /\ Sound(Seen(scan.base))
    <2>1. CASE scan.base.kind = "ref"
        <3>1. scan.base.left # Files
            BY <1>2 DEF Files
        <3>2. scan.base.tree = main
            BY <2>1 DEF ReviewInv
        <3>. QED  BY <1>2, <2>1, <3>1, <3>2, LostSound DEF RefInv, TreesInv, Seen
    <2>2. ASSUME NEW missing, scan.base = SavedSide(trusted, missing)
          PROVE  Whole(scan.base) /\ Sound(Seen(scan.base))
        <3>1. /\ scan.base.tree = trusted /\ scan.base.lost = missing
              /\ scan.base.entries = SnapshotOf(Without(trusted, missing)).entries
              /\ scan.base.incomplete = SnapshotOf(Without(trusted, missing)).incomplete
            BY <2>2 DEF SavedSide, Side
        <3>2. Seen(scan.base) = Without(trusted, missing)
            BY <3>1 DEF Seen
        <3>3. Sound(Seen(scan.base))
            BY <3>2, LostSound DEF TreesInv
        <3>. QED  BY <3>1, <3>2, <3>3 DEF Whole
    <2>. QED  BY <1>4, <2>1, <2>2
<1>6. PICK base, head : base = Seen(scan.base) /\ head = Seen(scan.head)
    OBVIOUS
<1>7. /\ scan.base.entries = SnapshotOf(base).entries /\ SnapshotOf(base).incomplete = {}
      /\ scan.head.entries = SnapshotOf(head).entries /\ SnapshotOf(head).incomplete = {}
    BY <1>2, <1>3, <1>5, <1>6 DEF Whole
<1>8. Deltas(SnapshotOf(base).entries, SnapshotOf(head).entries) = {} <=> Meaning(base) = Meaning(head)
    BY <1>3, <1>5, <1>6, <1>7, ComparedTrees DEF TreesInv
<1>. QED  BY <1>2, <1>6, <1>7, <1>8, NoChangeIs

\* "no-change" is said exactly when what was found of the two sides means the
\* same (entries.ts:25-42, 431-438 and 624-629): whatever the files hold,
\* whatever is redacted, however many items say the same.
THEOREM NoChangeIsSame == Spec => []NoChangeMeansSame
<1>1. Init => ReviewInv /\ TreesInv /\ BaseInv
    <2>1. ASSUME Init
          PROVE  BaseInv
        BY <2>1 DEF Init, Idle, NoSide, Side, BaseInv, None
    <2>. QED  BY <2>1, ReviewInit, TreesInit
<1>2. ReviewInv /\ TreesInv /\ BaseInv /\ [Next]_vars => ReviewInv' /\ TreesInv' /\ BaseInv'
    BY ReviewStep, TreesStep, BaseStep
<1>3. ReviewInv /\ TreesInv /\ BaseInv => NoChangeMeansSame
    BY NoChangeStates
<1>. QED  BY <1>1, <1>2, <1>3, PTL DEF Spec
=============================================================================
