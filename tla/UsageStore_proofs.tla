--------------------------- MODULE UsageStore_proofs ---------------------------
(***************************************************************************)
(* What the server keeps of what is posted to it.  First UsageLedger, for  *)
(* every set of envelopes, records, bindings and open transactions: the    *)
(* two projections, the identities of projects, what a receipt             *)
(* acknowledges and what the run rows count.  Then Installs, for every set *)
(* of machines, accounts, hashes, codes, identities and calls.             *)
(***************************************************************************)
EXTENDS UsageLedger, Installs, FiniteSetTheorems, SequenceTheorems, TLAPS

-----------------------------------------------------------------------------
(* The sum of what the run rows accepted, in the order CHOOSE takes them.  *)

Adding(table, x, acc) == x + acc
AcceptedIn(table, run) == table[run].accepted
AnyOf(S) == CHOOSE x \in S : TRUE
Whole(table, n) == n \in Int
Sums == INSTANCE Folds_proofs WITH Op <- Adding, Item <- AcceptedIn, Pick <- AnyOf, Good <- Whole

\* A set of naturals has a least member, and Min is it.
LEMMA LeastOf ==
    ASSUME NEW S, S \subseteq Nat, S # {}
    PROVE  Min(S) \in S /\ \A x \in S : Min(S) <= x
BY Sums!LeastOf DEF Sums!Min, Min


LedgerSpec(initial, begun, changed) ==
    Fill(initial, begun, changed) /\ [][LedgerNext]_ledgerVars

-----------------------------------------------------------------------------
(* Rows compared column by column.                                         *)

LEMMA AboveTransitive ==
    ASSUME NEW n \in Nat, NEW s \in [1..n -> Int], NEW t \in [1..n -> Int],
           NEW u \in [1..n -> Int], Above(s, t), Above(t, u)
    PROVE  Above(s, u)
<1>1. PICK i \in 1..n : s[i] > t[i] /\ \A j \in 1..(i - 1) : s[j] = t[j]
    BY DEF Above
<1>2. PICK k \in 1..n : t[k] > u[k] /\ \A j \in 1..(k - 1) : t[j] = u[j]
    BY DEF Above
<1>3. CASE i <= k
    <2>1. s[i] > u[i]
        BY <1>1, <1>2, <1>3
    <2>2. \A j \in 1..(i - 1) : s[j] = u[j]
        BY <1>1, <1>2, <1>3
    <2>. QED  BY <2>1, <2>2 DEF Above
<1>4. CASE k < i
    <2>1. s[k] > u[k]
        BY <1>1, <1>2, <1>4
    <2>2. \A j \in 1..(k - 1) : s[j] = u[j]
        BY <1>1, <1>2, <1>4
    <2>. QED  BY <2>1, <2>2 DEF Above
<1>. QED  BY <1>3, <1>4

LEMMA AboveTotal ==
    ASSUME NEW n \in Nat, NEW s \in [1..n -> Int], NEW t \in [1..n -> Int]
    PROVE  s = t \/ Above(s, t) \/ Above(t, s)
<1>. DEFINE differ == {i \in 1..n : s[i] # t[i]}
<1>1. CASE differ = {}
    BY <1>1
<1>2. CASE differ # {}
    <2>1. differ \subseteq Nat
        OBVIOUS
    <2>2. PICK i \in differ : \A j \in differ : i <= j
        <3>. HIDE DEF differ
        <3>. QED  BY <1>2, <2>1, LeastOf
    <2>3. \A j \in 1..(i - 1) : s[j] = t[j]
        BY <2>2
    <2>4. s[i] > t[i] \/ t[i] > s[i]
        BY <2>2
    <2>. QED  BY <2>2, <2>3, <2>4 DEF Above
<1>. QED  BY <1>1, <1>2

LEMMA AboveIrreflexive ==
    ASSUME NEW n \in Nat, NEW s \in [1..n -> Int], NEW t \in [1..n -> Int],
           Above(s, t), Above(t, s)
    PROVE  FALSE
<1>1. Above(s, s)
    BY AboveTransitive
<1>. QED  BY <1>1 DEF Above

\* A finite set has an element whose measure none exceeds: the one with the
\* fewest above it has none.
LEMMA Topmost ==
    ASSUME NEW S, IsFiniteSet(S), S # {}, NEW n \in Nat, NEW f,
           \A x \in S : f[x] \in [1..n -> Int]
    PROVE  \E m \in S : \A q \in S : f[q] = f[m] \/ Above(f[m], f[q])
<1>. DEFINE over(r) == {q \in S : Above(f[q], f[r])}
            sizes == {Cardinality(over(r)) : r \in S}
<1>1. \A r \in S : IsFiniteSet(over(r)) /\ Cardinality(over(r)) \in Nat
    BY FS_Subset, FS_CardinalityType
<1>2. PICK r \in S : \A q \in S : Cardinality(over(r)) <= Cardinality(over(q))
    <2>1. sizes \subseteq Nat /\ sizes # {}
        BY <1>1
    <2>2. PICK low \in sizes : \A k \in sizes : low <= k
        <3>. HIDE DEF sizes
        <3>. QED  BY <2>1, LeastOf
    <2>3. PICK r \in S : low = Cardinality(over(r))
        BY <2>2
    <2>4. \A q \in S : Cardinality(over(q)) \in sizes
        OBVIOUS
    <2>. HIDE DEF sizes, over
    <2>. QED  BY <2>2, <2>3, <2>4
<1>3. ASSUME NEW q \in S, Above(f[q], f[r]) PROVE FALSE
    <2>1. over(q) \subseteq over(r)
        BY <1>3, AboveTransitive
    <2>2. q \in over(r) /\ q \notin over(q)
        BY <1>3, AboveIrreflexive
    <2>3. /\ IsFiniteSet(over(r)) /\ Cardinality(over(r)) \in Nat
          /\ Cardinality(over(q)) \in Nat
          /\ Cardinality(over(r)) <= Cardinality(over(q))
        BY <1>1, <1>2
    <2>. HIDE DEF over
    <2>4. /\ Cardinality(over(q)) <= Cardinality(over(r))
          /\ Cardinality(over(r)) = Cardinality(over(q)) => over(r) = over(q)
        BY <2>1, <2>3, FS_Subset
    <2>. QED  BY <2>2, <2>3, <2>4
<1>. QED  BY <1>3, AboveTotal

\* Least and greatest of a finite set of times.
LEMMA MinMax ==
    ASSUME NEW S, IsFiniteSet(S), S # {}, S \subseteq Int
    PROVE  /\ Min(S) \in S /\ \A x \in S : Min(S) <= x
           /\ Max(S) \in S /\ \A x \in S : x <= Max(S)
<1>. DEFINE up == [x \in S |-> <<x>>]
            down == [x \in S |-> <<-x>>]
<1>1. /\ \A x \in S : up[x] \in [1..1 -> Int] /\ up[x][1] = x
      /\ \A x \in S : down[x] \in [1..1 -> Int] /\ down[x][1] = -x
    OBVIOUS
<1>2. \E m \in S : \A x \in S : x <= m
    <2>. HIDE DEF up
    <2>1. PICK m \in S : \A q \in S : up[q] = up[m] \/ Above(up[m], up[q])
        BY <1>1, Topmost
    <2>2. ASSUME NEW x \in S PROVE x <= m
        <3>1. /\ up[m] \in [1..1 -> Int] /\ up[x] \in [1..1 -> Int] /\ x \in Int /\ m \in Int
              /\ up[m][1] = m /\ up[x][1] = x
            BY <1>1
        <3>2. CASE up[x] = up[m]
            BY <3>1, <3>2
        <3>3. CASE Above(up[m], up[x])
            <4>1. PICK i \in 1..1 : up[m][i] > up[x][i]
                BY <3>1, <3>3 DEF Above
            <4>2. i = 1
                OBVIOUS
            <4>. QED  BY <3>1, <4>1, <4>2
        <3>. QED  BY <2>1, <3>2, <3>3
    <2>. QED  BY <2>2
<1>3. \E m \in S : \A x \in S : m <= x
    <2>. HIDE DEF down
    <2>1. PICK m \in S : \A q \in S : down[q] = down[m] \/ Above(down[m], down[q])
        BY <1>1, Topmost
    <2>2. ASSUME NEW x \in S PROVE m <= x
        <3>1. /\ down[m] \in [1..1 -> Int] /\ down[x] \in [1..1 -> Int] /\ x \in Int /\ m \in Int
              /\ down[m][1] = -m /\ down[x][1] = -x
            BY <1>1
        <3>2. CASE down[x] = down[m]
            BY <3>1, <3>2
        <3>3. CASE Above(down[m], down[x])
            <4>1. PICK i \in 1..1 : down[m][i] > down[x][i]
                BY <3>1, <3>3 DEF Above
            <4>2. i = 1
                OBVIOUS
            <4>. QED  BY <3>1, <4>1, <4>2
        <3>. QED  BY <2>1, <3>2, <3>3
    <2>. QED  BY <2>2
<1>. QED  BY <1>2, <1>3 DEF Min, Max

\* What a finite set is mapped to is finite.
LEMMA ImageFinite ==
    ASSUME NEW S, IsFiniteSet(S), NEW f
    PROVE  IsFiniteSet({f[x] : x \in S})
<1>. DEFINE T == {f[x] : x \in S}
            g == [x \in S |-> f[x]]
<1>1. g \in Surjection(S, T)
    BY DEF Surjection
<1>. HIDE DEF g, T
<1>2. IsFiniteSet(T)
    BY <1>1, FS_Surjection
<1>. QED  BY <1>2 DEF T

\* A row of a ledger: a record of some envelope, and the start of the
\* transaction that inserted it.
LedgerRow(row) == row.at \in Nat /\ \E e \in Envelopes : row.rec \in Records[e]

LEMMA RankColumns ==
    ASSUME NEW row, LedgerRow(row)
    PROVE  Rank(row) \in [1..5 -> Int] /\ Rank(row)[4] = row.at /\ Rank(row)[5] = row.rec.id
<1>1. ChannelRank(row.rec.channel) \in Int /\ IdentityRank(row.rec.session) \in Int
    BY DEF ChannelRank, IdentityRank
<1>2. row.rec.observed \in Int /\ row.rec.id \in Int
    BY RecordsAssumption DEF LedgerRow
<1>. QED  BY <1>1, <1>2 DEF Rank, LedgerRow

LEMMA RecencyColumns ==
    ASSUME NEW row, LedgerRow(row)
    PROVE  Recency(row) \in [1..3 -> Int] /\ Recency(row)[2] = row.at /\ Recency(row)[3] = row.rec.id
<1>1. row.rec.observed \in Int /\ row.rec.id \in Int
    BY RecordsAssumption DEF LedgerRow
<1>. QED  BY <1>1 DEF Recency, LedgerRow
-----------------------------------------------------------------------------
(* The transactions.                                                       *)

Fields == {"pc", "env", "at", "owned", "seen", "rows", "ev", "more", "wrote", "cand",
           "regs", "names", "accepted", "deferred"}

\* Every open transaction posts an envelope and has a start of its own.
TxInv ==
    /\ clock \in Nat /\ DOMAIN tx = Slots
    /\ \A s \in Slots : Open(s) =>
          /\ DOMAIN tx[s] = Fields /\ tx[s].env \in Envelopes
          /\ tx[s].at \in Nat /\ tx[s].at < clock
    /\ \A s, t \in Slots : s # t /\ Open(s) /\ Open(t) => tx[s].at # tx[t].at

\* A step within an open transaction: only s moves, and it stays what it is.
Moves(s) ==
    /\ Open(s) /\ tx'[s].pc # "idle" /\ DOMAIN tx' = Slots
    /\ \A t \in Slots \ {s} : tx'[t] = tx[t]
    /\ DOMAIN tx'[s] = DOMAIN tx[s]
    /\ tx'[s].env = tx[s].env /\ tx'[s].at = tx[s].at /\ tx'[s].owned = tx[s].owned
    /\ clock' = clock

\* Or it is over.
Ends(s) ==
    /\ Open(s) /\ tx'[s] = Idle /\ DOMAIN tx' = Slots
    /\ \A t \in Slots \ {s} : tx'[t] = tx[t]
    /\ clock' = clock

Begins(s, e) ==
    /\ ~Open(s) /\ DOMAIN tx' = Slots /\ clock' = clock + 1
    /\ \A t \in Slots \ {s} : tx'[t] = tx[t]
    /\ DOMAIN tx'[s] = Fields /\ tx'[s].pc = "identities"
    /\ tx'[s].env = e /\ tx'[s].at = clock /\ tx'[s].owned = bindings
    /\ tx'[s].rows = {} /\ tx'[s].ev = {}
    /\ DOMAIN tx'[s].wrote = {} /\ DOMAIN tx'[s].regs = {}
    /\ DOMAIN tx'[s].seen = {} /\ DOMAIN tx'[s].names = {} /\ tx'[s].more = {}

LEMMA BeginBegins ==
    ASSUME TxInv, NEW s \in Slots, NEW e \in Envelopes, Begin(s, e)
    PROVE  Begins(s, e)
<1>1. DOMAIN Empty = {}
    BY DEF Empty
<1>2. /\ tx'[s] = [pc |-> "identities", env |-> e, at |-> clock, owned |-> bindings,
                   seen |-> Empty, rows |-> {}, ev |-> {}, more |-> {},
                   wrote |-> Empty, cand |-> Empty, regs |-> Empty, names |-> Empty,
                   accepted |-> 0, deferred |-> {}]
      /\ DOMAIN tx' = Slots /\ \A t \in Slots \ {s} : tx'[t] = tx[t]
    BY DEF Begin, TxInv
<1>3. DOMAIN tx'[s] = Fields
    BY <1>2 DEF Fields
<1>4. /\ tx'[s].rows = {} /\ tx'[s].ev = {} /\ tx'[s].wrote = Empty /\ tx'[s].regs = Empty
      /\ tx'[s].seen = Empty /\ tx'[s].names = Empty /\ tx'[s].more = {}
    BY <1>2
<1>5. /\ tx'[s].pc = "identities" /\ tx'[s].env = e /\ tx'[s].at = clock
      /\ tx'[s].owned = bindings
    BY <1>2
<1>. QED  BY <1>1, <1>2, <1>3, <1>4, <1>5 DEF Begin, Begins

LEMMA SideIs ==
    ASSUME NEW s \in Slots, ApplySide(s)
    PROVE  /\ tx[s].pc = "side" /\ clock' = clock
           /\ \E x, d : tx' = [tx EXCEPT ![s].pc = "commit", ![s].names = x, ![s].deferred = d]
BY DEF ApplySide, Step

LEMMA SnapshotIs ==
    ASSUME NEW s \in Slots, StartProjection(s)
    PROVE  /\ tx[s].pc = "project" /\ clock' = clock
           /\ \E c : tx' = [tx EXCEPT ![s].pc = "upsert", ![s].cand = c]
BY DEF StartProjection, Step

LEMMA StepMoves ==
    ASSUME TxInv, NEW s \in Slots,
           \/ ObserveIdentities(s) \/ InsertRequests(s) \/ StartProjection(s)
           \/ UpsertCanonical(s) \/ InsertLedgers(s) \/ StartRegisters(s)
           \/ UpsertRegisters(s) \/ ApplySide(s)
    PROVE  Moves(s)
<1>. USE DEF TxInv, Fields, Moves, Open, Step
<1>1. ASSUME ObserveIdentities(s) PROVE Moves(s)
    BY <1>1 DEF ObserveIdentities
<1>2. ASSUME InsertRequests(s) PROVE Moves(s)
    BY <1>2 DEF InsertRequests
<1>3. ASSUME StartProjection(s) PROVE Moves(s)
    <2>1. PICK c : tx' = [tx EXCEPT ![s].pc = "upsert", ![s].cand = c]
        BY <1>3, SnapshotIs
    <2>2. tx[s].pc = "project" /\ clock' = clock
        BY <1>3, SnapshotIs
    <2>. QED  BY <2>1, <2>2
<1>4. ASSUME UpsertCanonical(s) PROVE Moves(s)
    <2>1. \/ tx' = [tx EXCEPT ![s].pc = "ledgers"]
          \/ \E w : tx' = [tx EXCEPT ![s].wrote = w]
        BY <1>4 DEF UpsertCanonical
    <2>. QED  BY <1>4, <2>1 DEF UpsertCanonical
<1>5. ASSUME InsertLedgers(s) PROVE Moves(s)
    BY <1>5 DEF InsertLedgers
<1>6. ASSUME StartRegisters(s) PROVE Moves(s)
    BY <1>6 DEF StartRegisters
<1>7. ASSUME UpsertRegisters(s) PROVE Moves(s)
    <2>1. \/ tx' = [tx EXCEPT ![s].pc = "side"]
          \/ \E w : tx' = [tx EXCEPT ![s].regs = w]
        BY <1>7 DEF UpsertRegisters
    <2>. QED  BY <1>7, <2>1 DEF UpsertRegisters
<1>8. ASSUME ApplySide(s) PROVE Moves(s)
    <2>1. PICK x, d : tx' = [tx EXCEPT ![s].pc = "commit", ![s].names = x, ![s].deferred = d]
        BY <1>8, SideIs
    <2>2. tx[s].pc = "side" /\ clock' = clock
        BY <1>8, SideIs
    <2>. QED  BY <2>1, <2>2
<1>. QED  BY <1>1, <1>2, <1>3, <1>4, <1>5, <1>6, <1>7, <1>8

LEMMA EndEnds ==
    ASSUME TxInv, NEW s \in Slots, Commit(s) \/ Abort(s)
    PROVE  Ends(s)
BY DEF TxInv, Commit, Abort, Step, Open, Ends

LEMMA TxInit ==
    ASSUME NEW initial, NEW begun \in Nat, NEW changed, Fill(initial, begun, changed)
    PROVE  TxInv
BY DEF Fill, TxInv, Open, Idle

LEMMA TxStep ==
    ASSUME TxInv, [LedgerNext]_ledgerVars
    PROVE  TxInv'
<1>1. ASSUME NEW s \in Slots, Moves(s) PROVE TxInv'
    BY <1>1 DEF TxInv, Moves, Open
<1>2. ASSUME NEW s \in Slots, Ends(s) PROVE TxInv'
    BY <1>2 DEF TxInv, Ends, Open, Idle
<1>3. ASSUME NEW s \in Slots, NEW e \in Envelopes, Begins(s, e) PROVE TxInv'
    BY <1>3 DEF TxInv, Begins, Open
<1>4. ASSUME UNCHANGED <<tx, clock>> PROVE TxInv'
    BY <1>4 DEF TxInv, Open
<1>. QED  BY <1>1, <1>2, <1>3, <1>4, BeginBegins, StepMoves, EndEnds
          DEF LedgerNext, StepOf, ChangeBinding, ledgerVars
-----------------------------------------------------------------------------
(* The winners.                                                            *)

AtLeast(r, q) == q = r \/ Above(Rank(r), Rank(q))

LEMMA AtLeastTransitive ==
    ASSUME NEW a, NEW b, NEW c, LedgerRow(a), LedgerRow(b), LedgerRow(c),
           AtLeast(a, b), AtLeast(b, c)
    PROVE  AtLeast(a, c)
<1>1. CASE a = b \/ b = c
    BY <1>1 DEF AtLeast
<1>2. CASE Above(Rank(a), Rank(b)) /\ Above(Rank(b), Rank(c))
    <2>1. /\ Rank(a) \in [1..5 -> Int] /\ Rank(b) \in [1..5 -> Int]
          /\ Rank(c) \in [1..5 -> Int]
        BY RankColumns
    <2>. QED  BY <1>2, <2>1, AboveTransitive DEF AtLeast
<1>. QED  BY <1>1, <1>2 DEF AtLeast

\* Rows that are the same where they have the same origin are in one order.
LEMMA AtLeastTotal ==
    ASSUME NEW a, NEW b, LedgerRow(a), LedgerRow(b),
           a.at = b.at /\ a.rec.id = b.rec.id => a = b, ~Above(Rank(a), Rank(b))
    PROVE  AtLeast(b, a)
<1>1. /\ Rank(a) \in [1..5 -> Int] /\ Rank(a)[4] = a.at /\ Rank(a)[5] = a.rec.id
      /\ Rank(b) \in [1..5 -> Int] /\ Rank(b)[4] = b.at /\ Rank(b)[5] = b.rec.id
    BY RankColumns
<1>2. Rank(a) = Rank(b) \/ Above(Rank(b), Rank(a))
    BY <1>1, AboveTotal
<1>. QED  BY <1>1, <1>2 DEF AtLeast

\* The requests an envelope carries, and their keys.
Carried(m) == {r \in Records[m.env] : ~Rejected(m.owned, r) /\ r.kind \in {"request"}}
CarriedKeys(m) == {r.key : r \in Carried(m)}
RowsCarried(m) == {[rec |-> r, at |-> m.at] : r \in Carried(m)}

LEMMA CarriedIs ==
    ASSUME NEW s \in Slots
    PROVE  /\ KeysOf(s, {"request"}) = CarriedKeys(tx[s])
           /\ RowsOf(s, {"request"}) = RowsCarried(tx[s])
<1>1. KeptOf(s, {"request"}) = Carried(tx[s])
    BY DEF KeptOf, Kept, Carried
<1>. QED  BY <1>1 DEF KeysOf, RowsOf, CarriedKeys, RowsCarried

\* w is a row of key k, stored or to be stored by m, and none of m's own rows
\* of that key comes before it.
Holds(m, reqs, k, w) ==
    /\ w \in reqs \cup m.rows /\ w.rec.key = k
    /\ \A r \in m.rows : r.rec.key = k => AtLeast(w, r)

\* What m will write covers its own rows and does not fall behind what stands.
SlotInv(m, reqs, can) ==
    /\ m.rows \subseteq RowsCarried(m)
    /\ m.pc \in {"identities", "requests"} => m.rows = {}
    /\ m.pc \in {"identities", "requests", "project"} => DOMAIN m.wrote = {}
    /\ m.pc = "upsert" =>
          /\ CarriedKeys(m) \subseteq DOMAIN m.cand
          /\ \A k \in DOMAIN m.cand : k \in Nat /\ Holds(m, reqs, k, m.cand[k].row)
    /\ m.pc \notin {"identities", "requests", "project", "upsert"} =>
          CarriedKeys(m) \subseteq DOMAIN m.wrote
    /\ \A k \in DOMAIN m.wrote :
          /\ Holds(m, reqs, k, m.wrote[k].row)
          /\ k \in DOMAIN can => AtLeast(m.wrote[k].row, can[k].row)

SlotsInv ==
    /\ \A s \in Slots : Open(s) => SlotInv(tx[s], requests, canonical)
    /\ \A s, t \in Slots : s # t /\ Open(s) /\ Open(t) =>
          DOMAIN tx[s].wrote \cap DOMAIN tx[t].wrote = {}

\* A stored row is from a transaction that is over, and no row is there twice.
RequestRows ==
    /\ \A r \in requests : LedgerRow(r) /\ r.at < clock
    /\ \A r \in requests, s \in Slots : Open(s) => r.at # tx[s].at
    /\ \A r, q \in requests : r.at = q.at /\ r.rec.id = q.rec.id => r = q

Standing(reqs, can) ==
    /\ \A k \in DOMAIN can : can[k].row \in reqs /\ can[k].row.rec.key = k
    /\ \A r \in reqs : r.rec.key \in DOMAIN can /\ AtLeast(can[r.rec.key].row, r)

WinnersInv == TxInv /\ SlotsInv /\ RequestRows /\ Standing(requests, canonical)

LEMMA OwnRows ==
    ASSUME NEW m, m.env \in Envelopes, m.at \in Nat, m.rows \subseteq RowsCarried(m)
    PROVE  /\ \A r \in m.rows : LedgerRow(r) /\ r.at = m.at /\ r.rec.key \in CarriedKeys(m)
           /\ \A r, q \in m.rows : r.rec.id = q.rec.id => r = q
<1>1. \A r \in m.rows : \E x \in Carried(m) : r = [rec |-> x, at |-> m.at]
    BY DEF RowsCarried
<1>2. \A x \in Carried(m) : x \in Records[m.env] /\ x.key \in CarriedKeys(m)
    BY DEF Carried, CarriedKeys
<1>3. \A r \in m.rows : r.rec \in Carried(m) /\ r = [rec |-> r.rec, at |-> m.at] /\ r.at = m.at
    BY <1>1
<1>4. \A x, y \in Carried(m) : x.id = y.id => x = y
    BY <1>2, RecordsAssumption
<1>5. \A r, q \in m.rows : r.rec.id = q.rec.id => r = q
    BY <1>3, <1>4
<1>6. \A r \in m.rows : LedgerRow(r)
    BY <1>2, <1>3 DEF LedgerRow
<1>. QED  BY <1>2, <1>3, <1>5, <1>6

\* Stored rows and those of one transaction are in one order.
LEMMA AllRows ==
    ASSUME WinnersInv, NEW s \in Slots, Open(s)
    PROVE  /\ \A r \in requests \cup tx[s].rows : LedgerRow(r)
           /\ \A r, q \in requests \cup tx[s].rows :
                 r.at = q.at /\ r.rec.id = q.rec.id => r = q
<1>1. tx[s].env \in Envelopes /\ tx[s].at \in Nat /\ tx[s].rows \subseteq RowsCarried(tx[s])
    BY DEF WinnersInv, TxInv, SlotsInv, SlotInv
<1>2. /\ \A r \in tx[s].rows : LedgerRow(r) /\ r.at = tx[s].at
      /\ \A r, q \in tx[s].rows : r.rec.id = q.rec.id => r = q
    BY <1>1, OwnRows
<1>3. \A r \in requests : LedgerRow(r) /\ r.at # tx[s].at
    BY DEF WinnersInv, RequestRows
<1>. QED  BY <1>2, <1>3 DEF WinnersInv, RequestRows

LEMMA WinnersInit ==
    ASSUME NEW initial, NEW begun \in Nat, NEW changed, Fill(initial, begun, changed)
    PROVE  WinnersInv
<1>1. TxInv
    BY TxInit
<1>2. \A s \in Slots : ~Open(s)
    BY DEF Fill, Open, Idle
<1>3. requests = {} /\ DOMAIN canonical = {}
    BY DEF Fill, Empty
<1>. QED  BY <1>1, <1>2, <1>3 DEF WinnersInv, SlotsInv, RequestRows, Standing

\* A step within a transaction that stores nothing yet.
LEMMA WinnersFrame ==
    ASSUME WinnersInv, TxInv', NEW s \in Slots, Moves(s), UNCHANGED <<requests, canonical>>,
           SlotInv(tx'[s], requests, canonical),
           \A t \in Slots \ {s} : Open(t) => DOMAIN tx'[s].wrote \cap DOMAIN tx[t].wrote = {}
    PROVE  WinnersInv'
<1>1. \A t \in Slots : Open(t)' => Open(t)
    BY DEF Moves, Open
<1>2. \A t \in Slots : Open(t)' => SlotInv(tx'[t], requests, canonical)
    BY <1>1 DEF Moves, WinnersInv, SlotsInv
<1>3. \A t \in Slots : tx'[t].at = tx[t].at
    BY DEF Moves
<1>4. \A t, u \in Slots : t # u /\ Open(t)' /\ Open(u)' =>
         DOMAIN tx'[t].wrote \cap DOMAIN tx'[u].wrote = {}
    <2>1. \A t, u \in Slots \ {s} : t # u /\ Open(t)' /\ Open(u)' =>
             DOMAIN tx'[t].wrote \cap DOMAIN tx'[u].wrote = {}
        BY <1>1 DEF Moves, WinnersInv, SlotsInv
    <2>2. \A t \in Slots \ {s} : Open(t)' => DOMAIN tx'[s].wrote \cap DOMAIN tx'[t].wrote = {}
        BY <1>1 DEF Moves
    <2>. QED  BY <2>1, <2>2
<1>5. SlotsInv'
    BY <1>2, <1>4 DEF SlotsInv
<1>6. RequestRows'
    BY <1>1, <1>3 DEF Moves, WinnersInv, RequestRows
<1>. QED  BY <1>5, <1>6 DEF WinnersInv
\* The steps that leave requests and their projection alone.
LEMMA WinnersElsewhere ==
    ASSUME WinnersInv, TxInv', NEW s \in Slots,
           \/ ObserveIdentities(s) \/ InsertLedgers(s) \/ StartRegisters(s)
           \/ UpsertRegisters(s) \/ ApplySide(s)
    PROVE  WinnersInv'
<1>. DEFINE m == tx[s]
            n == tx'[s]
            late == {"ledgers", "registers", "tools", "side", "commit"}
            Aside == /\ n.rows = m.rows /\ n.wrote = m.wrote
                     /\ \/ m.pc = "identities" /\ n.pc = "requests"
                        \/ m.pc \in late /\ n.pc \in late
<1>1. TxInv /\ Moves(s) /\ UNCHANGED <<requests, canonical>>
    BY StepMoves DEF WinnersInv, ObserveIdentities, InsertLedgers, StartRegisters,
       UpsertRegisters, ApplySide, stored
<1>2. Aside
    <2>. USE <1>1 DEF TxInv, Fields, Open, Step, Moves
    <2>1. ASSUME ObserveIdentities(s) PROVE Aside
        BY <2>1 DEF ObserveIdentities
    <2>2. ASSUME InsertLedgers(s) PROVE Aside
        BY <2>2 DEF InsertLedgers
    <2>3. ASSUME StartRegisters(s) PROVE Aside
        BY <2>3 DEF StartRegisters
    <2>4. ASSUME UpsertRegisters(s) PROVE Aside
        <3>1. \/ tx' = [tx EXCEPT ![s].pc = "side"]
              \/ \E w : tx' = [tx EXCEPT ![s].regs = w]
            BY <2>4 DEF UpsertRegisters
        <3>. QED  BY <2>4, <3>1 DEF UpsertRegisters
    <2>5. ASSUME ApplySide(s) PROVE Aside
        <3>1. PICK x, d : tx' = [tx EXCEPT ![s].pc = "commit", ![s].names = x, ![s].deferred = d]
            BY <2>5, SideIs
        <3>2. tx[s].pc = "side" /\ clock' = clock
            BY <2>5, SideIs
        <3>. QED  BY <3>1, <3>2
    <2>. QED  BY <2>1, <2>2, <2>3, <2>4, <2>5
<1>3. /\ CarriedKeys(n) = CarriedKeys(m) /\ RowsCarried(n) = RowsCarried(m)
    BY <1>1 DEF Moves, CarriedKeys, RowsCarried, Carried
<1>4. SlotInv(m, requests, canonical)
    BY <1>1 DEF WinnersInv, SlotsInv, Moves
<1>5. SlotInv(n, requests, canonical)
    BY <1>2, <1>3, <1>4 DEF SlotInv, Holds
<1>6. \A t \in Slots \ {s} : Open(t) => DOMAIN n.wrote \cap DOMAIN tx[t].wrote = {}
    BY <1>1, <1>2 DEF WinnersInv, SlotsInv, Moves
<1>. QED  BY <1>1, <1>5, <1>6, WinnersFrame

LEMMA WinnersInsert ==
    ASSUME WinnersInv, TxInv', NEW s \in Slots, InsertRequests(s)
    PROVE  WinnersInv'
<1>. DEFINE m == tx[s]
            n == tx'[s]
            rows == FirstSightings(RowsOf(s, {"request"}), requests)
<1>1. TxInv /\ Moves(s) /\ UNCHANGED <<requests, canonical>>
    BY StepMoves DEF WinnersInv, InsertRequests, stored
<1>2. /\ m.pc = "requests" /\ n.pc = "project" /\ n.wrote = m.wrote
      /\ n.rows = Fresh(rows, requests)
    BY <1>1 DEF InsertRequests, TxInv, Fields, Step, Moves
<1>3. n.rows \subseteq RowsCarried(m)
    BY <1>2, CarriedIs DEF Fresh, FirstSightings
<1>4. RowsCarried(n) = RowsCarried(m)
    BY <1>1 DEF Moves, RowsCarried, Carried
<1>5. SlotInv(m, requests, canonical)
    BY <1>1 DEF WinnersInv, SlotsInv, Moves
<1>6. SlotInv(n, requests, canonical)
    BY <1>2, <1>3, <1>4, <1>5 DEF SlotInv
<1>7. \A t \in Slots \ {s} : Open(t) => DOMAIN n.wrote \cap DOMAIN tx[t].wrote = {}
    BY <1>1, <1>2 DEF WinnersInv, SlotsInv, Moves
<1>. QED  BY <1>1, <1>6, <1>7, WinnersFrame

\* The candidate of a key has rank 1 in the snapshot, which holds the rows this
\* transaction inserted.
LEMMA WinnersSnapshot ==
    ASSUME WinnersInv, TxInv', NEW s \in Slots, StartProjection(s)
    PROVE  WinnersInv'
<1>. DEFINE m == tx[s]
            n == tx'[s]
            keys == KeysOf(s, {"request"})
            rows(k) == {r \in requests \cup m.rows : r.rec.key = k}
<1>1. TxInv /\ Moves(s) /\ UNCHANGED <<requests, canonical>>
    BY StepMoves DEF WinnersInv, StartProjection, stored
<1>2. PICK winner \in [keys -> UNION {{r \in rows(k) : First(r, rows(k), Rank)} : k \in keys}],
           preferred \in [keys -> UNION {{r \in rows(k) : First(r, rows(k), ProjectRank)} : k \in keys}] :
         /\ \A k \in keys : winner[k] \in {r \in rows(k) : First(r, rows(k), Rank)}
         /\ tx' = [tx EXCEPT ![s].pc = "upsert",
                    ![s].cand = [k \in keys |-> [row |-> winner[k],
                                                evidence |-> Evidence(preferred[k])]]]
    BY DEF StartProjection
<1>3. m.pc = "project" /\ Open(s)
    BY DEF StartProjection, Step, Open
<1>4. /\ n.pc = "upsert" /\ n.wrote = m.wrote /\ n.rows = m.rows
      /\ DOMAIN n.cand = keys /\ \A k \in keys : n.cand[k].row = winner[k]
    BY <1>1, <1>2, <1>3 DEF TxInv, Fields
<1>5. \A k \in keys : Holds(n, requests, k, n.cand[k].row)
    <2>1. \A k \in keys : winner[k] \in rows(k) /\ \A q \in rows(k) : AtLeast(winner[k], q)
        BY <1>2 DEF First, AtLeast
    <2>. QED  BY <1>4, <2>1 DEF Holds
<1>6. keys = CarriedKeys(n) /\ CarriedKeys(n) = CarriedKeys(m) /\ RowsCarried(n) = RowsCarried(m)
    BY <1>1, CarriedIs DEF Moves, RowsCarried, CarriedKeys, Carried
<1>7. keys \subseteq Nat
    BY <1>1, <1>3, RecordsAssumption DEF TxInv, KeysOf, KeptOf, Kept
<1>8. SlotInv(m, requests, canonical)
    BY <1>3 DEF WinnersInv, SlotsInv
<1>9. SlotInv(n, requests, canonical)
    BY <1>3, <1>4, <1>5, <1>6, <1>7, <1>8 DEF SlotInv
<1>10. \A t \in Slots \ {s} : Open(t) => DOMAIN n.wrote \cap DOMAIN tx[t].wrote = {}
    BY <1>3, <1>4 DEF WinnersInv, SlotsInv
<1>. QED  BY <1>1, <1>9, <1>10, WinnersFrame
\* What CANONICAL_GUARD leaves in a row is at least what stood there, and at
\* least the candidate.
LEMMA GuardKeepsTheGreater ==
    ASSUME NEW new, NEW old, LedgerRow(new.row), LedgerRow(old.row),
           new.row.at = old.row.at /\ new.row.rec.id = old.row.rec.id => new.row = old.row
    PROVE  /\ Displaces(new, old) => AtLeast(new.row, old.row)
           /\ ~Displaces(new, old) => AtLeast(old.row, new.row)
<1>1. Displaces(new, old) => AtLeast(new.row, old.row)
    BY DEF Displaces, AtLeast
<1>2. ASSUME ~Displaces(new, old) PROVE AtLeast(old.row, new.row)
    <2>1. ~Above(Rank(new.row), Rank(old.row))
        BY <1>2 DEF Displaces
    <2>. QED  BY <2>1, AtLeastTotal
<1>. QED  BY <1>1, <1>2

LEMMA WinnersUpsert ==
    ASSUME WinnersInv, TxInv', NEW s \in Slots, UpsertCanonical(s)
    PROVE  WinnersInv'
<1>. DEFINE m == tx[s]
            n == tx'[s]
            todo == DOMAIN m.cand \ DOMAIN m.wrote
<1>1. TxInv /\ Moves(s) /\ UNCHANGED <<requests, canonical>>
    BY StepMoves DEF WinnersInv, UpsertCanonical, stored
<1>2. /\ m.pc = "upsert" /\ Open(s) /\ SlotInv(m, requests, canonical)
    BY DEF UpsertCanonical, Step, Open, WinnersInv, SlotsInv
<1>3. CarriedKeys(n) = CarriedKeys(m) /\ RowsCarried(n) = RowsCarried(m)
    BY <1>1 DEF Moves, RowsCarried, CarriedKeys, Carried
<1>4. CASE todo = {}
    <2>1. tx' = [tx EXCEPT ![s].pc = "ledgers"]
        BY <1>4 DEF UpsertCanonical
    <2>2. n.pc = "ledgers" /\ n.rows = m.rows /\ n.wrote = m.wrote
        BY <1>1, <1>2, <2>1 DEF TxInv, Fields
    <2>3. CarriedKeys(m) \subseteq DOMAIN m.wrote
        BY <1>2, <1>4 DEF SlotInv
    <2>4. SlotInv(n, requests, canonical)
        BY <1>2, <1>3, <2>2, <2>3 DEF SlotInv, Holds
    <2>5. \A t \in Slots \ {s} : Open(t) => DOMAIN n.wrote \cap DOMAIN tx[t].wrote = {}
        BY <1>2, <2>2 DEF WinnersInv, SlotsInv
    <2>. QED  BY <1>1, <2>4, <2>5, WinnersFrame
<1>5. CASE todo # {}
    <2>. DEFINE k == Min(todo)
                cand == m.cand[k]
                new == IF k \in DOMAIN canonical /\ ~Displaces(cand, canonical[k])
                       THEN canonical[k] ELSE cand
    <2>1. k \in todo
        <3>1. todo \subseteq Nat
            BY <1>2 DEF SlotInv
        <3>. QED  BY <1>5, <3>1, LeastOf
    <2>2. /\ ~Blocked(s, "wrote", {k})
          /\ tx' = [tx EXCEPT ![s].wrote = Over([x \in {k} |-> new], m.wrote)]
        BY <1>5 DEF UpsertCanonical
    <2>3. Holds(m, requests, k, cand.row)
        BY <1>2, <2>1 DEF SlotInv
    <2>4. k \in DOMAIN canonical => canonical[k].row \in requests /\ canonical[k].row.rec.key = k
        BY DEF WinnersInv, Standing
    <2>5. /\ \A r \in requests \cup m.rows : LedgerRow(r)
          /\ \A r, q \in requests \cup m.rows : r.at = q.at /\ r.rec.id = q.rec.id => r = q
        BY <1>2, AllRows
    <2>6. cand.row \in requests \cup m.rows
        BY <2>3 DEF Holds
    <2>7. k \in DOMAIN canonical => /\ Displaces(cand, canonical[k]) => AtLeast(cand.row, canonical[k].row)
                                    /\ ~Displaces(cand, canonical[k]) => AtLeast(canonical[k].row, cand.row)
        BY <2>4, <2>5, <2>6, GuardKeepsTheGreater
    <2>. HIDE DEF k, cand, todo
    <2>8. Holds(m, requests, k, new.row)
        <3>1. CASE k \in DOMAIN canonical /\ ~Displaces(cand, canonical[k])
            <4>1. new.row = canonical[k].row
                BY <3>1
            <4>2. \A r \in m.rows : r.rec.key = k => AtLeast(canonical[k].row, r)
                BY <2>3, <2>4, <2>5, <2>6, <2>7, <3>1, AtLeastTransitive DEF Holds
            <4>. QED  BY <2>4, <3>1, <4>1, <4>2 DEF Holds
        <3>2. CASE ~(k \in DOMAIN canonical /\ ~Displaces(cand, canonical[k]))
            BY <2>3, <3>2
        <3>. QED  BY <3>1, <3>2
    <2>9. k \in DOMAIN canonical => AtLeast(new.row, canonical[k].row)
        BY <2>7 DEF AtLeast
    <2>. HIDE DEF new
    <2>10. /\ n.pc = "upsert" /\ n.rows = m.rows /\ n.cand = m.cand
           /\ n.wrote = Over([x \in {k} |-> new], m.wrote)
        BY <1>1, <1>2, <2>2 DEF TxInv, Fields
    <2>11. /\ DOMAIN n.wrote = {k} \cup DOMAIN m.wrote /\ n.wrote[k] = new
           /\ \A j \in DOMAIN m.wrote : j # k => n.wrote[j] = m.wrote[j]
        BY <2>10 DEF Over
    <2>12. \A j \in DOMAIN n.wrote :
              /\ Holds(n, requests, j, n.wrote[j].row)
              /\ j \in DOMAIN canonical => AtLeast(n.wrote[j].row, canonical[j].row)
        <3>1. \A j \in DOMAIN m.wrote :
                 /\ Holds(m, requests, j, m.wrote[j].row)
                 /\ j \in DOMAIN canonical => AtLeast(m.wrote[j].row, canonical[j].row)
            BY <1>2 DEF SlotInv
        <3>. QED  BY <2>8, <2>9, <2>10, <2>11, <3>1 DEF Holds
    <2>13. SlotInv(n, requests, canonical)
        BY <1>2, <1>3, <2>10, <2>12 DEF SlotInv, Holds
    <2>14. \A t \in Slots \ {s} : Open(t) => DOMAIN n.wrote \cap DOMAIN tx[t].wrote = {}
        <3>1. \A t \in Slots \ {s} : Open(t) => k \notin DOMAIN tx[t].wrote
            BY <2>2 DEF Blocked, Peers
        <3>. QED  BY <1>2, <2>11, <3>1 DEF WinnersInv, SlotsInv
    <2>. QED  BY <1>1, <2>13, <2>14, WinnersFrame
<1>. QED  BY <1>4, <1>5
\* Everything a transaction wrote becomes visible at once: its rows, and for
\* each of their keys a projected row that covers them and what stood there.
LEMMA WinnersCommit ==
    ASSUME WinnersInv, TxInv', NEW s \in Slots, Commit(s)
    PROVE  WinnersInv'
<1>. DEFINE m == tx[s]
<1>1. /\ TxInv /\ Ends(s) /\ m.pc = "commit" /\ Open(s) /\ SlotInv(m, requests, canonical)
      /\ m.env \in Envelopes /\ m.at \in Nat /\ m.at < clock /\ clock \in Nat
    BY EndEnds DEF WinnersInv, SlotsInv, TxInv, Commit, Step, Open
<1>2. requests' = requests \cup m.rows /\ canonical' = Over(m.wrote, canonical)
    BY DEF Commit
<1>3. /\ DOMAIN canonical' = DOMAIN m.wrote \cup DOMAIN canonical
      /\ \A k \in DOMAIN m.wrote : canonical'[k] = m.wrote[k]
      /\ \A k \in DOMAIN canonical \ DOMAIN m.wrote : canonical'[k] = canonical[k]
    BY <1>2 DEF Over
<1>4. /\ \A r \in requests \cup m.rows : LedgerRow(r)
      /\ \A r, q \in requests \cup m.rows : r.at = q.at /\ r.rec.id = q.rec.id => r = q
    BY <1>1, AllRows
<1>5. \A r \in m.rows : r.at = m.at /\ r.rec.key \in DOMAIN m.wrote
    <2>1. m.rows \subseteq RowsCarried(m) /\ CarriedKeys(m) \subseteq DOMAIN m.wrote
        BY <1>1 DEF SlotInv
    <2>. QED  BY <1>1, <2>1, OwnRows
<1>6. \A t \in Slots : Open(t)' => /\ t # s /\ Open(t) /\ tx'[t] = tx[t]
                                   /\ DOMAIN m.wrote \cap DOMAIN tx[t].wrote = {}
                                   /\ tx[t].at # m.at
    BY <1>1 DEF Ends, Open, Idle, WinnersInv, SlotsInv, TxInv
<1>7. SlotsInv'
    <2>1. ASSUME NEW t \in Slots, Open(t)' PROVE SlotInv(tx'[t], requests', canonical')
        <3>1. SlotInv(tx[t], requests, canonical) /\ tx'[t] = tx[t]
            BY <1>6, <2>1 DEF WinnersInv, SlotsInv
        <3>2. \A k \in DOMAIN tx[t].wrote :
                 /\ k \in DOMAIN canonical' <=> k \in DOMAIN canonical
                 /\ k \in DOMAIN canonical => canonical'[k] = canonical[k]
            BY <1>3, <1>6, <2>1
        <3>3. requests \subseteq requests'
            BY <1>2
        <3>. QED  BY <3>1, <3>2, <3>3 DEF SlotInv, Holds
    <2>2. \A t, u \in Slots : t # u /\ Open(t)' /\ Open(u)' =>
             DOMAIN tx'[t].wrote \cap DOMAIN tx'[u].wrote = {}
        BY <1>6 DEF WinnersInv, SlotsInv
    <2>. QED  BY <2>1, <2>2 DEF SlotsInv
<1>8. RequestRows'
    <2>1. \A r \in requests' : LedgerRow(r) /\ r.at < clock'
        BY <1>1, <1>2, <1>4, <1>5 DEF Ends, WinnersInv, RequestRows
    <2>2. \A r \in requests', t \in Slots : Open(t)' => r.at # tx'[t].at
        BY <1>2, <1>5, <1>6 DEF WinnersInv, RequestRows
    <2>. QED  BY <1>2, <1>4, <2>1, <2>2 DEF RequestRows
<1>9. Standing(requests', canonical')
    <2>1. \A k \in DOMAIN m.wrote :
             /\ m.wrote[k].row \in requests' /\ m.wrote[k].row.rec.key = k
             /\ \A r \in m.rows : r.rec.key = k => AtLeast(m.wrote[k].row, r)
             /\ k \in DOMAIN canonical => AtLeast(m.wrote[k].row, canonical[k].row)
        BY <1>1, <1>2 DEF SlotInv, Holds
    <2>2. \A k \in DOMAIN canonical : canonical[k].row \in requests /\ canonical[k].row.rec.key = k
        BY DEF WinnersInv, Standing
    <2>3. \A r \in requests : r.rec.key \in DOMAIN canonical /\ AtLeast(canonical[r.rec.key].row, r)
        BY DEF WinnersInv, Standing
    <2>4. \A k \in DOMAIN canonical' : canonical'[k].row \in requests' /\ canonical'[k].row.rec.key = k
        BY <1>2, <1>3, <2>1, <2>2
    <2>5. \A r \in m.rows : r.rec.key \in DOMAIN canonical' /\ AtLeast(canonical'[r.rec.key].row, r)
        BY <1>3, <1>5, <2>1
    <2>6. ASSUME NEW r \in requests
          PROVE  r.rec.key \in DOMAIN canonical' /\ AtLeast(canonical'[r.rec.key].row, r)
        <3>. DEFINE k == r.rec.key
        <3>1. CASE k \in DOMAIN m.wrote
            <4>1. AtLeast(m.wrote[k].row, canonical[k].row) /\ AtLeast(canonical[k].row, r)
                BY <2>1, <2>3, <3>1
            <4>2. LedgerRow(m.wrote[k].row) /\ LedgerRow(canonical[k].row) /\ LedgerRow(r)
                BY <1>2, <1>4, <2>1, <2>2, <2>3, <3>1
            <4>3. AtLeast(m.wrote[k].row, r)
                BY <4>1, <4>2, AtLeastTransitive
            <4>. QED  BY <1>3, <3>1, <4>3
        <3>2. CASE k \notin DOMAIN m.wrote
            BY <1>3, <2>3, <3>2
        <3>. QED  BY <3>1, <3>2
    <2>. QED  BY <1>2, <2>4, <2>5, <2>6 DEF Standing
<1>. QED  BY <1>7, <1>8, <1>9 DEF WinnersInv

LEMMA WinnersAbort ==
    ASSUME WinnersInv, TxInv', NEW s \in Slots, Abort(s)
    PROVE  WinnersInv'
<1>1. Ends(s) /\ UNCHANGED <<requests, canonical>>
    BY EndEnds DEF WinnersInv, Abort, stored
<1>2. \A t \in Slots : Open(t)' => Open(t) /\ tx'[t] = tx[t]
    BY <1>1 DEF Ends, Open, Idle
<1>3. SlotsInv'
    BY <1>1, <1>2 DEF WinnersInv, SlotsInv
<1>4. RequestRows'
    BY <1>1, <1>2 DEF Ends, WinnersInv, RequestRows
<1>. QED  BY <1>1, <1>3, <1>4 DEF WinnersInv

LEMMA WinnersBegin ==
    ASSUME WinnersInv, TxInv', NEW s \in Slots, NEW e \in Envelopes, Begin(s, e)
    PROVE  WinnersInv'
<1>1. TxInv /\ Begins(s, e) /\ UNCHANGED <<requests, canonical>>
    BY BeginBegins DEF WinnersInv, Begin, stored
<1>2. SlotInv(tx'[s], requests, canonical)
    BY <1>1 DEF Begins, SlotInv
<1>3. \A t \in Slots \ {s} : tx'[t] = tx[t] /\ (Open(t)' <=> Open(t))
    BY <1>1 DEF Begins, Open
<1>4. SlotsInv'
    BY <1>1, <1>2, <1>3 DEF Begins, WinnersInv, SlotsInv
<1>5. RequestRows'
    <2>1. \A r \in requests : r.at \in Nat /\ r.at < clock
        BY DEF WinnersInv, RequestRows, LedgerRow
    <2>. QED  BY <1>1, <1>3, <2>1 DEF Begins, TxInv, WinnersInv, RequestRows
<1>. QED  BY <1>1, <1>4, <1>5 DEF WinnersInv

LEMMA WinnersStep ==
    ASSUME WinnersInv, [LedgerNext]_ledgerVars
    PROVE  WinnersInv'
<1>1. TxInv'
    BY TxStep DEF WinnersInv
<1>2. ASSUME UNCHANGED <<requests, canonical, tx, clock>> PROVE WinnersInv'
    BY <1>1, <1>2 DEF WinnersInv, SlotsInv, RequestRows, Open
<1>3. ASSUME NEW s \in Slots, StepOf(s) PROVE WinnersInv'
    BY <1>1, <1>3, WinnersElsewhere, WinnersInsert, WinnersSnapshot, WinnersUpsert,
       WinnersCommit, WinnersAbort, WinnersBegin DEF StepOf
<1>. QED  BY <1>2, <1>3 DEF LedgerNext, ChangeBinding, stored, ledgerVars

\* For every key of the request ledger, canonical_requests holds the revision
\* the canonical order prefers, however many ingests overlap, wait, abort or
\* post again, though each decides from a snapshot without the others' rows
\* (usage-canonical.ts, CANONICAL_GUARD arm 1).
THEOREM WinnersProjected ==
    ASSUME NEW initial, NEW begun \in Nat, NEW changed
    PROVE  LedgerSpec(initial, begun, changed) => []WinnersStand
<1>1. Fill(initial, begun, changed) => WinnersInv
    BY WinnersInit
<1>2. WinnersInv /\ [LedgerNext]_ledgerVars => WinnersInv'
    BY WinnersStep
<1>3. WinnersInv => WinnersStand
    <2>1. SUFFICES ASSUME WinnersInv, NEW row \in requests
                   PROVE  /\ row.rec.key \in DOMAIN canonical
                          /\ First(canonical[row.rec.key].row,
                                   {r \in requests : r.rec.key = row.rec.key}, Rank)
        BY DEF WinnersStand, StandsOver
    <2>2. /\ row.rec.key \in DOMAIN canonical
          /\ canonical[row.rec.key].row \in {r \in requests : r.rec.key = row.rec.key}
          /\ \A r \in {r \in requests : r.rec.key = row.rec.key} :
                AtLeast(canonical[row.rec.key].row, r)
        BY <2>1 DEF WinnersInv, Standing
    <2>. QED  BY <2>2 DEF First, AtLeast
<1>. QED  BY <1>1, <1>2, <1>3, PTL DEF LedgerSpec
-----------------------------------------------------------------------------
(* The registers.                                                          *)

NoOlder(r, q) == q = r \/ Above(Recency(r), Recency(q))

LEMMA NoOlderTransitive ==
    ASSUME NEW a, NEW b, NEW c, LedgerRow(a), LedgerRow(b), LedgerRow(c),
           NoOlder(a, b), NoOlder(b, c)
    PROVE  NoOlder(a, c)
<1>1. CASE a = b \/ b = c
    BY <1>1 DEF NoOlder
<1>2. CASE Above(Recency(a), Recency(b)) /\ Above(Recency(b), Recency(c))
    <2>1. /\ Recency(a) \in [1..3 -> Int] /\ Recency(b) \in [1..3 -> Int]
          /\ Recency(c) \in [1..3 -> Int]
        BY RecencyColumns
    <2>. QED  BY <1>2, <2>1, AboveTransitive DEF NoOlder
<1>. QED  BY <1>1, <1>2 DEF NoOlder

LEMMA NoOlderTotal ==
    ASSUME NEW a, NEW b, LedgerRow(a), LedgerRow(b),
           a.at = b.at /\ a.rec.id = b.rec.id => a = b, ~Above(Recency(a), Recency(b))
    PROVE  NoOlder(b, a)
<1>1. /\ Recency(a) \in [1..3 -> Int] /\ Recency(a)[2] = a.at /\ Recency(a)[3] = a.rec.id
      /\ Recency(b) \in [1..3 -> Int] /\ Recency(b)[2] = b.at /\ Recency(b)[3] = b.rec.id
    BY RecencyColumns
<1>2. Recency(a) = Recency(b) \/ Above(Recency(b), Recency(a))
    BY <1>1, AboveTotal
<1>. QED  BY <1>1, <1>2 DEF NoOlder

LEMMA NotAboveItself ==
    ASSUME NEW a, NEW b, LedgerRow(a), LedgerRow(b),
           Above(Recency(a), Recency(b)), Above(Recency(b), Recency(a))
    PROVE  FALSE
<1>1. Recency(a) \in [1..3 -> Int] /\ Recency(b) \in [1..3 -> Int]
    BY RecencyColumns
<1>2. Above(Recency(a), Recency(a))
    BY <1>1, AboveTransitive
<1>. QED  BY <1>1, <1>2 DEF Above

Apart(rows) ==
    /\ \A r \in rows : LedgerRow(r)
    /\ \A r, q \in rows : r.at = q.at /\ r.rec.id = q.rec.id => r = q

\* A finite set of rows has a latest one.
LEMMA LatestExists ==
    ASSUME NEW rows, Apart(rows), IsFiniteSet(rows), rows # {}
    PROVE  Latest(rows) # {}
<1>. DEFINE f == [r \in rows |-> Recency(r)]
<1>1. \A r \in rows : f[r] \in [1..3 -> Int]
    BY RecencyColumns DEF Apart
<1>2. PICK w \in rows : \A q \in rows : f[q] = f[w] \/ Above(f[w], f[q])
    <2>. HIDE DEF f
    <2>. QED  BY <1>1, Topmost
<1>3. \A q \in rows : q = w \/ Above(Recency(w), Recency(q))
    <2>1. \A q \in rows : LedgerRow(q) /\ Recency(q)[2] = q.at /\ Recency(q)[3] = q.rec.id
        BY RecencyColumns DEF Apart
    <2>. QED  BY <1>2, <2>1 DEF Apart
<1>. QED  BY <1>3 DEF Latest, First

LEMMA LatestIs ==
    ASSUME NEW rows, Apart(rows)
    PROVE  /\ Latest(rows) \subseteq rows
           /\ \A w \in Latest(rows), r \in rows : NoOlder(w, r)
           /\ \A v, w \in Latest(rows) : v = w
<1>1. Latest(rows) \subseteq rows /\ \A w \in Latest(rows), r \in rows : NoOlder(w, r)
    BY DEF Latest, First, NoOlder
<1>. QED  BY <1>1, NotAboveItself DEF NoOlder, Apart
\* Every row of old has one in new that is no older.
Covers(new, old) == \A o \in old : \E w \in new : NoOlder(w, o)
AtMostOne(S) == \A v, w \in S : v = w

LEMMA CoversTransitive ==
    ASSUME NEW A, NEW B, NEW C, \A r \in A \cup B \cup C : LedgerRow(r),
           Covers(A, B), Covers(B, C)
    PROVE  Covers(A, C)
BY NoOlderTransitive DEF Covers

\* registerGuard: the register it leaves covers what it held and the candidate.
LEMMA GuardKeepsTheNewer ==
    ASSUME NEW c, NEW o, Apart(c \cup o)
    PROVE  Covers(IF Newer(c, o) THEN c ELSE o, c) /\ Covers(IF Newer(c, o) THEN c ELSE o, o)
<1>1. CASE Newer(c, o)
    BY <1>1 DEF Newer, Covers, NoOlder
<1>2. CASE ~Newer(c, o)
    <2>1. \A x \in c : \E y \in o : ~Above(Recency(x), Recency(y))
        BY <1>2 DEF Newer
    <2>2. \A x \in c, y \in o : ~Above(Recency(x), Recency(y)) => NoOlder(y, x)
        BY NoOlderTotal DEF Apart
    <2>. QED  BY <1>2, <2>1, <2>2 DEF Covers, NoOlder
<1>. QED  BY <1>1, <1>2

Kind(reg) == IF reg = "inv" THEN "invocation" ELSE "result"
Both == {"inv", "res"}

CarriedEvents(m) ==
    {r \in Records[m.env] : ~Rejected(m.owned, r) /\ r.kind \in {"invocation", "result"}}
EventKeys(m) == {r.key : r \in CarriedEvents(m)}
EventRows(m) == {[rec |-> r, at |-> m.at] : r \in CarriedEvents(m)}
OfRegister(rows, k, reg) == {r \in rows : r.rec.key = k /\ r.rec.kind = Kind(reg)}

LEMMA EventsAre ==
    ASSUME NEW s \in Slots
    PROVE  /\ KeysOf(s, {"invocation", "result"}) = EventKeys(tx[s])
           /\ RowsOf(s, {"invocation", "result"}) = EventRows(tx[s])
<1>1. KeptOf(s, {"invocation", "result"}) = CarriedEvents(tx[s])
    BY DEF KeptOf, Kept, CarriedEvents
<1>. QED  BY <1>1 DEF KeysOf, RowsOf, EventKeys, EventRows

\* A pair of registers of key k: each holds one row of its kind at most, and
\* covers those among rows.
Filled(pair, k, all, rows) ==
    \A reg \in Both :
        /\ pair[reg] \subseteq OfRegister(all, k, reg) /\ AtMostOne(pair[reg])
        /\ Covers(pair[reg], OfRegister(rows, k, reg))

EventSlot(m, evs, pairs) ==
    /\ m.ev \subseteq EventRows(m)
    /\ m.pc \in {"identities", "requests", "project", "upsert", "ledgers"} => m.ev = {}
    /\ m.pc \in {"identities", "requests", "project", "upsert", "ledgers", "registers"} =>
          DOMAIN m.regs = {}
    /\ m.pc = "tools" =>
          /\ EventKeys(m) \subseteq DOMAIN m.cand
          /\ \A k \in DOMAIN m.cand : k \in Nat /\ Filled(m.cand[k], k, evs \cup m.ev, m.ev)
    /\ m.pc \in {"side", "commit"} => EventKeys(m) \subseteq DOMAIN m.regs
    /\ \A k \in DOMAIN m.regs :
          /\ Filled(m.regs[k], k, evs \cup m.ev, m.ev)
          /\ k \in DOMAIN pairs => \A reg \in Both : Covers(m.regs[k][reg], pairs[k][reg])

EventSlots ==
    /\ \A s \in Slots : Open(s) => EventSlot(tx[s], events, invocations)
    /\ \A s, t \in Slots : s # t /\ Open(s) /\ Open(t) =>
          DOMAIN tx[s].regs \cap DOMAIN tx[t].regs = {}

StoredEvents ==
    /\ Apart(events) /\ IsFiniteSet(events)
    /\ \A r \in events : r.at < clock /\ r.rec.kind \in {"invocation", "result"}
    /\ \A r \in events, s \in Slots : Open(s) => r.at # tx[s].at

Registered(evs, pairs) ==
    /\ \A k \in DOMAIN pairs : Filled(pairs[k], k, evs, evs)
    /\ \A r \in evs : r.rec.key \in DOMAIN pairs

RegistersInv == TxInv /\ EventSlots /\ StoredEvents /\ Registered(events, invocations)

LEMMA OwnEvents ==
    ASSUME NEW m, m.env \in Envelopes, m.at \in Nat, m.ev \subseteq EventRows(m)
    PROVE  /\ \A r \in m.ev : r.at = m.at /\ r.rec.key \in EventKeys(m)
                              /\ r.rec.kind \in {"invocation", "result"}
           /\ Apart(m.ev) /\ IsFiniteSet(m.ev)
<1>1. \A r \in m.ev : \E x \in CarriedEvents(m) : r = [rec |-> x, at |-> m.at]
    BY DEF EventRows
<1>2. \A x \in CarriedEvents(m) : /\ x \in Records[m.env] /\ x.key \in EventKeys(m)
                                  /\ x.kind \in {"invocation", "result"}
    BY DEF CarriedEvents, EventKeys
<1>3. \A r \in m.ev : /\ r.rec \in CarriedEvents(m) /\ r = [rec |-> r.rec, at |-> m.at]
                      /\ r.at = m.at
    BY <1>1
<1>4. \A x, y \in CarriedEvents(m) : x.id = y.id => x = y
    BY <1>2, RecordsAssumption
<1>5. \A r, q \in m.ev : r.rec.id = q.rec.id => r = q
    BY <1>3, <1>4
<1>6. \A r \in m.ev : LedgerRow(r)
    BY <1>2, <1>3 DEF LedgerRow
<1>7. IsFiniteSet(m.ev)
    <2>1. IsFiniteSet(CarriedEvents(m))
        <3>1. IsFiniteSet(Records[m.env])
            BY RecordsAssumption
        <3>. QED  BY <3>1, FS_Subset DEF CarriedEvents
    <2>2. IsFiniteSet(EventRows(m))
        <3>. DEFINE row == [x \in CarriedEvents(m) |-> [rec |-> x, at |-> m.at]]
        <3>1. row \in Surjection(CarriedEvents(m), EventRows(m))
            BY DEF Surjection, EventRows
        <3>. QED  BY <2>1, <3>1, FS_Surjection
    <2>. QED  BY <2>2, FS_Subset
<1>. QED  BY <1>2, <1>3, <1>5, <1>6, <1>7 DEF Apart

LEMMA AllEvents ==
    ASSUME RegistersInv, NEW s \in Slots, Open(s)
    PROVE  Apart(events \cup tx[s].ev) /\ IsFiniteSet(events \cup tx[s].ev)
<1>1. tx[s].env \in Envelopes /\ tx[s].at \in Nat /\ tx[s].ev \subseteq EventRows(tx[s])
    BY DEF RegistersInv, TxInv, EventSlots, EventSlot
<1>2. (\A r \in tx[s].ev : r.at = tx[s].at) /\ Apart(tx[s].ev) /\ IsFiniteSet(tx[s].ev)
    BY <1>1, OwnEvents
<1>3. Apart(events) /\ IsFiniteSet(events) /\ \A r \in events : r.at # tx[s].at
    BY DEF RegistersInv, StoredEvents
<1>4. IsFiniteSet(events \cup tx[s].ev)
    BY <1>2, <1>3, FS_Union
<1>. QED  BY <1>2, <1>3, <1>4 DEF Apart

LEMMA RegistersInit ==
    ASSUME NEW initial, NEW begun \in Nat, NEW changed, Fill(initial, begun, changed)
    PROVE  RegistersInv
<1>1. TxInv
    BY TxInit
<1>2. \A s \in Slots : ~Open(s)
    BY DEF Fill, Open, Idle
<1>3. events = {} /\ DOMAIN invocations = {} /\ IsFiniteSet({})
    BY FS_EmptySet DEF Fill, Empty
<1>. QED  BY <1>1, <1>2, <1>3 DEF RegistersInv, EventSlots, StoredEvents, Registered, Apart

LEMMA RegistersFrame ==
    ASSUME RegistersInv, TxInv', NEW s \in Slots, Moves(s), UNCHANGED <<events, invocations>>,
           EventSlot(tx'[s], events, invocations),
           \A t \in Slots \ {s} : Open(t) => DOMAIN tx'[s].regs \cap DOMAIN tx[t].regs = {}
    PROVE  RegistersInv'
<1>1. \A t \in Slots : Open(t)' => Open(t)
    BY DEF Moves, Open
<1>2. \A t \in Slots : Open(t)' => EventSlot(tx'[t], events, invocations)
    BY <1>1 DEF Moves, RegistersInv, EventSlots
<1>3. \A t \in Slots : tx'[t].at = tx[t].at
    BY DEF Moves
<1>4. \A t, u \in Slots : t # u /\ Open(t)' /\ Open(u)' =>
         DOMAIN tx'[t].regs \cap DOMAIN tx'[u].regs = {}
    <2>1. \A t, u \in Slots \ {s} : t # u /\ Open(t)' /\ Open(u)' =>
             DOMAIN tx'[t].regs \cap DOMAIN tx'[u].regs = {}
        BY <1>1 DEF Moves, RegistersInv, EventSlots
    <2>2. \A t \in Slots \ {s} : Open(t)' => DOMAIN tx'[s].regs \cap DOMAIN tx'[t].regs = {}
        BY <1>1 DEF Moves
    <2>. QED  BY <2>1, <2>2
<1>5. EventSlots'
    BY <1>2, <1>4 DEF EventSlots
<1>6. StoredEvents'
    BY <1>1, <1>3 DEF Moves, RegistersInv, StoredEvents, Apart, LedgerRow
<1>. QED  BY <1>5, <1>6 DEF RegistersInv
\* The steps that leave events and their projection alone.
LEMMA RegistersElsewhere ==
    ASSUME RegistersInv, TxInv', NEW s \in Slots,
           \/ ObserveIdentities(s) \/ InsertRequests(s) \/ StartProjection(s)
           \/ UpsertCanonical(s) \/ ApplySide(s)
    PROVE  RegistersInv'
<1>. DEFINE m == tx[s]
            n == tx'[s]
            early == {"identities", "requests", "project", "upsert", "ledgers"}
            Aside == /\ n.ev = m.ev /\ n.regs = m.regs
                     /\ \/ m.pc \in early /\ n.pc \in early
                        \/ m.pc = "side" /\ n.pc = "commit"
<1>1. TxInv /\ Moves(s) /\ UNCHANGED <<events, invocations>>
    BY StepMoves DEF RegistersInv, ObserveIdentities, InsertRequests, StartProjection,
       UpsertCanonical, ApplySide, stored
<1>2. Aside
    <2>. USE <1>1 DEF TxInv, Fields, Open, Step, Moves
    <2>1. ASSUME ObserveIdentities(s) PROVE Aside
        BY <2>1 DEF ObserveIdentities
    <2>2. ASSUME InsertRequests(s) PROVE Aside
        BY <2>2 DEF InsertRequests
    <2>3. ASSUME StartProjection(s) PROVE Aside
        <3>1. m.pc = "project" /\ \E c : tx' = [tx EXCEPT ![s].pc = "upsert", ![s].cand = c]
            BY <2>3, SnapshotIs
        <3>. QED  BY <3>1
    <2>4. ASSUME UpsertCanonical(s) PROVE Aside
        <3>1. \/ tx' = [tx EXCEPT ![s].pc = "ledgers"]
              \/ \E w : tx' = [tx EXCEPT ![s].wrote = w]
            BY <2>4 DEF UpsertCanonical
        <3>. QED  BY <2>4, <3>1 DEF UpsertCanonical
    <2>5. ASSUME ApplySide(s) PROVE Aside
        <3>1. PICK x, d : tx' = [tx EXCEPT ![s].pc = "commit", ![s].names = x, ![s].deferred = d]
            BY <2>5, SideIs
        <3>2. tx[s].pc = "side"
            BY <2>5, SideIs
        <3>. QED  BY <3>1, <3>2
    <2>. QED  BY <2>1, <2>2, <2>3, <2>4, <2>5
<1>3. /\ EventKeys(n) = EventKeys(m) /\ EventRows(n) = EventRows(m)
    BY <1>1 DEF Moves, EventKeys, EventRows, CarriedEvents
<1>4. EventSlot(m, events, invocations)
    BY <1>1 DEF RegistersInv, EventSlots, Moves
<1>5. EventSlot(n, events, invocations)
    BY <1>2, <1>3, <1>4 DEF EventSlot
<1>6. \A t \in Slots \ {s} : Open(t) => DOMAIN n.regs \cap DOMAIN tx[t].regs = {}
    BY <1>1, <1>2 DEF RegistersInv, EventSlots, Moves
<1>. QED  BY <1>1, <1>5, <1>6, RegistersFrame

LEMMA RegistersInsert ==
    ASSUME RegistersInv, TxInv', NEW s \in Slots, InsertLedgers(s)
    PROVE  RegistersInv'
<1>. DEFINE m == tx[s]
            n == tx'[s]
<1>1. TxInv /\ Moves(s) /\ UNCHANGED <<events, invocations>>
    BY StepMoves DEF RegistersInv, InsertLedgers, stored
<1>2. /\ m.pc = "ledgers" /\ n.pc = "registers" /\ n.regs = m.regs
      /\ n.ev = Fresh(RowsOf(s, {"invocation", "result"}), events)
    BY <1>1 DEF InsertLedgers, TxInv, Fields, Step, Moves
<1>3. n.ev \subseteq EventRows(m)
    BY <1>2, EventsAre DEF Fresh
<1>4. EventRows(n) = EventRows(m)
    BY <1>1 DEF Moves, EventRows, CarriedEvents
<1>5. EventSlot(m, events, invocations)
    BY <1>1 DEF RegistersInv, EventSlots, Moves
<1>6. EventSlot(n, events, invocations)
    BY <1>2, <1>3, <1>4, <1>5 DEF EventSlot
<1>7. \A t \in Slots \ {s} : Open(t) => DOMAIN n.regs \cap DOMAIN tx[t].regs = {}
    BY <1>1, <1>2 DEF RegistersInv, EventSlots, Moves
<1>. QED  BY <1>1, <1>6, <1>7, RegistersFrame

\* Of all rows of a key, each register takes the latest of its kind.
LEMMA RegistersFill ==
    ASSUME NEW all, NEW rows, NEW k, rows \subseteq all, Apart(all), IsFiniteSet(all)
    PROVE  Filled(Registers({r \in all : r.rec.key = k}), k, all, rows)
<1>. DEFINE of(kind) == {r \in {x \in all : x.rec.key = k} : r.rec.kind = kind}
<1>1. ASSUME NEW reg \in Both
      PROVE  /\ Latest(of(Kind(reg))) \subseteq OfRegister(all, k, reg)
             /\ AtMostOne(Latest(of(Kind(reg))))
             /\ Covers(Latest(of(Kind(reg))), OfRegister(rows, k, reg))
    <2>. DEFINE S == of(Kind(reg))
    <2>1. S \subseteq all /\ S = OfRegister(all, k, reg) /\ OfRegister(rows, k, reg) \subseteq S
        BY DEF OfRegister
    <2>2. Apart(S) /\ IsFiniteSet(S)
        BY <2>1, FS_Subset DEF Apart
    <2>. HIDE DEF S
    <2>3. /\ Latest(S) \subseteq S /\ AtMostOne(Latest(S))
          /\ \A w \in Latest(S), r \in S : NoOlder(w, r)
        BY <2>2, LatestIs DEF AtMostOne
    <2>4. S # {} => Latest(S) # {}
        BY <2>2, LatestExists
    <2>5. Covers(Latest(S), OfRegister(rows, k, reg))
        BY <2>1, <2>3, <2>4 DEF Covers
    <2>. QED  BY <2>1, <2>3, <2>5 DEF S
<1>2. /\ Registers({r \in all : r.rec.key = k})["inv"] = Latest(of("invocation"))
      /\ Registers({r \in all : r.rec.key = k})["res"] = Latest(of("result"))
    BY DEF Registers
<1>3. /\ Both = {"inv", "res"} /\ Kind("inv") = "invocation" /\ Kind("res") = "result"
    BY DEF Both, Kind
<1>. HIDE DEF of
<1>4. \A reg \in Both : Registers({r \in all : r.rec.key = k})[reg] = Latest(of(Kind(reg)))
    BY <1>2, <1>3
<1>. QED  BY <1>1, <1>4 DEF Filled

LEMMA RegistersSnapshot ==
    ASSUME RegistersInv, TxInv', NEW s \in Slots, StartRegisters(s)
    PROVE  RegistersInv'
<1>. DEFINE m == tx[s]
            n == tx'[s]
            keys == KeysOf(s, {"invocation", "result"})
<1>1. TxInv /\ Moves(s) /\ UNCHANGED <<events, invocations>>
    BY StepMoves DEF RegistersInv, StartRegisters, stored
<1>2. m.pc = "registers" /\ Open(s)
    BY DEF StartRegisters, Step, Open
<1>3. /\ n.pc = "tools" /\ n.regs = m.regs /\ n.ev = m.ev /\ DOMAIN n.cand = keys
      /\ \A k \in keys : n.cand[k] = Registers({r \in events \cup m.ev : r.rec.key = k})
    BY <1>1, <1>2 DEF StartRegisters, TxInv, Fields
<1>4. \A k \in keys : Filled(n.cand[k], k, events \cup n.ev, n.ev)
    <2>. DEFINE all == events \cup m.ev
    <2>1. Apart(all) /\ IsFiniteSet(all)
        BY <1>2, AllEvents
    <2>2. m.ev \subseteq all
        OBVIOUS
    <2>. HIDE DEF all
    <2>3. \A k \in keys : Filled(Registers({r \in all : r.rec.key = k}), k, all, m.ev)
        BY <2>1, <2>2, RegistersFill
    <2>. QED  BY <1>3, <2>3 DEF all
<1>5. keys = EventKeys(n) /\ EventKeys(n) = EventKeys(m) /\ EventRows(n) = EventRows(m)
    BY <1>1, EventsAre DEF Moves, EventRows, EventKeys, CarriedEvents
<1>6. keys \subseteq Nat
    BY <1>1, <1>2, RecordsAssumption DEF TxInv, KeysOf, KeptOf, Kept
<1>7. EventSlot(m, events, invocations)
    BY <1>2 DEF RegistersInv, EventSlots
<1>8. EventSlot(n, events, invocations)
    BY <1>2, <1>3, <1>4, <1>5, <1>6, <1>7 DEF EventSlot
<1>9. \A t \in Slots \ {s} : Open(t) => DOMAIN n.regs \cap DOMAIN tx[t].regs = {}
    BY <1>2, <1>3 DEF RegistersInv, EventSlots
<1>. QED  BY <1>1, <1>8, <1>9, RegistersFrame
LEMMA RegistersUpsert ==
    ASSUME RegistersInv, TxInv', NEW s \in Slots, UpsertRegisters(s)
    PROVE  RegistersInv'
<1>. DEFINE m == tx[s]
            n == tx'[s]
            todo == DOMAIN m.cand \ DOMAIN m.regs
            all == events \cup m.ev
<1>1. TxInv /\ Moves(s) /\ UNCHANGED <<events, invocations>>
    BY StepMoves DEF RegistersInv, UpsertRegisters, stored
<1>2. /\ m.pc = "tools" /\ Open(s) /\ EventSlot(m, events, invocations)
    BY DEF UpsertRegisters, Step, Open, RegistersInv, EventSlots
<1>3. EventKeys(n) = EventKeys(m) /\ EventRows(n) = EventRows(m)
    BY <1>1 DEF Moves, EventRows, EventKeys, CarriedEvents
<1>4. CASE todo = {}
    <2>1. tx' = [tx EXCEPT ![s].pc = "side"]
        BY <1>4 DEF UpsertRegisters
    <2>2. n.pc = "side" /\ n.ev = m.ev /\ n.regs = m.regs
        BY <1>1, <1>2, <2>1 DEF TxInv, Fields
    <2>3. EventKeys(m) \subseteq DOMAIN m.regs
        BY <1>2, <1>4 DEF EventSlot
    <2>4. EventSlot(n, events, invocations)
        BY <1>2, <1>3, <2>2, <2>3 DEF EventSlot
    <2>5. \A t \in Slots \ {s} : Open(t) => DOMAIN n.regs \cap DOMAIN tx[t].regs = {}
        BY <1>2, <2>2 DEF RegistersInv, EventSlots
    <2>. QED  BY <1>1, <2>4, <2>5, RegistersFrame
<1>5. CASE todo # {}
    <2>. DEFINE k == Min(todo)
                cand == m.cand[k]
                new == IF k \in DOMAIN invocations THEN MergedRegisters(cand, invocations[k])
                                                   ELSE cand
    <2>1. k \in todo
        <3>1. todo \subseteq Nat
            BY <1>2 DEF EventSlot
        <3>. QED  BY <1>5, <3>1, LeastOf
    <2>2. /\ ~Blocked(s, "regs", {k})
          /\ tx' = [tx EXCEPT ![s].regs = Over([x \in {k} |-> new], m.regs)]
        BY <1>5 DEF UpsertRegisters
    <2>3. Filled(cand, k, all, m.ev)
        BY <1>2, <2>1 DEF EventSlot
    <2>4. k \in DOMAIN invocations => Filled(invocations[k], k, all, events)
        <3>1. k \in DOMAIN invocations => Filled(invocations[k], k, events, events)
            BY DEF RegistersInv, Registered
        <3>2. \A reg \in Both : OfRegister(events, k, reg) \subseteq OfRegister(all, k, reg)
            BY DEF OfRegister
        <3>. HIDE DEF k, all
        <3>. QED  BY <3>1, <3>2 DEF Filled
    <2>5. Apart(all)
        BY <1>2, AllEvents
    <2>. HIDE DEF k, cand, todo, all
    <2>6. ASSUME NEW reg \in Both
          PROVE  /\ new[reg] \subseteq OfRegister(all, k, reg) /\ AtMostOne(new[reg])
                 /\ Covers(new[reg], OfRegister(m.ev, k, reg))
                 /\ k \in DOMAIN invocations => Covers(new[reg], invocations[k][reg])
        <3>1. /\ cand[reg] \subseteq OfRegister(all, k, reg) /\ AtMostOne(cand[reg])
              /\ Covers(cand[reg], OfRegister(m.ev, k, reg))
            BY <2>3 DEF Filled
        <3>2. CASE k \in DOMAIN invocations
            <4>. DEFINE c == cand[reg]
                        o == invocations[k][reg]
                        w == IF Newer(c, o) THEN c ELSE o
                        mine == OfRegister(m.ev, k, reg)
            <4>1. new[reg] = w
                BY <3>2 DEF MergedRegisters, Both
            <4>2. o \subseteq OfRegister(all, k, reg) /\ AtMostOne(o)
                BY <2>4, <3>2 DEF Filled
            <4>3. c \cup o \subseteq all
                BY <3>1, <4>2 DEF OfRegister
            <4>4. Apart(c \cup o)
                BY <2>5, <4>3 DEF Apart
            <4>5. mine \subseteq all
                BY DEF OfRegister, all
            <4>. HIDE DEF c, o, mine
            <4>6. Covers(w, c) /\ Covers(w, o)
                BY <4>4, GuardKeepsTheNewer
            <4>7. \A r \in w \cup c \cup mine : LedgerRow(r)
                BY <2>5, <4>3, <4>5 DEF Apart
            <4>8. Covers(w, mine)
                BY <3>1, <4>6, <4>7, CoversTransitive DEF c, mine
            <4>. QED  BY <3>1, <3>2, <4>1, <4>2, <4>6, <4>8 DEF c, o, mine
        <3>3. CASE k \notin DOMAIN invocations
            BY <3>1, <3>3
        <3>. QED  BY <3>2, <3>3
    <2>. HIDE DEF new
    <2>7. /\ n.pc = "tools" /\ n.ev = m.ev /\ n.cand = m.cand
          /\ n.regs = Over([x \in {k} |-> new], m.regs)
        BY <1>1, <1>2, <2>2 DEF TxInv, Fields
    <2>8. /\ DOMAIN n.regs = {k} \cup DOMAIN m.regs /\ n.regs[k] = new
          /\ \A j \in DOMAIN m.regs : j # k => n.regs[j] = m.regs[j]
        BY <2>7 DEF Over
    <2>9. Filled(new, k, all, m.ev)
        BY <2>6 DEF Filled
    <2>10. \A j \in DOMAIN n.regs :
              /\ Filled(n.regs[j], j, all, m.ev)
              /\ j \in DOMAIN invocations => \A reg \in Both : Covers(n.regs[j][reg], invocations[j][reg])
        <3>1. \A j \in DOMAIN m.regs :
              /\ Filled(m.regs[j], j, all, m.ev)
              /\ j \in DOMAIN invocations => \A reg \in Both : Covers(m.regs[j][reg], invocations[j][reg])
            BY <1>2 DEF EventSlot, all
        <3>. QED  BY <2>6, <2>8, <2>9, <3>1
    <2>11. EventSlot(n, events, invocations)
        BY <1>2, <1>3, <2>7, <2>10 DEF EventSlot, all
    <2>12. \A t \in Slots \ {s} : Open(t) => DOMAIN n.regs \cap DOMAIN tx[t].regs = {}
        <3>1. \A t \in Slots \ {s} : Open(t) => k \notin DOMAIN tx[t].regs
            BY <2>2 DEF Blocked, Peers
        <3>. QED  BY <1>2, <2>8, <3>1 DEF RegistersInv, EventSlots
    <2>. QED  BY <1>1, <2>11, <2>12, RegistersFrame
<1>. QED  BY <1>4, <1>5
LEMMA RegistersCommit ==
    ASSUME RegistersInv, TxInv', NEW s \in Slots, Commit(s)
    PROVE  RegistersInv'
<1>. DEFINE m == tx[s]
            all == events \cup m.ev
<1>1. /\ TxInv /\ Ends(s) /\ m.pc = "commit" /\ Open(s) /\ EventSlot(m, events, invocations)
      /\ m.env \in Envelopes /\ m.at \in Nat /\ m.at < clock /\ clock \in Nat
    BY EndEnds DEF RegistersInv, EventSlots, TxInv, Commit, Step, Open
<1>2. events' = all /\ invocations' = Over(m.regs, invocations)
    BY DEF Commit
<1>3. /\ DOMAIN invocations' = DOMAIN m.regs \cup DOMAIN invocations
      /\ \A k \in DOMAIN m.regs : invocations'[k] = m.regs[k]
      /\ \A k \in DOMAIN invocations \ DOMAIN m.regs : invocations'[k] = invocations[k]
    BY <1>2 DEF Over
<1>4. Apart(all) /\ IsFiniteSet(all)
    BY <1>1, AllEvents
<1>5. \A r \in m.ev : /\ r.at = m.at /\ r.rec.key \in DOMAIN m.regs
                      /\ r.rec.kind \in {"invocation", "result"}
    <2>1. m.ev \subseteq EventRows(m) /\ EventKeys(m) \subseteq DOMAIN m.regs
        BY <1>1 DEF EventSlot
    <2>. QED  BY <1>1, <2>1, OwnEvents
<1>6. \A t \in Slots : Open(t)' => /\ t # s /\ Open(t) /\ tx'[t] = tx[t]
                                   /\ DOMAIN m.regs \cap DOMAIN tx[t].regs = {}
                                   /\ tx[t].at # m.at
    BY <1>1 DEF Ends, Open, Idle, RegistersInv, EventSlots, TxInv
<1>. HIDE DEF all
<1>7. EventSlots'
    <2>1. ASSUME NEW t \in Slots, Open(t)' PROVE EventSlot(tx'[t], events', invocations')
        <3>1. EventSlot(tx[t], events, invocations) /\ tx'[t] = tx[t]
            BY <1>6, <2>1 DEF RegistersInv, EventSlots
        <3>2. \A k \in DOMAIN tx[t].regs :
                 /\ k \in DOMAIN invocations' <=> k \in DOMAIN invocations
                 /\ k \in DOMAIN invocations => invocations'[k] = invocations[k]
            BY <1>3, <1>6, <2>1
        <3>3. events \subseteq events'
            BY <1>2 DEF all
        <3>4. \A pair, k : Filled(pair, k, events \cup tx[t].ev, tx[t].ev)
                              => Filled(pair, k, events' \cup tx[t].ev, tx[t].ev)
            BY <3>3 DEF Filled, OfRegister
        <3>. QED  BY <3>1, <3>2, <3>4 DEF EventSlot
    <2>2. \A t, u \in Slots : t # u /\ Open(t)' /\ Open(u)' =>
             DOMAIN tx'[t].regs \cap DOMAIN tx'[u].regs = {}
        BY <1>6 DEF RegistersInv, EventSlots
    <2>. QED  BY <2>1, <2>2 DEF EventSlots
<1>8. StoredEvents'
    <2>1. Apart(events') /\ IsFiniteSet(events')
        BY <1>2, <1>4
    <2>2. \A r \in events' : r.at < clock' /\ r.rec.kind \in {"invocation", "result"}
        BY <1>1, <1>2, <1>5 DEF Ends, RegistersInv, StoredEvents, all
    <2>3. \A r \in events', t \in Slots : Open(t)' => r.at # tx'[t].at
        BY <1>2, <1>5, <1>6 DEF RegistersInv, StoredEvents, all
    <2>. QED  BY <2>1, <2>2, <2>3 DEF StoredEvents, Apart, LedgerRow
<1>9. Registered(all, invocations')
    <2>1. \A k \in DOMAIN m.regs :
             /\ Filled(m.regs[k], k, all, m.ev)
             /\ k \in DOMAIN invocations => \A reg \in Both : Covers(m.regs[k][reg], invocations[k][reg])
        BY <1>1 DEF EventSlot, all
    <2>2. /\ \A k \in DOMAIN invocations : Filled(invocations[k], k, events, events)
          /\ \A r \in events : r.rec.key \in DOMAIN invocations
        BY DEF RegistersInv, Registered
    <2>3. ASSUME NEW k \in DOMAIN m.regs PROVE Filled(m.regs[k], k, all, all)
        <3>1. SUFFICES ASSUME NEW reg \in Both
                       PROVE  Covers(m.regs[k][reg], OfRegister(all, k, reg))
            BY <2>1, <2>3 DEF Filled
        <3>. DEFINE new == m.regs[k][reg]
                    was == invocations[k][reg]
                    old == OfRegister(events, k, reg)
        <3>2. new \subseteq all /\ Covers(new, OfRegister(m.ev, k, reg))
            BY <2>1, <2>3 DEF Filled, OfRegister
        <3>3. Covers(new, old)
            <4>1. CASE k \in DOMAIN invocations
                <5>1. Covers(new, was) /\ Covers(was, old) /\ was \subseteq events
                    BY <2>1, <2>2, <2>3, <4>1 DEF Filled, OfRegister
                <5>2. \A r \in new \cup was \cup old : LedgerRow(r)
                    BY <1>4, <3>2, <5>1 DEF Apart, OfRegister, all
                <5>. HIDE DEF new, was, old
                <5>. QED  BY <5>1, <5>2, CoversTransitive
            <4>2. CASE k \notin DOMAIN invocations
                <5>1. old = {}
                    BY <2>2, <4>2 DEF OfRegister
                <5>. QED  BY <5>1 DEF Covers
            <4>. QED  BY <4>1, <4>2
        <3>4. OfRegister(all, k, reg) = old \cup OfRegister(m.ev, k, reg)
            BY DEF OfRegister, all
        <3>. QED  BY <3>2, <3>3, <3>4 DEF Covers
    <2>4. ASSUME NEW k \in DOMAIN invocations \ DOMAIN m.regs
          PROVE  Filled(invocations[k], k, all, all)
        <3>1. \A reg \in Both : OfRegister(all, k, reg) = OfRegister(events, k, reg)
            BY <1>5, <2>4 DEF OfRegister, all
        <3>. QED  BY <2>2, <2>4, <3>1 DEF Filled
    <2>5. \A r \in all : r.rec.key \in DOMAIN invocations'
        BY <1>3, <1>5, <2>2 DEF all
    <2>. QED  BY <1>3, <2>3, <2>4, <2>5 DEF Registered
<1>. QED  BY <1>2, <1>7, <1>8, <1>9 DEF RegistersInv

LEMMA RegistersAbort ==
    ASSUME RegistersInv, TxInv', NEW s \in Slots, Abort(s)
    PROVE  RegistersInv'
<1>1. Ends(s) /\ UNCHANGED <<events, invocations>>
    BY EndEnds DEF RegistersInv, Abort, stored
<1>2. \A t \in Slots : Open(t)' => Open(t) /\ tx'[t] = tx[t]
    BY <1>1 DEF Ends, Open, Idle
<1>3. EventSlots'
    BY <1>1, <1>2 DEF RegistersInv, EventSlots
<1>4. StoredEvents'
    BY <1>1, <1>2 DEF Ends, RegistersInv, StoredEvents, Apart, LedgerRow
<1>. QED  BY <1>1, <1>3, <1>4 DEF RegistersInv

LEMMA RegistersBegin ==
    ASSUME RegistersInv, TxInv', NEW s \in Slots, NEW e \in Envelopes, Begin(s, e)
    PROVE  RegistersInv'
<1>1. TxInv /\ Begins(s, e) /\ UNCHANGED <<events, invocations>>
    BY BeginBegins DEF RegistersInv, Begin, stored
<1>2. EventSlot(tx'[s], events, invocations)
    BY <1>1 DEF Begins, EventSlot
<1>3. \A t \in Slots \ {s} : tx'[t] = tx[t] /\ (Open(t)' <=> Open(t))
    BY <1>1 DEF Begins, Open
<1>4. EventSlots'
    BY <1>1, <1>2, <1>3 DEF Begins, RegistersInv, EventSlots
<1>5. StoredEvents'
    <2>1. \A r \in events : r.at \in Nat /\ r.at < clock
        BY DEF RegistersInv, StoredEvents, Apart, LedgerRow
    <2>2. \A r \in events, t \in Slots : Open(t)' => r.at # tx'[t].at
        BY <1>1, <1>3, <2>1 DEF Begins, TxInv, RegistersInv, StoredEvents
    <2>. QED  BY <1>1, <2>1, <2>2 DEF Begins, TxInv, RegistersInv, StoredEvents, Apart, LedgerRow
<1>. QED  BY <1>1, <1>4, <1>5 DEF RegistersInv

LEMMA RegistersStep ==
    ASSUME RegistersInv, [LedgerNext]_ledgerVars
    PROVE  RegistersInv'
<1>1. TxInv'
    BY TxStep DEF RegistersInv
<1>2. ASSUME UNCHANGED <<events, invocations, tx, clock>> PROVE RegistersInv'
    BY <1>1, <1>2 DEF RegistersInv, EventSlots, StoredEvents, Open, Apart, LedgerRow
<1>3. ASSUME NEW s \in Slots, StepOf(s) PROVE RegistersInv'
    BY <1>1, <1>3, RegistersElsewhere, RegistersInsert, RegistersSnapshot, RegistersUpsert,
       RegistersCommit, RegistersAbort, RegistersBegin DEF StepOf
<1>. QED  BY <1>2, <1>3 DEF LedgerNext, ChangeBinding, stored, ledgerVars

\* Both registers of every tool call in the ledger hold its latest invocation
\* and its latest result, whichever envelope brought which, in whatever order
\* and overlap (registerGuard in usage-canonical.ts).
THEOREM RegistersProjected ==
    ASSUME NEW initial, NEW begun \in Nat, NEW changed
    PROVE  LedgerSpec(initial, begun, changed) => []RegistersStand
<1>1. Fill(initial, begun, changed) => RegistersInv
    BY RegistersInit
<1>2. RegistersInv /\ [LedgerNext]_ledgerVars => RegistersInv'
    BY RegistersStep
<1>3. RegistersInv => RegistersStand
    <2>. SUFFICES ASSUME RegistersInv PROVE RegistersStand
        OBVIOUS
    <2>1. ASSUME NEW k \in DOMAIN invocations, NEW reg \in Both, OfRegister(events, k, reg) # {}
          PROVE  \E w \in invocations[k][reg] : First(w, OfRegister(events, k, reg), Recency)
        <3>1. /\ invocations[k][reg] \subseteq OfRegister(events, k, reg)
              /\ AtMostOne(invocations[k][reg])
              /\ Covers(invocations[k][reg], OfRegister(events, k, reg))
            BY DEF RegistersInv, Registered, Filled
        <3>2. PICK w \in invocations[k][reg] : TRUE
            BY <2>1, <3>1 DEF Covers
        <3>3. w \in OfRegister(events, k, reg)
            BY <3>1
        <3>4. \A r \in OfRegister(events, k, reg) : NoOlder(w, r)
            BY <3>1, <3>2 DEF Covers, AtMostOne
        <3>. QED  BY <3>3, <3>4 DEF First, NoOlder
    <2>2. ASSUME NEW row \in events
          PROVE  /\ row.rec.key \in DOMAIN invocations
                 /\ {r \in events : r.rec.key = row.rec.key /\ r.rec.kind = "invocation"} # {} =>
                       StandsOver(invocations[row.rec.key].inv,
                           {r \in events : r.rec.key = row.rec.key /\ r.rec.kind = "invocation"}, Recency)
                 /\ {r \in events : r.rec.key = row.rec.key /\ r.rec.kind = "result"} # {} =>
                       StandsOver(invocations[row.rec.key].res,
                           {r \in events : r.rec.key = row.rec.key /\ r.rec.kind = "result"}, Recency)
        <3>. DEFINE k == row.rec.key
        <3>1. k \in DOMAIN invocations
            BY DEF RegistersInv, Registered
        <3>2. /\ OfRegister(events, k, "inv") = {r \in events : r.rec.key = k /\ r.rec.kind = "invocation"}
              /\ OfRegister(events, k, "res") = {r \in events : r.rec.key = k /\ r.rec.kind = "result"}
            BY DEF OfRegister, Kind
        <3>3. "inv" \in Both /\ "res" \in Both
            BY DEF Both
        <3>. HIDE DEF k
        <3>4. OfRegister(events, k, "inv") # {} =>
                 StandsOver(invocations[k].inv, OfRegister(events, k, "inv"), Recency)
            BY <2>1, <3>1, <3>3 DEF StandsOver
        <3>5. OfRegister(events, k, "res") # {} =>
                 StandsOver(invocations[k].res, OfRegister(events, k, "res"), Recency)
            BY <2>1, <3>1, <3>3 DEF StandsOver
        <3>. QED  BY <3>1, <3>2, <3>4, <3>5 DEF k
    <2>. QED  BY <2>2 DEF RegistersStand
<1>. QED  BY <1>1, <1>2, <1>3, PTL DEF LedgerSpec
-----------------------------------------------------------------------------
(* The spans of the project identities.                                    *)

Located(rec) == rec.basis \in {"native", "working_directory"}
Spans(ids, rec) ==
    /\ rec.project \in DOMAIN ids
    /\ ids[rec.project].first <= rec.ended /\ rec.ended <= ids[rec.project].last

\* What m will write spans the requests it carries and all that stands.
SeenInv(m, ids) ==
    /\ m.pc = "identities" => DOMAIN m.seen = {}
    /\ m.pc # "identities" => \A r \in Carried(m) : Located(r) => Spans(m.seen, r)
    /\ \A k \in DOMAIN m.seen :
          /\ m.seen[k].first \in Int /\ m.seen[k].last \in Int
          /\ k \in DOMAIN ids =>
                m.seen[k].first <= ids[k].first /\ ids[k].last <= m.seen[k].last

SpansInv ==
    /\ WinnersInv
    /\ \A s \in Slots : Open(s) => SeenInv(tx[s], identities)
    /\ \A s, t \in Slots : s # t /\ Open(s) /\ Open(t) =>
          DOMAIN tx[s].seen \cap DOMAIN tx[t].seen = {}
    /\ \A k \in DOMAIN identities : identities[k].first \in Int /\ identities[k].last \in Int
    /\ \A row \in requests : Located(row.rec) => Spans(identities, row.rec)

\* Every step but the first keeps what a transaction saw.
LEMMA SeenStays ==
    ASSUME TxInv, NEW s \in Slots,
           \/ InsertRequests(s) \/ StartProjection(s) \/ UpsertCanonical(s)
           \/ InsertLedgers(s) \/ StartRegisters(s) \/ UpsertRegisters(s) \/ ApplySide(s)
    PROVE  /\ tx'[s].seen = tx[s].seen /\ tx'[s].pc # "identities" /\ tx[s].pc # "identities"
           /\ UNCHANGED <<requests, identities>>
<1>. DEFINE Goal == /\ tx'[s].seen = tx[s].seen
                    /\ tx'[s].pc # "identities" /\ tx[s].pc # "identities"
<1>0. UNCHANGED <<requests, identities>>
    BY DEF InsertRequests, StartProjection, UpsertCanonical, InsertLedgers, StartRegisters,
       UpsertRegisters, ApplySide, stored
<1>. USE DEF TxInv, Fields, Open, Step
<1>1. ASSUME InsertRequests(s) PROVE Goal
    BY <1>1 DEF InsertRequests
<1>2. ASSUME StartProjection(s) PROVE Goal
    <2>1. PICK c : tx' = [tx EXCEPT ![s].pc = "upsert", ![s].cand = c]
        BY <1>2, SnapshotIs
    <2>2. tx[s].pc = "project"
        BY <1>2, SnapshotIs
    <2>. QED  BY <2>1, <2>2
<1>3. ASSUME UpsertCanonical(s) PROVE Goal
    <2>1. \/ tx' = [tx EXCEPT ![s].pc = "ledgers"]
          \/ \E w : tx' = [tx EXCEPT ![s].wrote = w]
        BY <1>3 DEF UpsertCanonical
    <2>. QED  BY <1>3, <2>1 DEF UpsertCanonical
<1>4. ASSUME InsertLedgers(s) PROVE Goal
    BY <1>4 DEF InsertLedgers
<1>5. ASSUME StartRegisters(s) PROVE Goal
    BY <1>5 DEF StartRegisters
<1>6. ASSUME UpsertRegisters(s) PROVE Goal
    <2>1. \/ tx' = [tx EXCEPT ![s].pc = "side"]
          \/ \E w : tx' = [tx EXCEPT ![s].regs = w]
        BY <1>6 DEF UpsertRegisters
    <2>. QED  BY <1>6, <2>1 DEF UpsertRegisters
<1>7. ASSUME ApplySide(s) PROVE Goal
    <2>1. PICK x, d : tx' = [tx EXCEPT ![s].pc = "commit", ![s].names = x, ![s].deferred = d]
        BY <1>7, SideIs
    <2>2. tx[s].pc = "side"
        BY <1>7, SideIs
    <2>. QED  BY <2>1, <2>2
<1>. QED  BY <1>0, <1>1, <1>2, <1>3, <1>4, <1>5, <1>6, <1>7

\* A step that stores nothing.
LEMMA SpansFrame ==
    ASSUME SpansInv, WinnersInv', NEW s \in Slots, Moves(s), UNCHANGED <<requests, identities>>,
           SeenInv(tx'[s], identities),
           \A t \in Slots \ {s} : Open(t) => DOMAIN tx'[s].seen \cap DOMAIN tx[t].seen = {}
    PROVE  SpansInv'
<1>1. \A t \in Slots \ {s} : tx'[t] = tx[t]
    BY DEF Moves
<1>2. \A t \in Slots \ {s} : Open(t)' <=> Open(t)
    BY <1>1 DEF Open
<1>3. Open(s)
    BY DEF Moves
<1>4. \A t \in Slots : Open(t)' => SeenInv(tx'[t], identities)
    BY <1>1, <1>2, <1>3 DEF SpansInv
<1>5. \A t, u \in Slots : t # u /\ Open(t)' /\ Open(u)' =>
         DOMAIN tx'[t].seen \cap DOMAIN tx'[u].seen = {}
    BY <1>1, <1>2, <1>3 DEF SpansInv
<1>. QED  BY <1>4, <1>5 DEF SpansInv

LEMMA SpanCovers ==
    ASSUME SpansInv, NEW s \in Slots, Open(s), NEW k \in {r.project : r \in Sighted(s)}
    PROVE  /\ Span(s, k).first \in Int /\ Span(s, k).last \in Int
           /\ \A r \in Sighted(s) :
                 r.project = k => Span(s, k).first <= r.ended /\ r.ended <= Span(s, k).last
           /\ k \in DOMAIN identities =>
                 /\ Span(s, k).first <= identities[k].first
                 /\ identities[k].last <= Span(s, k).last
<1>. DEFINE old == IF k \in DOMAIN identities THEN {identities[k].first, identities[k].last} ELSE {}
            all == SightingsOf(s, k) \cup old
<1>1. tx[s].env \in Envelopes
    BY DEF SpansInv, WinnersInv, TxInv
<1>2. Sighted(s) \subseteq Records[tx[s].env]
    BY DEF Sighted, KeptOf, Kept
<1>3. IsFiniteSet(Sighted(s))
    BY <1>1, <1>2, RecordsAssumption, FS_Subset
<1>4. SightingsOf(s, k) \subseteq Int /\ SightingsOf(s, k) # {}
    BY <1>1, <1>2, RecordsAssumption DEF SightingsOf
<1>5. IsFiniteSet(SightingsOf(s, k))
    <2>1. IsFiniteSet({q \in Sighted(s) : q.project = k})
        BY <1>3, FS_Subset
    <2>. DEFINE seen == {q \in Sighted(s) : q.project = k}
                ended == [r \in seen |-> r.ended]
    <2>2. IsFiniteSet({ended[r] : r \in seen})
        <3>. HIDE DEF ended, seen
        <3>. QED  BY <2>1, ImageFinite DEF seen
    <2>3. {ended[r] : r \in seen} = SightingsOf(s, k)
        BY DEF SightingsOf
    <2>. QED  BY <2>2, <2>3
<1>6. old \subseteq Int /\ IsFiniteSet(old)
    <2>1. \A x, y : IsFiniteSet({x, y})
        <3>1. ASSUME NEW x, NEW y PROVE IsFiniteSet({x, y})
            <4>1. IsFiniteSet({x}) /\ {x} \cup {y} = {x, y}
                BY FS_Singleton
            <4>. QED  BY <4>1, FS_AddElement
        <3>. QED  BY <3>1
    <2>2. CASE k \in DOMAIN identities
        <3>1. old = {identities[k].first, identities[k].last}
            BY <2>2
        <3>2. identities[k].first \in Int /\ identities[k].last \in Int
            BY <2>2 DEF SpansInv
        <3>. HIDE DEF old
        <3>. QED  BY <2>1, <3>1, <3>2
    <2>3. CASE k \notin DOMAIN identities
        BY <2>3, FS_EmptySet
    <2>. QED  BY <2>2, <2>3
<1>7. IsFiniteSet(all) /\ all # {} /\ all \subseteq Int
    BY <1>4, <1>5, <1>6, FS_Union
<1>8. /\ Min(all) \in all /\ \A x \in all : Min(all) <= x
      /\ Max(all) \in all /\ \A x \in all : x <= Max(all)
    <2>. HIDE DEF all
    <2>. QED  BY <1>7, MinMax
<1>9. Span(s, k) = [first |-> Min(all), last |-> Max(all)]
    BY DEF Span
<1>10. Span(s, k).first = Min(all) /\ Span(s, k).last = Max(all)
    BY <1>9
<1>11. \A r \in Sighted(s) : r.project = k => r.ended \in all
    BY DEF SightingsOf
<1>12. k \in DOMAIN identities => identities[k].first \in all /\ identities[k].last \in all
    OBVIOUS
<1>. HIDE DEF all
<1>. QED  BY <1>7, <1>8, <1>10, <1>11, <1>12

LEMMA SpansObserve ==
    ASSUME SpansInv, WinnersInv', NEW s \in Slots, ObserveIdentities(s)
    PROVE  SpansInv'
<1>. DEFINE keys == {r.project : r \in Sighted(s)}
<1>1. TxInv /\ Moves(s) /\ UNCHANGED <<requests, identities>>
    BY StepMoves DEF SpansInv, WinnersInv, ObserveIdentities, stored
<1>2. Open(s)
    BY <1>1 DEF Moves
<1>3. tx'[s].seen = [k \in keys |-> Span(s, k)] /\ tx'[s].pc = "requests"
    BY <1>1, <1>2 DEF ObserveIdentities, TxInv, Fields
<1>4. ~Blocked(s, "seen", keys)
    BY DEF ObserveIdentities
<1>5. Carried(tx'[s]) = Carried(tx[s])
    BY <1>1 DEF Moves, Carried
<1>6. Sighted(s) = {r \in Carried(tx[s]) : Located(r)}
    BY DEF Sighted, KeptOf, Kept, Carried, Located
<1>7. SeenInv(tx'[s], identities)
    <2>1. ASSUME NEW r \in Carried(tx'[s]), Located(r) PROVE Spans(tx'[s].seen, r)
        <3>1. r \in Sighted(s) /\ r.project \in keys
            BY <1>5, <1>6, <2>1
        <3>2. tx'[s].seen[r.project] = Span(s, r.project)
            BY <1>3, <3>1
        <3>. QED  BY <1>2, <1>3, <3>1, <3>2, SpanCovers DEF Spans
    <2>2. ASSUME NEW k \in DOMAIN tx'[s].seen
          PROVE  /\ tx'[s].seen[k].first \in Int /\ tx'[s].seen[k].last \in Int
                 /\ k \in DOMAIN identities =>
                       /\ tx'[s].seen[k].first <= identities[k].first
                       /\ identities[k].last <= tx'[s].seen[k].last
        <3>1. k \in keys /\ tx'[s].seen[k] = Span(s, k)
            BY <1>3
        <3>. QED  BY <1>2, <3>1, SpanCovers
    <2>. QED  BY <1>3, <2>1, <2>2 DEF SeenInv
<1>8. \A t \in Slots \ {s} : Open(t) => DOMAIN tx'[s].seen \cap DOMAIN tx[t].seen = {}
    BY <1>3, <1>4 DEF Blocked, Peers
<1>. QED  BY <1>1, <1>7, <1>8, SpansFrame

LEMMA SpansElsewhere ==
    ASSUME SpansInv, WinnersInv', NEW s \in Slots,
           \/ InsertRequests(s) \/ StartProjection(s) \/ UpsertCanonical(s)
           \/ InsertLedgers(s) \/ StartRegisters(s) \/ UpsertRegisters(s) \/ ApplySide(s)
    PROVE  SpansInv'
<1>1. TxInv /\ Moves(s)
    BY StepMoves DEF SpansInv, WinnersInv
<1>2. /\ tx'[s].seen = tx[s].seen /\ tx'[s].pc # "identities" /\ tx[s].pc # "identities"
      /\ UNCHANGED <<requests, identities>>
    BY <1>1, SeenStays
<1>3. Carried(tx'[s]) = Carried(tx[s]) /\ Open(s)
    BY <1>1 DEF Moves, Carried
<1>4. SeenInv(tx'[s], identities)
    BY <1>2, <1>3 DEF SpansInv, SeenInv
<1>5. \A t \in Slots \ {s} : Open(t) => DOMAIN tx'[s].seen \cap DOMAIN tx[t].seen = {}
    BY <1>2, <1>3 DEF SpansInv
<1>. QED  BY <1>1, <1>2, <1>4, <1>5, SpansFrame

LEMMA SpansCommit ==
    ASSUME SpansInv, WinnersInv', NEW s \in Slots, Commit(s)
    PROVE  SpansInv'
<1>1. TxInv /\ Ends(s)
    BY EndEnds DEF SpansInv, WinnersInv
<1>2. \A t \in Slots : Open(t)' => Open(t) /\ t # s /\ tx'[t] = tx[t]
    BY <1>1 DEF Ends, Open, Idle
<1>3. Open(s) /\ SeenInv(tx[s], identities)
    BY <1>1 DEF Ends, SpansInv
<1>4. /\ DOMAIN identities' = DOMAIN tx[s].seen \cup DOMAIN identities
      /\ \A k \in DOMAIN tx[s].seen : identities'[k] = tx[s].seen[k]
      /\ \A k \in DOMAIN identities \ DOMAIN tx[s].seen : identities'[k] = identities[k]
      /\ requests' = requests \cup tx[s].rows
    BY DEF Commit, Over
<1>5. \A t \in Slots : Open(t)' => SeenInv(tx'[t], identities')
    <2>1. SUFFICES ASSUME NEW t \in Slots, Open(t)' PROVE SeenInv(tx[t], identities')
        BY <1>2
    <2>2. Open(t) /\ t # s
        BY <1>2, <2>1
    <2>3. SeenInv(tx[t], identities) /\ DOMAIN tx[t].seen \cap DOMAIN tx[s].seen = {}
        BY <1>3, <2>2 DEF SpansInv
    <2>. QED  BY <1>4, <2>3 DEF SeenInv
<1>6. \A k \in DOMAIN identities' : identities'[k].first \in Int /\ identities'[k].last \in Int
    BY <1>3, <1>4 DEF SpansInv, SeenInv
<1>7. ASSUME NEW row \in requests', Located(row.rec) PROVE Spans(identities', row.rec)
    <2>1. CASE row \in requests
        <3>1. Spans(identities, row.rec) /\ LedgerRow(row)
            BY <1>7, <2>1 DEF SpansInv, WinnersInv, RequestRows
        <3>2. row.rec.ended \in Int
            BY <3>1, RecordsAssumption DEF LedgerRow
        <3>3. CASE row.rec.project \in DOMAIN tx[s].seen
            BY <1>3, <1>4, <3>1, <3>2, <3>3 DEF Spans, SeenInv, SpansInv
        <3>4. CASE row.rec.project \notin DOMAIN tx[s].seen
            BY <1>4, <3>1, <3>4 DEF Spans
        <3>. QED  BY <3>3, <3>4
    <2>2. CASE row \in tx[s].rows
        <3>1. tx[s].rows \subseteq RowsCarried(tx[s]) /\ tx[s].pc = "commit"
            BY <1>3 DEF SpansInv, WinnersInv, SlotsInv, SlotInv, Commit, Step
        <3>2. row.rec \in Carried(tx[s])
            BY <2>2, <3>1 DEF RowsCarried
        <3>3. Spans(tx[s].seen, row.rec)
            BY <1>3, <1>7, <3>1, <3>2 DEF SeenInv
        <3>. QED  BY <1>4, <3>3 DEF Spans
    <2>. QED  BY <1>4, <2>1, <2>2
<1>8. \A t, u \in Slots : t # u /\ Open(t)' /\ Open(u)' =>
         DOMAIN tx'[t].seen \cap DOMAIN tx'[u].seen = {}
    BY <1>2 DEF SpansInv
<1>. QED  BY <1>5, <1>6, <1>7, <1>8 DEF SpansInv

LEMMA SpansAbort ==
    ASSUME SpansInv, WinnersInv', NEW s \in Slots, Abort(s)
    PROVE  SpansInv'
<1>1. Ends(s) /\ UNCHANGED <<requests, identities>>
    BY EndEnds DEF SpansInv, WinnersInv, Abort, stored
<1>2. \A t \in Slots : Open(t)' => Open(t) /\ tx'[t] = tx[t]
    BY <1>1 DEF Ends, Open, Idle
<1>. QED  BY <1>1, <1>2 DEF SpansInv

LEMMA SpansBegin ==
    ASSUME SpansInv, WinnersInv', NEW s \in Slots, NEW e \in Envelopes, Begin(s, e)
    PROVE  SpansInv'
<1>1. TxInv /\ Begins(s, e) /\ UNCHANGED <<requests, identities>>
    BY BeginBegins DEF SpansInv, WinnersInv, Begin, stored
<1>2. \A t \in Slots \ {s} : tx'[t] = tx[t] /\ (Open(t)' <=> Open(t))
    BY <1>1 DEF Begins, Open
<1>3. DOMAIN tx'[s].seen = {} /\ tx'[s].pc = "identities"
    BY <1>1 DEF Begins
<1>4. SeenInv(tx'[s], identities)
    BY <1>3 DEF SeenInv
<1>5. \A t \in Slots : Open(t)' => SeenInv(tx'[t], identities)
    BY <1>2, <1>4 DEF SpansInv
<1>6. \A t, u \in Slots : t # u /\ Open(t)' /\ Open(u)' =>
         DOMAIN tx'[t].seen \cap DOMAIN tx'[u].seen = {}
    BY <1>2, <1>3 DEF SpansInv
<1>. QED  BY <1>1, <1>5, <1>6 DEF SpansInv

\* The identity of a project spans every request of the ledger that was seen
\* in it, whichever envelope came first and however many were open at once
\* (the upsert of usage_project_identities in ingestUsage).
THEOREM IdentitiesSpanned ==
    ASSUME NEW initial, NEW begun \in Nat, NEW changed
    PROVE  LedgerSpec(initial, begun, changed) => []IdentitiesSpan
<1>1. Fill(initial, begun, changed) => SpansInv
    BY WinnersInit DEF Fill, SpansInv, Open, Idle, Empty
<1>2. SpansInv /\ [LedgerNext]_ledgerVars => SpansInv'
    <2>. SUFFICES ASSUME SpansInv, [LedgerNext]_ledgerVars PROVE SpansInv'
        OBVIOUS
    <2>1. WinnersInv'
        BY WinnersStep DEF SpansInv
    <2>2. ASSUME UNCHANGED <<tx, requests, identities>> PROVE SpansInv'
        BY <2>1, <2>2 DEF SpansInv, Open
    <2>3. ASSUME NEW s \in Slots, StepOf(s) PROVE SpansInv'
        BY <2>1, <2>3, SpansObserve, SpansElsewhere, SpansCommit, SpansAbort, SpansBegin DEF StepOf
    <2>. QED  BY <2>2, <2>3 DEF LedgerNext, ChangeBinding, stored, ledgerVars
<1>3. SpansInv => IdentitiesSpan
    BY DEF SpansInv, IdentitiesSpan, Located, Spans
<1>. QED  BY <1>1, <1>2, <1>3, PTL DEF LedgerSpec
-----------------------------------------------------------------------------
(* What a receipt acknowledges.                                            *)

\* Of the rows of one revision, one is stored or inserted.
LEMMA FreshCovers ==
    ASSUME NEW rows, IsFiniteSet(rows), \A r \in rows : r.rec.id \in Int, NEW there, NEW x \in rows
    PROVE  \E q \in there \cup Fresh(rows, there) : Revision(q) = Revision(x)
<1>. DEFINE new == {r \in rows : \A q \in there : Revision(q) # Revision(r)}
            same == {q \in new : Revision(q) = Revision(x)}
            id == [q \in same |-> q.rec.id]
            ids == {id[q] : q \in same}
<1>1. CASE x \notin new
    BY <1>1
<1>2. CASE x \in new
    <2>1. IsFiniteSet(same)
        BY FS_Subset
    <2>2. IsFiniteSet(ids)
        <3>. HIDE DEF id, same
        <3>. QED  BY <2>1, ImageFinite
    <2>3. ids \subseteq Int /\ ids # {}
        BY <1>2
    <2>4. Min(ids) \in ids /\ \A i \in ids : Min(ids) <= i
        <3>. HIDE DEF ids
        <3>. QED  BY <2>2, <2>3, MinMax
    <2>5. PICK m \in same : \A q \in same : m.rec.id <= q.rec.id
        BY <2>4
    <2>6. \A q \in new : Revision(q) = Revision(m) => m.rec.id <= q.rec.id
        BY <2>5
    <2>7. m \in Fresh(rows, there)
        BY <2>5, <2>6 DEF Fresh
    <2>. QED  BY <2>5, <2>7
<1>. QED  BY <1>1, <1>2

\* A sighting that is not taken has its facts in one that is there or is taken.
LEMMA SightingCovers ==
    ASSUME NEW rows, IsFiniteSet(rows),
           \A r \in rows : r.rec.observed \in Int /\ r.rec.id \in Int, NEW there, NEW x \in rows
    PROVE  \/ x \in FirstSightings(rows, there)
           \/ x.rec.clock /\ \E q \in there \cup FirstSightings(rows, there) : SameFacts(q, x)
<1>. DEFINE same == {q \in rows : q.rec.clock /\ SameFacts(x, q)}
            early(q) == <<q.rec.observed, q.rec.id>>
            f == [q \in same |-> <<-q.rec.observed, -q.rec.id>>]
<1>1. CASE ~x.rec.clock
    BY <1>1 DEF FirstSightings
<1>2. CASE x.rec.clock /\ \E q \in there : SameFacts(x, q)
    BY <1>2 DEF SameFacts
<1>3. CASE x.rec.clock /\ \A q \in there : ~SameFacts(x, q)
    <2>1. IsFiniteSet(same) /\ same # {}
        BY <1>3, FS_Subset DEF SameFacts
    <2>2. \A q \in same : /\ f[q] \in [1..2 -> Int] /\ f[q][1] = -q.rec.observed
                          /\ f[q][2] = -q.rec.id
        OBVIOUS
    <2>3. PICK m \in same : \A q \in same : f[q] = f[m] \/ Above(f[m], f[q])
        <3>. HIDE DEF f, same
        <3>. QED  BY <2>1, <2>2, Topmost
    <2>4. \A q \in same : q.rec.observed \in Int /\ q.rec.id \in Int
        OBVIOUS
    <2>5. ASSUME NEW q \in same PROVE early(m) = early(q) \/ Above(early(q), early(m))
        <3>1. CASE f[q] = f[m]
            <4>1. -q.rec.observed = -m.rec.observed /\ -q.rec.id = -m.rec.id
                BY <2>2, <2>5, <3>1
            <4>2. q.rec.observed = m.rec.observed /\ q.rec.id = m.rec.id
                BY <2>4, <2>5, <4>1
            <4>. QED  BY <4>2
        <3>2. CASE Above(f[m], f[q])
            <4>1. DOMAIN f[m] = 1..2
                BY <2>2
            <4>2. \/ -m.rec.observed > -q.rec.observed
                  \/ -m.rec.observed = -q.rec.observed /\ -m.rec.id > -q.rec.id
                BY <2>2, <2>5, <3>2, <4>1 DEF Above
            <4>3. \/ q.rec.observed > m.rec.observed
                  \/ q.rec.observed = m.rec.observed /\ q.rec.id > m.rec.id
                BY <2>4, <2>5, <4>2
            <4>. QED  BY <4>3 DEF Above
        <3>. QED  BY <2>3, <2>5, <3>1, <3>2
    <2>6. m \in rows /\ m.rec.clock /\ SameFacts(x, m)
        OBVIOUS
    <2>. HIDE DEF f
    <2>7. /\ \A q \in there : ~SameFacts(m, q)
          /\ \A q \in rows : q.rec.clock /\ SameFacts(m, q) => q \in same
        BY <1>3, <2>6 DEF SameFacts
    <2>8. \A q \in rows : q.rec.clock /\ SameFacts(m, q) =>
             early(m) = early(q) \/ Above(early(q), early(m))
        BY <2>5, <2>7
    <2>9. m \in FirstSightings(rows, there)
        BY <2>6, <2>7, <2>8 DEF FirstSightings
    <2>. QED  BY <1>3, <2>6, <2>9 DEF SameFacts
<1>. QED  BY <1>1, <1>2, <1>3

LEMMA RowsFinite ==
    ASSUME TxInv, NEW s \in Slots, Open(s), NEW kinds
    PROVE  /\ IsFiniteSet(RowsOf(s, kinds))
           /\ \A row \in RowsOf(s, kinds) :
                 /\ row.rec \in Records[tx[s].env] /\ row.rec.kind \in kinds
                 /\ row.rec.observed \in Int /\ row.rec.id \in Int
           /\ \A r \in KeptOf(s, kinds) : [rec |-> r, at |-> tx[s].at] \in RowsOf(s, kinds)
<1>. DEFINE row == [r \in KeptOf(s, kinds) |-> [rec |-> r, at |-> tx[s].at]]
<1>1. tx[s].env \in Envelopes /\ KeptOf(s, kinds) \subseteq Records[tx[s].env]
    BY DEF TxInv, KeptOf, Kept
<1>2. IsFiniteSet(KeptOf(s, kinds))
    BY <1>1, RecordsAssumption, FS_Subset
<1>3. IsFiniteSet({row[r] : r \in KeptOf(s, kinds)})
    <2>. HIDE DEF row
    <2>. QED  BY <1>2, ImageFinite
<1>4. RowsOf(s, kinds) = {row[r] : r \in KeptOf(s, kinds)}
    BY DEF RowsOf
<1>5. \A r \in KeptOf(s, kinds) : r.kind \in kinds /\ r.observed \in Int /\ r.id \in Int
    BY <1>1, RecordsAssumption DEF KeptOf
<1>6. \A x \in RowsOf(s, kinds) : x.rec \in KeptOf(s, kinds)
    BY DEF RowsOf
<1>7. \A r \in KeptOf(s, kinds) : [rec |-> r, at |-> tx[s].at] \in RowsOf(s, kinds)
    BY DEF RowsOf
<1>. QED  BY <1>1, <1>3, <1>4, <1>5, <1>6, <1>7

LEMMA RequestIsStored ==
    ASSUME TxInv, NEW s \in Slots, Open(s), NEW r \in KeptOf(s, {"request"}), NEW there
    PROVE  StoredRow(r, there \cup Fresh(FirstSightings(RowsOf(s, {"request"}), there), there))
<1>. DEFINE all == RowsOf(s, {"request"})
            rows == FirstSightings(all, there)
            x == [rec |-> r, at |-> tx[s].at]
            bare == [rec |-> r]
<1>1. /\ IsFiniteSet(all) /\ x \in all
      /\ \A row \in all : row.rec.observed \in Int /\ row.rec.id \in Int
    BY RowsFinite
<1>2. rows \subseteq all /\ IsFiniteSet(rows)
    BY <1>1, FS_Subset DEF FirstSightings
<1>3. r.kind = "request" /\ x.rec = r /\ bare.rec = r
    BY DEF KeptOf
<1>. HIDE DEF all, x, bare
<1>4. ASSUME NEW y \in rows
      PROVE  \E q \in there \cup Fresh(rows, there) : Revision(q) = Revision(y)
    <2>. HIDE DEF rows
    <2>. QED  BY <1>1, <1>2, FreshCovers
<1>5. CASE x \in rows
    <2>1. Revision(x) = Revision(bare)
        BY <1>3 DEF Revision
    <2>. QED  BY <1>4, <1>5, <2>1 DEF StoredRow, bare, all
<1>6. CASE x.rec.clock /\ \E q \in there \cup rows : SameFacts(q, x)
    <2>1. PICK q \in there \cup rows : SameFacts(q, x)
        BY <1>6
    <2>2. PICK p \in there \cup Fresh(rows, there) : SameFacts(p, x)
        <3>1. CASE q \in there
            BY <2>1, <3>1
        <3>2. CASE q \in rows
            <4>1. PICK p \in there \cup Fresh(rows, there) : Revision(p) = Revision(q)
                BY <1>4, <3>2
            <4>2. SameFacts(p, x)
                BY <2>1, <4>1 DEF Revision, SameFacts
            <4>. QED  BY <4>2
        <3>. QED  BY <3>1, <3>2
    <2>3. SameFacts(p, bare)
        BY <1>3, <2>2 DEF SameFacts
    <2>. QED  BY <1>3, <1>6, <2>3 DEF StoredRow, bare, all
<1>. QED  BY <1>1, <1>5, <1>6, SightingCovers

LEMMA OtherIsStored ==
    ASSUME TxInv, NEW s \in Slots, Open(s), NEW kinds, NEW r \in KeptOf(s, kinds), NEW there
    PROVE  StoredRow(r, there \cup Fresh(RowsOf(s, kinds), there))
<1>. DEFINE x == [rec |-> r, at |-> tx[s].at]
<1>1. /\ IsFiniteSet(RowsOf(s, kinds)) /\ x \in RowsOf(s, kinds)
      /\ \A row \in RowsOf(s, kinds) : row.rec.id \in Int
    BY RowsFinite
<1>2. \E q \in there \cup Fresh(RowsOf(s, kinds), there) : Revision(q) = Revision(x)
    <2>. DEFINE rows == RowsOf(s, kinds)
    <2>1. IsFiniteSet(rows) /\ x \in rows /\ \A row \in rows : row.rec.id \in Int
        BY <1>1
    <2>. HIDE DEF x, rows
    <2>2. \E q \in there \cup Fresh(rows, there) : Revision(q) = Revision(x)
        BY <2>1, FreshCovers
    <2>. QED  BY <2>2 DEF rows
<1>3. Revision(x) = Revision([rec |-> r])
    BY DEF Revision
<1>. QED  BY <1>2, <1>3 DEF StoredRow

\* The winner of a group is one of it, and none of it is newer.
LEMMA WinnerIs ==
    ASSUME TxInv, NEW s \in Slots, Open(s), NEW g, MembersOf(s, g) # {}
    PROVE  /\ WinnerOf(s, g) \in MembersOf(s, g) /\ WinnerOf(s, g).observed \in Int
           /\ \A r \in MembersOf(s, g) : WinnerOf(s, g).observed >= r.observed
<1>. DEFINE S == MembersOf(s, g)
            f == [q \in S |-> <<q.observed, -q.text, -q.id>>]
<1>1. tx[s].env \in Envelopes /\ S \subseteq Records[tx[s].env]
    BY DEF TxInv, MembersOf, Kept
<1>2. IsFiniteSet(S) /\ S # {}
    BY <1>1, RecordsAssumption, FS_Subset
<1>3. /\ \A q \in S : q.observed \in Int /\ q.text \in Int /\ q.id \in Int
      /\ \A q, r \in S : q.id = r.id => q = r
    BY <1>1, RecordsAssumption
<1>. HIDE DEF S
<1>4. \A q \in S : /\ f[q] \in [1..3 -> Int] /\ f[q][1] = q.observed /\ f[q][3] = -q.id
                   /\ f[q] = <<q.observed, -q.text, -q.id>>
    BY <1>3
<1>5. PICK m \in S : \A q \in S : f[q] = f[m] \/ Above(f[m], f[q])
    <2>. HIDE DEF f
    <2>. QED  BY <1>2, <1>4, Topmost
<1>6. \A q \in S : q = m \/ Above(f[m], f[q])
    <2>1. ASSUME NEW q \in S, f[q] = f[m] PROVE q = m
        <3>1. -q.id = -m.id
            BY <1>4, <2>1
        <3>. QED  BY <1>3, <3>1
    <2>. QED  BY <1>5, <2>1
<1>7. First(m, S, LAMBDA q : <<q.observed, -q.text, -q.id>>)
    BY <1>4, <1>6 DEF First
<1>. DEFINE w == WinnerOf(s, g)
<1>8. w \in S /\ First(w, S, LAMBDA q : <<q.observed, -q.text, -q.id>>)
    BY <1>7 DEF WinnerOf, S
<1>. HIDE DEF w
<1>9. \A q \in S : q = w \/ Above(f[w], f[q])
    BY <1>4, <1>8 DEF First
<1>. HIDE DEF f
<1>10. ASSUME NEW q \in S PROVE w.observed >= q.observed
    <2>1. CASE q = w
        BY <1>3, <2>1
    <2>2. CASE Above(f[w], f[q])
        <3>1. /\ f[w] \in [1..3 -> Int] /\ f[q] \in [1..3 -> Int]
              /\ f[w][1] = w.observed /\ f[q][1] = q.observed
            BY <1>4, <1>8
        <3>2. PICK i \in 1..3 : f[w][i] > f[q][i] /\ \A j \in 1..(i - 1) : f[w][j] = f[q][j]
            BY <2>2, <3>1 DEF Above
        <3>3. i = 1 \/ 1 \in 1..(i - 1)
            OBVIOUS
        <3>4. w.observed > q.observed \/ w.observed = q.observed
            BY <3>1, <3>2, <3>3
        <3>5. w.observed \in Int /\ q.observed \in Int
            BY <1>3, <1>8
        <3>. QED  BY <3>4, <3>5
    <2>. QED  BY <1>9, <2>1, <2>2
<1>. QED  BY <1>3, <1>8, <1>10 DEF S, w

\* What m keeps of its envelope, and what of it has reached the tables.
KeptBy(m) == {r \in Records[m.env] : ~Rejected(m.owned, r)}
Reached(m, kinds, rows) == \A r \in KeptBy(m) : r.kind \in kinds => StoredRow(r, rows)
ShownIn(names, g, r) == g \in DOMAIN names /\ names[g].observed >= r.observed

EventKinds == {"invocation", "result"}
OtherKinds == {"reading", "money", "bucket"}
Inserted == {"registers", "tools", "side", "commit"}

LedgersReached(m, reqs, evs, rest) ==
    /\ m.pc \notin {"identities", "requests"} => Reached(m, {"request"}, reqs \cup m.rows)
    /\ m.pc \in Inserted =>
          /\ Reached(m, EventKinds, evs \cup m.ev)
          /\ Reached(m, OtherKinds, rest \cup m.more)

\* Names that move only forward; an app project has its project.
NamesInv(m, names) ==
    /\ m.pc # "commit" => DOMAIN m.names = {}
    /\ m.pc = "commit" => \A r \in KeptBy(m) : r.id \notin m.deferred =>
          /\ r.kind = "label" => ShownIn(m.names, <<"label", r.key>>, r)
          /\ r.kind = "catalog" => ShownIn(m.names, <<"app_project", r.key>>, r)
    /\ \A g \in DOMAIN m.names : g[1] # "project" =>
          /\ m.names[g].observed \in Int
          /\ g \in DOMAIN names => m.names[g].observed >= names[g].observed
    /\ \A g \in DOMAIN m.names : g[1] = "app_project" =>
          <<"project", m.names[g].project>> \in DOMAIN m.names \cup DOMAIN names

StoredInv ==
    /\ TxInv
    /\ \A s \in Slots : Open(s) =>
          LedgersReached(tx[s], requests, events, others) /\ NamesInv(tx[s], side)
    /\ \A s, t \in Slots : s # t /\ Open(s) /\ Open(t) =>
          DOMAIN tx[s].names \cap DOMAIN tx[t].names = {}
    /\ \A g \in DOMAIN side : g[1] # "project" => side[g].observed \in Int
    /\ \A g \in DOMAIN side : g[1] = "app_project" =>
          <<"project", side[g].project>> \in DOMAIN side
    /\ \A c \in receipts : c.env \in Envelopes
    /\ AcknowledgedIsStored

\* What the steps leave of a transaction.
SamePosts(s) ==
    /\ tx'[s].rows = tx[s].rows /\ tx'[s].ev = tx[s].ev /\ tx'[s].more = tx[s].more
    /\ tx'[s].names = tx[s].names
    /\ tx[s].pc # "commit" /\ tx'[s].pc # "commit"
    /\ tx'[s].pc \notin {"identities", "requests"} => tx[s].pc \notin {"identities", "requests"}
    /\ tx'[s].pc \in Inserted => tx[s].pc \in Inserted

LEMMA PostsStay ==
    ASSUME TxInv, NEW s \in Slots,
           \/ ObserveIdentities(s) \/ StartProjection(s) \/ UpsertCanonical(s)
           \/ StartRegisters(s) \/ UpsertRegisters(s)
    PROVE  SamePosts(s)
<1>. USE DEF TxInv, Fields, Open, Step, SamePosts, Inserted
<1>1. ASSUME ObserveIdentities(s) PROVE SamePosts(s)
    BY <1>1 DEF ObserveIdentities
<1>2. ASSUME StartProjection(s) PROVE SamePosts(s)
    <2>1. PICK c : tx' = [tx EXCEPT ![s].pc = "upsert", ![s].cand = c]
        BY <1>2, SnapshotIs
    <2>2. tx[s].pc = "project"
        BY <1>2, SnapshotIs
    <2>. QED  BY <2>1, <2>2
<1>3. ASSUME UpsertCanonical(s) PROVE SamePosts(s)
    <2>1. \/ tx' = [tx EXCEPT ![s].pc = "ledgers"]
          \/ \E w : tx' = [tx EXCEPT ![s].wrote = w]
        BY <1>3 DEF UpsertCanonical
    <2>. QED  BY <1>3, <2>1 DEF UpsertCanonical
<1>4. ASSUME StartRegisters(s) PROVE SamePosts(s)
    BY <1>4 DEF StartRegisters
<1>5. ASSUME UpsertRegisters(s) PROVE SamePosts(s)
    <2>1. \/ tx' = [tx EXCEPT ![s].pc = "side"]
          \/ \E w : tx' = [tx EXCEPT ![s].regs = w]
        BY <1>5 DEF UpsertRegisters
    <2>. QED  BY <1>5, <2>1 DEF UpsertRegisters
<1>. QED  BY <1>1, <1>2, <1>3, <1>4, <1>5

\* A step that stores nothing.
LEMMA StoredFrame ==
    ASSUME StoredInv, TxInv', NEW s \in Slots, Moves(s), UNCHANGED stored,
           LedgersReached(tx'[s], requests, events, others), NamesInv(tx'[s], side),
           \A t \in Slots \ {s} : Open(t) => DOMAIN tx'[s].names \cap DOMAIN tx[t].names = {}
    PROVE  StoredInv'
<1>1. \A t \in Slots \ {s} : tx'[t] = tx[t] /\ (Open(t)' <=> Open(t))
    BY DEF Moves, Open
<1>2. UNCHANGED <<requests, events, others, side, receipts>>
    BY DEF stored
<1>3. \A t \in Slots : Open(t)' =>
         LedgersReached(tx'[t], requests, events, others) /\ NamesInv(tx'[t], side)
    BY <1>1 DEF StoredInv
<1>4. \A t, u \in Slots : t # u /\ Open(t)' /\ Open(u)' =>
         DOMAIN tx'[t].names \cap DOMAIN tx'[u].names = {}
    <2>1. \A t, u \in Slots \ {s} : t # u /\ Open(t)' /\ Open(u)' =>
             DOMAIN tx'[t].names \cap DOMAIN tx'[u].names = {}
        BY <1>1 DEF StoredInv
    <2>2. \A t \in Slots \ {s} : Open(t)' => DOMAIN tx'[s].names \cap DOMAIN tx'[t].names = {}
        BY <1>1
    <2>. QED  BY <2>1, <2>2
<1>5. AcknowledgedIsStored'
    BY <1>2 DEF StoredInv, AcknowledgedIsStored, ShownAt
<1>. QED  BY <1>2, <1>3, <1>4, <1>5 DEF StoredInv

LEMMA StoredElsewhere ==
    ASSUME StoredInv, TxInv', NEW s \in Slots,
           \/ ObserveIdentities(s) \/ StartProjection(s) \/ UpsertCanonical(s)
           \/ StartRegisters(s) \/ UpsertRegisters(s)
    PROVE  StoredInv'
<1>1. TxInv /\ Moves(s) /\ UNCHANGED stored
    BY StepMoves DEF StoredInv, ObserveIdentities, StartProjection, UpsertCanonical,
       StartRegisters, UpsertRegisters
<1>2. SamePosts(s)
    BY <1>1, PostsStay
<1>3. KeptBy(tx'[s]) = KeptBy(tx[s]) /\ Open(s)
    BY <1>1 DEF Moves, KeptBy
<1>4. LedgersReached(tx[s], requests, events, others) /\ NamesInv(tx[s], side)
    BY <1>3 DEF StoredInv
<1>5. LedgersReached(tx'[s], requests, events, others)
    BY <1>2, <1>3, <1>4 DEF LedgersReached, Reached, SamePosts
<1>6. NamesInv(tx'[s], side)
    BY <1>2, <1>3, <1>4 DEF NamesInv, SamePosts
<1>7. \A t \in Slots \ {s} : Open(t) => DOMAIN tx'[s].names \cap DOMAIN tx[t].names = {}
    BY <1>2, <1>3 DEF StoredInv, SamePosts
<1>. QED  BY <1>1, <1>5, <1>6, <1>7, StoredFrame

LEMMA StoredInserts ==
    ASSUME StoredInv, TxInv', NEW s \in Slots, InsertRequests(s)
    PROVE  StoredInv'
<1>. DEFINE n == tx'[s]
            fresh == Fresh(FirstSightings(RowsOf(s, {"request"}), requests), requests)
<1>1. TxInv /\ Moves(s) /\ UNCHANGED stored /\ Open(s)
    BY StepMoves DEF StoredInv, InsertRequests, Moves
<1>2. /\ n.pc = "project" /\ tx[s].pc = "requests" /\ n.names = tx[s].names /\ n.rows = fresh
    BY <1>1 DEF InsertRequests, TxInv, Fields, Step
<1>3. KeptBy(n) = Kept(s)
    BY <1>1 DEF Moves, KeptBy, Kept
<1>4. NamesInv(tx[s], side)
    BY <1>1 DEF StoredInv
<1>5. ASSUME NEW r \in KeptBy(n), r.kind \in {"request"} PROVE StoredRow(r, requests \cup n.rows)
    <2>1. r \in KeptOf(s, {"request"})
        BY <1>3, <1>5 DEF KeptOf
    <2>. QED  BY <1>1, <1>2, <2>1, RequestIsStored
<1>. HIDE DEF n, fresh
<1>6. LedgersReached(n, requests, events, others)
    BY <1>2, <1>5 DEF LedgersReached, Reached, Inserted
<1>7. NamesInv(n, side)
    BY <1>2, <1>4 DEF NamesInv
<1>8. \A t \in Slots \ {s} : Open(t) => DOMAIN n.names \cap DOMAIN tx[t].names = {}
    BY <1>1, <1>2 DEF StoredInv
<1>. QED  BY <1>1, <1>6, <1>7, <1>8, StoredFrame DEF n

LEMMA StoredLedgers ==
    ASSUME StoredInv, TxInv', NEW s \in Slots, InsertLedgers(s)
    PROVE  StoredInv'
<1>. DEFINE n == tx'[s]
<1>1. TxInv /\ Moves(s) /\ UNCHANGED stored /\ Open(s)
    BY StepMoves DEF StoredInv, InsertLedgers, Moves
<1>2. /\ n.pc = "registers" /\ tx[s].pc = "ledgers" /\ n.names = tx[s].names
      /\ n.rows = tx[s].rows
      /\ n.ev = Fresh(RowsOf(s, EventKinds), events)
      /\ n.more = Fresh(RowsOf(s, OtherKinds), others)
    BY <1>1 DEF InsertLedgers, TxInv, Fields, Step, EventKinds, OtherKinds
<1>3. KeptBy(n) = Kept(s) /\ KeptBy(n) = KeptBy(tx[s])
    BY <1>1 DEF Moves, KeptBy, Kept
<1>4. NamesInv(tx[s], side) /\ LedgersReached(tx[s], requests, events, others)
    BY <1>1 DEF StoredInv
<1>5. ASSUME NEW r \in KeptBy(n), r.kind \in EventKinds PROVE StoredRow(r, events \cup n.ev)
    <2>1. r \in KeptOf(s, EventKinds)
        BY <1>3, <1>5 DEF KeptOf
    <2>. QED  BY <1>1, <1>2, <2>1, OtherIsStored
<1>6. ASSUME NEW r \in KeptBy(n), r.kind \in OtherKinds PROVE StoredRow(r, others \cup n.more)
    <2>1. r \in KeptOf(s, OtherKinds)
        BY <1>3, <1>6 DEF KeptOf
    <2>. QED  BY <1>1, <1>2, <2>1, OtherIsStored
<1>. HIDE DEF n
<1>7. LedgersReached(n, requests, events, others)
    BY <1>2, <1>3, <1>4, <1>5, <1>6 DEF LedgersReached, Reached
<1>8. NamesInv(n, side)
    BY <1>2, <1>4 DEF NamesInv
<1>9. \A t \in Slots \ {s} : Open(t) => DOMAIN n.names \cap DOMAIN tx[t].names = {}
    BY <1>1, <1>2 DEF StoredInv
<1>. QED  BY <1>1, <1>7, <1>8, <1>9, StoredFrame DEF n

\* The rows of the side tables that one transaction writes.
LEMMA SideRowForward ==
    ASSUME StoredInv, NEW s \in Slots, Open(s), NEW g, g[1] # "project", MembersOf(s, g) # {}
    PROVE  /\ SideRow(s, g).observed \in Int
           /\ g \in DOMAIN side => SideRow(s, g).observed >= side[g].observed
           /\ \A r \in MembersOf(s, g) : SideRow(s, g).observed >= r.observed
           /\ \/ g \in DOMAIN side /\ SideRow(s, g) = side[g]
              \/ SideRow(s, g).project = WinnerOf(s, g).project
<1>. DEFINE w == WinnerOf(s, g)
            new == TargetRow(s, g)
<1>1. /\ w \in MembersOf(s, g) /\ w.observed \in Int
      /\ \A r \in MembersOf(s, g) : w.observed >= r.observed
    BY WinnerIs DEF StoredInv
<1>2. new.observed = w.observed /\ new.project = w.project
    BY DEF TargetRow
<1>3. \A r \in MembersOf(s, g) : r.observed \in Int
    BY RecordsAssumption DEF StoredInv, TxInv, MembersOf, Kept
<1>. HIDE DEF w, new
<1>4. CASE g \in DOMAIN side /\ ~(new.observed >= side[g].observed)
    <2>1. SideRow(s, g) = side[g]
        BY <1>4 DEF SideRow, new
    <2>2. side[g].observed \in Int
        BY <1>4 DEF StoredInv
    <2>3. side[g].observed >= new.observed
        BY <1>1, <1>2, <1>4, <2>2
    <2>. QED  BY <1>1, <1>2, <1>3, <1>4, <2>1, <2>2, <2>3
<1>5. CASE ~(g \in DOMAIN side /\ ~(new.observed >= side[g].observed))
    <2>1. SideRow(s, g) = new
        BY <1>5 DEF SideRow, new
    <2>. QED  BY <1>1, <1>2, <1>3, <1>5, <2>1 DEF w
<1>. QED  BY <1>4, <1>5

LEMMA StoredSide ==
    ASSUME StoredInv, TxInv', NEW s \in Slots, ApplySide(s)
    PROVE  StoredInv'
<1>. DEFINE n == tx'[s]
            groups == GroupsOf(s)
<1>1. TxInv /\ Moves(s) /\ UNCHANGED stored /\ Open(s)
    BY StepMoves DEF StoredInv, ApplySide, Moves
<1>2. PICK refused \in SUBSET groups :
         LET held == {g \in groups : Blocked(s, "names", {g})}
             bad == refused \cup {g \in groups : Orphan(s, g, refused)}
             good == groups \ bad
         IN  /\ held \subseteq bad
             /\ tx' = [tx EXCEPT ![s].pc = "commit", ![s].names = [g \in good |-> SideRow(s, g)],
                                 ![s].deferred = DeferredBy(s, bad)]
    BY DEF ApplySide
<1>. DEFINE bad == refused \cup {g \in groups : Orphan(s, g, refused)}
            good == groups \ bad
<1>3. /\ n.pc = "commit" /\ n.names = [g \in good |-> SideRow(s, g)]
      /\ n.deferred = DeferredBy(s, bad)
      /\ n.rows = tx[s].rows /\ n.ev = tx[s].ev /\ n.more = tx[s].more /\ tx[s].pc = "side"
    <2>. HIDE DEF bad, groups
    <2>1. tx[s].pc = "side"
        BY DEF ApplySide, Step
    <2>2. tx' = [tx EXCEPT ![s].pc = "commit", ![s].names = [g \in good |-> SideRow(s, g)],
                          ![s].deferred = DeferredBy(s, bad)]
        BY <1>2 DEF bad
    <2>. HIDE DEF good
    <2>. QED  BY <1>1, <2>1, <2>2 DEF TxInv, Fields
<1>4. \A g \in groups : Blocked(s, "names", {g}) => g \in bad
    BY <1>2
<1>5. KeptBy(n) = Kept(s) /\ KeptBy(n) = KeptBy(tx[s])
    BY <1>1 DEF Moves, KeptBy, Kept
<1>6. LedgersReached(tx[s], requests, events, others)
    BY <1>1 DEF StoredInv
<1>7. \A g \in groups : MembersOf(s, g) # {}
    BY DEF GroupsOf, MembersOf, KeptOf
<1>8. \A g \in good : g \in groups /\ g \notin refused /\ ~Orphan(s, g, refused)
    OBVIOUS
<1>9. ASSUME NEW r \in Kept(s), r.id \notin n.deferred, NEW g \in groups, g[1] # "project",
             r \in MembersOf(s, g)
      PROVE  ShownIn(n.names, g, r)
    <2>1. g \in good
        BY <1>3, <1>9 DEF DeferredBy
    <2>2. SideRow(s, g).observed >= r.observed
        BY <1>1, <1>7, <1>9, SideRowForward
    <2>. QED  BY <1>3, <2>1, <2>2 DEF ShownIn
<1>10. ASSUME NEW r \in Kept(s), r.id \notin n.deferred
       PROVE  /\ r.kind = "label" => ShownIn(n.names, <<"label", r.key>>, r)
              /\ r.kind = "catalog" => ShownIn(n.names, <<"app_project", r.key>>, r)
    <2>1. ASSUME r.kind = "label" PROVE ShownIn(n.names, <<"label", r.key>>, r)
        <3>1. <<"label", r.key>> \in groups /\ r \in MembersOf(s, <<"label", r.key>>)
            BY <2>1 DEF GroupsOf, MembersOf, KeptOf
        <3>. QED  BY <1>9, <1>10, <3>1
    <2>2. ASSUME r.kind = "catalog" PROVE ShownIn(n.names, <<"app_project", r.key>>, r)
        <3>1. r \in KeptOf(s, {"catalog"})
            BY <2>2 DEF KeptOf
        <3>2. <<"app_project", r.key>> \in groups
            BY <3>1 DEF GroupsOf
        <3>3. r \in MembersOf(s, <<"app_project", r.key>>)
            BY <2>2 DEF MembersOf
        <3>. QED  BY <1>9, <1>10, <3>2, <3>3
    <2>. QED  BY <2>1, <2>2
<1>11. ASSUME NEW g \in good, g[1] = "app_project"
       PROVE  <<"project", SideRow(s, g).project>> \in good \cup DOMAIN side
    <2>1. CASE g \in DOMAIN side /\ SideRow(s, g) = side[g]
        BY <1>11, <2>1 DEF StoredInv
    <2>2. CASE SideRow(s, g).project = WinnerOf(s, g).project
        <3>. DEFINE w == WinnerOf(s, g)
                    p == <<"project", w.project>>
        <3>1. w \in MembersOf(s, g)
            BY <1>1, <1>7, WinnerIs
        <3>2. w \in KeptOf(s, {"catalog"})
            BY <1>11, <3>1 DEF MembersOf, KeptOf
        <3>3. p \in groups
            BY <3>2 DEF GroupsOf
        <3>4. ~(p \in refused /\ p \notin DOMAIN side)
            BY <1>8, <1>11 DEF Orphan
        <3>5. ~Orphan(s, p, refused)
            BY DEF Orphan
        <3>. QED  BY <2>2, <3>3, <3>4, <3>5
    <2>. QED  BY <1>1, <1>7, <1>11, <2>1, <2>2, SideRowForward
<1>12. ASSUME NEW g \in good, g[1] # "project"
       PROVE  /\ SideRow(s, g).observed \in Int
              /\ g \in DOMAIN side => SideRow(s, g).observed >= side[g].observed
    BY <1>1, <1>7, <1>12, SideRowForward
<1>13. \A t \in Slots \ {s} : Open(t) => DOMAIN n.names \cap DOMAIN tx[t].names = {}
    BY <1>3, <1>4 DEF Blocked, Peers
<1>. HIDE DEF n, good, bad, groups
<1>14. LedgersReached(n, requests, events, others)
    BY <1>3, <1>5, <1>6 DEF LedgersReached, Reached, Inserted
<1>15. NamesInv(n, side)
    <2>1. DOMAIN n.names = good /\ \A g \in good : n.names[g] = SideRow(s, g)
        BY <1>3
    <2>. QED  BY <1>3, <1>5, <1>10, <1>11, <1>12, <2>1 DEF NamesInv
<1>. QED  BY <1>1, <1>13, <1>14, <1>15, StoredFrame DEF n

LEMMA StoredCommit ==
    ASSUME StoredInv, TxInv', NEW s \in Slots, Commit(s)
    PROVE  StoredInv'
<1>. DEFINE m == tx[s]
            c0 == [env |-> m.env, deferred |-> m.deferred,
                   rejected |-> {r.id : r \in Records[m.env] \ Kept(s)}]
<1>1. TxInv /\ Ends(s) /\ Open(s) /\ m.pc = "commit" /\ m.env \in Envelopes
    BY EndEnds DEF StoredInv, Commit, Step, Ends, TxInv
<1>2. \A t \in Slots : Open(t)' => Open(t) /\ t # s /\ tx'[t] = tx[t]
    BY <1>1 DEF Ends, Open, Idle
<1>3. /\ requests' = requests \cup m.rows /\ events' = events \cup m.ev
      /\ others' = others \cup m.more /\ receipts' = receipts \cup {c0}
    BY DEF Commit
<1>4. /\ DOMAIN side' = DOMAIN m.names \cup DOMAIN side
      /\ \A g \in DOMAIN m.names : side'[g] = m.names[g]
      /\ \A g \in DOMAIN side \ DOMAIN m.names : side'[g] = side[g]
    BY DEF Commit, Over
<1>5. LedgersReached(m, requests, events, others) /\ NamesInv(m, side)
    BY <1>1 DEF StoredInv
<1>6. Kept(s) = KeptBy(m)
    BY DEF Kept, KeptBy
<1>7. c0.env = m.env /\ c0.deferred = m.deferred
      /\ \A r \in Records[m.env] : r \in KeptBy(m) \/ r.id \in c0.rejected
    BY <1>6
<1>. HIDE DEF c0, m
<1>8. \A t \in Slots : Open(t)' =>
         LedgersReached(tx'[t], requests', events', others') /\ NamesInv(tx'[t], side')
    <2>. SUFFICES ASSUME NEW t \in Slots, Open(t)'
                  PROVE  LedgersReached(tx[t], requests', events', others') /\ NamesInv(tx[t], side')
        BY <1>2
    <2>1. /\ LedgersReached(tx[t], requests, events, others) /\ NamesInv(tx[t], side)
          /\ DOMAIN tx[t].names \cap DOMAIN m.names = {}
        BY <1>1, <1>2 DEF StoredInv, m
    <2>2. LedgersReached(tx[t], requests', events', others')
        BY <1>3, <2>1 DEF LedgersReached, Reached, StoredRow
    <2>3. \A g \in DOMAIN tx[t].names : g \in DOMAIN side' => g \in DOMAIN side /\ side'[g] = side[g]
        BY <1>4, <2>1
    <2>4. NamesInv(tx[t], side')
        BY <1>4, <2>1, <2>3 DEF NamesInv
    <2>. QED  BY <2>2, <2>4
<1>9. \A t, u \in Slots : t # u /\ Open(t)' /\ Open(u)' =>
         DOMAIN tx'[t].names \cap DOMAIN tx'[u].names = {}
    BY <1>2 DEF StoredInv
<1>10. \A g \in DOMAIN side' : g[1] # "project" => side'[g].observed \in Int
    BY <1>4, <1>5 DEF StoredInv, NamesInv
<1>11. \A g \in DOMAIN side : g[1] # "project" => side'[g].observed >= side[g].observed
    <2>. SUFFICES ASSUME NEW g \in DOMAIN side, g[1] # "project"
                  PROVE  side'[g].observed >= side[g].observed
        OBVIOUS
    <2>1. side[g].observed \in Int
        BY DEF StoredInv
    <2>. QED  BY <1>4, <1>5, <2>1 DEF NamesInv
<1>12. \A g \in DOMAIN side' : g[1] = "app_project" =>
          <<"project", side'[g].project>> \in DOMAIN side'
    BY <1>4, <1>5 DEF StoredInv, NamesInv
<1>13. \A c \in receipts' : c.env \in Envelopes
    BY <1>1, <1>3, <1>7 DEF StoredInv
<1>14. \A r, X, Y : StoredRow(r, X) => StoredRow(r, X \cup Y)
    BY DEF StoredRow
<1>15. ASSUME NEW c \in receipts', NEW r \in Records[c.env],
              r.id \notin c.rejected \cup c.deferred,
              ~StoredRow(r, requests' \cup events' \cup others')
       PROVE  \/ r.kind = "label" /\ ShownAt(<<"label", r.key>>, r)'
              \/ r.kind = "catalog" /\ ShownAt(<<"app_project", r.key>>, r)'
    <2>0. r.observed \in Int /\ r.kind \in Kinds
        BY <1>13, RecordsAssumption
    <2>1. CASE c \in receipts
        <3>1. ~StoredRow(r, requests \cup events \cup others)
            <4>1. requests' \cup events' \cup others' =
                     (requests \cup events \cup others) \cup (m.rows \cup m.ev \cup m.more)
                BY <1>3
            <4>. QED  BY <1>14, <1>15, <4>1
        <3>2. \/ r.kind = "label" /\ ShownAt(<<"label", r.key>>, r)
              \/ r.kind = "catalog" /\ ShownAt(<<"app_project", r.key>>, r)
            BY <1>15, <2>1, <3>1 DEF StoredInv, AcknowledgedIsStored
        <3>3. ASSUME NEW g, g[1] # "project", ShownAt(g, r) PROVE ShownAt(g, r)'
            <4>1. g \in DOMAIN side /\ side[g].observed >= r.observed
                BY <3>3 DEF ShownAt
            <4>2. side[g].observed \in Int /\ side'[g].observed \in Int
                BY <1>4, <1>10, <3>3, <4>1 DEF StoredInv
            <4>3. side'[g].observed >= side[g].observed
                BY <1>11, <3>3, <4>1
            <4>4. side'[g].observed >= r.observed
                BY <2>0, <4>1, <4>2, <4>3
            <4>. QED  BY <1>4, <4>1, <4>4 DEF ShownAt
        <3>. QED  BY <3>2, <3>3
    <2>2. CASE c = c0
        <3>1. r \in KeptBy(m) /\ r.id \notin m.deferred
            BY <1>7, <1>15, <2>2
        <3>2. r.kind \notin {"request"} \cup EventKinds \cup OtherKinds
            <4>1. /\ Reached(m, {"request"}, requests') /\ Reached(m, EventKinds, events')
                  /\ Reached(m, OtherKinds, others')
                BY <1>1, <1>3, <1>5 DEF LedgersReached, Inserted
            <4>2. /\ requests' \cup (events' \cup others') = requests' \cup events' \cup others'
                  /\ events' \cup (requests' \cup others') = requests' \cup events' \cup others'
                  /\ others' \cup (requests' \cup events') = requests' \cup events' \cup others'
                OBVIOUS
            <4>3. ~StoredRow(r, requests') /\ ~StoredRow(r, events') /\ ~StoredRow(r, others')
                BY <1>14, <1>15, <4>2
            <4>. QED  BY <3>1, <4>1, <4>3 DEF Reached
        <3>3. r.kind \in {"label", "catalog"}
            BY <2>0, <3>2 DEF Kinds, EventKinds, OtherKinds
        <3>4. /\ r.kind = "label" => ShownIn(m.names, <<"label", r.key>>, r)
              /\ r.kind = "catalog" => ShownIn(m.names, <<"app_project", r.key>>, r)
            BY <1>1, <1>5, <3>1 DEF NamesInv
        <3>. QED  BY <1>4, <3>3, <3>4 DEF ShownIn, ShownAt
    <2>. QED  BY <1>3, <2>1, <2>2
<1>16. AcknowledgedIsStored'
    <2>1. ASSUME NEW k, <<"app_project", k>> \in DOMAIN side'
          PROVE  <<"project", side'[<<"app_project", k>>].project>> \in DOMAIN side'
        BY <1>12, <2>1
    <2>2. \A k, r : ShownAt(<<"app_project", k>>, r)' => <<"app_project", k>> \in DOMAIN side'
        BY DEF ShownAt
    <2>. QED  BY <1>15, <2>1, <2>2 DEF AcknowledgedIsStored
<1>. QED  BY <1>8, <1>9, <1>10, <1>12, <1>13, <1>16 DEF StoredInv

LEMMA StoredAbort ==
    ASSUME StoredInv, TxInv', NEW s \in Slots, Abort(s)
    PROVE  StoredInv'
<1>1. Ends(s) /\ UNCHANGED <<requests, events, others, side, receipts>>
    BY EndEnds DEF StoredInv, Abort, stored
<1>2. \A t \in Slots : Open(t)' => Open(t) /\ tx'[t] = tx[t]
    BY <1>1 DEF Ends, Open, Idle
<1>3. AcknowledgedIsStored'
    BY <1>1 DEF StoredInv, AcknowledgedIsStored, ShownAt
<1>. QED  BY <1>1, <1>2, <1>3 DEF StoredInv

LEMMA StoredBegin ==
    ASSUME StoredInv, TxInv', NEW s \in Slots, NEW e \in Envelopes, Begin(s, e)
    PROVE  StoredInv'
<1>1. TxInv /\ Begins(s, e) /\ UNCHANGED <<requests, events, others, side, receipts>>
    BY BeginBegins DEF StoredInv, Begin, stored
<1>2. \A t \in Slots \ {s} : tx'[t] = tx[t] /\ (Open(t)' <=> Open(t))
    BY <1>1 DEF Begins, Open
<1>3. DOMAIN tx'[s].names = {} /\ tx'[s].pc = "identities"
    BY <1>1 DEF Begins
<1>4. LedgersReached(tx'[s], requests, events, others) /\ NamesInv(tx'[s], side)
    BY <1>3 DEF LedgersReached, NamesInv, Inserted
<1>5. \A t \in Slots : Open(t)' =>
         LedgersReached(tx'[t], requests, events, others) /\ NamesInv(tx'[t], side)
    BY <1>2, <1>4 DEF StoredInv
<1>6. \A t, u \in Slots : t # u /\ Open(t)' /\ Open(u)' =>
         DOMAIN tx'[t].names \cap DOMAIN tx'[u].names = {}
    BY <1>2, <1>3 DEF StoredInv
<1>7. AcknowledgedIsStored'
    BY <1>1 DEF StoredInv, AcknowledgedIsStored, ShownAt
<1>. QED  BY <1>1, <1>5, <1>6, <1>7 DEF StoredInv

\* What a receipt neither rejects nor defers is in a ledger, or shown in its
\* table as it is or newer, so the companion may forget it (ingestUsage and
\* applySideRecords; the companion's acknowledge deletes what is not deferred).
THEOREM AcknowledgedStored ==
    ASSUME NEW initial, NEW begun \in Nat, NEW changed
    PROVE  LedgerSpec(initial, begun, changed) => []AcknowledgedIsStored
<1>1. Fill(initial, begun, changed) => StoredInv
    <2>. SUFFICES ASSUME Fill(initial, begun, changed) PROVE StoredInv
        OBVIOUS
    <2>1. TxInv
        BY TxInit
    <2>2. /\ \A s \in Slots : ~Open(s)
          /\ DOMAIN side = {} /\ receipts = {}
        BY DEF Fill, Open, Idle, Empty
    <2>. QED  BY <2>1, <2>2 DEF StoredInv, AcknowledgedIsStored
<1>2. StoredInv /\ [LedgerNext]_ledgerVars => StoredInv'
    <2>. SUFFICES ASSUME StoredInv, [LedgerNext]_ledgerVars PROVE StoredInv'
        OBVIOUS
    <2>1. TxInv'
        BY TxStep DEF StoredInv
    <2>2. ASSUME UNCHANGED <<tx, clock, requests, events, others, side, receipts>> PROVE StoredInv'
        <3>1. AcknowledgedIsStored'
            BY <2>2 DEF StoredInv, AcknowledgedIsStored, ShownAt
        <3>. QED  BY <2>1, <2>2, <3>1 DEF StoredInv, Open
    <2>3. ASSUME NEW s \in Slots, StepOf(s) PROVE StoredInv'
        BY <2>1, <2>3, StoredElsewhere, StoredInserts, StoredLedgers, StoredSide, StoredCommit,
           StoredAbort, StoredBegin DEF StepOf
    <2>. QED  BY <2>2, <2>3 DEF LedgerNext, ChangeBinding, stored, ledgerVars
<1>3. StoredInv => AcknowledgedIsStored
    BY DEF StoredInv
<1>. QED  BY <1>1, <1>2, <1>3, PTL DEF LedgerSpec
-----------------------------------------------------------------------------
(* The run rows.                                                           *)

\* What the run rows accepted together.
AcceptedSum(table) == Sums!Fold(table, 0, DOMAIN table)

\* CHOOSE picks a member of any set of runs.
LEMMA RunsSound ==
    ASSUME NEW S, IsFiniteSet(S)
    PROVE  Sums!Sound(S)
<1>1. Sums!IsFiniteSet(S)
    BY DEF Sums!IsFiniteSet, IsFiniteSet
<1>2. \A T \in SUBSET S : T # {} => AnyOf(T) \in T
    BY DEF AnyOf
<1>. QED  BY <1>1, <1>2 DEF Sums!Sound

\* Any of the runs can be taken out of the sum.
LEMMA SumSplits ==
    ASSUME NEW table, NEW S, IsFiniteSet(S), \A x \in S : table[x].accepted \in Int, NEW k \in S
    PROVE  /\ Sums!Fold(table, 0, S) = table[k].accepted + Sums!Fold(table, 0, S \ {k})
           /\ Sums!Fold(table, 0, S) \in Int /\ Sums!Fold(table, 0, S \ {k}) \in Int
<1>1. Sums!Sound(S) /\ Sums!Sound(S \ {k})
    BY RunsSound, FS_Subset
<1>2. Whole(table, 0)
    BY DEF Whole
<1>3. \A x \in S : \A acc : Whole(table, acc) => Whole(table, Adding(table, AcceptedIn(table, x), acc))
    BY DEF Whole, Adding, AcceptedIn
<1>4. \A x, y \in S : \A acc : Whole(table, acc) =>
         Adding(table, AcceptedIn(table, x), Adding(table, AcceptedIn(table, y), acc))
            = Adding(table, AcceptedIn(table, y), Adding(table, AcceptedIn(table, x), acc))
    BY DEF Whole, Adding, AcceptedIn
<1>5. Sums!Fold(table, 0, S) = Adding(table, AcceptedIn(table, k), Sums!Fold(table, 0, S \ {k}))
    BY <1>1, <1>2, <1>3, <1>4, Sums!FoldAny
<1>6. Whole(table, Sums!Fold(table, 0, S))
    BY <1>1, <1>2, <1>3, Sums!FoldKeeps
<1>7. Whole(table, Sums!Fold(table, 0, S \ {k}))
    BY <1>1, <1>2, <1>3, Sums!FoldKeeps
<1>. QED  BY <1>5, <1>6, <1>7 DEF Whole, Adding, AcceptedIn

\* A body adds what it accepted to the row of its run, and so to the sum.
LEMMA AcceptedAdds ==
    ASSUME NEW old, NEW new, IsFiniteSet(DOMAIN old), \A x \in DOMAIN old : old[x].accepted \in Int,
           NEW k, NEW n \in Int, DOMAIN new = {k} \cup DOMAIN old,
           \A x \in DOMAIN old \ {k} : new[x] = old[x],
           new[k].accepted = (IF k \in DOMAIN old THEN old[k].accepted ELSE 0) + n
    PROVE  AcceptedSum(new) = AcceptedSum(old) + n
<1>. DEFINE rest == DOMAIN old \ {k}
<1>1. IsFiniteSet(DOMAIN new) /\ IsFiniteSet(rest)
    BY FS_Subset, FS_AddElement
<1>2. \A x \in DOMAIN new : new[x].accepted \in Int
    OBVIOUS
<1>3. k \in DOMAIN new /\ DOMAIN new \ {k} = rest
    OBVIOUS
<1>. HIDE DEF rest
<1>4. /\ AcceptedSum(new) = new[k].accepted + Sums!Fold(new, 0, rest)
      /\ Sums!Fold(new, 0, rest) \in Int
    BY <1>1, <1>2, <1>3, SumSplits DEF AcceptedSum
<1>5. Sums!Fold(new, 0, rest) = Sums!Fold(old, 0, rest)
    <2>1. \A x \in rest : AcceptedIn(new, x) = AcceptedIn(old, x)
        BY DEF AcceptedIn, rest
    <2>2. \A x, y : Adding(new, x, y) = Adding(old, x, y)
        BY DEF Adding
    <2>3. Sums!Sound(rest)
        BY <1>1, RunsSound
    <2>. QED  BY <2>1, <2>2, <2>3, Sums!FoldSame
<1>6. CASE k \in DOMAIN old
    <2>1. AcceptedSum(old) = old[k].accepted + Sums!Fold(old, 0, rest)
        BY <1>6, SumSplits DEF AcceptedSum, rest
    <2>. QED  BY <1>4, <1>5, <1>6, <2>1
<1>7. CASE k \notin DOMAIN old
    <2>1. rest = DOMAIN old
        BY <1>7 DEF rest
    <2>. QED  BY <1>4, <1>5, <1>7, <2>1 DEF AcceptedSum
<1>. QED  BY <1>6, <1>7

\* That the run rows add up to the ledgers.
AddsUp == AcceptedSum(runs) = Cardinality(requests) + Cardinality(events) + Cardinality(others)

\* The sum of the property is that fold.
LEMMA SumIs == RunsCountRows <=> AddsUp
BY DEF RunsCountRows, AddsUp, AcceptedSum, MapThenSumSet, Sums!Fold, Sums!MapThenFoldSet,
       MapThenFoldSet, Adding, AcceptedIn, AnyOf
\* No two of the rows are one revision.
OnceEach(rows) == \A r, q \in rows : Revision(r) = Revision(q) => r = q
NoneShared(rows, there) == \A r \in rows, q \in there : Revision(r) # Revision(q)

\* The rows of one ledger that the open transactions are about to store.
RowParts == [s \in Slots |-> IF Open(s) THEN tx[s].rows ELSE {}]
EvParts == [s \in Slots |-> IF Open(s) THEN tx[s].ev ELSE {}]
MoreParts == [s \in Slots |-> IF Open(s) THEN tx[s].more ELSE {}]

\* The unique key of a ledger: stored or about to be stored, a revision is there once.
LedgerOnce(ledger, parts) ==
    /\ IsFiniteSet(ledger) /\ OnceEach(ledger)
    /\ \A s \in Slots : /\ IsFiniteSet(parts[s]) /\ OnceEach(parts[s])
                        /\ NoneShared(parts[s], ledger)
    /\ \A s, t \in Slots : s # t => NoneShared(parts[s], parts[t])

\* What a transaction is to count in its run.
Tallied(m) ==
    /\ m.pc \in {"identities", "requests"} => m.rows = {} /\ m.accepted = 0
    /\ m.pc \notin Inserted => m.ev = {} /\ m.more = {}
    /\ m.accepted = Cardinality(m.rows) + Cardinality(m.ev) + Cardinality(m.more)

RevisionsOnce == OnceEach(requests) /\ OnceEach(events) /\ OnceEach(others)

CountInv ==
    /\ TxInv
    /\ LedgerOnce(requests, RowParts) /\ LedgerOnce(events, EvParts) /\ LedgerOnce(others, MoreParts)
    /\ \A s \in Slots : Open(s) => Tallied(tx[s])
    /\ IsFiniteSet(DOMAIN runs) /\ \A x \in DOMAIN runs : runs[x].accepted \in Int
    /\ AddsUp

\* A transaction takes rows that nobody has.
LEMMA LedgerTakes ==
    ASSUME NEW ledger, NEW parts, LedgerOnce(ledger, parts), NEW s \in Slots, NEW new,
           IsFiniteSet(new), OnceEach(new), NoneShared(new, ledger),
           \A t \in Slots \ {s} : NoneShared(new, parts[t]),
           NEW after, after[s] = new, \A t \in Slots \ {s} : after[t] = parts[t]
    PROVE  LedgerOnce(ledger, after)
BY DEF LedgerOnce, NoneShared

\* s has nothing left to store.
Without(parts, s, after) == after[s] = {} /\ \A t \in Slots \ {s} : after[t] = parts[t]
\* What it stored is in the ledger, or, given up, nowhere; the rows of the others stay.
LEMMA LedgerGrows ==
    ASSUME NEW ledger, NEW parts, LedgerOnce(ledger, parts), NEW s \in Slots,
           NEW after, Without(parts, s, after)
    PROVE  /\ LedgerOnce(ledger, after) /\ LedgerOnce(ledger \cup parts[s], after)
           /\ Cardinality(ledger \cup parts[s]) = Cardinality(ledger) + Cardinality(parts[s])
           /\ Cardinality(ledger) \in Nat /\ Cardinality(parts[s]) \in Nat
<1>. USE DEF Without
<1>1. IsFiniteSet(ledger) /\ IsFiniteSet(parts[s]) /\ ledger \cap parts[s] = {}
    BY DEF LedgerOnce, NoneShared
<1>2. /\ Cardinality(ledger \cup parts[s]) = Cardinality(ledger) + Cardinality(parts[s])
      /\ Cardinality(ledger) \in Nat /\ Cardinality(parts[s]) \in Nat
    <2>1. Cardinality(ledger \cap parts[s]) = 0
        BY <1>1, FS_EmptySet
    <2>2. Cardinality(ledger \cup parts[s])
             = Cardinality(ledger) + Cardinality(parts[s]) - Cardinality(ledger \cap parts[s])
        BY <1>1, FS_Union
    <2>3. Cardinality(ledger) \in Nat /\ Cardinality(parts[s]) \in Nat
        BY <1>1, FS_CardinalityType
    <2>. QED  BY <2>1, <2>2, <2>3
<1>3. IsFiniteSet({}) /\ IsFiniteSet(ledger \cup parts[s])
    BY <1>1, FS_EmptySet, FS_Union
<1>4. OnceEach(ledger \cup parts[s])
    BY DEF LedgerOnce, NoneShared, OnceEach
<1>5. \A t \in Slots \ {s} : NoneShared(parts[t], ledger \cup parts[s])
    BY DEF LedgerOnce, NoneShared
<1>6. \A t \in Slots : IsFiniteSet(after[t]) /\ OnceEach(after[t])
    BY <1>3 DEF LedgerOnce, OnceEach
<1>7. \A t \in Slots : NoneShared(after[t], ledger) /\ NoneShared(after[t], ledger \cup parts[s])
    BY <1>5 DEF LedgerOnce, NoneShared
<1>8. \A t, u \in Slots : t # u => NoneShared(after[t], after[u])
    BY DEF LedgerOnce, NoneShared
<1>. QED  BY <1>1, <1>2, <1>3, <1>4, <1>6, <1>7, <1>8 DEF LedgerOnce

\* What Fresh takes of an envelope's rows is new and each revision once.
LEMMA FreshOnce ==
    ASSUME NEW rows, IsFiniteSet(rows), \A r \in rows : r.rec.id \in Int,
           \A r, q \in rows : r.rec.id = q.rec.id => r = q, NEW there
    PROVE  /\ IsFiniteSet(Fresh(rows, there)) /\ OnceEach(Fresh(rows, there))
           /\ NoneShared(Fresh(rows, there), there)
<1>1. Fresh(rows, there) \subseteq rows
    BY DEF Fresh
<1>2. IsFiniteSet(Fresh(rows, there))
    BY <1>1, FS_Subset
<1>3. OnceEach(Fresh(rows, there))
    <2>. SUFFICES ASSUME NEW r \in Fresh(rows, there), NEW q \in Fresh(rows, there), Revision(r) = Revision(q)
                  PROVE  r = q
        BY DEF OnceEach
    <2>1. r.rec.id <= q.rec.id /\ q.rec.id <= r.rec.id
        BY DEF Fresh
    <2>. QED  BY <1>1, <2>1
<1>4. NoneShared(Fresh(rows, there), there)
    BY DEF Fresh, NoneShared
<1>. QED  BY <1>2, <1>3, <1>4

\* And nobody else is about to store it, once the insert is not blocked.
LEMMA NotBlocked ==
    ASSUME NEW s \in Slots, NEW new,
           TxInv
    PROVE  /\ ~BlockedRows(s, "rows", new) => \A t \in Slots \ {s} : NoneShared(new, RowParts[t])
           /\ ~BlockedRows(s, "ev", new) => \A t \in Slots \ {s} : NoneShared(new, EvParts[t])
           /\ ~BlockedRows(s, "more", new) => \A t \in Slots \ {s} : NoneShared(new, MoreParts[t])
BY DEF BlockedRows, Peers, NoneShared, RowParts, EvParts, MoreParts

\* The rows of an envelope differ in their ids.
LEMMA RowsApart ==
    ASSUME TxInv, NEW s \in Slots, Open(s), NEW kinds
    PROVE  \A r, q \in RowsOf(s, kinds) : r.rec.id = q.rec.id => r = q
<1>1. \A r \in RowsOf(s, kinds) : r.rec \in Records[tx[s].env] /\ r = [rec |-> r.rec, at |-> tx[s].at]
    BY DEF RowsOf, KeptOf, Kept
<1>2. tx[s].env \in Envelopes
    BY DEF TxInv
<1>. QED  BY <1>1, <1>2, RecordsAssumption

\* A step that takes and stores nothing.
LEMMA CountsStay ==
    ASSUME TxInv, NEW s \in Slots,
           \/ ObserveIdentities(s) \/ StartProjection(s) \/ UpsertCanonical(s)
           \/ StartRegisters(s) \/ UpsertRegisters(s) \/ ApplySide(s)
    PROVE  /\ tx'[s].rows = tx[s].rows /\ tx'[s].ev = tx[s].ev /\ tx'[s].more = tx[s].more
           /\ tx'[s].accepted = tx[s].accepted
           /\ tx'[s].pc \in {"identities", "requests"} => tx[s].pc \in {"identities", "requests"}
           /\ tx'[s].pc \notin Inserted => tx[s].pc \notin Inserted
<1>. USE DEF TxInv, Fields, Open, Step, Inserted
<1>1. CASE ObserveIdentities(s)
    BY <1>1 DEF ObserveIdentities
<1>2. CASE StartProjection(s)
    <2>1. PICK c : tx' = [tx EXCEPT ![s].pc = "upsert", ![s].cand = c]
        BY <1>2, SnapshotIs
    <2>2. tx[s].pc = "project"
        BY <1>2, SnapshotIs
    <2>. QED  BY <2>1, <2>2
<1>3. CASE UpsertCanonical(s)
    <2>1. \/ tx' = [tx EXCEPT ![s].pc = "ledgers"]
          \/ \E w : tx' = [tx EXCEPT ![s].wrote = w]
        BY <1>3 DEF UpsertCanonical
    <2>. QED  BY <1>3, <2>1 DEF UpsertCanonical
<1>4. CASE StartRegisters(s)
    BY <1>4 DEF StartRegisters
<1>5. CASE UpsertRegisters(s)
    <2>1. \/ tx' = [tx EXCEPT ![s].pc = "side"]
          \/ \E w : tx' = [tx EXCEPT ![s].regs = w]
        BY <1>5 DEF UpsertRegisters
    <2>. QED  BY <1>5, <2>1 DEF UpsertRegisters
<1>6. CASE ApplySide(s)
    <2>1. PICK x, d : tx' = [tx EXCEPT ![s].pc = "commit", ![s].names = x, ![s].deferred = d]
        BY <1>6, SideIs
    <2>2. tx[s].pc = "side"
        BY <1>6, SideIs
    <2>. QED  BY <2>1, <2>2
<1>. QED  BY <1>1, <1>2, <1>3, <1>4, <1>5, <1>6

\* So the counts stay what they are.
LEMMA CountsFrame ==
    ASSUME CountInv, NEW s \in Slots,
           \/ ObserveIdentities(s) \/ StartProjection(s) \/ UpsertCanonical(s)
           \/ StartRegisters(s) \/ UpsertRegisters(s) \/ ApplySide(s), TxInv'
    PROVE  CountInv'
<1>1. TxInv /\ Moves(s)
    BY StepMoves DEF CountInv
<1>2. UNCHANGED stored
    BY DEF ObserveIdentities, StartProjection, UpsertCanonical, StartRegisters, UpsertRegisters, ApplySide
<1>3. \A t \in Slots : Open(t)' <=> Open(t)
    BY <1>1 DEF Moves, Open
<1>4. \A t \in Slots : Open(t) => tx'[t].rows = tx[t].rows /\ tx'[t].ev = tx[t].ev /\ tx'[t].more = tx[t].more
    BY <1>1, CountsStay DEF Moves
<1>5. RowParts' = RowParts /\ EvParts' = EvParts /\ MoreParts' = MoreParts
    BY <1>3, <1>4 DEF RowParts, EvParts, MoreParts
<1>6. Tallied(tx'[s])
    BY <1>1, CountsStay DEF Tallied, CountInv, Moves
<1>7. \A t \in Slots : Open(t)' => Tallied(tx'[t])
    BY <1>1, <1>3, <1>6 DEF CountInv, Moves
<1>8. AddsUp'
    BY <1>2 DEF CountInv, AddsUp, stored
<1>. QED  BY <1>2, <1>5, <1>7, <1>8 DEF CountInv, stored

\* insertRequests counts the requests it takes.
LEMMA CountsRequests ==
    ASSUME CountInv, TxInv', NEW s \in Slots, InsertRequests(s)
    PROVE  CountInv'
<1>. DEFINE n == tx'[s]
            taken == FirstSightings(RowsOf(s, {"request"}), requests)
            fresh == Fresh(taken, requests)
<1>1. TxInv /\ Moves(s) /\ UNCHANGED stored /\ Open(s)
    BY StepMoves DEF CountInv, InsertRequests, Moves
<1>2. /\ n.pc = "project" /\ tx[s].pc = "requests" /\ n.rows = fresh
      /\ n.ev = tx[s].ev /\ n.more = tx[s].more /\ n.accepted = Cardinality(fresh)
    BY <1>1 DEF InsertRequests, TxInv, Fields, Step
<1>3. ~BlockedRows(s, "rows", fresh)
    BY DEF InsertRequests
<1>4. IsFiniteSet(fresh) /\ OnceEach(fresh) /\ NoneShared(fresh, requests)
    <2>1. taken \subseteq RowsOf(s, {"request"})
        BY DEF FirstSightings
    <2>2. /\ IsFiniteSet(RowsOf(s, {"request"}))
          /\ \A r \in RowsOf(s, {"request"}) : r.rec.id \in Int
          /\ \A r, q \in RowsOf(s, {"request"}) : r.rec.id = q.rec.id => r = q
        BY <1>1, RowsFinite, RowsApart
    <2>. HIDE DEF taken
    <2>3. IsFiniteSet(taken)
        BY <2>1, <2>2, FS_Subset
    <2>. QED  BY <2>1, <2>2, <2>3, FreshOnce
<1>. HIDE DEF n, fresh, taken
<1>5. \A t \in Slots \ {s} : NoneShared(fresh, RowParts[t])
    BY <1>1, <1>3, NotBlocked
<1>6. /\ \A t \in Slots \ {s} : tx'[t] = tx[t] /\ (Open(t)' <=> Open(t))
      /\ Open(s)'
    BY <1>1 DEF Moves, Open
<1>7. /\ RowParts'[s] = fresh /\ \A t \in Slots \ {s} : RowParts'[t] = RowParts[t]
      /\ EvParts' = EvParts /\ MoreParts' = MoreParts
    BY <1>1, <1>2, <1>6 DEF RowParts, EvParts, MoreParts, n
<1>8. LedgerOnce(requests, RowParts')
    BY <1>4, <1>5, <1>7, LedgerTakes DEF CountInv
<1>9. Tallied(n)
    <2>1. tx[s].ev = {} /\ tx[s].more = {}
        BY <1>1, <1>2 DEF CountInv, Tallied, Inserted
    <2>2. Cardinality({}) = 0 /\ Cardinality(fresh) \in Nat
        BY <1>4, FS_EmptySet, FS_CardinalityType
    <2>. QED  BY <1>2, <2>1, <2>2 DEF Tallied, Inserted
<1>10. \A t \in Slots : Open(t)' => Tallied(tx'[t])
    BY <1>6, <1>9 DEF CountInv, n
<1>11. AddsUp'
    BY <1>1 DEF CountInv, AddsUp, stored
<1>. QED  BY <1>1, <1>7, <1>8, <1>10, <1>11 DEF CountInv, stored

\* insert counts the events and the rest.
LEMMA CountsLedgers ==
    ASSUME CountInv, TxInv', NEW s \in Slots, InsertLedgers(s)
    PROVE  CountInv'
<1>. DEFINE n == tx'[s]
            ev == Fresh(RowsOf(s, {"invocation", "result"}), events)
            more == Fresh(RowsOf(s, {"reading", "money", "bucket"}), others)
<1>1. TxInv /\ Moves(s) /\ UNCHANGED stored /\ Open(s)
    BY StepMoves DEF CountInv, InsertLedgers, Moves
<1>2. /\ n.pc = "registers" /\ tx[s].pc = "ledgers" /\ n.rows = tx[s].rows
      /\ n.ev = ev /\ n.more = more
      /\ n.accepted = tx[s].accepted + Cardinality(ev) + Cardinality(more)
    BY <1>1 DEF InsertLedgers, TxInv, Fields, Step
<1>3. ~BlockedRows(s, "ev", ev) /\ ~BlockedRows(s, "more", more)
    BY DEF InsertLedgers
<1>4. \A kinds : /\ IsFiniteSet(RowsOf(s, kinds))
                 /\ \A r \in RowsOf(s, kinds) : r.rec.id \in Int
                 /\ \A r, q \in RowsOf(s, kinds) : r.rec.id = q.rec.id => r = q
    BY <1>1, RowsFinite, RowsApart
<1>5. /\ IsFiniteSet(ev) /\ OnceEach(ev) /\ NoneShared(ev, events)
      /\ IsFiniteSet(more) /\ OnceEach(more) /\ NoneShared(more, others)
    BY <1>4, FreshOnce
<1>. HIDE DEF n, ev, more
<1>6. /\ \A t \in Slots \ {s} : NoneShared(ev, EvParts[t])
      /\ \A t \in Slots \ {s} : NoneShared(more, MoreParts[t])
    BY <1>1, <1>3, NotBlocked
<1>7. /\ \A t \in Slots \ {s} : tx'[t] = tx[t] /\ (Open(t)' <=> Open(t))
      /\ Open(s)'
    BY <1>1 DEF Moves, Open
<1>8. /\ EvParts'[s] = ev /\ \A t \in Slots \ {s} : EvParts'[t] = EvParts[t]
      /\ MoreParts'[s] = more /\ \A t \in Slots \ {s} : MoreParts'[t] = MoreParts[t]
      /\ RowParts' = RowParts
    BY <1>1, <1>2, <1>7 DEF RowParts, EvParts, MoreParts, n
<1>9. LedgerOnce(events, EvParts')
    BY <1>5, <1>6, <1>8, LedgerTakes DEF CountInv
<1>10. LedgerOnce(others, MoreParts')
    BY <1>5, <1>6, <1>8, LedgerTakes DEF CountInv
<1>11. Tallied(n)
    <2>1. tx[s].ev = {} /\ tx[s].more = {} /\ Tallied(tx[s])
        BY <1>1, <1>2 DEF CountInv, Tallied, Inserted
    <2>2. RowParts[s] = tx[s].rows /\ IsFiniteSet(tx[s].rows)
        BY <1>1 DEF CountInv, RowParts, LedgerOnce
    <2>3. /\ Cardinality({}) = 0 /\ Cardinality(ev) \in Nat /\ Cardinality(more) \in Nat
          /\ Cardinality(tx[s].rows) \in Nat
        BY <1>5, <2>2, FS_EmptySet, FS_CardinalityType
    <2>4. tx[s].accepted = Cardinality(tx[s].rows)
        BY <2>1, <2>3 DEF Tallied
    <2>. QED  BY <1>2, <2>3, <2>4 DEF Tallied, Inserted
<1>12. \A t \in Slots : Open(t)' => Tallied(tx'[t])
    BY <1>7, <1>11 DEF CountInv, n
<1>13. AddsUp'
    BY <1>1 DEF CountInv, AddsUp, stored
<1>. QED  BY <1>1, <1>8, <1>9, <1>10, <1>12, <1>13 DEF CountInv, stored

\* The commit stores the rows and counts them, together.
LEMMA CountsCommit ==
    ASSUME CountInv, TxInv', NEW s \in Slots, Commit(s)
    PROVE  CountInv'
<1>. DEFINE run == RunOf[tx[s].env]
<1>1. TxInv /\ Ends(s) /\ Open(s)
    BY EndEnds DEF CountInv, Commit, Ends
<1>2. /\ requests' = requests \cup tx[s].rows /\ events' = events \cup tx[s].ev
      /\ others' = others \cup tx[s].more
      /\ runs' = Over([x \in {run} |-> Accumulated(s)], runs)
    BY DEF Commit
<1>3. /\ \A t \in Slots \ {s} : tx'[t] = tx[t] /\ (Open(t)' <=> Open(t))
      /\ ~Open(s)'
    BY <1>1 DEF Ends, Open, Idle
<1>4. /\ RowParts[s] = tx[s].rows /\ RowParts'[s] = {}
      /\ EvParts[s] = tx[s].ev /\ EvParts'[s] = {}
      /\ MoreParts[s] = tx[s].more /\ MoreParts'[s] = {}
      /\ \A t \in Slots \ {s} : /\ RowParts'[t] = RowParts[t] /\ EvParts'[t] = EvParts[t]
                                /\ MoreParts'[t] = MoreParts[t]
    BY <1>1, <1>3 DEF RowParts, EvParts, MoreParts
<1>5. /\ LedgerOnce(requests', RowParts') /\ Cardinality(requests) \in Nat
      /\ Cardinality(requests') = Cardinality(requests) + Cardinality(tx[s].rows)
      /\ Cardinality(tx[s].rows) \in Nat
    <2>0. Without(RowParts, s, RowParts')
        BY <1>4 DEF Without
    <2>1. LedgerOnce(requests, RowParts)
        BY DEF CountInv
    <2>2. LedgerOnce(requests \cup RowParts[s], RowParts')
        BY <2>0, <2>1, LedgerGrows
    <2>3. Cardinality(requests \cup RowParts[s]) = Cardinality(requests) + Cardinality(RowParts[s])
        BY <2>0, <2>1, LedgerGrows
    <2>4. Cardinality(requests) \in Nat /\ Cardinality(RowParts[s]) \in Nat
        BY <2>0, <2>1, LedgerGrows
    <2>. QED  BY <1>2, <1>4, <2>2, <2>3, <2>4
<1>6. /\ LedgerOnce(events', EvParts') /\ Cardinality(events) \in Nat
      /\ Cardinality(events') = Cardinality(events) + Cardinality(tx[s].ev)
      /\ Cardinality(tx[s].ev) \in Nat
    <2>0. Without(EvParts, s, EvParts')
        BY <1>4 DEF Without
    <2>1. LedgerOnce(events, EvParts)
        BY DEF CountInv
    <2>2. LedgerOnce(events \cup EvParts[s], EvParts')
        BY <2>0, <2>1, LedgerGrows
    <2>3. Cardinality(events \cup EvParts[s]) = Cardinality(events) + Cardinality(EvParts[s])
        BY <2>0, <2>1, LedgerGrows
    <2>4. Cardinality(events) \in Nat /\ Cardinality(EvParts[s]) \in Nat
        BY <2>0, <2>1, LedgerGrows
    <2>. QED  BY <1>2, <1>4, <2>2, <2>3, <2>4
<1>7. /\ LedgerOnce(others', MoreParts') /\ Cardinality(others) \in Nat
      /\ Cardinality(others') = Cardinality(others) + Cardinality(tx[s].more)
      /\ Cardinality(tx[s].more) \in Nat
    <2>0. Without(MoreParts, s, MoreParts')
        BY <1>4 DEF Without
    <2>1. LedgerOnce(others, MoreParts)
        BY DEF CountInv
    <2>2. LedgerOnce(others \cup MoreParts[s], MoreParts')
        BY <2>0, <2>1, LedgerGrows
    <2>3. Cardinality(others \cup MoreParts[s]) = Cardinality(others) + Cardinality(MoreParts[s])
        BY <2>0, <2>1, LedgerGrows
    <2>4. Cardinality(others) \in Nat /\ Cardinality(MoreParts[s]) \in Nat
        BY <2>0, <2>1, LedgerGrows
    <2>. QED  BY <1>2, <1>4, <2>2, <2>3, <2>4
<1>8. \A t \in Slots : Open(t)' => Tallied(tx'[t])
    BY <1>3 DEF CountInv
<1>9. PICK n : n = tx[s].accepted
    OBVIOUS
<1>10. /\ n = Cardinality(tx[s].rows) + Cardinality(tx[s].ev) + Cardinality(tx[s].more)
       /\ n \in Int
    BY <1>1, <1>5, <1>6, <1>7, <1>9 DEF CountInv, Tallied
<1>11. Accumulated(s).accepted = (IF run \in DOMAIN runs THEN runs[run].accepted ELSE 0) + n
    BY <1>9 DEF Accumulated
<1>. HIDE DEF run
<1>12. /\ DOMAIN runs' = {run} \cup DOMAIN runs
       /\ runs'[run].accepted = (IF run \in DOMAIN runs THEN runs[run].accepted ELSE 0) + n
       /\ \A x \in DOMAIN runs \ {run} : runs'[x] = runs[x]
    BY <1>2, <1>11 DEF Over
<1>13. IsFiniteSet(DOMAIN runs) /\ \A x \in DOMAIN runs : runs[x].accepted \in Int
    BY DEF CountInv
<1>14. AcceptedSum(runs') = AcceptedSum(runs) + n
    BY <1>10, <1>12, <1>13, AcceptedAdds
<1>15. AcceptedSum(runs) = Cardinality(requests) + Cardinality(events) + Cardinality(others)
    BY DEF CountInv, AddsUp
<1>16. AddsUp'
    BY <1>5, <1>6, <1>7, <1>10, <1>14, <1>15 DEF AddsUp
<1>17. /\ IsFiniteSet(DOMAIN runs') /\ \A x \in DOMAIN runs' : runs'[x].accepted \in Int
    BY <1>10, <1>12, <1>13, FS_AddElement
<1>. QED  BY <1>5, <1>6, <1>7, <1>8, <1>16, <1>17 DEF CountInv

\* An abort counts nothing.
LEMMA CountsAbort ==
    ASSUME CountInv, TxInv', NEW s \in Slots, Abort(s)
    PROVE  CountInv'
<1>1. TxInv /\ Ends(s) /\ Open(s) /\ UNCHANGED <<requests, events, others, runs>>
    BY EndEnds DEF CountInv, Abort, stored, Ends
<1>2. /\ \A t \in Slots \ {s} : tx'[t] = tx[t] /\ (Open(t)' <=> Open(t))
      /\ ~Open(s)'
    BY <1>1 DEF Ends, Open, Idle
<1>3. /\ RowParts'[s] = {} /\ EvParts'[s] = {} /\ MoreParts'[s] = {}
      /\ \A t \in Slots \ {s} : /\ RowParts'[t] = RowParts[t] /\ EvParts'[t] = EvParts[t]
                                /\ MoreParts'[t] = MoreParts[t]
    BY <1>1, <1>2 DEF RowParts, EvParts, MoreParts
<1>4. /\ LedgerOnce(requests, RowParts') /\ LedgerOnce(events, EvParts')
      /\ LedgerOnce(others, MoreParts')
    <2>1. Without(RowParts, s, RowParts') /\ Without(EvParts, s, EvParts') /\ Without(MoreParts, s, MoreParts')
        BY <1>3 DEF Without
    <2>. QED  BY <2>1, LedgerGrows DEF CountInv
<1>5. \A t \in Slots : Open(t)' => Tallied(tx'[t])
    BY <1>2 DEF CountInv
<1>6. AddsUp'
    BY <1>1 DEF CountInv, AddsUp
<1>. QED  BY <1>1, <1>4, <1>5, <1>6 DEF CountInv

\* A transaction begins with nothing to count.
LEMMA CountsBegin ==
    ASSUME CountInv, TxInv', NEW s \in Slots, NEW e \in Envelopes, Begin(s, e)
    PROVE  CountInv'
<1>1. TxInv /\ Begins(s, e) /\ UNCHANGED <<requests, events, others, runs>>
    BY BeginBegins DEF CountInv, Begin, stored
<1>2. /\ \A t \in Slots \ {s} : tx'[t] = tx[t] /\ (Open(t)' <=> Open(t))
      /\ ~Open(s)
    BY <1>1 DEF Begins, Open
<1>3. /\ tx'[s].rows = {} /\ tx'[s].ev = {} /\ tx'[s].more = {} /\ tx'[s].accepted = 0
    BY <1>1 DEF Begins, Begin, TxInv
<1>4. RowParts' = RowParts /\ EvParts' = EvParts /\ MoreParts' = MoreParts
    BY <1>2, <1>3 DEF RowParts, EvParts, MoreParts
<1>5. Tallied(tx'[s])
    BY <1>3, FS_EmptySet DEF Tallied
<1>6. \A t \in Slots : Open(t)' => Tallied(tx'[t])
    BY <1>2, <1>5 DEF CountInv
<1>7. AddsUp'
    BY <1>1 DEF CountInv, AddsUp
<1>. QED  BY <1>1, <1>4, <1>6, <1>7 DEF CountInv

\* Before anything is posted there is nothing to count.
LEMMA CountsInit ==
    ASSUME NEW initial, NEW begun \in Nat, NEW changed, Fill(initial, begun, changed)
    PROVE  CountInv
<1>1. TxInv
    BY TxInit
<1>2. \A s \in Slots : ~Open(s)
    BY DEF Fill, Open, Idle
<1>3. /\ requests = {} /\ events = {} /\ others = {} /\ DOMAIN runs = {}
    BY DEF Fill, Empty
<1>4. IsFiniteSet({}) /\ Cardinality({}) = 0
    BY FS_EmptySet
<1>5. /\ LedgerOnce(requests, RowParts) /\ LedgerOnce(events, EvParts) /\ LedgerOnce(others, MoreParts)
    BY <1>2, <1>3, <1>4 DEF LedgerOnce, OnceEach, NoneShared, RowParts, EvParts, MoreParts
<1>6. AcceptedSum(runs) = 0
    <2>1. Sums!Fold(runs, 0, {}) = 0
        BY Sums!FoldEmpty
    <2>. QED  BY <1>3, <2>1 DEF AcceptedSum
<1>. QED  BY <1>1, <1>2, <1>3, <1>4, <1>5, <1>6 DEF CountInv, AddsUp

\* Every step keeps the counts.
LEMMA CountsStep ==
    ASSUME CountInv, [LedgerNext]_ledgerVars
    PROVE  CountInv'
<1>1. TxInv'
    BY TxStep DEF CountInv
<1>2. ASSUME UNCHANGED <<tx, requests, events, others, runs>> PROVE CountInv'
    <2>1. RowParts' = RowParts /\ EvParts' = EvParts /\ MoreParts' = MoreParts
        BY <1>2 DEF RowParts, EvParts, MoreParts, Open
    <2>2. \A t \in Slots : Open(t)' => Tallied(tx'[t])
        BY <1>2 DEF CountInv, Open
    <2>3. AddsUp'
        BY <1>2 DEF CountInv, AddsUp
    <2>. QED  BY <1>1, <1>2, <2>1, <2>2, <2>3 DEF CountInv
<1>3. ASSUME NEW s \in Slots, StepOf(s) PROVE CountInv'
    BY <1>1, <1>3, CountsFrame, CountsRequests, CountsLedgers, CountsCommit, CountsAbort,
       CountsBegin DEF StepOf
<1>. QED  BY <1>2, <1>3 DEF LedgerNext, ChangeBinding, stored, ledgerVars

\* companion_runs adds up what the bodies of a run stored, whatever overlaps, is posted
\* twice or is given up: the sum over all runs is the number of ledger rows.
THEOREM RunsCounted ==
    ASSUME NEW initial, NEW begun \in Nat, NEW changed
    PROVE  LedgerSpec(initial, begun, changed) => []RunsCountRows
<1>1. Fill(initial, begun, changed) => CountInv
    BY CountsInit
<1>2. CountInv /\ [LedgerNext]_ledgerVars => CountInv'
    BY CountsStep
<1>3. CountInv => RunsCountRows
    BY SumIs DEF CountInv
<1>. QED  BY <1>1, <1>2, <1>3, PTL DEF LedgerSpec

\* And each of those rows is a revision of its own, as the unique key of the ledger
\* says, though two transactions may have met it at once.
THEOREM RevisionsStoredOnce ==
    ASSUME NEW initial, NEW begun \in Nat, NEW changed
    PROVE  LedgerSpec(initial, begun, changed) => []RevisionsOnce
<1>1. Fill(initial, begun, changed) => CountInv
    BY CountsInit
<1>2. CountInv /\ [LedgerNext]_ledgerVars => CountInv'
    BY CountsStep
<1>3. CountInv => RevisionsOnce
    BY DEF CountInv, LedgerOnce, RevisionsOnce
<1>. QED  BY <1>1, <1>2, <1>3, PTL DEF LedgerSpec
-----------------------------------------------------------------------------
\* Any machines paired, and any bindings they had, as long as no identity was
\* held twice.
Started(machines, rows) ==
    /\ FillInstalls(machines, rows)
    /\ rows \in [DOMAIN rows -> [hash : Hashes \cup {NoHash}, enabled : BOOLEAN, reset : BOOLEAN]]
    /\ IdentityHeldOnce
InstallsSpec(machines, rows) == Started(machines, rows) /\ [][InstallsNext]_installVars

-----------------------------------------------------------------------------
(* The calls.                                                              *)

IdentityCall ==
    [op : {"identity"}, pc : {"lock", "check", "assign"}, install : DOMAIN installs,
     account : DOMAIN Providers, hash : Hashes \cup {NoHash}, kind : {"create", "confirm"}]

\* Every call says what it is, and one that assigns an identity is whole.
CallsTyped ==
    /\ DOMAIN calls = Calls
    /\ \A c \in Calls :
          /\ "op" \in DOMAIN calls[c]
          /\ calls[c].op = "identity" => calls[c] \in IdentityCall

BindingRow == [hash : Hashes \cup {NoHash}, enabled : BOOLEAN, reset : BOOLEAN]
BindingsTyped == bound \in [DOMAIN bound -> BindingRow]

-----------------------------------------------------------------------------
(* Identities.                                                             *)

HasLock(c) == calls[c].op = "identity" /\ calls[c].pc # "lock"
Assigns(c) == calls[c].op = "identity" /\ calls[c].pc = "assign"

\* The lock on an install row has one holder.
LockHeldOnce ==
    \A c, d \in Calls :
        c # d /\ HasLock(c) /\ HasLock(d) => calls[c].install # calls[d].install

\* What the checks of a call found is still so when it assigns.
CheckStands ==
    \A c \in Calls : Assigns(c) =>
        /\ calls[c].kind = "confirm" => <<calls[c].install, calls[c].account>> \in DOMAIN bound
        /\ calls[c].hash = NoHash \/ ~Taken(calls[c].install, calls[c].account, calls[c].hash)

IdentityInv ==
    CallsTyped /\ BindingsTyped /\ LockHeldOnce /\ CheckStands /\ IdentityHeldOnce

LEMMA IdentityInit ==
    ASSUME NEW machines, NEW rows, Started(machines, rows)
    PROVE  IdentityInv
BY DEF Started, FillInstalls, IdentityInv, CallsTyped, BindingsTyped, BindingRow, LockHeldOnce,
       CheckStands, Vacant, HasLock, Assigns

\* A step that leaves the bindings alone and no call assigning or holding that
\* was not.
LEMMA IdentityFrame ==
    ASSUME IdentityInv, CallsTyped', UNCHANGED bound,
           \A c \in Calls : HasLock(c)' => HasLock(c) /\ calls'[c].install = calls[c].install,
           \A c \in Calls : Assigns(c)' => Assigns(c) /\ calls'[c] = calls[c]
    PROVE  IdentityInv'
<1>1. BindingsTyped' /\ IdentityHeldOnce'
    BY DEF IdentityInv, BindingsTyped, IdentityHeldOnce, BindingRow
<1>2. LockHeldOnce'
    BY DEF IdentityInv, LockHeldOnce
<1>3. CheckStands'
    BY DEF IdentityInv, CheckStands, Taken
<1>. QED  BY <1>1, <1>2, <1>3 DEF IdentityInv

\* A call that is not about an identity begins, goes on or ends.
BecomesOther(c) ==
    /\ DOMAIN calls' = Calls /\ \A d \in Calls \ {c} : calls'[d] = calls[d]
    /\ "op" \in DOMAIN calls'[c] /\ calls'[c].op # "identity"

LEMMA OtherCall ==
    ASSUME IdentityInv, NEW c \in Calls, BecomesOther(c),
           UNCHANGED bound, DOMAIN installs \subseteq DOMAIN installs'
    PROVE  IdentityInv'
<1>1. CallsTyped'
    BY DEF BecomesOther, IdentityInv, CallsTyped, IdentityCall
<1>2. \A d \in Calls : HasLock(d)' => HasLock(d) /\ calls'[d].install = calls[d].install
    BY DEF BecomesOther, IdentityInv, CallsTyped, HasLock
<1>3. \A d \in Calls : Assigns(d)' => Assigns(d) /\ calls'[d] = calls[d]
    BY DEF BecomesOther, IdentityInv, CallsTyped, Assigns
<1>. QED  BY <1>1, <1>2, <1>3, IdentityFrame

\* Nothing of a call or a binding changes.
LEMMA NoCall ==
    ASSUME IdentityInv, UNCHANGED <<calls, bound>>, DOMAIN installs \subseteq DOMAIN installs'
    PROVE  IdentityInv'
<1>1. CallsTyped'
    BY DEF IdentityInv, CallsTyped, IdentityCall
<1>. QED  BY <1>1, IdentityFrame DEF HasLock, Assigns

LEMMA IdentityPairing ==
    ASSUME IdentityInv, PairingNext
    PROVE  IdentityInv'
<1>0. CallsTyped
    BY DEF IdentityInv
<1>1. ASSUME NEW c \in Calls, BeginPairing(c) PROVE IdentityInv'
    <2>1. BecomesOther(c)
        BY <1>0, <1>1 DEF BeginPairing, Start, BecomesOther, CallsTyped
    <2>. QED  BY <2>1, <1>1, OtherCall DEF BeginPairing
<1>2. ASSUME NEW c \in Calls, ConsumeAttempt(c) PROVE IdentityInv'
    <2>1. calls[c].op = "pair"
        BY <1>2 DEF ConsumeAttempt, At
    <2>2. BecomesOther(c)
        BY <1>0, <1>2, <2>1 DEF ConsumeAttempt, Done, Vacant, BecomesOther, CallsTyped
    <2>. QED  BY <2>2, <1>2, OtherCall DEF ConsumeAttempt
<1>3. ASSUME NEW c \in Calls, PairInstall(c) PROVE IdentityInv'
    <2>1. DOMAIN installs \subseteq DOMAIN installs'
        BY <1>3 DEF PairInstall
    <2>2. BecomesOther(c)
        BY <1>0, <1>3 DEF PairInstall, Done, Vacant, BecomesOther, CallsTyped
    <2>. QED  BY <2>1, <2>2, <1>3, OtherCall DEF PairInstall
<1>4. ASSUME NEW p \in DOMAIN attempts, WindowEnds(p) PROVE IdentityInv'
    BY <1>4, NoCall DEF WindowEnds
<1>5. ASSUME NEW k \in DOMAIN codes, CodeExpires(k) PROVE IdentityInv'
    BY <1>5, NoCall DEF CodeExpires
<1>. QED  BY <1>1, <1>2, <1>3, <1>4, <1>5 DEF PairingNext

LEMMA IdentityBump ==
    ASSUME IdentityInv, NEW c \in Calls, BumpSettingsVersion(c)
    PROVE  IdentityInv'
<1>1. BecomesOther(c)
    BY DEF IdentityInv, BumpSettingsVersion, Done, Vacant, BecomesOther, CallsTyped
<1>. QED  BY <1>1, OtherCall DEF BumpSettingsVersion

LEMMA IdentitySettings ==
    ASSUME IdentityInv, SettingsNext
    PROVE  IdentityInv'
<1>0. CallsTyped
    BY DEF IdentityInv
<1>1. ASSUME NEW c \in Calls, PauseInstall(c) PROVE IdentityInv'
    <2>1. BecomesOther(c)
        BY <1>0, <1>1 DEF PauseInstall, Start, BecomesOther, CallsTyped
    <2>2. UNCHANGED bound /\ DOMAIN installs \subseteq DOMAIN installs'
        BY <1>1 DEF PauseInstall
    <2>. QED  BY <2>1, <2>2, OtherCall
<1>2. ASSUME NEW c \in Calls, UpdateSettings(c) PROVE IdentityInv'
    <2>1. BecomesOther(c)
        BY <1>0, <1>2 DEF UpdateSettings, Start, BecomesOther, CallsTyped
    <2>. QED  BY <2>1, <1>2, OtherCall DEF UpdateSettings
<1>3. ASSUME NEW c \in Calls, BeginConfig(c) PROVE IdentityInv'
    <2>1. BecomesOther(c)
        BY <1>0, <1>3 DEF BeginConfig, Start, BecomesOther, CallsTyped
    <2>. QED  BY <2>1, <1>3, OtherCall DEF BeginConfig
<1>4. ASSUME NEW c \in Calls, CompanionConfig(c) PROVE IdentityInv'
    <2>1. BecomesOther(c)
        BY <1>0, <1>4 DEF CompanionConfig, Done, Vacant, BecomesOther, CallsTyped
    <2>. QED  BY <2>1, <1>4, OtherCall DEF CompanionConfig
<1>. QED  BY <1>1, <1>2, <1>3, <1>4, IdentityBump DEF SettingsNext

LEMMA IdentityMapping ==
    ASSUME IdentityInv, MappingNext
    PROVE  IdentityInv'
<1>0. CallsTyped
    BY DEF IdentityInv
<1>1. ASSUME NEW c \in Calls, BeginMapping(c) PROVE IdentityInv'
    <2>1. BecomesOther(c)
        BY <1>0, <1>1 DEF BeginMapping, Start, BecomesOther, CallsTyped
    <2>. QED  BY <2>1, <1>1, OtherCall DEF BeginMapping
<1>2. ASSUME NEW c \in Calls, LockIdentity(c) PROVE IdentityInv'
    <2>1. calls[c].op = "map"
        BY <1>2 DEF LockIdentity, At
    <2>2. BecomesOther(c)
        BY <1>0, <1>2, <2>1 DEF LockIdentity, BecomesOther, CallsTyped
    <2>. QED  BY <2>2, <1>2, OtherCall DEF LockIdentity
<1>3. ASSUME NEW c \in Calls, DrawRevision(c) PROVE IdentityInv'
    BY <1>3, NoCall DEF DrawRevision
<1>4. ASSUME NEW c \in Calls, CommitMapping(c) PROVE IdentityInv'
    <2>1. BecomesOther(c)
        BY <1>0, <1>4 DEF CommitMapping, Done, Vacant, BecomesOther, CallsTyped
    <2>. QED  BY <2>1, <1>4, OtherCall DEF CommitMapping
<1>. QED  BY <1>1, <1>2, <1>3, <1>4 DEF MappingNext

\* The bindings change and no hash but to none, or to one its call has checked.
LEMMA IdentityRows ==
    ASSUME IdentityInv, CallsTyped', BindingsTyped', DOMAIN bound' = DOMAIN bound,
           \A k \in DOMAIN bound : bound'[k].hash \in {bound[k].hash, NoHash},
           \A c \in Calls : HasLock(c)' => HasLock(c) /\ calls'[c] = calls[c]
    PROVE  IdentityInv'
<1>1. LockHeldOnce'
    BY DEF IdentityInv, LockHeldOnce
<1>2. IdentityHeldOnce'
    BY DEF IdentityInv, IdentityHeldOnce
<1>3. \A i, a, h : h # NoHash /\ Taken(i, a, h)' => Taken(i, a, h)
    BY DEF Taken
<1>4. CheckStands'
    BY <1>3 DEF IdentityInv, CheckStands, HasLock, Assigns
<1>. QED  BY <1>1, <1>2, <1>4 DEF IdentityInv

LEMMA IdentityBegin ==
    ASSUME IdentityInv, NEW c \in Calls, BeginIdentity(c)
    PROVE  IdentityInv'
<1>1. PICK i \in DOMAIN installs, a \in DOMAIN Providers, h \in Hashes \cup {NoHash},
           kind \in {"create", "confirm"} :
         calls' = [calls EXCEPT ![c] = [op |-> "identity", pc |-> "lock", install |-> i,
                                        account |-> a, hash |-> h, kind |-> kind]]
    BY DEF BeginIdentity, Start
<1>2. UNCHANGED <<installs, bound>>
    BY DEF BeginIdentity
<1>3. CallsTyped
    BY DEF IdentityInv
<1>4. calls'[c] = [op |-> "identity", pc |-> "lock", install |-> i,
                   account |-> a, hash |-> h, kind |-> kind]
      /\ DOMAIN calls' = Calls /\ \A d \in Calls \ {c} : calls'[d] = calls[d]
    BY <1>1, <1>3 DEF CallsTyped
<1>5. CallsTyped'
    BY <1>2, <1>3, <1>4 DEF CallsTyped, IdentityCall
<1>6. \A d \in Calls : HasLock(d)' => HasLock(d) /\ calls'[d] = calls[d]
    BY <1>4 DEF HasLock
<1>7. \A d \in Calls : Assigns(d)' => Assigns(d) /\ calls'[d] = calls[d]
    BY <1>4 DEF Assigns
<1>. QED  BY <1>2, <1>5, <1>6, <1>7, IdentityFrame

LEMMA IdentityLock ==
    ASSUME IdentityInv, NEW c \in Calls, LockInstall(c)
    PROVE  IdentityInv'
<1>1. CallsTyped /\ calls[c] \in IdentityCall /\ UNCHANGED <<installs, bound>>
    BY DEF IdentityInv, CallsTyped, LockInstall, At
<1>2. /\ DOMAIN calls' = Calls /\ \A d \in Calls \ {c} : calls'[d] = calls[d]
      /\ calls'[c] \in IdentityCall /\ calls'[c].pc = "check"
      /\ calls'[c].install = calls[c].install
    BY <1>1 DEF LockInstall, Goto, CallsTyped, IdentityCall
<1>3. CallsTyped'
    BY <1>1, <1>2 DEF CallsTyped, IdentityCall
<1>4. LockHeldOnce'
    <2>1. \A d \in Calls : HasLock(d) => calls[d].install # calls[c].install
        BY DEF LockInstall, Locked, HasLock
    <2>. QED  BY <1>2, <2>1 DEF IdentityInv, LockHeldOnce, HasLock
<1>5. CheckStands'
    BY <1>1, <1>2 DEF IdentityInv, CheckStands, Assigns, Taken
<1>6. BindingsTyped' /\ IdentityHeldOnce'
    BY <1>1 DEF IdentityInv, BindingsTyped, BindingRow, IdentityHeldOnce
<1>. QED  BY <1>3, <1>4, <1>5, <1>6 DEF IdentityInv

LEMMA IdentityCheck ==
    ASSUME IdentityInv, NEW c \in Calls, CheckIdentity(c)
    PROVE  IdentityInv'
<1>. DEFINE m == calls[c]
            key == <<m.install, m.account>>
            assigns == IF m.kind = "create" THEN key \notin DOMAIN bound
                       ELSE key \in DOMAIN bound /\ bound[key].hash = NoHash
            passes == assigns /\ (m.hash = NoHash \/ ~Taken(m.install, m.account, m.hash))
<1>1. CallsTyped /\ m \in IdentityCall /\ m.pc = "check" /\ UNCHANGED <<installs, bound>>
    BY DEF IdentityInv, CallsTyped, CheckIdentity, At
<1>2. CASE passes
    <2>1. calls' = [calls EXCEPT ![c].pc = "assign"]
        BY <1>2 DEF CheckIdentity, Goto
    <2>2. /\ DOMAIN calls' = Calls /\ \A d \in Calls \ {c} : calls'[d] = calls[d]
          /\ calls'[c] \in IdentityCall /\ calls'[c].install = m.install
          /\ calls'[c].account = m.account /\ calls'[c].hash = m.hash /\ calls'[c].kind = m.kind
        BY <1>1, <2>1 DEF CallsTyped, IdentityCall
    <2>3. CallsTyped'
        BY <1>1, <2>2 DEF CallsTyped, IdentityCall
    <2>4. LockHeldOnce'
        BY <1>1, <2>2 DEF IdentityInv, LockHeldOnce, HasLock, IdentityCall
    <2>5. CheckStands'
        <3>1. m.kind = "confirm" => key \in DOMAIN bound
            BY <1>2
        <3>. QED  BY <1>1, <1>2, <2>2, <3>1 DEF IdentityInv, CheckStands, Assigns, Taken
    <2>6. BindingsTyped' /\ IdentityHeldOnce'
        BY <1>1 DEF IdentityInv, BindingsTyped, BindingRow, IdentityHeldOnce
    <2>. QED  BY <2>3, <2>4, <2>5, <2>6 DEF IdentityInv
<1>3. CASE ~passes
    <2>1. calls' = [calls EXCEPT ![c] = Vacant]
        BY <1>3 DEF CheckIdentity, Done
    <2>2. BecomesOther(c)
        BY <1>1, <2>1 DEF CallsTyped, BecomesOther, Vacant
    <2>. QED  BY <1>1, <2>2, OtherCall
<1>. QED  BY <1>2, <1>3

\* The hash assigned is in no other row of the install, and no other call that
\* has checked is about this install.
LEMMA IdentityAssign ==
    ASSUME IdentityInv, NEW c \in Calls, AssignIdentity(c)
    PROVE  IdentityInv'
<1>. DEFINE m == calls[c]
            key == <<m.install, m.account>>
            StillTaken(d) ==
                \E k \in DOMAIN bound' :
                   /\ k # <<calls'[d].install, calls'[d].account>> /\ k[1] = calls'[d].install
                   /\ Providers[k[2]] = Providers[calls'[d].account]
                   /\ bound'[k].hash = calls'[d].hash
            row == IF m.kind = "create" THEN [hash |-> m.hash, enabled |-> TRUE, reset |-> FALSE]
                   ELSE [bound[key] EXCEPT !.hash = m.hash, !.reset = FALSE]
<1>1. CallsTyped /\ m \in IdentityCall /\ Assigns(c) /\ HasLock(c)
    BY DEF IdentityInv, CallsTyped, AssignIdentity, At, Assigns, HasLock
<1>2. /\ DOMAIN calls' = Calls /\ \A d \in Calls \ {c} : calls'[d] = calls[d]
      /\ calls'[c] = Vacant /\ UNCHANGED installs
    BY <1>1 DEF AssignIdentity, Done, CallsTyped
<1>3. bound' = [k \in DOMAIN bound \cup {key} |-> IF k = key THEN row ELSE bound[k]]
    BY DEF AssignIdentity
<1>4. m.kind = "confirm" => key \in DOMAIN bound
    BY <1>1 DEF IdentityInv, CheckStands
<1>5. row \in BindingRow /\ row.hash = m.hash
    BY <1>1, <1>4 DEF IdentityInv, BindingsTyped, BindingRow, IdentityCall
<1>6. BindingsTyped'
    BY <1>3, <1>5 DEF IdentityInv, BindingsTyped
<1>7. CallsTyped'
    BY <1>1, <1>2 DEF CallsTyped, Vacant, IdentityCall
<1>8. /\ key \in DOMAIN bound' /\ bound'[key].hash = m.hash
      /\ \A k \in DOMAIN bound' : k # key => k \in DOMAIN bound /\ bound'[k] = bound[k]
      /\ DOMAIN bound \subseteq DOMAIN bound'
    BY <1>3, <1>5
<1>9. LockHeldOnce'
    BY <1>2 DEF IdentityInv, LockHeldOnce, HasLock, Vacant
<1>10. CheckStands'
    <2>1. SUFFICES ASSUME NEW d \in Calls, Assigns(d)'
                   PROVE  /\ calls'[d].kind = "confirm" =>
                               <<calls'[d].install, calls'[d].account>> \in DOMAIN bound'
                          /\ calls'[d].hash = NoHash \/ ~StillTaken(d)
        BY DEF CheckStands, Taken
    <2>2. d # c /\ calls'[d] = calls[d] /\ Assigns(d) /\ HasLock(d)
        BY <1>2, <2>1 DEF Assigns, Vacant, HasLock
    <2>3. calls[d].install # m.install
        BY <1>1, <2>2 DEF IdentityInv, LockHeldOnce
    <2>4. calls[d].kind = "confirm" => <<calls[d].install, calls[d].account>> \in DOMAIN bound
        BY <2>2 DEF IdentityInv, CheckStands
    <2>5. ASSUME calls[d].hash # NoHash, StillTaken(d) PROVE FALSE
        <3>1. PICK k \in DOMAIN bound' :
                 /\ k # <<calls[d].install, calls[d].account>> /\ k[1] = calls[d].install
                 /\ Providers[k[2]] = Providers[calls[d].account]
                 /\ bound'[k].hash = calls[d].hash
            BY <2>2, <2>5
        <3>2. k # key
            BY <2>3, <3>1
        <3>3. Taken(calls[d].install, calls[d].account, calls[d].hash)
            BY <1>8, <3>1, <3>2 DEF Taken
        <3>. QED  BY <2>2, <2>5, <3>3 DEF IdentityInv, CheckStands
    <2>. QED  BY <1>8, <2>2, <2>4, <2>5
<1>11. IdentityHeldOnce'
    <2>1. SUFFICES ASSUME NEW k \in DOMAIN bound', NEW l \in DOMAIN bound',
                          k # l, k[1] = l[1], Providers[k[2]] = Providers[l[2]],
                          bound'[k].hash # NoHash, bound'[k].hash = bound'[l].hash
                   PROVE  FALSE
        BY DEF IdentityHeldOnce
    <2>2. m.hash = NoHash \/ ~Taken(m.install, m.account, m.hash)
        BY <1>1 DEF IdentityInv, CheckStands
    <2>3. ASSUME NEW j \in DOMAIN bound', j # key, j[1] = key[1],
                 Providers[j[2]] = Providers[key[2]], bound'[j].hash = m.hash, m.hash # NoHash
          PROVE  FALSE
        BY <1>8, <2>2, <2>3 DEF Taken
    <2>4. CASE k = key
        BY <1>8, <2>1, <2>3, <2>4
    <2>5. CASE l = key
        BY <1>8, <2>1, <2>3, <2>5
    <2>6. CASE k # key /\ l # key
        BY <1>8, <2>1, <2>6 DEF IdentityInv, IdentityHeldOnce
    <2>. QED  BY <2>4, <2>5, <2>6
<1>. QED  BY <1>6, <1>7, <1>9, <1>10, <1>11 DEF IdentityInv

LEMMA IdentityOwner ==
    ASSUME IdentityInv,
           \/ \E i \in DOMAIN installs : DisableInstall(i)
           \/ \E c \in Calls : UpdateBinding(c)
    PROVE  IdentityInv'
<1>1. CallsTyped /\ BindingsTyped
    BY DEF IdentityInv
<1>2. ASSUME NEW i \in DOMAIN installs, DisableInstall(i) PROVE IdentityInv'
    <2>1. bound' = [k \in DOMAIN bound |->
             IF k[1] = i THEN [bound[k] EXCEPT !.enabled = FALSE] ELSE bound[k]]
          /\ UNCHANGED calls /\ DOMAIN installs' = DOMAIN installs
        BY <1>2 DEF DisableInstall
    <2>2. DOMAIN bound' = DOMAIN bound
        BY <2>1
    <2>3. \A k \in DOMAIN bound :
             bound'[k] \in BindingRow /\ bound'[k].hash = bound[k].hash
        BY <1>1, <2>1 DEF BindingsTyped, BindingRow
    <2>4. BindingsTyped'
        BY <2>1, <2>2, <2>3 DEF BindingsTyped
    <2>5. CallsTyped'
        BY <1>1, <2>1 DEF CallsTyped, IdentityCall
    <2>. QED  BY <2>1, <2>2, <2>3, <2>4, <2>5, IdentityRows DEF HasLock
<1>3. ASSUME NEW c \in Calls, UpdateBinding(c) PROVE IdentityInv'
    <2>1. BecomesOther(c) /\ UNCHANGED installs
        BY <1>1, <1>3 DEF UpdateBinding, Start, BecomesOther, CallsTyped
    <2>2. PICK k \in DOMAIN bound :
             \/ bound' = [bound EXCEPT ![k].enabled = ~@]
             \/ bound' = [bound EXCEPT ![k].hash = NoHash, ![k].reset = TRUE]
        BY <1>3 DEF UpdateBinding
    <2>3. DOMAIN bound' = DOMAIN bound
          /\ \A l \in DOMAIN bound :
                bound'[l] \in BindingRow /\ bound'[l].hash \in {bound[l].hash, NoHash}
        <3>1. CASE bound' = [bound EXCEPT ![k].enabled = ~@]
            BY <1>1, <2>2, <3>1 DEF BindingsTyped, BindingRow
        <3>2. CASE bound' = [bound EXCEPT ![k].hash = NoHash, ![k].reset = TRUE]
            <4>1. bound' = [bound EXCEPT ![k] = [bound[k] EXCEPT !.hash = NoHash, !.reset = TRUE]]
                BY <3>2
            <4>. QED  BY <1>1, <4>1 DEF BindingsTyped, BindingRow
        <3>. QED  BY <2>2, <3>1, <3>2
    <2>4. BindingsTyped'
        <3>1. bound' = [l \in DOMAIN bound |-> bound'[l]]
            BY <1>1, <2>2 DEF BindingsTyped
        <3>. QED  BY <2>3, <3>1 DEF BindingsTyped
    <2>5. CallsTyped'
        BY <1>1, <2>1 DEF CallsTyped, BecomesOther, IdentityCall
    <2>. QED  BY <2>1, <2>3, <2>4, <2>5, IdentityRows DEF BecomesOther, HasLock
<1>. QED  BY <1>2, <1>3

LEMMA IdentityStep ==
    ASSUME IdentityInv, [InstallsNext]_installVars
    PROVE  IdentityInv'
<1>1. CASE BindingNext
    BY <1>1, IdentityBegin, IdentityLock, IdentityCheck, IdentityAssign, IdentityOwner,
       IdentityBump DEF BindingNext
<1>2. CASE UNCHANGED installVars
    BY <1>2, NoCall DEF installVars
<1>. QED  BY <1>1, <1>2, IdentityPairing, IdentitySettings, IdentityMapping DEF InstallsNext

\* "One account identity binds once per install", whatever number of instances
\* create and confirm bindings at once (usage-store.ts:329-348, 365-391): by an
\* invariant that the lock of the install row has one holder, and that what the
\* holder checked stands until it assigns.
THEOREM IdentityOnce ==
    ASSUME NEW machines, NEW rows
    PROVE  InstallsSpec(machines, rows) => []IdentityHeldOnce
<1>1. Started(machines, rows) => IdentityInv
    BY IdentityInit
<1>2. IdentityInv /\ [InstallsNext]_installVars => IdentityInv'
    BY IdentityStep
<1>3. IdentityInv => IdentityHeldOnce
    BY DEF IdentityInv
<1>. QED  BY <1>1, <1>2, <1>3, PTL DEF InstallsSpec

-----------------------------------------------------------------------------
(* What the parts leave alone of each other.                               *)

\* A call with one of these operations is as it was.
Untouched(ops) ==
    \A d \in Calls : calls[d].op \in ops \/ calls'[d].op \in ops => calls'[d] = calls[d]

LEMMA OneCall ==
    ASSUME CallsTyped, NEW ops, NEW c \in Calls, NEW call,
           calls' = [calls EXCEPT ![c] = call], calls[c].op \notin ops, call.op \notin ops
    PROVE  Untouched(ops)
BY DEF CallsTyped, Untouched

LEMMA CallStarts ==
    ASSUME CallsTyped, NEW ops, NEW c \in Calls, NEW call, Start(c, call),
           "idle" \notin ops, call.op \notin ops
    PROVE  Untouched(ops)
<1>1. calls[c].op = "idle" /\ calls' = [calls EXCEPT ![c] = call]
    BY DEF Start, Vacant
<1>. QED  BY <1>1, OneCall

LEMMA CallEnds ==
    ASSUME CallsTyped, NEW ops, NEW c \in Calls, Done(c), "idle" \notin ops, calls[c].op \notin ops
    PROVE  Untouched(ops)
<1>1. Vacant.op = "idle" /\ calls' = [calls EXCEPT ![c] = Vacant]
    BY DEF Done, Vacant
<1>. QED  BY <1>1, OneCall

LEMMA PairingKeeps ==
    ASSUME CallsTyped, PairingNext
    PROVE  /\ Untouched({"map"})
           /\ started' = started \/ started' = started + 1
           /\ UNCHANGED <<version, configs, mapping>>
<1>1. ASSUME NEW c \in Calls, ConsumeAttempt(c) PROVE Untouched({"map"})
    <2>1. calls[c].op = "pair"
        BY <1>1 DEF ConsumeAttempt, At
    <2>2. PICK w : Done(c) \/ calls' = [calls EXCEPT ![c] = [calls[c] EXCEPT !.pc = "claim", !.window = w]]
        BY <1>1 DEF ConsumeAttempt
    <2>3. [calls[c] EXCEPT !.pc = "claim", !.window = w].op = "pair"
        BY <2>1 DEF CallsTyped
    <2>. QED  BY <2>1, <2>2, <2>3, OneCall, CallEnds
<1>2. ASSUME NEW c \in Calls, BeginPairing(c) PROVE Untouched({"map"})
    BY <1>2, CallStarts DEF BeginPairing
<1>3. ASSUME NEW c \in Calls, PairInstall(c) PROVE Untouched({"map"})
    BY <1>3, CallEnds DEF PairInstall, At
<1>4. (\E p \in DOMAIN attempts : WindowEnds(p)) \/ (\E k \in DOMAIN codes : CodeExpires(k))
         => Untouched({"map"})
    BY DEF WindowEnds, CodeExpires, Untouched
<1>5. UNCHANGED <<version, configs, mapping>> /\ (started' = started \/ started' = started + 1)
    BY DEF PairingNext, BeginPairing, ConsumeAttempt, PairInstall, WindowEnds, CodeExpires, Start
<1>. QED  BY <1>1, <1>2, <1>3, <1>4, <1>5 DEF PairingNext

LEMMA BindingKeeps ==
    ASSUME CallsTyped, BindingNext
    PROVE  /\ Untouched({"pair", "map"})
           /\ started' = started \/ started' = started + 1
           /\ UNCHANGED <<codes, attempts, guessed, configs, mapping>>
           /\ UNCHANGED version \/ \E c \in Calls : BumpSettingsVersion(c)
<1>1. ASSUME NEW c \in Calls, LockInstall(c) \/ CheckIdentity(c) PROVE Untouched({"pair", "map"})
    <2>1. calls[c].op = "identity"
        BY <1>1 DEF LockInstall, CheckIdentity, At
    <2>2. PICK pc : Done(c) \/ calls' = [calls EXCEPT ![c] = [calls[c] EXCEPT !.pc = pc]]
        BY <1>1 DEF LockInstall, CheckIdentity, Goto
    <2>3. [calls[c] EXCEPT !.pc = pc].op = "identity"
        BY <2>1 DEF CallsTyped
    <2>. QED  BY <2>1, <2>2, <2>3, OneCall, CallEnds
<1>2. ASSUME NEW c \in Calls, BeginIdentity(c) PROVE Untouched({"pair", "map"})
    BY <1>2, CallStarts DEF BeginIdentity
<1>3. ASSUME NEW c \in Calls, UpdateBinding(c) PROVE Untouched({"pair", "map"})
    BY <1>3, CallStarts DEF UpdateBinding
<1>4. ASSUME NEW c \in Calls, AssignIdentity(c) PROVE Untouched({"pair", "map"})
    BY <1>4, CallEnds DEF AssignIdentity, At
<1>5. ASSUME NEW c \in Calls, BumpSettingsVersion(c) PROVE Untouched({"pair", "map"})
    BY <1>5, CallEnds DEF BumpSettingsVersion, At
<1>6. (\E i \in DOMAIN installs : DisableInstall(i)) => Untouched({"pair", "map"})
    BY DEF DisableInstall, Untouched
<1>7. UNCHANGED <<codes, attempts, guessed, configs, mapping>>
    BY DEF BindingNext, BeginIdentity, LockInstall, CheckIdentity, AssignIdentity, UpdateBinding,
       BumpSettingsVersion, DisableInstall
<1>8. started' = started \/ started' = started + 1
    BY DEF BindingNext, BeginIdentity, LockInstall, CheckIdentity, AssignIdentity, UpdateBinding,
       BumpSettingsVersion, DisableInstall, Start
<1>9. UNCHANGED version \/ \E c \in Calls : BumpSettingsVersion(c)
    BY DEF BindingNext, BeginIdentity, LockInstall, CheckIdentity, AssignIdentity, UpdateBinding,
       DisableInstall
<1>. QED  BY <1>1, <1>2, <1>3, <1>4, <1>5, <1>6, <1>7, <1>8, <1>9 DEF BindingNext

LEMMA SettingsKeeps ==
    ASSUME CallsTyped, SettingsNext
    PROVE  /\ Untouched({"pair", "map"})
           /\ started' = started \/ started' = started + 1
           /\ UNCHANGED <<codes, attempts, guessed, mapping>>
<1>1. ASSUME NEW c \in Calls, PauseInstall(c) \/ UpdateSettings(c)
      PROVE  Untouched({"pair", "map"})
    BY <1>1, CallStarts DEF PauseInstall, UpdateSettings
<1>2. ASSUME NEW c \in Calls, BeginConfig(c) PROVE Untouched({"pair", "map"})
    BY <1>2, CallStarts DEF BeginConfig
<1>3. ASSUME NEW c \in Calls, BumpSettingsVersion(c) \/ CompanionConfig(c)
      PROVE  Untouched({"pair", "map"})
    BY <1>3, CallEnds DEF BumpSettingsVersion, CompanionConfig, At
<1>4. /\ UNCHANGED <<codes, attempts, guessed, mapping>>
      /\ started' = started \/ started' = started + 1
    BY DEF SettingsNext, PauseInstall, UpdateSettings, BumpSettingsVersion, BeginConfig,
       CompanionConfig, Start
<1>. QED  BY <1>1, <1>2, <1>3, <1>4 DEF SettingsNext

LEMMA MappingKeeps ==
    ASSUME CallsTyped, MappingNext
    PROVE  Untouched({"pair"}) /\ UNCHANGED <<codes, attempts, guessed, version, configs>>
<1>1. ASSUME NEW c \in Calls, LockIdentity(c) PROVE Untouched({"pair"})
    <2>1. calls[c].op = "map"
        BY <1>1 DEF LockIdentity, At
    <2>2. PICK h : calls' = [calls EXCEPT ![c] = [calls[c] EXCEPT !.held = h]]
        BY <1>1 DEF LockIdentity
    <2>3. [calls[c] EXCEPT !.held = h].op = "map"
        BY <2>1 DEF CallsTyped
    <2>. QED  BY <2>1, <2>2, <2>3, OneCall
<1>2. ASSUME NEW c \in Calls, BeginMapping(c) PROVE Untouched({"pair"})
    BY <1>2, CallStarts DEF BeginMapping
<1>3. ASSUME NEW c \in Calls, CommitMapping(c) PROVE Untouched({"pair"})
    BY <1>3, CallEnds DEF CommitMapping, At
<1>4. (\E c \in Calls : DrawRevision(c)) => Untouched({"pair"})
    BY DEF DrawRevision, Untouched
<1>5. UNCHANGED <<codes, attempts, guessed, version, configs>>
    BY DEF MappingNext, BeginMapping, LockIdentity, DrawRevision, CommitMapping
<1>. QED  BY <1>1, <1>2, <1>3, <1>4, <1>5 DEF MappingNext

-----------------------------------------------------------------------------
(* Versions.                                                               *)

\* A version was raised after settings that are still the settings, or older;
\* an answer carries a version that was raised, with at least its settings.
VersionInv ==
    /\ version \in [number : Nat, settings : Nat, since : Seq(Nat)]
    /\ Len(version.since) = version.number
    /\ \A n \in 1..version.number : version.since[n] <= version.settings
    /\ \A f \in configs :
          /\ f.number \in 0..version.number /\ f.settings \in Nat
          /\ f.number > 0 => f.settings >= version.since[f.number]

LEMMA VersionStep ==
    ASSUME CallsTyped, VersionInv, [InstallsNext]_installVars
    PROVE  VersionInv'
<1>1. ASSUME UNCHANGED <<version, configs>> PROVE VersionInv'
    BY <1>1 DEF VersionInv
<1>2. ASSUME NEW c \in Calls, UpdateSettings(c) PROVE VersionInv'
    BY <1>2 DEF UpdateSettings, VersionInv
<1>3. ASSUME NEW c \in Calls, BumpSettingsVersion(c) PROVE VersionInv'
    <2>. DEFINE since == Append(version.since, version.settings)
    <2>1. version' = [number |-> version.number + 1, settings |-> version.settings, since |-> since]
             /\ UNCHANGED configs
        BY <1>3 DEF BumpSettingsVersion
    <2>2. since \in Seq(Nat) /\ Len(since) = version.number + 1
             /\ since[version.number + 1] = version.settings
             /\ \A n \in 1..version.number : since[n] = version.since[n]
        BY AppendProperties DEF VersionInv
    <2>3. \A n \in 1..(version.number + 1) : n = version.number + 1 \/ n \in 1..version.number
        BY DEF VersionInv
    <2>4. \A n \in 1..version'.number : version'.since[n] <= version'.settings
        BY <2>1, <2>2, <2>3 DEF VersionInv
    <2>5. \A f \in configs' :
             /\ f.number \in 0..version'.number /\ f.settings \in Nat
             /\ f.number > 0 => f.settings >= version'.since[f.number]
        BY <2>1, <2>2 DEF VersionInv
    <2>. QED  BY <2>1, <2>2, <2>4, <2>5 DEF VersionInv
<1>4. ASSUME NEW c \in Calls, CompanionConfig(c) PROVE VersionInv'
    <2>1. UNCHANGED version /\ configs' = configs \cup
             {[install |-> calls[c].install, paused |-> calls[c].paused,
               number |-> version.number, settings |-> version.settings]}
        BY <1>4 DEF CompanionConfig
    <2>2. version.number > 0 => version.number \in 1..version.number
        BY DEF VersionInv
    <2>. QED  BY <2>1, <2>2 DEF VersionInv
<1>5. SettingsNext => \/ UNCHANGED <<version, configs>>
                      \/ \E c \in Calls : UpdateSettings(c) \/ BumpSettingsVersion(c) \/ CompanionConfig(c)
    BY DEF SettingsNext, PauseInstall, BeginConfig
<1>6. UNCHANGED installVars => UNCHANGED <<version, configs>>
    BY DEF installVars
<1>. QED  BY <1>1, <1>2, <1>3, <1>4, <1>5, <1>6, PairingKeeps, BindingKeeps, MappingKeeps
          DEF InstallsNext

\* No configuration answered with a version carries settings older than those
\* the version was raised after, though a setting and its version are written
\* by two statements (usage-store.ts:310-313) and read by one.
THEOREM VersionsCarry ==
    ASSUME NEW machines, NEW rows
    PROVE  InstallsSpec(machines, rows) => []VersionsCarrySettings
<1>1. Started(machines, rows) => IdentityInv /\ VersionInv
    <2>1. Started(machines, rows) => VersionInv
        BY DEF Started, FillInstalls, VersionInv
    <2>. QED  BY <2>1, IdentityInit
<1>2. IdentityInv /\ VersionInv /\ [InstallsNext]_installVars => IdentityInv' /\ VersionInv'
    BY IdentityStep, VersionStep DEF IdentityInv
<1>3. VersionInv => VersionsCarrySettings
    BY DEF VersionInv, VersionsCarrySettings
<1>. QED  BY <1>1, <1>2, <1>3, PTL DEF InstallsSpec

-----------------------------------------------------------------------------
(* Pairing.                                                                *)

PairCall ==
    [op : {"pair"}, pc : {"budget", "claim"}, code : DOMAIN PrefixOf, right : BOOLEAN, window : Nat]
PrefixSet == {PrefixOf[k] : k \in DOMAIN PrefixOf}
Attempt == [count : Nat, expired : BOOLEAN, window : Nat]
Code == [live : BOOLEAN, installs : SUBSET Machines]

PairTyped ==
    /\ \A c \in Calls : calls[c].op = "pair" => calls[c] \in PairCall
    /\ attempts \in [PrefixSet -> Attempt] /\ guessed \in [PrefixSet -> Nat]
    /\ codes \in [DOMAIN PrefixOf -> Code]

\* The attempts the current window of a prefix admitted and that have not been
\* compared yet.
Admitted(c, p) ==
    /\ calls[c].op = "pair" /\ calls[c].pc = "claim"
    /\ PrefixOf[calls[c].code] = p /\ calls[c].window = attempts[p].window
InFlight(p) == {c \in Calls : Admitted(c, p)}

\* Those and the attempts compared are no more than were counted, or admitted.
BudgetKept(p) ==
    /\ guessed[p] + Cardinality(InFlight(p)) <= attempts[p].count
    /\ guessed[p] + Cardinality(InFlight(p)) <= PrefixBudget
WindowsPast ==
    \A c \in Calls :
        calls[c].op = "pair" /\ calls[c].pc = "claim" =>
            calls[c].window <= attempts[PrefixOf[calls[c].code]].window
CodesPayOnce ==
    \A k \in DOMAIN codes :
        IsFiniteSet(codes[k].installs) /\ Cardinality(codes[k].installs) <= 1

PairInv ==
    PairTyped /\ WindowsPast /\ CodesPayOnce /\ \A p \in PrefixSet : BudgetKept(p)

LEMMA NoMore ==
    ASSUME NEW S, NEW T, IsFiniteSet(S), T \subseteq S
    PROVE  /\ IsFiniteSet(T) /\ Cardinality(T) <= Cardinality(S)
           /\ Cardinality(T) \in Nat /\ Cardinality(S) \in Nat
BY FS_Subset, FS_CardinalityType

\* No attempt is admitted, and nothing counted.
LEMMA BudgetStays ==
    ASSUME IsFiniteSet(Calls), PairInv, NEW p \in PrefixSet,
           InFlight(p)' \subseteq InFlight(p), attempts'[p].count = attempts[p].count,
           guessed'[p] = guessed[p], PrefixBudget \in Nat
    PROVE  BudgetKept(p)'
<1>1. IsFiniteSet(InFlight(p))
    <2>1. InFlight(p) \subseteq Calls
        BY DEF InFlight
    <2>. QED  BY <2>1, NoMore
<1>2. /\ Cardinality(InFlight(p)') <= Cardinality(InFlight(p))
      /\ Cardinality(InFlight(p)) \in Nat /\ Cardinality(InFlight(p)') \in Nat
    BY <1>1, NoMore
<1>3. guessed[p] \in Nat /\ attempts[p].count \in Nat
    BY DEF PairInv, PairTyped, Attempt
<1>4. BudgetKept(p)
    BY DEF PairInv
<1>. QED  BY <1>2, <1>3, <1>4 DEF BudgetKept

LEMMA PairFrame ==
    ASSUME IsFiniteSet(Calls), PrefixBudget \in Nat, PairInv, Untouched({"pair"}), UNCHANGED <<codes, attempts, guessed>>
    PROVE  PairInv'
<1>1. ASSUME NEW p \in PrefixSet PROVE BudgetKept(p)'
    <2>1. InFlight(p)' \subseteq InFlight(p)
        BY DEF Untouched, InFlight, Admitted
    <2>. QED  BY <2>1, BudgetStays
<1>2. PairTyped' /\ WindowsPast' /\ CodesPayOnce'
    BY DEF PairInv, PairTyped, WindowsPast, CodesPayOnce, Untouched
<1>. QED  BY <1>1, <1>2 DEF PairInv

LEMMA PairInit ==
    ASSUME NEW machines, NEW rows, Started(machines, rows), PrefixBudget \in Nat
    PROVE  PairInv
<1>1. PairTyped /\ WindowsPast
    BY DEF Started, FillInstalls, PairTyped, WindowsPast, PrefixSet, Attempt, Code, Vacant
<1>2. CodesPayOnce
    <2>1. \A k \in DOMAIN codes : codes[k].installs = {}
        BY DEF Started, FillInstalls
    <2>2. IsFiniteSet({}) /\ Cardinality({}) = 0
        BY FS_EmptySet
    <2>. QED  BY <2>1, <2>2 DEF CodesPayOnce
<1>3. \A p \in PrefixSet : BudgetKept(p)
    <2>1. \A p \in PrefixSet : InFlight(p) = {}
        BY DEF Started, FillInstalls, InFlight, Admitted, Vacant
    <2>2. \A p \in PrefixSet : guessed[p] = 0 /\ attempts[p].count = 0
        BY DEF Started, FillInstalls, PrefixSet
    <2>3. Cardinality({}) = 0
        BY FS_EmptySet
    <2>. QED  BY <2>1, <2>2, <2>3 DEF BudgetKept
<1>. QED  BY <1>1, <1>2, <1>3 DEF PairInv

LEMMA PairBegin ==
    ASSUME CallsTyped, PairInv, IsFiniteSet(Calls), PrefixBudget \in Nat, NEW c \in Calls, BeginPairing(c)
    PROVE  PairInv'
<1>1. PICK k \in DOMAIN PrefixOf, right \in BOOLEAN :
         calls' = [calls EXCEPT ![c] = [op |-> "pair", pc |-> "budget", code |-> k,
                                        right |-> right, window |-> 0]]
    BY DEF BeginPairing, Start
<1>2. /\ \A d \in Calls \ {c} : calls'[d] = calls[d]
      /\ calls'[c] \in PairCall /\ calls'[c].pc = "budget"
    BY <1>1 DEF CallsTyped, PairCall
<1>3. UNCHANGED <<codes, attempts, guessed>>
    BY DEF BeginPairing
<1>4. PairTyped' /\ WindowsPast' /\ CodesPayOnce'
    BY <1>2, <1>3 DEF PairInv, PairTyped, WindowsPast, CodesPayOnce
<1>5. ASSUME NEW p \in PrefixSet PROVE BudgetKept(p)'
    <2>1. InFlight(p)' \subseteq InFlight(p)
        BY <1>2, <1>3 DEF InFlight, Admitted
    <2>. QED  BY <1>3, <2>1, BudgetStays
<1>. QED  BY <1>4, <1>5 DEF PairInv

\* A window that is over starts anew, and nobody is admitted in it yet; an
\* attempt admitted is counted.
LEMMA PairConsume ==
    ASSUME CallsTyped, PairInv, IsFiniteSet(Calls), PrefixBudget \in Nat,
           NEW c \in Calls, ConsumeAttempt(c)
    PROVE  PairInv'
<1>0. PICK p \in PrefixSet : p = PrefixOf[calls[c].code]
    BY DEF PairInv, PairTyped, ConsumeAttempt, At, PairCall, PrefixSet
<1>. DEFINE old == attempts[p]
            new == Counted(old)
            claim == [calls[c] EXCEPT !.pc = "claim", !.window = new.window]
<1>1. calls[c] \in PairCall /\ calls[c].pc = "budget"
    BY DEF PairInv, PairTyped, ConsumeAttempt, At, PairCall
<1>2. old \in Attempt /\ new \in Attempt /\ guessed[p] \in Nat
      /\ new.window = (IF old.expired THEN old.window + 1 ELSE old.window)
      /\ new.count = (IF old.expired THEN 1 ELSE old.count + 1)
    BY DEF PairInv, PairTyped, Attempt, Counted
<1>3. /\ attempts' = [attempts EXCEPT ![p] = new] /\ UNCHANGED codes
      /\ guessed' = IF old.expired THEN [guessed EXCEPT ![p] = 0] ELSE guessed
    BY <1>0 DEF ConsumeAttempt
<1>4. /\ attempts'[p] = new /\ \A q \in PrefixSet \ {p} : attempts'[q] = attempts[q]
      /\ guessed'[p] = IF old.expired THEN 0 ELSE guessed[p]
      /\ \A q \in PrefixSet \ {p} : guessed'[q] = guessed[q]
    BY <1>3 DEF PairInv, PairTyped
<1>5. /\ \A d \in Calls \ {c} : calls'[d] = calls[d]
      /\ calls'[c] = IF new.count <= PrefixBudget THEN claim ELSE Vacant
    BY <1>0 DEF ConsumeAttempt, Done, CallsTyped
<1>6. claim \in PairCall /\ claim.pc = "claim" /\ claim.window = new.window
      /\ claim.code = calls[c].code /\ claim.op = "pair"
    BY <1>1, <1>2 DEF PairCall, Attempt
<1>7. PairTyped'
    <2>1. \A d \in Calls : calls'[d].op = "pair" => calls'[d] \in PairCall
        BY <1>5, <1>6 DEF PairInv, PairTyped, Vacant
    <2>2. attempts' \in [PrefixSet -> Attempt] /\ guessed' \in [PrefixSet -> Nat]
        BY <1>1, <1>2, <1>3 DEF PairInv, PairTyped
    <2>. QED  BY <1>3, <2>1, <2>2 DEF PairInv, PairTyped
<1>8. old.window <= new.window
    BY <1>2 DEF Attempt
<1>9. WindowsPast'
    <2>1. SUFFICES ASSUME NEW d \in Calls, calls'[d].op = "pair", calls'[d].pc = "claim"
                   PROVE  calls'[d].window <= attempts'[PrefixOf[calls'[d].code]].window
        BY DEF WindowsPast
    <2>2. CASE d = c
        <3>1. calls'[c] = claim
            BY <1>5, <2>1, <2>2 DEF Vacant
        <3>. QED  BY <1>0, <1>2, <1>4, <1>6, <2>2, <3>1 DEF Attempt
    <2>3. CASE d # c
        <3>1. calls'[d] = calls[d] /\ calls[d] \in PairCall
            BY <1>5, <2>1, <2>3 DEF PairInv, PairTyped
        <3>2. PrefixOf[calls[d].code] \in PrefixSet
            BY <3>1 DEF PairCall, PrefixSet
        <3>3. calls[d].window <= attempts[PrefixOf[calls[d].code]].window
            BY <2>1, <3>1 DEF PairInv, WindowsPast
        <3>4. attempts[PrefixOf[calls[d].code]] \in Attempt
            BY <3>2 DEF PairInv, PairTyped
        <3>. QED  BY <1>2, <1>4, <1>8, <3>1, <3>2, <3>3, <3>4 DEF Attempt, PairCall
    <2>. QED  BY <2>2, <2>3
<1>10. CodesPayOnce'
    BY <1>3 DEF PairInv, CodesPayOnce
<1>11. ASSUME NEW q \in PrefixSet, q # p PROVE BudgetKept(q)'
    <2>1. InFlight(q)' \subseteq InFlight(q)
        <3>1. ~Admitted(c, q)'
            BY <1>0, <1>5, <1>6, <1>11 DEF Admitted, Vacant
        <3>. QED  BY <1>4, <1>5, <1>11, <3>1 DEF InFlight, Admitted
    <2>. QED  BY <1>4, <1>11, <2>1, BudgetStays
<1>12. BudgetKept(p)'
    <2>1. IsFiniteSet(InFlight(p)) /\ Cardinality(InFlight(p)) \in Nat
        <3>1. InFlight(p) \subseteq Calls
            BY DEF InFlight
        <3>. QED  BY <3>1, NoMore
    <2>2. BudgetKept(p) /\ old.count \in Nat
        BY <1>1, <1>2 DEF PairInv, Attempt
    <2>3. CASE old.expired
        <3>1. \A d \in Calls \ {c} : ~Admitted(d, p)'
            <4>1. SUFFICES ASSUME NEW d \in Calls \ {c}, Admitted(d, p)' PROVE FALSE
                OBVIOUS
            <4>2. calls'[d] = calls[d] /\ calls[d] \in PairCall /\ calls[d].window = new.window
                  /\ calls[d].window <= old.window
                BY <1>4, <1>5, <4>1 DEF Admitted, PairInv, PairTyped, WindowsPast
            <4>. QED  BY <1>2, <2>3, <4>2 DEF PairCall, Attempt
        <3>2. CASE new.count <= PrefixBudget
            <4>1. InFlight(p)' \subseteq {c}
                BY <3>1 DEF InFlight
            <4>2. Cardinality(InFlight(p)') <= 1 /\ Cardinality(InFlight(p)') \in Nat
                <5>1. IsFiniteSet({c}) /\ Cardinality({c}) = 1
                    BY FS_Singleton
                <5>. QED  BY <4>1, <5>1, NoMore
            <4>. QED  BY <1>2, <1>4, <2>3, <3>2, <4>2 DEF BudgetKept
        <3>3. CASE ~(new.count <= PrefixBudget)
            <4>1. InFlight(p)' = {}
                BY <1>5, <3>1, <3>3 DEF InFlight, Admitted, Vacant
            <4>2. Cardinality(InFlight(p)') = 0
                BY <4>1, FS_EmptySet
            <4>. QED  BY <1>2, <1>4, <2>3, <4>2 DEF BudgetKept
        <3>. QED  BY <3>2, <3>3
    <2>4. CASE ~old.expired
        <3>1. \A d \in Calls \ {c} : Admitted(d, p)' <=> Admitted(d, p)
            BY <1>2, <1>4, <1>5, <2>4 DEF Admitted
        <3>2. ~Admitted(c, p)
            BY <1>1 DEF Admitted
        <3>3. CASE new.count <= PrefixBudget
            <4>1. InFlight(p)' \subseteq InFlight(p) \cup {c}
                BY <3>1 DEF InFlight
            <4>2. Cardinality(InFlight(p) \cup {c}) = Cardinality(InFlight(p)) + 1
                  /\ IsFiniteSet(InFlight(p) \cup {c})
                BY <2>1, <3>2, FS_AddElement DEF InFlight
            <4>3. Cardinality(InFlight(p)') <= Cardinality(InFlight(p)) + 1
                  /\ Cardinality(InFlight(p)') \in Nat
                BY <4>1, <4>2, NoMore
            <4>. QED  BY <1>2, <1>4, <2>1, <2>2, <2>4, <3>3, <4>3 DEF BudgetKept
        <3>4. CASE ~(new.count <= PrefixBudget)
            <4>1. InFlight(p)' \subseteq InFlight(p)
                BY <1>5, <3>1, <3>4 DEF InFlight, Admitted, Vacant
            <4>2. Cardinality(InFlight(p)') <= Cardinality(InFlight(p))
                  /\ Cardinality(InFlight(p)') \in Nat
                BY <2>1, <4>1, NoMore
            <4>. QED  BY <1>2, <1>4, <2>1, <2>2, <2>4, <4>2 DEF BudgetKept
        <3>. QED  BY <3>3, <3>4
    <2>. QED  BY <2>3, <2>4
<1>. QED  BY <1>7, <1>9, <1>10, <1>11, <1>12 DEF PairInv

\* The claim marks the code, in the transaction that adds its install; with it
\* the attempt is no longer in flight.
LEMMA PairClaim ==
    ASSUME CallsTyped, PairInv, IsFiniteSet(Calls), PrefixBudget \in Nat,
           NEW c \in Calls, PairInstall(c)
    PROVE  PairInv'
<1>0. PICK p \in PrefixSet : p = PrefixOf[calls[c].code]
    BY DEF PairInv, PairTyped, PairInstall, At, PairCall, PrefixSet
<1>. DEFINE current == calls[c].window = attempts[p].window
<1>1. calls[c] \in PairCall /\ calls[c].pc = "claim" /\ UNCHANGED attempts
    BY DEF PairInv, PairTyped, PairInstall, At, PairCall
<1>2. guessed' = IF current THEN [guessed EXCEPT ![p] = @ + 1] ELSE guessed
    BY <1>0 DEF PairInstall
<1>3. /\ guessed'[p] = IF current THEN guessed[p] + 1 ELSE guessed[p]
      /\ \A q \in PrefixSet \ {p} : guessed'[q] = guessed[q]
      /\ guessed' \in [PrefixSet -> Nat]
    BY <1>2 DEF PairInv, PairTyped
<1>4. calls'[c] = Vacant /\ \A d \in Calls \ {c} : calls'[d] = calls[d]
    BY DEF PairInstall, Done, CallsTyped
<1>. DEFINE pays(i) == /\ codes[calls[c].code].installs = {}
                       /\ codes' = [codes EXCEPT ![calls[c].code].installs = @ \cup {i}]
<1>5. UNCHANGED codes \/ \E i \in Machines : pays(i)
    BY DEF PairInstall, Claimable
<1>6. codes' \in [DOMAIN PrefixOf -> Code] /\ CodesPayOnce'
    <2>1. CASE UNCHANGED codes
        BY <2>1 DEF PairInv, PairTyped, CodesPayOnce
    <2>2. CASE \E i \in Machines : pays(i)
        <3>0. PICK i \in Machines : pays(i)
            BY <2>2
        <3>1. PICK k \in DOMAIN PrefixOf : k = calls[c].code
            BY <1>1 DEF PairCall
        <3>2. codes' = [codes EXCEPT ![k] = [codes[k] EXCEPT !.installs = {i}]]
            BY <3>0, <3>1 DEF PairInv, PairTyped
        <3>3. [codes[k] EXCEPT !.installs = {i}] \in Code
            BY DEF PairInv, PairTyped, Code
        <3>4. IsFiniteSet({i}) /\ Cardinality({i}) = 1
            BY FS_Singleton
        <3>5. \A l \in DOMAIN PrefixOf :
                 codes'[l].installs = IF l = k THEN {i} ELSE codes[l].installs
            BY <3>2 DEF PairInv, PairTyped, Code
        <3>6. codes' \in [DOMAIN PrefixOf -> Code]
            BY <3>2, <3>3 DEF PairInv, PairTyped
        <3>7. DOMAIN codes' = DOMAIN PrefixOf /\ DOMAIN codes = DOMAIN PrefixOf
            BY <3>6 DEF PairInv, PairTyped
        <3>8. CodesPayOnce'
            <4>1. SUFFICES ASSUME NEW l \in DOMAIN PrefixOf
                           PROVE  IsFiniteSet(codes'[l].installs) /\ Cardinality(codes'[l].installs) <= 1
                BY <3>7 DEF CodesPayOnce
            <4>2. CASE l = k
                BY <3>4, <3>5, <4>2
            <4>3. CASE l # k
                BY <3>5, <3>7, <4>3 DEF PairInv, CodesPayOnce
            <4>. QED  BY <4>2, <4>3
        <3>. QED  BY <3>6, <3>8
    <2>. QED  BY <1>5, <2>1, <2>2
<1>7. PairTyped' /\ WindowsPast'
    BY <1>1, <1>3, <1>4, <1>6 DEF PairInv, PairTyped, WindowsPast, Vacant
<1>8. ASSUME NEW q \in PrefixSet, q # p \/ ~current PROVE BudgetKept(q)'
    <2>1. InFlight(q)' \subseteq InFlight(q)
        BY <1>1, <1>4 DEF InFlight, Admitted, Vacant
    <2>2. guessed'[q] = guessed[q]
        BY <1>3, <1>8
    <2>. QED  BY <1>1, <2>1, <2>2, BudgetStays
<1>9. ASSUME current PROVE BudgetKept(p)'
    <2>1. c \in InFlight(p)
        BY <1>0, <1>1, <1>9 DEF InFlight, Admitted, PairCall
    <2>2. InFlight(p)' \subseteq InFlight(p) \ {c}
        BY <1>1, <1>4 DEF InFlight, Admitted, Vacant
    <2>3. IsFiniteSet(InFlight(p)) /\ Cardinality(InFlight(p)) \in Nat
        <3>1. InFlight(p) \subseteq Calls
            BY DEF InFlight
        <3>. QED  BY <3>1, NoMore
    <2>4. IsFiniteSet(InFlight(p) \ {c})
          /\ Cardinality(InFlight(p) \ {c}) = Cardinality(InFlight(p)) - 1
        BY <2>1, <2>3, FS_RemoveElement
    <2>5. Cardinality(InFlight(p)') <= Cardinality(InFlight(p)) - 1
          /\ Cardinality(InFlight(p)') \in Nat
        BY <2>2, <2>4, NoMore
    <2>6. BudgetKept(p) /\ guessed[p] \in Nat /\ attempts[p].count \in Nat
        BY DEF PairInv, PairTyped, Attempt
    <2>. QED  BY <1>1, <1>3, <1>9, <2>3, <2>5, <2>6 DEF BudgetKept
<1>. QED  BY <1>6, <1>7, <1>8, <1>9 DEF PairInv

LEMMA PairTime ==
    ASSUME PairInv, IsFiniteSet(Calls), PrefixBudget \in Nat,
           \/ \E p \in DOMAIN attempts : WindowEnds(p)
           \/ \E k \in DOMAIN codes : CodeExpires(k)
    PROVE  PairInv'
<1>1. UNCHANGED <<calls, guessed>> /\ Untouched({"pair"})
    BY DEF WindowEnds, CodeExpires, Untouched
<1>2. ASSUME NEW p \in DOMAIN attempts, WindowEnds(p) PROVE PairInv'
    <2>1. attempts' = [attempts EXCEPT ![p] = [attempts[p] EXCEPT !.expired = TRUE]] /\ UNCHANGED codes
        BY <1>2 DEF WindowEnds, PairInv, PairTyped
    <2>2. attempts' \in [PrefixSet -> Attempt]
          /\ \A q \in PrefixSet : /\ attempts'[q].count = attempts[q].count
                                  /\ attempts'[q].window = attempts[q].window
        BY <2>1 DEF PairInv, PairTyped, Attempt
    <2>3. PairTyped' /\ CodesPayOnce'
        BY <1>1, <2>1, <2>2 DEF PairInv, PairTyped, CodesPayOnce
    <2>4. WindowsPast'
        BY <1>1, <2>2 DEF PairInv, PairTyped, PairCall, PrefixSet, WindowsPast
    <2>5. ASSUME NEW q \in PrefixSet PROVE BudgetKept(q)'
        <3>1. InFlight(q)' \subseteq InFlight(q)
            BY <1>1, <2>2 DEF InFlight, Admitted
        <3>. QED  BY <1>1, <2>2, <3>1, BudgetStays
    <2>. QED  BY <2>3, <2>4, <2>5 DEF PairInv
<1>3. ASSUME NEW k \in DOMAIN codes, CodeExpires(k) PROVE PairInv'
    <2>1. codes' = [codes EXCEPT ![k] = [codes[k] EXCEPT !.live = FALSE]] /\ UNCHANGED attempts
        BY <1>3 DEF CodeExpires, PairInv, PairTyped
    <2>2. codes' \in [DOMAIN PrefixOf -> Code]
          /\ \A l \in DOMAIN PrefixOf : codes'[l].installs = codes[l].installs
        BY <2>1 DEF PairInv, PairTyped, Code
    <2>3. PairTyped' /\ CodesPayOnce' /\ WindowsPast'
        BY <1>1, <2>1, <2>2 DEF PairInv, PairTyped, CodesPayOnce, WindowsPast
    <2>4. ASSUME NEW q \in PrefixSet PROVE BudgetKept(q)'
        <3>1. InFlight(q)' \subseteq InFlight(q)
            BY <1>1, <2>1 DEF InFlight, Admitted
        <3>. QED  BY <1>1, <2>1, <3>1, BudgetStays
    <2>. QED  BY <2>3, <2>4 DEF PairInv
<1>. QED  BY <1>2, <1>3

LEMMA PairStep ==
    ASSUME CallsTyped, PairInv, IsFiniteSet(Calls), PrefixBudget \in Nat,
           [InstallsNext]_installVars
    PROVE  PairInv'
<1>1. CASE PairingNext
    BY <1>1, PairBegin, PairConsume, PairClaim, PairTime DEF PairingNext
<1>2. CASE BindingNext
    <2>1. Untouched({"pair"}) /\ UNCHANGED <<codes, attempts, guessed>>
        BY <1>2, BindingKeeps DEF Untouched
    <2>. QED  BY <2>1, PairFrame
<1>3. CASE SettingsNext
    <2>1. Untouched({"pair"}) /\ UNCHANGED <<codes, attempts, guessed>>
        BY <1>3, SettingsKeeps DEF Untouched
    <2>. QED  BY <2>1, PairFrame
<1>4. CASE MappingNext
    BY <1>4, MappingKeeps, PairFrame
<1>5. CASE UNCHANGED installVars
    BY <1>5, PairFrame DEF installVars, Untouched
<1>. QED  BY <1>1, <1>2, <1>3, <1>4, <1>5 DEF InstallsNext

\* A code pays for one install at most, and a prefix is compared with no more
\* often in a window than its budget, whatever number of posts run at once
\* (usage-store.ts:196-232): by an invariant that the posts admitted and not yet
\* compared are counted in the window they were admitted in.
THEOREM PairingBounded ==
    ASSUME NEW machines, NEW rows
    PROVE  InstallsSpec(machines, rows) => []PairingIsBounded
<1>1. Started(machines, rows) => IdentityInv /\ PairInv
    BY IdentityInit, PairInit, InstallsAssumption
<1>2. IdentityInv /\ PairInv /\ [InstallsNext]_installVars => IdentityInv' /\ PairInv'
    BY IdentityStep, PairStep, InstallsAssumption DEF IdentityInv
<1>3. PairInv => PairingIsBounded
    <2>1. SUFFICES ASSUME PairInv, NEW p \in PrefixSet PROVE guessed[p] <= PrefixBudget
        BY DEF PairInv, PairTyped, CodesPayOnce, PairingIsBounded
    <2>2. InFlight(p) \subseteq Calls
        BY DEF InFlight
    <2>3. Cardinality(InFlight(p)) \in Nat /\ guessed[p] \in Nat
        BY <2>1, <2>2, NoMore, InstallsAssumption DEF PairInv, PairTyped
    <2>. QED  BY <2>1, <2>3, InstallsAssumption DEF PairInv, BudgetKept
<1>. QED  BY <1>1, <1>2, <1>3, PTL DEF InstallsSpec

-----------------------------------------------------------------------------
(* Mappings.                                                               *)

MapCall ==
    [op : {"map"}, pc : {"lock"}, by : Nat, ids : SUBSET Identities, source : SourceIds,
     held : SUBSET Identities]
MapRow == [by : Nat, id : Identities, order : Nat, source : SourceIds]
Maps(c) == calls[c].op = "map"

MapTyped ==
    /\ started \in Nat
    /\ \A c \in Calls : Maps(c) =>
          /\ calls[c] \in MapCall /\ calls[c].held \subseteq calls[c].ids
          /\ calls[c].by < started
    /\ mapping \in [next : Nat, drawn : SUBSET MapRow, rows : SUBSET MapRow]

\* Two mappings at work have names of their own and no lock in common; and each
\* takes its locks from the least identity up.
MapLocks ==
    /\ \A c, d \in Calls : Maps(c) /\ Maps(d) /\ c # d =>
          calls[c].by # calls[d].by /\ calls[c].held \cap calls[d].held = {}
    /\ \A c \in Calls : Maps(c) =>
          \A x \in calls[c].held, y \in calls[c].ids \ calls[c].held : x < y

\* Revisions are drawn by a mapping that holds every lock it needs, and once
\* committed belong to none at work; each is drawn after all others.
MapOwners ==
    /\ \A r \in mapping.drawn : \E c \in Calls :
          /\ Maps(c) /\ calls[c].by = r.by /\ calls[c].held = calls[c].ids
          /\ r.id \in calls[c].ids
    /\ \A r \in mapping.rows : r.by < started
    /\ \A r \in mapping.rows, c \in Calls : Maps(c) => calls[c].by # r.by
MapOrder ==
    /\ \A r \in mapping.drawn \cup mapping.rows : r.order < mapping.next
    /\ \A r, q \in mapping.drawn \cup mapping.rows : r.by = q.by /\ r.id = q.id => r = q

\* What is committed of the identities a mapping draws came before all it drew.
MapAfter ==
    \A c \in Calls, d \in mapping.drawn, r \in mapping.rows :
        Maps(c) /\ d.by = calls[c].by /\ r.id \in calls[c].ids => r.order < d.order

RowsAgree ==
    \A r, q, r2, q2 \in mapping.rows :
        (r.by = q.by /\ r2.by = q2.by /\ r.id = r2.id /\ q.id = q2.id /\ r.order < r2.order)
            => q.order < q2.order

MapInv == MapTyped /\ MapLocks /\ MapOwners /\ MapOrder /\ MapAfter /\ RowsAgree

LEMMA MapInit ==
    ASSUME NEW machines, NEW rows, Started(machines, rows)
    PROVE  MapInv
BY DEF Started, FillInstalls, MapInv, MapTyped, MapLocks, MapOwners, MapOrder, MapAfter, RowsAgree,
       Maps, Vacant

LEMMA MapFrame ==
    ASSUME MapInv, Untouched({"map"}), UNCHANGED mapping,
           started' = started \/ started' = started + 1
    PROVE  MapInv'
<1>1. \A c \in Calls : Maps(c)' <=> Maps(c)
    BY DEF Maps, Untouched
<1>2. \A c \in Calls : Maps(c) => calls'[c] = calls[c]
    BY DEF Maps, Untouched
<1>3. MapTyped'
    BY <1>1, <1>2 DEF MapInv, MapTyped, MapCall
<1>4. MapLocks'
    BY <1>1, <1>2 DEF MapInv, MapLocks
<1>5. MapOwners'
    <2>1. \A r \in mapping.drawn : \E c \in Calls :
             /\ Maps(c)' /\ calls'[c].by = r.by /\ calls'[c].held = calls'[c].ids
             /\ r.id \in calls'[c].ids
        BY <1>1, <1>2 DEF MapInv, MapOwners
    <2>2. \A r \in mapping.rows : r.by < started'
        BY DEF MapInv, MapTyped, MapRow, MapOwners
    <2>3. \A r \in mapping.rows, c \in Calls : Maps(c)' => calls'[c].by # r.by
        BY <1>1, <1>2 DEF MapInv, MapOwners
    <2>. QED  BY <2>1, <2>2, <2>3 DEF MapOwners
<1>6. MapOrder' /\ RowsAgree'
    BY DEF MapInv, MapOrder, RowsAgree
<1>7. MapAfter'
    BY <1>1, <1>2 DEF MapInv, MapAfter
<1>. QED  BY <1>3, <1>4, <1>5, <1>6, <1>7 DEF MapInv

LEMMA MapBegin ==
    ASSUME CallsTyped, MapInv, NEW c \in Calls, BeginMapping(c)
    PROVE  MapInv'
<1>1. PICK ids \in SUBSET Identities, source \in SourceIds :
         calls' = [calls EXCEPT ![c] = [op |-> "map", pc |-> "lock", by |-> started,
                                        ids |-> ids, source |-> source, held |-> {}]]
    BY DEF BeginMapping, Start
<1>2. /\ \A d \in Calls \ {c} : calls'[d] = calls[d]
      /\ calls'[c] = [op |-> "map", pc |-> "lock", by |-> started,
                      ids |-> ids, source |-> source, held |-> {}]
    BY <1>1 DEF CallsTyped
<1>3. /\ calls[c] = Vacant /\ ~Maps(c) /\ started' = started + 1 /\ UNCHANGED mapping
      /\ started \in Nat
    BY DEF BeginMapping, Start, Vacant, Maps, MapInv, MapTyped
<1>4. calls'[c] \in MapCall /\ calls'[c].held = {} /\ calls'[c].by = started
    BY <1>2, <1>3 DEF MapCall
<1>5. MapTyped'
    BY <1>2, <1>3, <1>4 DEF MapInv, MapTyped, Maps, MapCall
<1>6. MapLocks'
    <2>1. \A d \in Calls : Maps(d) => calls[d].by # started
        BY <1>3 DEF MapInv, MapTyped, MapCall
    <2>. QED  BY <1>2, <1>4, <2>1 DEF MapInv, MapLocks, Maps
<1>7. MapOwners'
    <2>1. \A r \in mapping.drawn : \E d \in Calls :
             /\ Maps(d)' /\ calls'[d].by = r.by /\ calls'[d].held = calls'[d].ids
             /\ r.id \in calls'[d].ids
        <3>1. SUFFICES ASSUME NEW r \in mapping.drawn
                       PROVE  \E d \in Calls : /\ Maps(d)' /\ calls'[d].by = r.by
                                               /\ calls'[d].held = calls'[d].ids
                                               /\ r.id \in calls'[d].ids
            OBVIOUS
        <3>2. PICK d \in Calls : /\ Maps(d) /\ calls[d].by = r.by /\ calls[d].held = calls[d].ids
                                 /\ r.id \in calls[d].ids
            BY DEF MapInv, MapOwners
        <3>3. calls'[d] = calls[d]
            BY <1>2, <1>3, <3>2
        <3>. QED  BY <3>2, <3>3 DEF Maps
    <2>2. \A r \in mapping.rows : r.by \in Nat /\ r.by < started
        BY DEF MapInv, MapTyped, MapRow, MapOwners
    <2>3. \A r \in mapping.rows, d \in Calls : Maps(d)' => calls'[d].by # r.by
        BY <1>2, <1>3, <1>4, <2>2 DEF MapInv, MapOwners, Maps
    <2>. QED  BY <1>3, <2>1, <2>2, <2>3 DEF MapOwners
<1>8. MapOrder' /\ RowsAgree'
    BY <1>3 DEF MapInv, MapOrder, RowsAgree
<1>9. MapAfter'
    <2>1. \A d \in mapping.drawn : d.by # started
        BY <1>3 DEF MapInv, MapTyped, MapOwners, MapCall
    <2>. QED  BY <1>2, <1>3, <1>4, <2>1 DEF MapInv, MapAfter, Maps
<1>. QED  BY <1>5, <1>6, <1>7, <1>8, <1>9 DEF MapInv

\* The lock taken is the least still missing, and nobody has it.
LEMMA MapLock ==
    ASSUME CallsTyped, MapInv, Identities \subseteq Nat, NEW c \in Calls, LockIdentity(c)
    PROVE  MapInv'
<1>. DEFINE m == calls[c]
<1>1. /\ m \in MapCall /\ Maps(c) /\ m.held \subseteq m.ids /\ m.held # m.ids /\ m.by < started
      /\ UNCHANGED <<mapping, started>>
    BY DEF LockIdentity, At, MapInv, MapTyped, Maps
<1>2. PICK n : n = NextToLock(c)
    OBVIOUS
<1>3. n \in m.ids \ m.held /\ n \in Nat /\ \A x \in m.ids \ m.held : n <= x
    <2>1. m.ids \ m.held # {} /\ m.ids \ m.held \subseteq Nat
        BY <1>1 DEF MapCall
    <2>. QED  BY <1>2, <2>1, LeastOf DEF NextToLock
<1>4. /\ \A d \in Calls \ {c} : calls'[d] = calls[d]
      /\ calls'[c] = [m EXCEPT !.held = m.held \cup {n}]
    BY <1>1, <1>2 DEF LockIdentity, CallsTyped, MapCall
<1>5. /\ calls'[c] \in MapCall /\ calls'[c].by = m.by /\ calls'[c].ids = m.ids
      /\ calls'[c].held = m.held \cup {n} /\ calls'[c].op = "map"
    BY <1>1, <1>3, <1>4 DEF MapCall
<1>6. \A d \in Calls \ {c} : Maps(d) => n \notin calls[d].held
    BY <1>2 DEF LockIdentity, HeldBy, Maps
<1>7. MapTyped'
    BY <1>1, <1>3, <1>4, <1>5 DEF MapInv, MapTyped, Maps
<1>8. MapLocks'
    <2>1. \A d, e \in Calls : Maps(d)' /\ Maps(e)' /\ d # e =>
             calls'[d].by # calls'[e].by /\ calls'[d].held \cap calls'[e].held = {}
        <3>1. \A d \in Calls \ {c} : Maps(d)' =>
                 calls'[d].by # calls'[c].by /\ calls'[d].held \cap calls'[c].held = {}
            <4>1. \A d \in Calls \ {c} : Maps(d) =>
                     calls[d].by # m.by /\ calls[d].held \cap m.held = {}
                BY <1>1 DEF MapInv, MapLocks
            <4>. QED  BY <1>4, <1>5, <1>6, <4>1 DEF Maps
        <3>2. \A d, e \in Calls \ {c} : Maps(d)' /\ Maps(e)' /\ d # e =>
                 calls'[d].by # calls'[e].by /\ calls'[d].held \cap calls'[e].held = {}
            BY <1>4 DEF MapInv, MapLocks, Maps
        <3>. QED  BY <3>1, <3>2
    <2>2. \A x \in m.held, y \in m.ids \ m.held : x < y
        BY <1>1 DEF MapInv, MapLocks
    <2>3. m.ids \subseteq Nat
        BY <1>1 DEF MapCall
    <2>4. \A x \in m.held \cup {n}, y \in m.ids \ (m.held \cup {n}) : x < y
        BY <1>3, <2>2, <2>3
    <2>5. \A d \in Calls : Maps(d)' =>
             \A x \in calls'[d].held, y \in calls'[d].ids \ calls'[d].held : x < y
        BY <1>4, <1>5, <2>4 DEF MapInv, MapLocks, Maps
    <2>. QED  BY <2>1, <2>5 DEF MapLocks
<1>9. MapOwners'
    <2>1. ASSUME NEW r \in mapping.drawn
          PROVE  \E d \in Calls : /\ Maps(d)' /\ calls'[d].by = r.by
                                  /\ calls'[d].held = calls'[d].ids /\ r.id \in calls'[d].ids
        <3>1. PICK d \in Calls : /\ Maps(d) /\ calls[d].by = r.by /\ calls[d].held = calls[d].ids
                                 /\ r.id \in calls[d].ids
            BY DEF MapInv, MapOwners
        <3>2. calls'[d] = calls[d]
            BY <1>1, <1>4, <3>1
        <3>. QED  BY <3>1, <3>2 DEF Maps
    <2>2. \A r \in mapping.rows, d \in Calls : Maps(d)' => calls'[d].by # r.by
        <3>1. \A r \in mapping.rows : m.by # r.by
            BY <1>1 DEF MapInv, MapOwners
        <3>2. \A r \in mapping.rows, d \in Calls \ {c} : Maps(d)' => calls'[d].by # r.by
            BY <1>4 DEF MapInv, MapOwners, Maps
        <3>. QED  BY <1>5, <3>1, <3>2
    <2>. QED  BY <1>1, <2>1, <2>2 DEF MapInv, MapOwners
<1>10. MapOrder' /\ RowsAgree'
    BY <1>1 DEF MapInv, MapOrder, RowsAgree
<1>11. MapAfter'
    <2>1. \A d \in mapping.drawn, r \in mapping.rows :
             d.by = m.by /\ r.id \in m.ids => r.order < d.order
        BY <1>1 DEF MapInv, MapAfter
    <2>2. \A e \in Calls \ {c}, d \in mapping.drawn, r \in mapping.rows :
             Maps(e)' /\ d.by = calls'[e].by /\ r.id \in calls'[e].ids => r.order < d.order
        BY <1>4 DEF MapInv, MapAfter, Maps
    <2>3. \A d \in mapping.drawn, r \in mapping.rows :
             d.by = calls'[c].by /\ r.id \in calls'[c].ids => r.order < d.order
        BY <1>5, <2>1
    <2>4. \A e \in Calls, d \in mapping.drawn, r \in mapping.rows :
             Maps(e)' /\ d.by = calls'[e].by /\ r.id \in calls'[e].ids => r.order < d.order
        BY <2>2, <2>3
    <2>. QED  BY <1>1, <2>4 DEF MapAfter
<1>. QED  BY <1>7, <1>8, <1>9, <1>10, <1>11 DEF MapInv

\* The revision drawn is of an identity it had none of, and the last of all.
LEMMA MapDraw ==
    ASSUME MapInv, Identities \subseteq Nat, NEW c \in Calls, DrawRevision(c)
    PROVE  MapInv'
<1>. DEFINE m == calls[c]
            row == [by |-> m.by, id |-> Min(Pending(c)), order |-> mapping.next,
                    source |-> m.source]
<1>1. /\ m \in MapCall /\ Maps(c) /\ m.held = m.ids /\ m.by < started /\ Pending(c) # {}
      /\ UNCHANGED <<calls, started>>
    BY DEF DrawRevision, At, MapInv, MapTyped, Maps
<1>2. /\ mapping \in [next : Nat, drawn : SUBSET MapRow, rows : SUBSET MapRow]
      /\ mapping' = [mapping EXCEPT !.next = mapping.next + 1, !.drawn = mapping.drawn \cup {row}]
    BY DEF DrawRevision, MapInv, MapTyped
<1>3. /\ mapping'.next = mapping.next + 1 /\ mapping'.rows = mapping.rows
      /\ mapping'.drawn = mapping.drawn \cup {row}
    BY <1>2
<1>4. row.id \in m.ids /\ \A r \in mapping.drawn : r.by = m.by => r.id # row.id
    <2>1. Pending(c) \subseteq m.ids /\ Pending(c) \subseteq Nat
        BY <1>1 DEF Pending, MapCall
    <2>2. Min(Pending(c)) \in Pending(c)
        BY <1>1, <2>1, LeastOf
    <2>. QED  BY <2>1, <2>2 DEF Pending
<1>5. row \in MapRow /\ row.by = m.by /\ row.order = mapping.next
    BY <1>1, <1>2, <1>4 DEF MapRow, MapCall
<1>. HIDE DEF row
<1>6. MapTyped'
    <2>1. mapping' \in [next : Nat, drawn : SUBSET MapRow, rows : SUBSET MapRow]
        <3>1. mapping.next + 1 \in Nat /\ mapping.drawn \cup {row} \in SUBSET MapRow
            BY <1>2, <1>5
        <3>. QED  BY <1>2, <3>1
    <2>. QED  BY <1>1, <2>1 DEF MapInv, MapTyped, Maps
<1>7. MapLocks'
    BY <1>1 DEF MapInv, MapLocks, Maps
<1>8. MapOwners'
    <2>1. \E d \in Calls : /\ Maps(d) /\ calls[d].by = row.by /\ calls[d].held = calls[d].ids
                           /\ row.id \in calls[d].ids
        BY <1>1, <1>4, <1>5
    <2>2. \A r \in mapping.drawn \cup {row} : \E d \in Calls :
             /\ Maps(d) /\ calls[d].by = r.by /\ calls[d].held = calls[d].ids
             /\ r.id \in calls[d].ids
        BY <2>1 DEF MapInv, MapOwners
    <2>. QED  BY <1>1, <1>3, <2>2 DEF MapInv, MapOwners, Maps
<1>9. MapOrder'
    <2>1. \A r \in mapping.drawn \cup mapping.rows : r.order \in Nat /\ r.order < mapping.next
        BY <1>2 DEF MapRow, MapInv, MapOrder
    <2>2. \A r \in mapping.rows : r.by # m.by
        BY <1>1 DEF MapInv, MapOwners
    <2>3. \A r \in mapping.drawn \cup mapping.rows : ~(r.by = row.by /\ r.id = row.id)
        BY <1>4, <1>5, <2>2
    <2>4. \A r \in (mapping.drawn \cup {row}) \cup mapping.rows : r.order < mapping.next + 1
        BY <1>2, <1>5, <2>1
    <2>5. \A r, q \in (mapping.drawn \cup {row}) \cup mapping.rows :
             r.by = q.by /\ r.id = q.id => r = q
        BY <2>3 DEF MapInv, MapOrder
    <2>. QED  BY <1>3, <2>4, <2>5 DEF MapOrder
<1>10. MapAfter'
    <2>1. \A r \in mapping.rows : r.order < row.order
        BY <1>5 DEF MapInv, MapOrder
    <2>. QED  BY <1>1, <1>3, <2>1 DEF MapInv, MapAfter, Maps
<1>11. RowsAgree'
    BY <1>3 DEF MapInv, RowsAgree
<1>. QED  BY <1>6, <1>7, <1>8, <1>9, <1>10, <1>11 DEF MapInv

\* Committed at once, the revisions of a mapping come after every revision of
\* the same identities, and no other mapping with revisions names any of them.
LEMMA MapCommit ==
    ASSUME CallsTyped, MapInv, NEW c \in Calls, CommitMapping(c)
    PROVE  MapInv'
<1>. DEFINE m == calls[c]
            mine == {r \in mapping.drawn : r.by = m.by}
<1>1. /\ m \in MapCall /\ Maps(c) /\ m.held = m.ids /\ m.by < started /\ UNCHANGED started
      /\ mapping \in [next : Nat, drawn : SUBSET MapRow, rows : SUBSET MapRow]
    BY DEF CommitMapping, At, MapInv, MapTyped, Maps
<1>2. /\ mapping'.next = mapping.next /\ mapping'.drawn = mapping.drawn \ mine
      /\ mapping'.rows = mapping.rows \cup mine
      /\ mapping' \in [next : Nat, drawn : SUBSET MapRow, rows : SUBSET MapRow]
    BY <1>1 DEF CommitMapping
<1>3. /\ \A d \in Calls \ {c} : calls'[d] = calls[d]
      /\ ~Maps(c)'
    BY DEF CommitMapping, Done, Vacant, Maps, CallsTyped
<1>4. \A d \in Calls : Maps(d)' => d # c /\ Maps(d) /\ calls'[d] = calls[d]
    BY <1>3 DEF Maps
<1>5. \A d \in Calls : Maps(d)' =>
         calls[d].by # m.by /\ calls[d].held \cap m.held = {}
    BY <1>1, <1>4 DEF MapInv, MapLocks
<1>6. \A r \in mine : r \in MapRow /\ r.id \in m.ids /\ r.by = m.by
    <2>1. SUFFICES ASSUME NEW r \in mine PROVE r.id \in m.ids
        BY <1>1
    <2>2. PICK d \in Calls : Maps(d) /\ calls[d].by = r.by /\ r.id \in calls[d].ids
        BY DEF MapInv, MapOwners
    <2>3. d = c
        BY <1>1, <2>2 DEF MapInv, MapLocks
    <2>. QED  BY <2>2, <2>3
<1>7. \A r \in mapping.rows : r.by # m.by /\ \A q \in mine : r.id \in m.ids => r.order < q.order
    BY <1>1 DEF MapInv, MapOwners, MapAfter
<1>. HIDE DEF mine
<1>8. MapTyped'
    BY <1>1, <1>2, <1>4 DEF MapInv, MapTyped
<1>9. MapLocks'
    BY <1>4 DEF MapInv, MapLocks
<1>10. MapOwners'
    <2>1. ASSUME NEW r \in mapping.drawn \ mine
          PROVE  \E d \in Calls : /\ Maps(d)' /\ calls'[d].by = r.by
                                  /\ calls'[d].held = calls'[d].ids /\ r.id \in calls'[d].ids
        <3>1. PICK d \in Calls : /\ Maps(d) /\ calls[d].by = r.by /\ calls[d].held = calls[d].ids
                                 /\ r.id \in calls[d].ids
            BY DEF MapInv, MapOwners
        <3>2. d # c
            BY <3>1 DEF mine
        <3>3. calls'[d] = calls[d]
            BY <1>3, <3>2
        <3>. QED  BY <3>1, <3>3 DEF Maps
    <2>2. \A r \in mapping.rows \cup mine : r.by < started
        BY <1>1, <1>6 DEF MapInv, MapOwners
    <2>3. \A r \in mapping.rows, d \in Calls : Maps(d)' => calls'[d].by # r.by
        BY <1>4 DEF MapInv, MapOwners
    <2>4. \A r \in mine, d \in Calls : Maps(d)' => calls'[d].by # r.by
        BY <1>4, <1>5, <1>6
    <2>. QED  BY <1>1, <1>2, <2>1, <2>2, <2>3, <2>4 DEF MapOwners
<1>11. MapOrder'
    <2>1. mapping'.drawn \cup mapping'.rows = mapping.drawn \cup mapping.rows
        BY <1>2 DEF mine
    <2>. QED  BY <1>2, <2>1 DEF MapInv, MapOrder
<1>12. MapAfter'
    <2>1. SUFFICES ASSUME NEW d \in Calls, NEW e \in mapping.drawn \ mine,
                          NEW r \in mapping.rows \cup mine,
                          Maps(d)', e.by = calls'[d].by, r.id \in calls'[d].ids
                   PROVE  r.order < e.order
        BY <1>2 DEF MapAfter
    <2>2. Maps(d) /\ calls'[d] = calls[d]
        BY <1>4, <2>1
    <2>3. CASE r \in mapping.rows
        BY <2>1, <2>2, <2>3 DEF MapInv, MapAfter
    <2>4. CASE r \in mine
        <3>1. PICK x \in Calls : /\ Maps(x) /\ calls[x].by = e.by
                                 /\ calls[x].held = calls[x].ids
            BY DEF MapInv, MapOwners
        <3>2. x = d
            BY <2>1, <2>2, <3>1 DEF MapInv, MapLocks
        <3>3. r.id \in calls[d].held /\ r.id \in m.held
            BY <1>1, <1>6, <2>1, <2>2, <2>4, <3>1, <3>2
        <3>. QED  BY <1>5, <2>1, <3>3
    <2>. QED  BY <2>3, <2>4
<1>13. RowsAgree'
    <2>1. SUFFICES ASSUME NEW r \in mapping.rows \cup mine, NEW q \in mapping.rows \cup mine,
                          NEW r2 \in mapping.rows \cup mine, NEW q2 \in mapping.rows \cup mine,
                          r.by = q.by, r2.by = q2.by, r.id = r2.id, q.id = q2.id,
                          r.order < r2.order
                   PROVE  q.order < q2.order
        BY <1>2 DEF RowsAgree
    <2>2. r \in mine <=> q \in mine
        BY <1>6, <1>7, <2>1
    <2>3. r2 \in mine <=> q2 \in mine
        BY <1>6, <1>7, <2>1
    <2>4. CASE r \notin mine /\ r2 \notin mine
        BY <2>1, <2>2, <2>3, <2>4 DEF MapInv, RowsAgree
    <2>5. CASE r \notin mine /\ r2 \in mine
        BY <1>6, <1>7, <2>1, <2>2, <2>3, <2>5
    <2>6. CASE r \in mine /\ r2 \notin mine
        <3>1. r2.order < r.order /\ r.order \in Nat /\ r2.order \in Nat
            BY <1>1, <1>6, <1>7, <2>1, <2>6 DEF MapRow
        <3>. QED  BY <2>1, <3>1
    <2>7. CASE r \in mine /\ r2 \in mine
        <3>1. r = r2
            BY <1>6, <2>1, <2>7 DEF MapInv, MapOrder, mine
        <3>2. r.order \in Nat
            BY <1>6, <2>7 DEF MapRow
        <3>. QED  BY <2>1, <3>1, <3>2
    <2>. QED  BY <2>4, <2>5, <2>6, <2>7
<1>. QED  BY <1>8, <1>9, <1>10, <1>11, <1>12, <1>13 DEF MapInv

LEMMA MapStep ==
    ASSUME CallsTyped, MapInv, Identities \subseteq Nat, [InstallsNext]_installVars
    PROVE  MapInv'
<1>1. ASSUME MappingNext PROVE MapInv'
    BY <1>1, MapBegin, MapLock, MapDraw, MapCommit DEF MappingNext
<1>2. ASSUME PairingNext \/ BindingNext \/ SettingsNext PROVE MapInv'
    <2>1. /\ Untouched({"map"}) /\ UNCHANGED mapping
          /\ started' = started \/ started' = started + 1
        BY <1>2, PairingKeeps, BindingKeeps, SettingsKeeps DEF Untouched
    <2>. QED  BY <2>1, MapFrame
<1>3. ASSUME UNCHANGED installVars PROVE MapInv'
    <2>1. Untouched({"map"}) /\ UNCHANGED <<mapping, started>>
        BY <1>3 DEF installVars, Untouched
    <2>. QED  BY <2>1, MapFrame
<1>. QED  BY <1>1, <1>2, <1>3 DEF InstallsNext

\* Two mappings that wait for each other would each hold an identity that is
\* less than the other's next one.
LEMMA NoCycle ==
    ASSUME MapInv, Identities \subseteq Nat, NEW c \in Calls, NEW d \in Calls,
           Maps(c), calls[c].held # calls[c].ids, NextToLock(c) \in HeldBy(d),
           Maps(d), calls[d].held # calls[d].ids, NextToLock(d) \in HeldBy(c)
    PROVE  FALSE
<1>1. \A x \in {c, d} :
         /\ NextToLock(x) \in calls[x].ids \ calls[x].held
         /\ NextToLock(x) \in Nat
         /\ \A y \in calls[x].held : y < NextToLock(x)
    <2>1. SUFFICES ASSUME NEW x \in {c, d}
                   PROVE  /\ NextToLock(x) \in calls[x].ids \ calls[x].held
                          /\ NextToLock(x) \in Nat
                          /\ \A y \in calls[x].held : y < NextToLock(x)
        OBVIOUS
    <2>2. /\ calls[x].ids \ calls[x].held # {} /\ calls[x].ids \ calls[x].held \subseteq Nat
        BY DEF MapInv, MapTyped, MapCall
    <2>3. NextToLock(x) \in calls[x].ids \ calls[x].held
        BY <2>2, LeastOf DEF NextToLock
    <2>. QED  BY <2>2, <2>3 DEF MapInv, MapLocks
<1>2. NextToLock(c) \in calls[d].held /\ NextToLock(d) \in calls[c].held
    BY DEF HeldBy, Maps
<1>. QED  BY <1>1, <1>2

\* Two mappings that overlap come in one order for every identity both of them
\* name, whatever their locks and revisions interleave to, and never wait for
\* each other: identities are locked in the order they sort, and a revision is
\* drawn under the locks and seen only at the commit that gives them up
\* (usage-store.ts:1013-1021).
THEOREM MappingsInOrder ==
    ASSUME NEW machines, NEW rows
    PROVE  InstallsSpec(machines, rows) => []MappingsAgree
<1>1. Started(machines, rows) => IdentityInv /\ MapInv
    BY IdentityInit, MapInit
<1>2. IdentityInv /\ MapInv /\ [InstallsNext]_installVars => IdentityInv' /\ MapInv'
    BY IdentityStep, MapStep, InstallsAssumption DEF IdentityInv
<1>3. MapInv => MappingsAgree
    <2>. SUFFICES ASSUME MapInv PROVE MappingsAgree
        OBVIOUS
    <2>1. RowsAgree
        BY DEF MapInv
    <2>2. \A c, d \in Calls :
             ~(/\ calls[c].op = "map" /\ calls[c].held # calls[c].ids /\ NextToLock(c) \in HeldBy(d)
               /\ calls[d].op = "map" /\ calls[d].held # calls[d].ids /\ NextToLock(d) \in HeldBy(c))
        BY NoCycle, InstallsAssumption DEF Maps
    <2>. QED  BY <2>1, <2>2 DEF MappingsAgree, RowsAgree
<1>. QED  BY <1>1, <1>2, <1>3, PTL DEF InstallsSpec
================================================================================
