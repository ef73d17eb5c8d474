------------------------ MODULE UsageDelivery_proofs ------------------------
(***************************************************************************)
(* What UsageDelivery guarantees for every set of items, bindings,         *)
(* settings and runs, and every bound.                                     *)
(***************************************************************************)
EXTENDS UsageDelivery, SequenceTheorems, FiniteSetTheorems, TLAPS

-----------------------------------------------------------------------------
(* Sequences of bodies as the sets of their elements.                      *)

LEMMA ElementsTyped ==
    ASSUME NEW S, NEW s \in Seq(S)
    PROVE  Elements(s) \subseteq S
BY DEF Elements

LEMMA ElementsHeadTail ==
    ASSUME NEW S, NEW s \in Seq(S), s # <<>>
    PROVE  /\ Head(s) \in S /\ Tail(s) \in Seq(S)
           /\ Head(s) \in Elements(s)
           /\ Elements(Tail(s)) \subseteq Elements(s)
<1>1. Head(s) \in S /\ Tail(s) \in Seq(S) /\ Len(Tail(s)) = Len(s) - 1
      /\ \A k \in 1..Len(Tail(s)) : Tail(s)[k] = s[k + 1]
    BY HeadTailProperties
<1>2. Len(s) \in Nat \ {0} /\ DOMAIN s = 1..Len(s)
    BY EmptySeq, LenProperties
<1>3. DOMAIN Tail(s) = 1..Len(Tail(s)) /\ Len(Tail(s)) \in Nat
    BY <1>1, LenProperties
<1>4. Head(s) = s[1]
    OBVIOUS
<1>5. Head(s) \in Elements(s)
    BY <1>2, <1>4 DEF Elements
<1>6. ASSUME NEW x \in Elements(Tail(s)) PROVE x \in Elements(s)
    <2>1. PICK k \in 1..Len(Tail(s)) : x = Tail(s)[k]
        BY <1>3 DEF Elements
    <2>2. k + 1 \in 1..Len(s) /\ x = s[k + 1]
        BY <2>1, <1>1, <1>2, <1>3
    <2>. QED  BY <2>2, <1>2 DEF Elements
<1>. QED  BY <1>1, <1>5, <1>6

LEMMA ElementsPrepend ==
    ASSUME NEW S, NEW s \in Seq(S), NEW a \in S, NEW b \in S
    PROVE  /\ <<a, b>> \o s \in Seq(S)
           /\ Elements(<<a, b>> \o s) \subseteq {a, b} \cup Elements(s)
<1>. DEFINE t == <<a, b>> \o s
<1>1. <<a, b>> \in Seq(S) /\ Len(<<a, b>>) = 2
    OBVIOUS
<1>2. t \in Seq(S) /\ Len(t) = 2 + Len(s)
      /\ \A k \in 1..(2 + Len(s)) : t[k] = IF k <= 2 THEN <<a, b>>[k] ELSE s[k - 2]
    BY <1>1, ConcatProperties
<1>3. DOMAIN t = 1..Len(t) /\ DOMAIN s = 1..Len(s) /\ Len(s) \in Nat
    BY <1>2, LenProperties
<1>4. ASSUME NEW x \in Elements(t) PROVE x \in {a, b} \cup Elements(s)
    <2>1. PICK k \in 1..Len(t) : x = t[k]
        BY <1>3 DEF Elements
    <2>2. CASE k <= 2
        BY <2>1, <2>2, <1>2, <1>3
    <2>3. CASE k > 2
        <3>1. k - 2 \in 1..Len(s) /\ x = s[k - 2]
            BY <2>1, <2>3, <1>2, <1>3
        <3>. QED  BY <3>1, <1>3 DEF Elements
    <2>. QED  BY <2>1, <2>2, <2>3, <1>2, <1>3
<1>. QED  BY <1>2, <1>4

-----------------------------------------------------------------------------
(* Bodies that share no item.                                              *)

DisjointItems(a, b) == \A e \in a.entries, f \in b.entries : e[1] # f[1]

PairwiseDisjoint(s) ==
    \A k, l \in DOMAIN s : k # l => DisjointItems(s[k], s[l])

LEMMA TailDisjoint ==
    ASSUME NEW S, NEW s \in Seq(S), s # <<>>, PairwiseDisjoint(s)
    PROVE  /\ PairwiseDisjoint(Tail(s))
           /\ \A b \in Elements(Tail(s)) : DisjointItems(Head(s), b)
<1>1. /\ Len(s) \in Nat \ {0} /\ DOMAIN s = 1..Len(s)
      /\ DOMAIN Tail(s) = 1..(Len(s) - 1)
      /\ \A k \in 1..(Len(s) - 1) : Tail(s)[k] = s[k + 1]
      /\ Head(s) = s[1]
    BY EmptySeq, LenProperties, HeadTailProperties
<1>2. ASSUME NEW k \in DOMAIN Tail(s)
      PROVE  k + 1 \in DOMAIN s /\ k + 1 # 1 /\ Tail(s)[k] = s[k + 1]
    BY <1>1
<1>3. ASSUME NEW k \in DOMAIN Tail(s), NEW l \in DOMAIN Tail(s), k # l
      PROVE  DisjointItems(Tail(s)[k], Tail(s)[l])
    <2>1. k + 1 # l + 1
        BY <1>1, <1>3
    <2>. QED  BY <2>1, <1>2 DEF PairwiseDisjoint
<1>4. ASSUME NEW b \in Elements(Tail(s)) PROVE DisjointItems(Head(s), b)
    <2>1. PICK k \in DOMAIN Tail(s) : b = Tail(s)[k]
        BY DEF Elements
    <2>2. 1 \in DOMAIN s
        BY <1>1
    <2>. QED  BY <2>1, <2>2, <1>1, <1>2 DEF PairwiseDisjoint
<1>. QED  BY <1>3, <1>4 DEF PairwiseDisjoint

LEMMA PrependDisjoint ==
    ASSUME NEW S, NEW s \in Seq(S), NEW a \in S, NEW b \in S,
           PairwiseDisjoint(s), DisjointItems(a, b),
           \A x \in Elements(s) : DisjointItems(a, x) /\ DisjointItems(b, x)
    PROVE  PairwiseDisjoint(<<a, b>> \o s)
<1>. DEFINE t == <<a, b>> \o s
<1>1. <<a, b>> \in Seq(S) /\ Len(<<a, b>>) = 2
    OBVIOUS
<1>2. t \in Seq(S) /\ Len(t) = 2 + Len(s)
      /\ \A k \in 1..(2 + Len(s)) : t[k] = IF k <= 2 THEN <<a, b>>[k] ELSE s[k - 2]
    BY <1>1, ConcatProperties
<1>3. DOMAIN t = 1..Len(t) /\ DOMAIN s = 1..Len(s) /\ Len(s) \in Nat
    BY <1>2, LenProperties
<1>4. ASSUME NEW k \in DOMAIN t
      PROVE  \/ k = 1 /\ t[k] = a
             \/ k = 2 /\ t[k] = b
             \/ k > 2 /\ k - 2 \in DOMAIN s /\ t[k] = s[k - 2]
    BY <1>2, <1>3
<1>5. \A x, y : DisjointItems(x, y) => DisjointItems(y, x)
    BY DEF DisjointItems
<1>6. \A k \in DOMAIN s : s[k] \in Elements(s)
    BY DEF Elements
<1>7. ASSUME NEW k \in DOMAIN t, NEW l \in DOMAIN t, k # l
      PROVE  DisjointItems(t[k], t[l])
    <2>1. k \in Nat /\ l \in Nat
        BY <1>2, <1>3
    <2>2. CASE k > 2 /\ l > 2
        <3>1. k - 2 # l - 2
            BY <2>1, <1>7
        <3>. QED  BY <2>1, <2>2, <3>1, <1>4 DEF PairwiseDisjoint
    <2>3. CASE k <= 2 /\ l > 2
        <3>1. t[l] \in Elements(s)
            BY <2>1, <2>3, <1>4, <1>6
        <3>2. t[k] = a \/ t[k] = b
            BY <2>1, <2>3, <1>4
        <3>. QED  BY <3>1, <3>2
    <2>4. CASE k > 2 /\ l <= 2
        <3>1. t[k] \in Elements(s)
            BY <2>1, <2>4, <1>4, <1>6
        <3>2. t[l] = a \/ t[l] = b
            BY <2>1, <2>4, <1>4
        <3>. QED  BY <3>1, <3>2, <1>5
    <2>5. CASE k <= 2 /\ l <= 2
        <3>1. (t[k] = a /\ t[l] = b) \/ (t[k] = b /\ t[l] = a)
            BY <2>1, <2>5, <1>4, <1>7
        <3>. QED  BY <3>1, <1>5
    <2>. QED  BY <2>1, <2>2, <2>3, <2>4, <2>5
<1>. QED  BY <1>7 DEF PairwiseDisjoint

-----------------------------------------------------------------------------
(* Types                                                                   *)

LEMMA CallTyped ==
    ASSUME call \in Call
    PROVE  /\ call.status \in {"sent", "accepted", "refused", "acknowledged"}
                => call.body \in Body
           /\ call.status = "accepted" => call.rejections \subseteq Records
           /\ call = NoCall <=> call.status = "none"
BY DEF Call, NoCall

LEMMA CallsTyped ==
    /\ NoCall \in Call
    /\ \A b \in Body : Sent(b) \in Call /\ Refused(b) \in Call
                       /\ Acknowledged(b) \in Call
    /\ \A b \in Body, rej \in SUBSET Records : Accepted(b, rej) \in Call
BY DEF Call, NoCall, Sent, Refused, Acknowledged, Accepted

\* A request is under way only while a run uploads.
LEMMA CallNeedsUpload ==
    ASSUME RunOK, call.status # "none"
    PROVE  phase = "upload"
BY DEF RunOK, NoCall

\* A revision a record may be rewritten to is a revision.
LEMMA RevisedTyped ==
    ASSUME RowsOK, NEW i \in PendingRecords
    PROVE  content[i] \in Content /\ Revised(i) \in Content
BY SetsAssumption DEF RowsOK, PendingRecords, Revised, Items

LEMMA OutgoingTyped ==
    ASSUME RowsOK
    PROVE  Outgoing \subseteq Entry /\ Cardinality(Outgoing) \in Nat
<1>1. Outgoing \subseteq Entry
    <2>1. ASSUME NEW i \in PendingRecords PROVE <<i, Revised(i)>> \in Entry
        BY <2>1, RevisedTyped DEF Entry, PendingRecords, Items
    <2>2. ASSUME NEW i \in Buckets, content[i] # None
          PROVE  <<i, content[i]>> \in Entry
        BY <2>2 DEF RowsOK, Entry, Items
    <2>. QED  BY <2>1, <2>2 DEF Outgoing
<1>2. IsFiniteSet(Entry)
    BY SetsAssumption, FS_Product DEF Entry
<1>3. IsFiniteSet(Outgoing)
    BY <1>1, <1>2, FS_Subset
<1>. QED  BY <1>1, <1>3, FS_CardinalityType

LEMMA BodiesTyped ==
    ASSUME RowsOK, run \in Runs,
           NEW n \in 1..(Cardinality(Outgoing) + 1), NEW place
    PROVE  /\ Bodies(n, place) \in Seq(Body)
           /\ \A b \in Elements(Bodies(n, place)) :
                 b \in Body /\ b.run = run /\ b.entries \subseteq Outgoing
           /\ \E b \in Elements(Bodies(n, place)) : b.run = run /\ b.coverage
<1>. DEFINE q == Bodies(n, place)
<1>1. n \in Nat /\ n >= 1 /\ Outgoing \subseteq Entry
    BY OutgoingTyped
<1>2. DOMAIN q = 1..n
    BY DEF Bodies
<1>3. ASSUME NEW k \in 1..n
      PROVE  /\ q[k] = [run |-> run, coverage |-> k = 1,
                        entries |-> {e \in Outgoing : place[e] = k}]
             /\ q[k] \in Body
    BY <1>1 DEF Bodies, Body
<1>4. q \in [1..n -> Body]
    BY <1>2, <1>3 DEF Bodies
<1>5. q \in Seq(Body)
    BY <1>1, <1>4, SeqDef
<1>6. \A b \in Elements(q) : b \in Body /\ b.run = run /\ b.entries \subseteq Outgoing
    BY <1>2, <1>3 DEF Elements
<1>7. q[1] \in Elements(q) /\ q[1].run = run /\ q[1].coverage
    <2>1. 1 \in 1..n
        BY <1>1
    <2>2. q[1] = [run |-> run, coverage |-> 1 = 1,
                  entries |-> {e \in Outgoing : place[e] = 1}]
        BY <2>1, <1>3
    <2>3. q[1] \in Elements(q)
        BY <2>1, <1>2 DEF Elements
    <2>4. q[1].run = run
        BY <2>2
    <2>5. q[1].coverage = (1 = 1)
        BY <2>2
    <2>. QED  BY <2>3, <2>4, <2>5
<1>. QED  BY <1>5, <1>6, <1>7

THEOREM TypeInit == Init => TypeOK
BY SetsAssumption, BoundsAssumption, EmptySeq, CallsTyped
   DEF Init, TypeOK, RowsOK, RunOK, ServerOK, Config

LEMMA ReviseTyped ==
    ASSUME RowsOK, ServerOK, NEW done \in SUBSET PendingRecords, Revise(done)
    PROVE  /\ content' \in [Items -> Content \cup {None}]
           /\ observed' \subseteq Entry
           /\ superseded' \subseteq Records
<1>1. \A i \in done : Revised(i) \in Content /\ <<i, Revised(i)>> \in Entry
    BY RevisedTyped DEF Entry, PendingRecords, Items
<1>. QED
    BY <1>1 DEF Revise, RowsOK, ServerOK, StaleRecords, PendingRecords, Items

LEMMA RunGoneTyped == RunGone => RunOK'
BY CallsTyped, EmptySeq, BoundsAssumption DEF RunGone, RunOK

LEMMA IngestTyped ==
    ASSUME ServerOK, UNCHANGED <<late, changes, faults>>,
           NEW b \in Body, Ingest(b)
    PROVE  ServerOK'
BY DEF Ingest, ServerOK, Welcome, BucketEntries, Body

LEMMA TypeStep == TypeOK /\ [Next]_vars => TypeOK'
<1>. SUFFICES ASSUME TypeOK, [Next]_vars
              PROVE  TypeOK'
    OBVIOUS
<1>. USE DEF TypeOK
<1>1. CASE UNCHANGED vars
    BY <1>1 DEF vars, rows, process, server, history, RowsOK, RunOK, ServerOK
<1>2. ASSUME NEW r \in Runs, StartRun(r) PROVE TypeOK'
    <2>1. RowsOK' /\ ServerOK'
        BY <1>2, BoundsAssumption DEF StartRun, RowsOK, ServerOK, server, history
    <2>2. ctx' \in Config
        BY <1>2, SetsAssumption
           DEF StartRun, RowsOK, ServerOK, Config, StartingConfig
    <2>3. RunOK'
        BY <1>2, <2>2 DEF StartRun, RunOK
    <2>. QED  BY <2>1, <2>3
<1>3. ASSUME NEW i \in Items, NEW c \in Content, Collect(i, c) PROVE TypeOK'
    <2>1. RowsOK'
        BY <1>3 DEF Collect, RowsOK
    <2>2. RunOK'
        BY <1>3 DEF Collect, RunOK, process
    <2>3. ServerOK'
        BY <1>3, BoundsAssumption DEF Collect, ServerOK, server, Entry
    <2>. QED  BY <2>1, <2>2, <2>3
<1>4. CASE Rebuild
    <2>1. run \in Runs /\ ctx \in Config
        BY <1>4 DEF Rebuild, RunOK
    <2>2. carried' \subseteq Body
        BY <1>4 DEF Rebuild, RowsOK, CoverageOnly, Body
    <2>3. PICK n \in 1..(Cardinality(Outgoing) + 1) :
              \E place \in Layouts(n) : queue' = Bodies(n, place)
        BY <1>4 DEF Rebuild
    <2>4. queue' \in Seq(Body) /\ Elements(queue') \subseteq Body
        BY <2>1, <2>3, BodiesTyped
    <2>5. /\ content' \in [Items -> Content \cup {None}]
          /\ observed' \subseteq Entry /\ superseded' \subseteq Records
        BY <1>4, ReviseTyped DEF Rebuild
    <2>6. RowsOK'
        BY <1>4, <2>2, <2>4, <2>5 DEF Rebuild, RowsOK
    <2>7. RunOK'
        BY <1>4, <2>1, <2>2, <2>4 DEF Rebuild, RunOK
    <2>9. ServerOK'
        BY <1>4, <2>1, <2>5 DEF Rebuild, ServerOK, server
    <2>. QED  BY <2>6, <2>7, <2>9
<1>5. CASE Post
    <2>1. RowsOK' /\ ServerOK'
        BY <1>5 DEF Post, RowsOK, ServerOK, rows, server, history
    <2>2. CASE /\ halves # <<>>
               /\ call' = Sent(Head(halves))
               /\ halves' = Tail(halves)
               /\ UNCHANGED <<carried, queue, budget>>
        <3>1. Head(halves) \in Body /\ Tail(halves) \in Seq(Body)
            BY <2>2, ElementsHeadTail DEF RunOK
        <3>. QED  BY <1>5, <2>1, <2>2, <3>1, CallsTyped DEF Post, RunOK
    <2>3. CASE /\ halves = <<>>
               /\ \E b \in carried : call' = Sent(b) /\ carried' = carried \ {b}
               /\ budget' = SplitBudget
               /\ UNCHANGED <<queue, halves>>
        BY <1>5, <2>1, <2>3, CallsTyped, BoundsAssumption DEF Post, RunOK
    <2>4. CASE /\ halves = <<>> /\ carried = {} /\ queue # <<>>
               /\ call' = Sent(Head(queue))
               /\ queue' = Tail(queue)
               /\ budget' = SplitBudget
               /\ UNCHANGED <<carried, halves>>
        <3>1. Head(queue) \in Body /\ Tail(queue) \in Seq(Body)
            BY <2>4, ElementsHeadTail DEF RunOK
        <3>. QED  BY <1>5, <2>1, <2>4, <3>1, CallsTyped, BoundsAssumption DEF Post, RunOK
    <2>. QED  BY <1>5, <2>2, <2>3, <2>4 DEF Post
<1>6. CASE Acknowledge
    <2>1. call.body \in Body /\ call.rejections \subseteq Records
        BY <1>6, CallTyped DEF Acknowledge, RunOK
    <2>2. ASSUME NEW i \in Items, \E e \in call.body.entries : e[1] = i
          PROVE  (CHOOSE e \in call.body.entries : e[1] = i)[2] \in Content
        BY <2>1, <2>2 DEF Body, Entry
    <2>3. RowsOK'
        BY <1>6, <2>1, <2>2 DEF Acknowledge, RowsOK
    <2>4. RunOK'
        <3>1. phase = "upload"
            BY <1>6, CallNeedsUpload DEF Acknowledge
        <3>2. call' = Acknowledged(call.body)
              /\ UNCHANGED <<phase, run, ctx, carried, queue, halves, budget>>
            BY <1>6 DEF Acknowledge
        <3>. QED  BY <2>1, <3>1, <3>2, CallsTyped DEF RunOK
    <2>5. ServerOK'
        BY <1>6 DEF Acknowledge, ServerOK, server, history
    <2>. QED  BY <2>3, <2>4, <2>5
<1>7. CASE DeleteAcknowledged
    BY <1>7, CallsTyped
       DEF DeleteAcknowledged, RowsOK, RunOK, ServerOK, server, history
<1>8. CASE Split
    <2>1. call.body \in Body
        BY <1>8, CallTyped DEF Split, RunOK
    <2>2. PICK tail \in Tails(call.body) :
              LET left == [call.body EXCEPT !.entries = @ \ tail]
                  right == [call.body EXCEPT !.coverage = FALSE, !.entries = tail]
              IN  /\ outbox' = (outbox \ {call.body}) \cup {left, right}
                  /\ halves' = <<left, right>> \o halves
        BY <1>8 DEF Split
    <2>. DEFINE left == [call.body EXCEPT !.entries = @ \ tail]
                right == [call.body EXCEPT !.coverage = FALSE, !.entries = tail]
    <2>3. tail \subseteq call.body.entries
        BY <2>2 DEF Tails, RecordEntries, BucketEntries
    <2>4. left \in Body /\ right \in Body
        BY <2>1, <2>3 DEF Body
    <2>5. halves' \in Seq(Body)
        BY <2>2, <2>4, ElementsPrepend DEF RunOK
    <2>6. RowsOK'
        BY <1>8, <2>2, <2>4 DEF Split, RowsOK
    <2>7. budget' \in 0..SplitBudget
        BY <1>8, BoundsAssumption DEF Split, RunOK
    <2>8. RunOK'
        <3>1. phase = "upload"
            BY <1>8, CallNeedsUpload DEF Split
        <3>2. call' = NoCall /\ UNCHANGED <<phase, run, ctx, carried, queue>>
            BY <1>8 DEF Split
        <3>. QED  BY <2>5, <2>7, <3>1, <3>2, CallsTyped DEF RunOK
    <2>9. ServerOK'
        BY <1>8 DEF Split, ServerOK, server, history
    <2>. QED  BY <2>6, <2>8, <2>9
<1>9. CASE Defer
    BY <1>9, CallsTyped DEF Defer, RowsOK, RunOK, ServerOK, rows, server, history
<1>10. CASE Isolate
    <2>1. call.body \in Body
        BY <1>10, CallTyped DEF Isolate, RunOK
    <2>2. ASSUME NEW i \in Items, \E e \in call.body.entries : e[1] = i
          PROVE  (CHOOSE e \in call.body.entries : e[1] = i)[2] \in Content
        BY <2>1, <2>2 DEF Body, Entry
    <2>3. RowsOK'
        BY <1>10, <2>1, <2>2 DEF Isolate, RowsOK, RecordsIn
    <2>4. RunOK'
        BY <1>10, CallsTyped DEF Isolate, RunOK
    <2>5. ServerOK'
        BY <1>10, <2>1 DEF Isolate, ServerOK, server, BucketEntries, Body
    <2>. QED  BY <2>3, <2>4, <2>5
<1>11. CASE EndRun
    BY <1>11, RunGoneTyped
       DEF EndRun, RowsOK, ServerOK, rows, server, history
<1>12. ASSUME RequestFails \/ Crash PROVE TypeOK'
    <2>1. RunOK'
        BY <1>12, RunGoneTyped DEF RequestFails, Crash
    <2>2. late' \subseteq Body
        BY <1>12, CallTyped DEF RequestFails, Crash, Abandoned, RunOK, ServerOK
    <2>3. faults' \in 0..MaxFaults
        BY <1>12, BoundsAssumption DEF RequestFails, Crash, ServerOK
    <2>. QED
        BY <1>12, <2>1, <2>2, <2>3
           DEF RequestFails, Crash, RowsOK, ServerOK, rows, server, history
<1>13. CASE ServerAccepts
    <2>1. call.body \in Body
        BY <1>13, CallTyped DEF ServerAccepts, RunOK
    <2>2. ServerOK'
        BY <1>13, <2>1, IngestTyped DEF ServerAccepts
    <2>3. Rejections(call.body) \subseteq Records
        BY <2>1 DEF Rejections, RecordEntries
    <2>4. RunOK'
        BY <1>13, <2>1, <2>3, CallsTyped, CallTyped DEF ServerAccepts, RunOK
    <2>. QED  BY <1>13, <2>2, <2>4 DEF ServerAccepts, RowsOK, rows
<1>14. CASE ServerRefuses
    <2>1. call.body \in Body /\ call # NoCall
        BY <1>14, CallTyped DEF ServerRefuses, RunOK, NoCall
    <2>2. RunOK'
        BY <1>14, <2>1, CallsTyped DEF ServerRefuses, RunOK
    <2>. QED
        BY <1>14, <2>2 DEF ServerRefuses, RowsOK, ServerOK, rows, server, history
<1>15. CASE LateArrival
    <2>1. RowsOK' /\ RunOK'
        BY <1>15 DEF LateArrival, RowsOK, RunOK, rows, process
    <2>2. PICK b \in late :
              /\ late' = late \ {b}
              /\ \/ b.entries \cap Poison = {} /\ Ingest(b)
                 \/ UNCHANGED <<server, history>>
        BY <1>15 DEF LateArrival
    <2>3. ServerOK'
        BY <1>15, <2>2 DEF LateArrival, ServerOK, server, history, Ingest,
                            Welcome, BucketEntries, Body
    <2>. QED  BY <2>1, <2>3
<1>16. CASE OwnerChanges
    <2>1. changes' \in 0..MaxChanges
        BY <1>16, BoundsAssumption DEF OwnerChanges, ServerOK
    <2>. QED
        BY <1>16, <2>1
           DEF OwnerChanges, RowsOK, RunOK, ServerOK, rows, process, history
<1>17. CASE CrashWhileRevising
    <2>1. RunOK'
        BY <1>17, RunGoneTyped DEF CrashWhileRevising
    <2>2. /\ content' \in [Items -> Content \cup {None}]
          /\ observed' \subseteq Entry /\ superseded' \subseteq Records
        BY <1>17, ReviseTyped DEF CrashWhileRevising
    <2>3. faults' \in 0..MaxFaults
        BY <1>17, BoundsAssumption DEF CrashWhileRevising, ServerOK
    <2>. QED
        BY <1>17, <2>1, <2>2, <2>3 DEF CrashWhileRevising, RowsOK, ServerOK, server
<1>. QED
    BY <1>1, <1>2, <1>3, <1>4, <1>5, <1>6, <1>7, <1>8, <1>9, <1>10, <1>11,
       <1>12, <1>13, <1>14, <1>15, <1>16, <1>17 DEF Next, RunStep, ServerStep

\* Every state of the companion and the server is well formed (TypeOK).
THEOREM TypeCorrect == Spec => []TypeOK
BY TypeInit, TypeStep, PTL DEF Spec

-----------------------------------------------------------------------------
(* Marks                                                                   *)

\* An ok receipt tells the truth about every entry of its body.
ReceiptIsTrue ==
    call.status = "accepted" =>
        /\ \A e \in call.body.entries :
              \/ e \in ledger
              \/ e[1] \in Buckets /\ e \in dropped
              \/ e[1] \in call.rejections
        /\ call.rejections \subseteq RecordsIn(call.body)

MarkInv == MarkedIsSettled /\ ReceiptIsTrue

\* Marks stay settled when none changes and the server forgets nothing.
LEMMA MarksStaySettled ==
    ASSUME MarkedIsSettled, published' = published,
           ledger \subseteq ledger', dropped \subseteq dropped',
           isolated \subseteq isolated'
    PROVE  MarkedIsSettled'
BY DEF MarkedIsSettled

LEMMA ReceiptStaysTrue ==
    ASSUME ReceiptIsTrue, call' = call \/ call'.status # "accepted",
           ledger \subseteq ledger', dropped \subseteq dropped'
    PROVE  ReceiptIsTrue'
BY DEF ReceiptIsTrue, RecordsIn

LEMMA MarkStep == TypeOK /\ MarkInv /\ [Next]_vars => MarkInv'
<1>. SUFFICES ASSUME TypeOK, MarkInv, [Next]_vars
              PROVE  MarkInv'
    OBVIOUS
<1>. USE DEF MarkInv
<1>1. CASE Acknowledge
    <2>1. call.body \in Body
        BY <1>1, CallTyped DEF Acknowledge, TypeOK, RunOK
    <2>2. ASSUME NEW i \in Items, published'[i] # None
          PROVE  \/ <<i, published'[i]>> \in ledger'
                 \/ i \in Buckets /\ <<i, published'[i]>> \in dropped' \cup isolated'
        <3>. DEFINE sent == call.body.entries
        <3>1. UNCHANGED <<ledger, dropped, isolated>>
            BY <1>1 DEF Acknowledge, server, history
        <3>2. CASE i \notin call.rejections /\ \E e \in sent : e[1] = i
            <4>1. PICK e \in sent : e[1] = i /\ published'[i] = e[2]
                BY <1>1, <3>2 DEF Acknowledge
            <4>2. e = <<i, published'[i]>>
                BY <2>1, <4>1 DEF Body, Entry
            <4>3. e \in ledger \/ (i \in Buckets /\ e \in dropped)
                BY <1>1, <3>2, <4>1 DEF Acknowledge, ReceiptIsTrue
            <4>. QED  BY <3>1, <4>2, <4>3
        <3>3. CASE ~ (i \notin call.rejections /\ \E e \in sent : e[1] = i)
            <4>1. published'[i] = published[i]
                BY <1>1, <3>3 DEF Acknowledge
            <4>. QED  BY <2>2, <3>1, <4>1 DEF MarkedIsSettled
        <3>. QED  BY <3>2, <3>3
    <2>3. ReceiptIsTrue'
        BY <1>1 DEF Acknowledge, Acknowledged, ReceiptIsTrue
    <2>. QED  BY <2>2, <2>3 DEF MarkedIsSettled
<1>2. CASE Isolate
    <2>1. call.body \in Body
        BY <1>2, CallTyped DEF Isolate, TypeOK, RunOK
    <2>2. ASSUME NEW i \in Items, published'[i] # None
          PROVE  \/ <<i, published'[i]>> \in ledger'
                 \/ i \in Buckets /\ <<i, published'[i]>> \in dropped' \cup isolated'
        <3>. DEFINE sent == call.body.entries
        <3>1. UNCHANGED <<ledger, dropped>> /\ isolated' = isolated \cup BucketEntries(call.body)
            BY <1>2 DEF Isolate, server
        <3>2. CASE i \in Buckets /\ \E e \in sent : e[1] = i
            <4>1. PICK e \in sent : e[1] = i /\ published'[i] = e[2]
                BY <1>2, <3>2 DEF Isolate
            <4>2. e = <<i, published'[i]>>
                BY <2>1, <4>1 DEF Body, Entry
            <4>. QED  BY <3>1, <3>2, <4>1, <4>2 DEF BucketEntries
        <3>3. CASE ~ (i \in Buckets /\ \E e \in sent : e[1] = i)
            <4>1. published'[i] = published[i]
                BY <1>2, <3>3 DEF Isolate
            <4>. QED  BY <2>2, <3>1, <4>1 DEF MarkedIsSettled
        <3>. QED  BY <3>2, <3>3
    <2>3. ReceiptIsTrue'
        BY <1>2 DEF Isolate, NoCall, ReceiptIsTrue
    <2>. QED  BY <2>2, <2>3 DEF MarkedIsSettled
<1>3. CASE ServerAccepts
    <2>1. call.body \in Body
        BY <1>3, CallTyped DEF ServerAccepts, TypeOK, RunOK
    <2>2. MarkedIsSettled'
        BY <1>3, MarksStaySettled DEF ServerAccepts, Ingest, rows
    <2>3. \A e \in call.body.entries : e[1] \in Records \/ e[1] \in Buckets
        BY <2>1 DEF Body, Entry, Items
    <2>4. ReceiptIsTrue'
        <3>1. /\ call' = Accepted(call.body, Rejections(call.body))
              /\ ledger' = ledger \cup Welcome(call.body)
              /\ dropped' = dropped \cup (BucketEntries(call.body) \ Welcome(call.body))
            BY <1>3 DEF ServerAccepts, Ingest
        <3>2. call'.body = call.body /\ call'.rejections = Rejections(call.body)
            BY <3>1 DEF Accepted
        <3>3. Rejections(call.body) \subseteq RecordsIn(call.body)
            BY DEF Rejections, RecordsIn, RecordEntries
        <3>4. ASSUME NEW e \in call.body.entries
              PROVE  \/ e \in ledger'
                     \/ e[1] \in Buckets /\ e \in dropped'
                     \/ e[1] \in Rejections(call.body)
            BY <2>3, <3>1 DEF Rejections, RecordEntries, BucketEntries
        <3>. QED  BY <3>2, <3>3, <3>4 DEF ReceiptIsTrue, RecordsIn
    <2>. QED  BY <2>2, <2>4
<1>4. CASE LateArrival
    <2>1. /\ UNCHANGED <<published, call>>
          /\ ledger \subseteq ledger' /\ dropped \subseteq dropped' /\ isolated \subseteq isolated'
        BY <1>4 DEF LateArrival, Ingest, rows, process, server, history
    <2>. QED  BY <2>1, MarksStaySettled, ReceiptStaysTrue
<1>5. ASSUME \/ UNCHANGED vars
             \/ \E r \in Runs : StartRun(r)
             \/ \E i \in Items, c \in Content : Collect(i, c)
             \/ Rebuild
             \/ OwnerChanges
      PROVE  MarkInv'
    <2>1. UNCHANGED <<published, call, ledger, dropped, isolated>>
        BY <1>5 DEF vars, rows, process, server, history, StartRun, Collect,
                    Rebuild, OwnerChanges
    <2>. QED  BY <2>1, MarksStaySettled, ReceiptStaysTrue
<1>6. ASSUME Post \/ DeleteAcknowledged \/ Split \/ Defer \/ EndRun
             \/ RequestFails \/ Crash \/ CrashWhileRevising \/ ServerRefuses
      PROVE  MarkInv'
    <2>1. UNCHANGED <<published, ledger, dropped, isolated>>
        BY <1>6 DEF Post, DeleteAcknowledged, Split, Defer, EndRun, RequestFails,
                    Crash, CrashWhileRevising, ServerRefuses, rows, server, history
    <2>2. call'.status # "accepted"
        <3>1. CASE Post
            <4>1. \E b : call' = Sent(b)
                BY <3>1 DEF Post
            <4>. QED  BY <4>1 DEF Sent
        <3>2. CASE ServerRefuses
            BY <3>2 DEF ServerRefuses, Refused
        <3>3. CASE DeleteAcknowledged \/ Split \/ Defer
            <4>1. call' = NoCall
                BY <3>3 DEF DeleteAcknowledged, Split, Defer
            <4>. QED  BY <4>1 DEF NoCall
        <3>4. CASE EndRun \/ RequestFails \/ Crash \/ CrashWhileRevising
            <4>1. call' = NoCall
                BY <3>4 DEF EndRun, RequestFails, Crash, CrashWhileRevising, RunGone
            <4>. QED  BY <4>1 DEF NoCall
        <3>. QED  BY <1>6, <3>1, <3>2, <3>3, <3>4
    <2>. QED  BY <2>1, <2>2, MarksStaySettled, ReceiptStaysTrue
<1>. QED
    BY <1>1, <1>2, <1>3, <1>4, <1>5, <1>6 DEF Next, RunStep, ServerStep

\* Whatever is lost, repeated, split or interrupted, a record is marked
\* published only at a revision the server stored, and a bucket only at one it
\* stored, passed over or refused alone (MarkedIsSettled).
THEOREM MarksAreSettled == Spec => []MarkedIsSettled
<1>1. Init => MarkInv
    BY DEF Init, MarkInv, MarkedIsSettled, ReceiptIsTrue, NoCall
<1>2. MarkInv => MarkedIsSettled
    BY DEF MarkInv
<1>. QED  BY <1>1, <1>2, MarkStep, TypeCorrect, PTL DEF Spec

-----------------------------------------------------------------------------
(* What a run posts                                                        *)

LEMMA NothingPostedOutsideUpload ==
    ASSUME RunOK, phase # "upload"
    PROVE  Posting = {}
BY DEF RunOK, Posting, ToPost, Elements, NoCall

LEMMA PostingIsUploading ==
    ASSUME RunOK, Posting # {}
    PROVE  phase = "upload"
BY NothingPostedOutsideUpload

LEMMA PostingTyped ==
    ASSUME RunOK
    PROVE  Posting \subseteq Body
BY CallTyped, ElementsTyped DEF Posting, ToPost, RunOK

\* Whatever a refused body is split into is part of it.
LEMMA SplitParts ==
    ASSUME TypeOK, Split
    PROVE  \E left, right \in Body :
              /\ outbox' = (outbox \ {call.body}) \cup {left, right}
              /\ halves' = <<left, right>> \o halves
              /\ left.entries \subseteq call.body.entries
              /\ right.entries \subseteq call.body.entries
              /\ left.entries \cap right.entries = {}
              /\ call.body.entries = left.entries \cup right.entries
              /\ left.run = call.body.run
              /\ left.coverage = call.body.coverage
              /\ right.coverage = FALSE
              /\ call.body.coverage => left.entries = {}
<1>1. call.body \in Body
    BY CallTyped DEF Split, TypeOK, RunOK
<1>2. PICK tail \in Tails(call.body) :
          LET left == [call.body EXCEPT !.entries = @ \ tail]
              right == [call.body EXCEPT !.coverage = FALSE, !.entries = tail]
          IN  /\ outbox' = (outbox \ {call.body}) \cup {left, right}
              /\ halves' = <<left, right>> \o halves
    BY DEF Split
<1>. DEFINE left == [call.body EXCEPT !.entries = @ \ tail]
            right == [call.body EXCEPT !.coverage = FALSE, !.entries = tail]
<1>3. tail \subseteq call.body.entries
    BY <1>2 DEF Tails, RecordEntries, BucketEntries
<1>4. call.body.coverage => tail = call.body.entries
    BY <1>2 DEF Tails
<1>5. left \in Body /\ right \in Body
    BY <1>1, <1>3 DEF Body
<1>6. /\ left.entries = call.body.entries \ tail /\ right.entries = tail
      /\ left.run = call.body.run
      /\ left.coverage = call.body.coverage /\ right.coverage = FALSE
    BY <1>1 DEF Body
<1>7. /\ outbox' = (outbox \ {call.body}) \cup {left, right}
      /\ halves' = <<left, right>> \o halves
    BY <1>2
<1>. QED  BY <1>3, <1>4, <1>5, <1>6, <1>7

\* After any step but Rebuild a run has nothing to post that was not part of
\* what it had to post.
LEMMA PostingShrinks ==
    ASSUME TypeOK, [Next]_vars, ~ Rebuild
    PROVE  \A b \in Posting' : \E p \in Posting : b.entries \subseteq p.entries
<1>. USE DEF TypeOK
<1>1. CASE UNCHANGED vars
    BY <1>1 DEF vars, process, Posting, ToPost, Elements
<1>2. ASSUME NEW r \in Runs, StartRun(r) PROVE Posting' = {}
    BY <1>2, TypeStep, NothingPostedOutsideUpload DEF StartRun, RunOK, Posting, ToPost, Elements, NoCall
<1>3. ASSUME \/ \E i \in Items, c \in Content : Collect(i, c)
             \/ OwnerChanges
             \/ LateArrival
      PROVE  Posting' = Posting
    BY <1>3 DEF Collect, OwnerChanges, LateArrival, process, Posting, ToPost, Elements
<1>4. CASE Post
    <2>1. call = NoCall
        BY <1>4 DEF Post
    <2>2. CASE /\ halves # <<>>
               /\ call' = Sent(Head(halves))
               /\ halves' = Tail(halves)
               /\ UNCHANGED <<carried, queue, budget>>
        <3>1. Head(halves) \in Elements(halves) /\ Elements(halves') \subseteq Elements(halves)
            BY <2>2, ElementsHeadTail DEF RunOK
        <3>2. Posting' \subseteq Posting
            BY <2>2, <3>1 DEF Posting, ToPost, Sent, Elements
        <3>. QED  BY <3>2
    <2>3. CASE /\ halves = <<>>
               /\ \E b \in carried : call' = Sent(b) /\ carried' = carried \ {b}
               /\ budget' = SplitBudget
               /\ UNCHANGED <<queue, halves>>
        <3>1. Posting' \subseteq Posting
            BY <2>3 DEF Posting, ToPost, Sent, Elements
        <3>. QED  BY <3>1
    <2>4. CASE /\ halves = <<>> /\ carried = {} /\ queue # <<>>
               /\ call' = Sent(Head(queue))
               /\ queue' = Tail(queue)
               /\ budget' = SplitBudget
               /\ UNCHANGED <<carried, halves>>
        <3>1. Head(queue) \in Elements(queue) /\ Elements(queue') \subseteq Elements(queue)
            BY <2>4, ElementsHeadTail DEF RunOK
        <3>2. Posting' \subseteq Posting
            BY <2>4, <3>1 DEF Posting, ToPost, Sent, Elements
        <3>. QED  BY <3>2
    <2>. QED  BY <1>4, <2>2, <2>3, <2>4 DEF Post
<1>5. CASE Split
    <2>1. PICK left, right \in Body :
              /\ halves' = <<left, right>> \o halves
              /\ left.entries \subseteq call.body.entries
              /\ right.entries \subseteq call.body.entries
        BY <1>5, SplitParts
    <2>2. Elements(halves') \subseteq {left, right} \cup Elements(halves)
        BY <2>1, ElementsPrepend DEF RunOK
    <2>3. call.body \in Posting
        BY <1>5 DEF Split, Posting
    <2>4. Posting' \subseteq Posting \cup {left, right}
        BY <1>5, <2>2 DEF Split, Posting, ToPost, NoCall, Elements
    <2>. QED  BY <2>1, <2>3, <2>4
<1>6. ASSUME Acknowledge \/ DeleteAcknowledged \/ Defer \/ Isolate
             \/ ServerAccepts \/ ServerRefuses
      PROVE  Posting' \subseteq Posting
    <2>1. UNCHANGED <<carried, queue, halves>>
        BY <1>6 DEF Acknowledge, DeleteAcknowledged, Defer, Isolate,
                    ServerAccepts, ServerRefuses
    <2>2. ToPost' = ToPost
        BY <2>1 DEF ToPost, Elements
    <2>3. CASE Acknowledge \/ DeleteAcknowledged \/ Defer \/ Isolate
        <3>1. call'.status \notin {"sent", "accepted", "refused"}
            BY <2>3 DEF Acknowledge, DeleteAcknowledged, Defer, Isolate,
                        Acknowledged, NoCall
        <3>. QED  BY <2>2, <3>1 DEF Posting
    <2>4. CASE ServerAccepts \/ ServerRefuses
        <3>1. call.status = "sent" /\ call'.body = call.body
            BY <2>4 DEF ServerAccepts, ServerRefuses, Accepted, Refused
        <3>. QED  BY <2>2, <3>1 DEF Posting
    <2>. QED  BY <1>6, <2>3, <2>4
<1>7. ASSUME EndRun \/ RequestFails \/ Crash \/ CrashWhileRevising
      PROVE  Posting' = {}
    <2>1. RunGone
        BY <1>7 DEF EndRun, RequestFails, Crash, CrashWhileRevising
    <2>. QED  BY <2>1 DEF RunGone, Posting, ToPost, Elements, NoCall
<1>. QED
    BY <1>1, <1>2, <1>3, <1>4, <1>5, <1>6, <1>7 DEF Next, RunStep, ServerStep

\* What Rebuild leaves to post: coverage of earlier runs, and outgoing entries.
LEMMA RebuiltPosting ==
    ASSUME TypeOK, Rebuild
    PROVE  \A b \in Posting' : b.entries \subseteq Outgoing
<1>. USE DEF TypeOK
<1>1. run \in Runs /\ halves' = <<>> /\ call' = NoCall
    BY DEF Rebuild, RunOK
<1>2. \A b \in carried' : b.entries = {}
    BY DEF Rebuild, CoverageOnly, RowsOK, Body
<1>3. PICK n \in 1..(Cardinality(Outgoing) + 1) :
          \E place \in Layouts(n) : queue' = Bodies(n, place)
    BY DEF Rebuild
<1>4. \A b \in Elements(queue') : b.entries \subseteq Outgoing
    BY <1>1, <1>3, BodiesTyped
<1>5. Posting' = carried' \cup Elements(queue')
    BY <1>1 DEF Posting, ToPost, Elements, NoCall
<1>. QED  BY <1>2, <1>4, <1>5

LEMMA OutgoingIsAdmitted ==
    ASSUME TypeOK, phase = "collect", NEW e \in Outgoing
    PROVE  IF e[1] \in Buckets
             THEN BindingOf[e[1]] \in ctx.open
             ELSE /\ e[1] \notin ctx.settings.hold
                  /\ e[1] \in ctx.settings.redact => Redact[e[2]] = e[2]
                  /\ e \notin ctx.settings.stale
<1>. USE DEF TypeOK
<1>1. CASE e \in {<<i, Revised(i)>> : i \in (PendingRecords \ StaleRecords) \ ctx.settings.hold}
    <2>1. PICK i \in (PendingRecords \ StaleRecords) \ ctx.settings.hold : e = <<i, Revised(i)>>
        BY <1>1
    <2>2. i \in Records /\ i \notin Buckets
        BY SetsAssumption DEF PendingRecords
    <2>3. ctx.settings \in Settings
        BY DEF RunOK, Config
    <2>4. content[i] \in Content
        BY <2>1, RevisedTyped
    <2>5. CASE i \in ctx.settings.redact
        <3>1. Revised(i) = Redact[content[i]]
            BY <2>1, <2>5 DEF Revised
        <3>2. Redact[Redact[content[i]]] = Redact[content[i]]
            BY <2>4, SetsAssumption
        <3>3. <<i, Revised(i)>> \notin ctx.settings.stale
            BY <2>3, <2>5, SetsAssumption
        <3>. QED  BY <2>1, <2>2, <3>1, <3>2, <3>3
    <2>6. CASE i \notin ctx.settings.redact
        <3>1. Revised(i) = content[i]
            BY <2>6 DEF Revised
        <3>2. <<i, Revised(i)>> \notin ctx.settings.stale
            BY <2>1, <3>1 DEF StaleRecords
        <3>. QED  BY <2>1, <2>2, <2>6, <3>2
    <2>. QED  BY <2>5, <2>6
<1>2. CASE e \in {<<i, content[i]>> :
                    i \in {b \in Buckets : /\ content[b] # None
                                           /\ content[b] # published[b]
                                           /\ BindingOf[b] \in ctx.open}}
    BY <1>2
<1>. QED  BY <1>1, <1>2 DEF Outgoing

\* A run posts nothing its own settings keep home, though the outbox it found
\* was built under other settings (PostsAreAdmitted).
THEOREM PostsAdmitted == Spec => []PostsAreAdmitted
<1>1. Init => PostsAreAdmitted
    BY DEF Init, PostsAreAdmitted, Posting, ToPost, Elements, NoCall
<1>2. TypeOK /\ PostsAreAdmitted /\ [Next]_vars => PostsAreAdmitted'
    <2>. SUFFICES ASSUME TypeOK, PostsAreAdmitted, [Next]_vars, NEW b \in Posting'
                  PROVE  Admitted(b)'
        BY DEF PostsAreAdmitted
    <2>1. TypeOK'
        BY TypeStep
    <2>2. CASE Rebuild
        <3>1. phase = "collect" /\ ctx' = ctx
            BY <2>2 DEF Rebuild
        <3>2. b.entries \subseteq Outgoing
            BY <2>2, RebuiltPosting
        <3>. QED  BY <3>1, <3>2, OutgoingIsAdmitted DEF Admitted
    <2>3. CASE ~ Rebuild
        <3>1. PICK p \in Posting : b.entries \subseteq p.entries
            BY <2>3, PostingShrinks
        <3>2. phase = "upload" /\ phase' = "upload"
            <4>1. phase = "upload"
                BY <3>1, PostingIsUploading DEF TypeOK
            <4>2. phase' # "upload" => Posting' = {}
                BY <2>1 DEF TypeOK, RunOK, Posting, ToPost, Elements, NoCall
            <4>. QED  BY <4>1, <4>2
        <3>3. ctx' = ctx
            BY <3>2 DEF Next, RunStep, ServerStep, StartRun, Rebuild, Post,
               Acknowledge, DeleteAcknowledged, Split, Defer, Isolate, EndRun,
               ServerAccepts, ServerRefuses, Collect, RequestFails, Crash, CrashWhileRevising,
               LateArrival, OwnerChanges, RunGone, vars, process
        <3>4. Admitted(p)
            BY DEF PostsAreAdmitted
        <3>. QED  BY <3>1, <3>3, <3>4 DEF Admitted
    <2>. QED  BY <2>2, <2>3
<1>. QED  BY <1>1, <1>2, TypeCorrect, PTL DEF Spec

-----------------------------------------------------------------------------
(* Coverage                                                                *)

\* The coverage of an answered body is recorded; a body still to be accepted
\* that carries coverage and items can be split; a refused one has an item.
CoverageInv ==
    /\ CoverageIsKept
    /\ call.status \in {"accepted", "acknowledged"} /\ call.body.coverage
          => call.body.run \notin owed
    /\ \A b \in Elements(halves) : b.coverage => b.entries = {}
    /\ call.status \in {"sent", "refused"} /\ call.body.coverage
          => call.body.entries = {} \/ budget > 0
    /\ call.status = "refused" => call.body.entries \cap Poison # {}

\* A step that leaves the outbox and the halves alone, owes no more than before
\* and holds no answer keeps the coverage.
LEMMA CoverageFrame ==
    ASSUME CoverageInv, outbox' = outbox, owed' \subseteq owed,
           \/ UNCHANGED <<halves, call, budget>>
           \/ halves' = <<>> /\ call' = NoCall
    PROVE  CoverageInv'
BY DEF CoverageInv, CoverageIsKept, Elements, NoCall

LEMMA CoverageStep == TypeOK /\ CoverageInv /\ [Next]_vars => CoverageInv'
<1>. SUFFICES ASSUME TypeOK, CoverageInv, [Next]_vars
              PROVE  CoverageInv'
    OBVIOUS
<1>1. ASSUME \/ UNCHANGED vars
             \/ \E r \in Runs : StartRun(r)
             \/ \E i \in Items, c \in Content : Collect(i, c)
             \/ OwnerChanges
             \/ LateArrival
      PROVE  CoverageInv'
    <2>1. UNCHANGED <<outbox, halves, call, budget>> /\ owed' \subseteq owed
        BY <1>1 DEF vars, rows, process, server, history, StartRun, Collect,
                    OwnerChanges, LateArrival, Ingest
    <2>. QED  BY <2>1, CoverageFrame
<1>2. ASSUME EndRun \/ RequestFails \/ Crash \/ CrashWhileRevising
      PROVE  CoverageInv'
    <2>1. outbox' = outbox /\ owed' = owed /\ halves' = <<>> /\ call' = NoCall
        BY <1>2 DEF EndRun, RequestFails, Crash, CrashWhileRevising, RunGone,
                    rows, history
    <2>. QED  BY <2>1, CoverageFrame
<1>3. CASE Rebuild
    <2>1. run \in Runs /\ halves' = <<>> /\ call' = NoCall
          /\ owed' = owed \cup {run} /\ outbox' = carried' \cup Elements(queue')
        BY <1>3 DEF Rebuild, TypeOK, RunOK
    <2>2. PICK n \in 1..(Cardinality(Outgoing) + 1) :
              \E place \in Layouts(n) : queue' = Bodies(n, place)
        BY <1>3 DEF Rebuild
    <2>3. \E b \in Elements(queue') : b.run = run /\ b.coverage
        BY <2>1, <2>2, BodiesTyped DEF TypeOK
    <2>4. ASSUME NEW r \in owed PROVE \E b \in carried' : b.run = r /\ b.coverage
        <3>1. PICK b \in outbox : b.run = r /\ b.coverage
            BY DEF CoverageInv, CoverageIsKept
        <3>2. b \in Body /\ CoverageOnly(b) \in carried'
            BY <1>3, <3>1 DEF Rebuild, TypeOK, RowsOK
        <3>3. CoverageOnly(b).run = r /\ CoverageOnly(b).coverage
            BY <3>1, <3>2 DEF CoverageOnly, Body
        <3>. QED  BY <3>2, <3>3
    <2>5. CoverageIsKept'
        BY <2>1, <2>3, <2>4 DEF CoverageIsKept
    <2>. QED  BY <2>1, <2>5 DEF CoverageInv, Elements, NoCall
<1>4. CASE Post
    <2>1. UNCHANGED <<outbox, owed>>
        BY <1>4 DEF Post, rows, history
    <2>2. PICK b : call' = Sent(b) /\ (b.coverage => b.entries = {} \/ budget' > 0)
        <3>1. CASE halves # <<>> /\ call' = Sent(Head(halves))
            <4>1. Head(halves) \in Elements(halves)
                BY <3>1, ElementsHeadTail DEF TypeOK, RunOK
            <4>. QED  BY <3>1, <4>1 DEF CoverageInv
        <3>2. CASE budget' = SplitBudget /\ \E b : call' = Sent(b)
            BY <3>2, BoundsAssumption
        <3>. QED  BY <1>4, <3>1, <3>2 DEF Post
    <2>3. Elements(halves') \subseteq Elements(halves)
        BY <1>4, ElementsHeadTail DEF Post, TypeOK, RunOK
    <2>4. call'.status = "sent" /\ call'.body = b
        BY <2>2 DEF Sent
    <2>5. CoverageIsKept'
        BY <2>1 DEF CoverageInv, CoverageIsKept
    <2>. QED  BY <2>2, <2>3, <2>4, <2>5 DEF CoverageInv
<1>5. CASE Acknowledge
    <2>1. UNCHANGED <<outbox, owed, halves>> /\ call.status = "accepted"
          /\ call' = Acknowledged(call.body)
        BY <1>5 DEF Acknowledge, history
    <2>2. call'.status = "acknowledged" /\ call'.body = call.body
        BY <2>1 DEF Acknowledged
    <2>3. CoverageIsKept' /\ \A b \in Elements(halves') : b.coverage => b.entries = {}
        BY <2>1 DEF CoverageInv, CoverageIsKept, Elements
    <2>. QED  BY <2>1, <2>2, <2>3 DEF CoverageInv
<1>6. CASE DeleteAcknowledged
    <2>1. UNCHANGED <<owed, halves>> /\ outbox' = outbox \ {call.body} /\ call' = NoCall
          /\ call.status = "acknowledged"
        BY <1>6 DEF DeleteAcknowledged, history
    <2>2. CoverageIsKept'
        BY <2>1 DEF CoverageInv, CoverageIsKept
    <2>. QED  BY <2>1, <2>2 DEF CoverageInv, Elements, NoCall
<1>7. CASE Split
    <2>1. PICK left, right \in Body :
              /\ outbox' = (outbox \ {call.body}) \cup {left, right}
              /\ halves' = <<left, right>> \o halves
              /\ left.run = call.body.run
              /\ left.coverage = call.body.coverage
              /\ right.coverage = FALSE
              /\ call.body.coverage => left.entries = {}
        BY <1>7, SplitParts
    <2>2. owed' = owed /\ call' = NoCall
        BY <1>7 DEF Split, history
    <2>3. CoverageIsKept'
        BY <2>1, <2>2 DEF CoverageInv, CoverageIsKept
    <2>4. Elements(halves') \subseteq {left, right} \cup Elements(halves)
        BY <2>1, ElementsPrepend DEF TypeOK, RunOK
    <2>5. \A b \in Elements(halves') : b.coverage => b.entries = {}
        BY <2>1, <2>4 DEF CoverageInv
    <2>. QED  BY <2>2, <2>3, <2>5 DEF CoverageInv, NoCall
<1>8. CASE Defer
    <2>1. UNCHANGED <<outbox, owed, halves>> /\ call' = NoCall
        BY <1>8 DEF Defer, rows, history
    <2>. QED  BY <2>1 DEF CoverageInv, CoverageIsKept, Elements, NoCall
<1>9. CASE Isolate
    <2>1. UNCHANGED <<owed, halves>> /\ outbox' = outbox \ {call.body} /\ call' = NoCall
        BY <1>9 DEF Isolate
    <2>2. ~ call.body.coverage
        BY <1>9 DEF Isolate, CoverageInv, Splittable
    <2>3. CoverageIsKept'
        BY <2>1, <2>2 DEF CoverageInv, CoverageIsKept
    <2>. QED  BY <2>1, <2>3 DEF CoverageInv, Elements, NoCall
<1>10. CASE ServerAccepts
    <2>1. UNCHANGED <<outbox, halves>> /\ call' = Accepted(call.body, Rejections(call.body))
          /\ owed' = IF call.body.coverage THEN owed \ {call.body.run} ELSE owed
        BY <1>10 DEF ServerAccepts, Ingest, rows
    <2>2. call'.status = "accepted" /\ call'.body = call.body
        BY <2>1 DEF Accepted
    <2>3. CoverageIsKept' /\ \A b \in Elements(halves') : b.coverage => b.entries = {}
        BY <2>1 DEF CoverageInv, CoverageIsKept, Elements
    <2>. QED  BY <2>1, <2>2, <2>3 DEF CoverageInv
<1>11. CASE ServerRefuses
    <2>1. UNCHANGED <<outbox, owed, halves, budget>> /\ call' = Refused(call.body)
          /\ call.status = "sent" /\ call.body.entries \cap Poison # {}
        BY <1>11 DEF ServerRefuses, rows, history
    <2>2. call'.status = "refused" /\ call'.body = call.body
        BY <2>1 DEF Refused
    <2>3. CoverageIsKept' /\ \A b \in Elements(halves') : b.coverage => b.entries = {}
        BY <2>1 DEF CoverageInv, CoverageIsKept, Elements
    <2>. QED  BY <2>1, <2>2, <2>3 DEF CoverageInv
<1>. QED
    BY <1>1, <1>2, <1>3, <1>4, <1>5, <1>6, <1>7, <1>8, <1>9, <1>10, <1>11
       DEF Next, RunStep, ServerStep

\* The coverage a run built stays in the outbox until the server recorded it
\* (CoverageIsKept).
THEOREM CoverageKept == Spec => []CoverageIsKept
<1>1. Init => CoverageInv
    BY DEF Init, CoverageInv, CoverageIsKept, Elements, NoCall
<1>2. CoverageInv => CoverageIsKept
    BY DEF CoverageInv
<1>. QED  BY <1>1, <1>2, CoverageStep, TypeCorrect, PTL DEF Spec

-----------------------------------------------------------------------------
(* Rejections                                                              *)

OneEntryPerItem(b) == \A e, f \in b.entries : e[1] = f[1] => e = f

\* No item is in two bodies, or twice in one, of those a run has to post.
DisjointInv ==
    /\ \A b \in Posting : OneEntryPerItem(b)
    /\ \A b \in carried : b.entries = {}
    /\ PairwiseDisjoint(queue)
    /\ PairwiseDisjoint(halves)
    /\ \A b \in Elements(queue), h \in Elements(halves) : DisjointItems(b, h)
    /\ call.status \in {"sent", "accepted", "refused"} =>
          \A b \in Elements(queue) \cup Elements(halves) : DisjointItems(call.body, b)

LEMMA OutgoingOncePerItem ==
    \A e, f \in Outgoing : e[1] = f[1] => e = f
BY SetsAssumption DEF Outgoing, PendingRecords

LEMMA BodiesDisjoint ==
    ASSUME RowsOK, NEW n \in 1..(Cardinality(Outgoing) + 1), NEW place
    PROVE  PairwiseDisjoint(Bodies(n, place))
<1>. DEFINE q == Bodies(n, place)
<1>1. DOMAIN q = 1..n
    BY DEF Bodies
<1>2. \A k \in 1..n : q[k].entries = {e \in Outgoing : place[e] = k}
    BY DEF Bodies
<1>3. ASSUME NEW k \in 1..n, NEW l \in 1..n, k # l,
             NEW e \in q[k].entries, NEW f \in q[l].entries
      PROVE  e[1] # f[1]
    BY <1>2, <1>3, OutgoingOncePerItem
<1>. QED  BY <1>1, <1>3 DEF PairwiseDisjoint, DisjointItems

\* The queues of a run that is not uploading are empty.
LEMMA DisjointWhenIdle ==
    ASSUME carried = {}, queue = <<>>, halves = <<>>, call = NoCall
    PROVE  DisjointInv
BY DEF DisjointInv, Posting, ToPost, Elements, PairwiseDisjoint, NoCall

LEMMA DisjointStep == TypeOK /\ DisjointInv /\ [Next]_vars => DisjointInv'
<1>. SUFFICES ASSUME TypeOK, DisjointInv, [Next]_vars
              PROVE  DisjointInv'
    OBVIOUS
<1>1. ASSUME \/ UNCHANGED vars
             \/ \E i \in Items, c \in Content : Collect(i, c)
             \/ OwnerChanges
             \/ LateArrival
             \/ \E r \in Runs : StartRun(r)
      PROVE  DisjointInv'
    <2>1. UNCHANGED <<carried, queue, halves, call>>
        BY <1>1 DEF vars, process, Collect, OwnerChanges, LateArrival, StartRun
    <2>. QED  BY <2>1 DEF DisjointInv, Posting, ToPost, Elements, PairwiseDisjoint
<1>2. ASSUME EndRun \/ RequestFails \/ Crash \/ CrashWhileRevising
      PROVE  DisjointInv'
    <2>1. carried' = {} /\ queue' = <<>> /\ halves' = <<>> /\ call' = NoCall
        BY <1>2 DEF EndRun, RequestFails, Crash, CrashWhileRevising, RunGone
    <2>. QED  BY <2>1 DEF DisjointInv, Posting, ToPost, Elements, PairwiseDisjoint, NoCall
<1>3. CASE Rebuild
    <2>1. halves' = <<>> /\ call' = NoCall
        BY <1>3 DEF Rebuild, TypeOK, RunOK
    <2>2. PairwiseDisjoint(queue')
        <3>1. PICK n \in 1..(Cardinality(Outgoing) + 1) :
                  \E place \in Layouts(n) : queue' = Bodies(n, place)
            BY <1>3 DEF Rebuild
        <3>. QED  BY <3>1, BodiesDisjoint DEF TypeOK
    <2>3. \A b \in Posting' : OneEntryPerItem(b)
        BY <1>3, RebuiltPosting, OutgoingOncePerItem DEF OneEntryPerItem
    <2>4. \A b \in carried' : b.entries = {}
        BY <1>3 DEF Rebuild, CoverageOnly, TypeOK, RowsOK, Body
    <2>. QED  BY <2>1, <2>2, <2>3, <2>4
              DEF DisjointInv, Elements, PairwiseDisjoint, NoCall
<1>4. ASSUME ~ Rebuild PROVE \A b \in Posting' : OneEntryPerItem(b)
    BY <1>4, PostingShrinks DEF DisjointInv, OneEntryPerItem
<1>5. CASE Post
    <2>1. ~ Rebuild
        BY <1>5 DEF Post, Rebuild
    <2>2. CASE /\ halves # <<>>
               /\ call' = Sent(Head(halves))
               /\ halves' = Tail(halves)
               /\ UNCHANGED <<carried, queue, budget>>
        <3>1. /\ PairwiseDisjoint(halves')
              /\ \A b \in Elements(halves') : DisjointItems(Head(halves), b)
            BY <2>2, TailDisjoint DEF TypeOK, RunOK, DisjointInv
        <3>2. Head(halves) \in Elements(halves) /\ Elements(halves') \subseteq Elements(halves)
            BY <2>2, ElementsHeadTail DEF TypeOK, RunOK
        <3>3. \A b \in Elements(queue) : DisjointItems(Head(halves), b)
            BY <3>2 DEF DisjointInv, DisjointItems
        <3>4. call'.status = "sent" /\ call'.body = Head(halves)
            BY <2>2 DEF Sent
        <3>. QED  BY <2>1, <2>2, <1>4, <3>1, <3>2, <3>3, <3>4 DEF DisjointInv, Elements
    <2>3. CASE /\ halves = <<>>
               /\ \E b \in carried : call' = Sent(b) /\ carried' = carried \ {b}
               /\ budget' = SplitBudget
               /\ UNCHANGED <<queue, halves>>
        <3>1. PICK b \in carried : call' = Sent(b) /\ carried' = carried \ {b}
            BY <2>3
        <3>2. call'.status = "sent" /\ call'.body = b /\ b.entries = {}
            BY <3>1 DEF Sent, DisjointInv
        <3>. QED  BY <2>1, <2>3, <1>4, <3>1, <3>2 DEF DisjointInv, DisjointItems, Elements
    <2>4. CASE /\ halves = <<>> /\ carried = {} /\ queue # <<>>
               /\ call' = Sent(Head(queue))
               /\ queue' = Tail(queue)
               /\ budget' = SplitBudget
               /\ UNCHANGED <<carried, halves>>
        <3>1. /\ PairwiseDisjoint(queue')
              /\ \A b \in Elements(queue') : DisjointItems(Head(queue), b)
            BY <2>4, TailDisjoint DEF TypeOK, RunOK, DisjointInv
        <3>2. Elements(halves') = {} /\ Elements(halves) = {}
            BY <2>4 DEF Elements
        <3>3. call'.status = "sent" /\ call'.body = Head(queue)
            BY <2>4 DEF Sent
        <3>. QED  BY <2>1, <2>4, <1>4, <3>1, <3>2, <3>3 DEF DisjointInv
    <2>. QED  BY <1>5, <2>2, <2>3, <2>4 DEF Post
<1>6. CASE Split
    <2>1. ~ Rebuild
        BY <1>6, CallNeedsUpload DEF Split, Rebuild, TypeOK
    <2>2. PICK left, right \in Body :
              /\ halves' = <<left, right>> \o halves
              /\ left.entries \subseteq call.body.entries
              /\ right.entries \subseteq call.body.entries
              /\ left.entries \cap right.entries = {}
        BY <1>6, SplitParts
    <2>3. OneEntryPerItem(call.body)
        BY <1>6 DEF Split, DisjointInv, Posting
    <2>4. DisjointItems(left, right)
        BY <2>2, <2>3 DEF OneEntryPerItem, DisjointItems
    <2>5. \A b \in Elements(queue) \cup Elements(halves) :
              DisjointItems(left, b) /\ DisjointItems(right, b)
        BY <1>6, <2>2 DEF Split, DisjointInv, DisjointItems
    <2>6. PairwiseDisjoint(halves')
        BY <2>2, <2>4, <2>5, PrependDisjoint DEF TypeOK, RunOK, DisjointInv
    <2>7. Elements(halves') \subseteq {left, right} \cup Elements(halves)
        BY <2>2, ElementsPrepend DEF TypeOK, RunOK
    <2>8. \A b \in Elements(queue), h \in Elements(halves') : DisjointItems(b, h)
        BY <2>5, <2>7 DEF DisjointInv, DisjointItems
    <2>9. UNCHANGED <<carried, queue>> /\ call' = NoCall
        BY <1>6 DEF Split
    <2>. QED  BY <2>1, <1>4, <2>6, <2>8, <2>9
              DEF DisjointInv, Elements, PairwiseDisjoint, NoCall
<1>7. ASSUME Acknowledge \/ DeleteAcknowledged \/ Defer \/ Isolate
             \/ ServerAccepts \/ ServerRefuses
      PROVE  DisjointInv'
    <2>1. UNCHANGED <<carried, queue, halves>> /\ call.status # "none"
        BY <1>7 DEF Acknowledge, DeleteAcknowledged, Defer, Isolate,
                    ServerAccepts, ServerRefuses
    <2>2. ~ Rebuild
        BY <2>1, CallNeedsUpload DEF Rebuild, TypeOK
    <2>3. \/ call'.status \notin {"sent", "accepted", "refused"}
          \/ call.status = "sent" /\ call'.body = call.body
        <3>1. CASE Acknowledge \/ DeleteAcknowledged \/ Defer \/ Isolate
            BY <3>1 DEF Acknowledge, DeleteAcknowledged, Defer, Isolate,
                        Acknowledged, NoCall
        <3>2. CASE ServerAccepts \/ ServerRefuses
            BY <3>2 DEF ServerAccepts, ServerRefuses, Accepted, Refused
        <3>. QED  BY <1>7, <3>1, <3>2
    <2>. QED  BY <2>1, <2>2, <2>3, <1>4 DEF DisjointInv, Elements, PairwiseDisjoint
<1>. QED
    BY <1>1, <1>2, <1>3, <1>5, <1>6, <1>7 DEF Next, RunStep, ServerStep

\* What a run rejects is in none of the bodies it posts afterwards.
LEMMA RejectionStep ==
    TypeOK /\ ReceiptIsTrue /\ DisjointInv /\ RejectedIsNeverRetried /\ [Next]_vars
        => RejectedIsNeverRetried'
<1>. SUFFICES ASSUME TypeOK, ReceiptIsTrue, DisjointInv, RejectedIsNeverRetried,
                     [Next]_vars, NEW b \in Posting'
              PROVE  RecordsIn(b) \cap rejected' = {}
    BY DEF RejectedIsNeverRetried, RecordsIn
<1>1. CASE Rebuild
    <2>1. b.entries \subseteq Outgoing /\ rejected' = rejected
        BY <1>1, RebuiltPosting DEF Rebuild
    <2>2. \A e \in Outgoing : e[1] \in Records => e[1] \notin rejected
        BY SetsAssumption DEF Outgoing, PendingRecords
    <2>. QED  BY <2>1, <2>2 DEF RecordsIn
<1>2. CASE ~ Rebuild /\ rejected' = rejected
    <2>1. PICK p \in Posting : b.entries \subseteq p.entries
        BY <1>2, PostingShrinks
    <2>. QED  BY <1>2, <2>1 DEF RejectedIsNeverRetried, RecordsIn
<1>3. ASSUME Acknowledge \/ Isolate PROVE RecordsIn(b) \cap rejected' = {}
    <2>1. rejected' \subseteq rejected \cup RecordsIn(call.body)
        BY <1>3 DEF Acknowledge, Isolate, ReceiptIsTrue
    <2>2. b \in ToPost
        <3>1. UNCHANGED <<carried, queue, halves>>
              /\ call'.status \notin {"sent", "accepted", "refused"}
            BY <1>3 DEF Acknowledge, Isolate, Acknowledged, NoCall
        <3>. QED  BY <3>1 DEF Posting, ToPost, Elements
    <2>3. b.entries = {} \/ DisjointItems(call.body, b)
        BY <1>3, <2>2 DEF Acknowledge, Isolate, DisjointInv, ToPost
    <2>4. RecordsIn(b) \cap RecordsIn(call.body) = {}
        BY <2>3 DEF DisjointItems, RecordsIn
    <2>5. RecordsIn(b) \cap rejected = {}
        BY <2>2 DEF RejectedIsNeverRetried, Posting
    <2>. QED  BY <2>1, <2>4, <2>5
<1>4. rejected' = rejected \/ Acknowledge \/ Isolate
    BY DEF Next, RunStep, ServerStep, StartRun, Rebuild, Post, Acknowledge,
           DeleteAcknowledged, Split, Defer, Isolate, EndRun, ServerAccepts,
           ServerRefuses, Collect, RequestFails, Crash, CrashWhileRevising,
           LateArrival,
           OwnerChanges, vars, rows
<1>. QED  BY <1>1, <1>2, <1>3, <1>4

\* A record the server rejected or refused is in no body still to be posted
\* (RejectedIsNeverRetried).
THEOREM RejectedNeverRetried == Spec => []RejectedIsNeverRetried
<1>1. Init => DisjointInv /\ RejectedIsNeverRetried
    <2>1. Init => DisjointInv
        BY DisjointWhenIdle DEF Init
    <2>2. Init => RejectedIsNeverRetried
        BY DEF Init, RejectedIsNeverRetried
    <2>. QED  BY <2>1, <2>2
<1>2. Init => MarkInv
    BY DEF Init, MarkInv, MarkedIsSettled, ReceiptIsTrue, NoCall
<1>3. MarkInv => ReceiptIsTrue
    BY DEF MarkInv
<1>. QED
    BY <1>1, <1>2, <1>3, MarkStep, DisjointStep, RejectionStep, TypeCorrect, PTL DEF Spec

-----------------------------------------------------------------------------
(* What a run still owes                                                   *)

\* Marks of a run only take items off what is outgoing.
LEMMA OutgoingShrinks ==
    ASSUME UNCHANGED <<content, superseded, ctx>>, rejected \subseteq rejected',
           \A i \in Items : published'[i] = published[i] \/ published'[i] = content[i]
    PROVE  Outgoing' \subseteq Outgoing
<1>1. PendingRecords' \subseteq PendingRecords
    BY DEF PendingRecords, Items
<1>2. ASSUME NEW i \in PendingRecords'
      PROVE  /\ i \in StaleRecords <=> i \in StaleRecords'
             /\ Revised(i)' = Revised(i)
    BY <1>1, <1>2 DEF StaleRecords, Revised
<1>3. ASSUME NEW e \in Outgoing'
      PROVE  e \in Outgoing
    <2>1. CASE e \in {<<i, Revised(i)>> :
                        i \in (PendingRecords \ StaleRecords) \ ctx.settings.hold}'
        <3>1. PICK i \in ((PendingRecords \ StaleRecords) \ ctx.settings.hold)' :
                  e = <<i, Revised(i)'>>
            BY <2>1
        <3>2. i \in (PendingRecords \ StaleRecords) \ ctx.settings.hold
              /\ e = <<i, Revised(i)>>
            BY <3>1, <1>1, <1>2
        <3>. QED  BY <3>2 DEF Outgoing
    <2>2. CASE e \in {<<i, content[i]>> :
                        i \in {b \in Buckets : /\ content[b] # None
                                               /\ content[b] # published[b]
                                               /\ BindingOf[b] \in ctx.open}}'
        BY <2>2 DEF Outgoing, Items
    <2>. QED  BY <1>3, <2>1, <2>2 DEF Outgoing
<1>. QED  BY <1>3

\* Revising the pending rows adds nothing to what is outgoing.
LEMMA RebuildKeepsOutgoing ==
    ASSUME TypeOK, Rebuild
    PROVE  Outgoing' \subseteq Outgoing
<1>. USE DEF TypeOK
<1>1. /\ UNCHANGED <<published, rejected, ctx>>
      /\ content' = [i \in Items |-> IF i \in PendingRecords THEN Revised(i) ELSE content[i]]
      /\ superseded' = superseded \cup StaleRecords
    BY DEF Rebuild, Revise, StaleRecords
<1>2. ASSUME NEW i \in PendingRecords'
      PROVE  /\ i \in PendingRecords \ StaleRecords
             /\ content'[i] = Revised(i) /\ Revised(i)' = Revised(i)
    <2>1. i \in Records /\ i \in Items /\ i \notin superseded \cup StaleRecords
        BY <1>1 DEF PendingRecords, Items
    <2>2. i \in PendingRecords
        <3>1. CASE i \notin PendingRecords
            <4>1. content'[i] = content[i]
                BY <1>1, <2>1, <3>1
            <4>. QED  BY <1>1, <3>1, <4>1 DEF PendingRecords
        <3>. QED  BY <3>1
    <2>3. content'[i] = Revised(i)
        BY <1>1, <2>1, <2>2
    <2>4. content[i] \in Content /\ Redact[Redact[content[i]]] = Redact[content[i]]
        BY <2>2, RevisedTyped, SetsAssumption
    <2>5. CASE i \in ctx.settings.redact
        <3>1. ctx.settings \in Settings
            BY DEF Rebuild, RunOK, Config
        <3>2. content'[i] = Redact[content[i]]
            BY <2>1, <2>2, <2>3, <2>5 DEF Revised
        <3>3. i \in (PendingRecords' \ StaleRecords') \cap ctx.settings.redact
            BY <1>1, <2>5, <3>1, SetsAssumption DEF StaleRecords
        <3>4. Revised(i)' = Redact[content'[i]]
            BY <1>1, <3>3 DEF Revised
        <3>. QED  BY <2>1, <2>2, <2>3, <2>4, <3>2, <3>4
    <2>6. CASE i \notin ctx.settings.redact
        <3>1. Revised(i)' = content'[i]
            BY <1>1, <2>6 DEF Revised
        <3>. QED  BY <2>1, <2>2, <2>3, <3>1
    <2>. QED  BY <2>5, <2>6
<1>3. \A b \in Buckets : b \in Items /\ b \notin PendingRecords
    BY SetsAssumption DEF PendingRecords, Items
<1>4. ASSUME NEW e \in Outgoing'
      PROVE  e \in Outgoing
    <2>1. CASE e \in {<<i, Revised(i)>> :
                        i \in (PendingRecords \ StaleRecords) \ ctx.settings.hold}'
        <3>1. PICK i \in ((PendingRecords \ StaleRecords) \ ctx.settings.hold)' :
                  e = <<i, Revised(i)'>>
            BY <2>1
        <3>2. i \in (PendingRecords \ StaleRecords) \ ctx.settings.hold
              /\ e = <<i, Revised(i)>>
            BY <3>1, <1>1, <1>2
        <3>. QED  BY <3>2 DEF Outgoing
    <2>2. CASE e \in {<<i, content[i]>> :
                        i \in {b \in Buckets : /\ content[b] # None
                                               /\ content[b] # published[b]
                                               /\ BindingOf[b] \in ctx.open}}'
        BY <2>2, <1>1, <1>3 DEF Outgoing
    <2>. QED  BY <1>4, <2>1, <2>2 DEF Outgoing
<1>. QED  BY <1>4

\* Every outgoing entry is in one of the bodies that lay them out.
LEMMA BodiesCover ==
    ASSUME NEW n \in Nat \ {0}, NEW place \in Layouts(n), NEW e \in Outgoing
    PROVE  \E b \in Elements(Bodies(n, place)) : e \in b.entries
<1>1. place[e] \in 1..n
    BY DEF Layouts
<1>2. DOMAIN Bodies(n, place) = 1..n /\ e \in Bodies(n, place)[place[e]].entries
    BY <1>1 DEF Bodies
<1>. QED  BY <1>1, <1>2 DEF Elements

\* While a run uploads its bodies hold the rows as they are, an acknowledged
\* body owes nothing, and what is outgoing is in the outbox.
OwingInv ==
    phase = "upload" =>
        /\ NothingFallsOut
        /\ \A b \in Posting : \A e \in b.entries : e[2] = content[e[1]]
        /\ call.status = "acknowledged" => call.body.entries \cap Outgoing = {}

\* A step that leaves rows and outbox alone and posts what was to be posted.
LEMMA OwingFrame ==
    ASSUME TypeOK, OwingInv, [Next]_vars, ~ Rebuild, phase = "upload",
           UNCHANGED <<content, published, rejected, superseded, outbox, ctx>>,
           call'.status = "acknowledged" => call' = call
    PROVE  OwingInv'
<1>1. Outgoing' = Outgoing
    BY DEF Outgoing, PendingRecords, StaleRecords, Revised
<1>2. \A b \in Posting' : \A e \in b.entries : e[2] = content[e[1]]
    BY PostingShrinks DEF OwingInv
<1>3. NothingFallsOut'
    BY <1>1 DEF OwingInv, NothingFallsOut
<1>. QED  BY <1>1, <1>2, <1>3 DEF OwingInv

\* A mark of Acknowledge or Isolate is the revision the item has.
LEMMA MarksAreCurrent ==
    ASSUME TypeOK, OwingInv, Acknowledge \/ Isolate
    PROVE  /\ phase = "upload" /\ call.body \in Body
           /\ UNCHANGED <<content, superseded, ctx>> /\ rejected \subseteq rejected'
           /\ \A i \in Items : published'[i] = published[i] \/ published'[i] = content[i]
           /\ \A e \in call.body.entries : \/ e[1] \in rejected'
                                           \/ published'[e[1]] = content[e[1]]
<1>1. phase = "upload" /\ call.body \in Body /\ call.body \in Posting
    BY CallTyped, CallNeedsUpload DEF TypeOK, RunOK, Acknowledge, Isolate, Posting
<1>2. \A e \in call.body.entries : e \in Entry /\ e[1] \in Items /\ e[2] = content[e[1]]
    BY <1>1 DEF OwingInv, Body, Entry
<1>3. UNCHANGED <<content, superseded, ctx>> /\ rejected \subseteq rejected'
    BY DEF Acknowledge, Isolate
<1>4. ASSUME NEW i \in Items, published'[i] # published[i]
      PROVE  published'[i] = content[i]
    <2>1. /\ \E e \in call.body.entries : e[1] = i
          /\ published'[i] = (CHOOSE e \in call.body.entries : e[1] = i)[2]
        BY <1>4 DEF Acknowledge, Isolate
    <2>. QED  BY <2>1, <1>2
<1>5. ASSUME NEW e \in call.body.entries, e[1] \notin rejected'
      PROVE  published'[e[1]] = content[e[1]]
    <2>1. (CHOOSE f \in call.body.entries : f[1] = e[1])[2] = content[e[1]]
        BY <1>2
    <2>2. CASE Acknowledge
        BY <2>1, <2>2, <1>2, <1>5 DEF Acknowledge
    <2>3. CASE Isolate
        <3>1. e[1] \in Buckets
            BY <2>3, <1>2, <1>5 DEF Isolate, RecordsIn, Items
        <3>. QED  BY <2>1, <2>3, <3>1, <1>2 DEF Isolate
    <2>. QED  BY <2>2, <2>3
<1>. QED  BY <1>1, <1>3, <1>4, <1>5

\* So the entries of the body it settles are not outgoing any more.
LEMMA SettledOwesNothing ==
    ASSUME TypeOK, OwingInv, Acknowledge \/ Isolate
    PROVE  Outgoing' \subseteq Outgoing \ call.body.entries
<1>1. /\ UNCHANGED <<content, superseded, ctx>> /\ rejected \subseteq rejected'
      /\ \A i \in Items : published'[i] = published[i] \/ published'[i] = content[i]
    BY MarksAreCurrent
<1>2. Outgoing' \subseteq Outgoing
    BY <1>1, OutgoingShrinks
<1>3. ASSUME NEW e \in call.body.entries PROVE e \notin Outgoing'
    <2>1. e[1] \in rejected' \/ published'[e[1]] = content'[e[1]]
        BY <1>1, MarksAreCurrent
    <2>2. rejected' \subseteq Records
        BY <1>1, TypeStep DEF Acknowledge, Isolate, TypeOK, RowsOK, RunOK, Next, RunStep
    <2>3. \A f \in Outgoing' : \/ f[1] \in PendingRecords'
                               \/ f[1] \in Buckets /\ content'[f[1]] # published'[f[1]]
        BY DEF Outgoing
    <2>. QED  BY <2>1, <2>2, <2>3, SetsAssumption DEF PendingRecords
<1>. QED  BY <1>2, <1>3

LEMMA OwingStep == TypeOK /\ OwingInv /\ [Next]_vars => OwingInv'
<1>. SUFFICES ASSUME TypeOK, OwingInv, [Next]_vars
              PROVE  OwingInv'
    OBVIOUS
<1>. USE DEF TypeOK
<1>1. CASE Rebuild
    <2>1. call' = NoCall /\ outbox' = carried' \cup Elements(queue')
          /\ content' = [i \in Items |-> IF i \in PendingRecords THEN Revised(i) ELSE content[i]]
        BY <1>1 DEF Rebuild, Revise, RunOK
    <2>2. PICK n \in 1..(Cardinality(Outgoing) + 1) :
              \E place \in Layouts(n) : queue' = Bodies(n, place)
        BY <1>1 DEF Rebuild
    <2>3. n \in Nat \ {0}
        BY OutgoingTyped
    <2>4. Outgoing' \subseteq Outgoing
        BY <1>1, RebuildKeepsOutgoing
    <2>5. \A e \in Outgoing : \E b \in Elements(queue') : e \in b.entries
        BY <2>2, <2>3, BodiesCover
    <2>6. NothingFallsOut'
        BY <2>1, <2>4, <2>5 DEF NothingFallsOut
    <2>7. \A e \in Outgoing : e[2] = content'[e[1]]
        BY <2>1, SetsAssumption DEF Outgoing, PendingRecords, Items
    <2>8. \A b \in Posting' : \A e \in b.entries : e[2] = content'[e[1]]
        BY <1>1, <2>7, RebuiltPosting
    <2>. QED  BY <2>1, <2>6, <2>8 DEF OwingInv, NoCall
<1>2. ASSUME Post \/ Defer \/ ServerAccepts \/ ServerRefuses PROVE OwingInv'
    <2>1. phase = "upload" /\ ~ Rebuild
        BY <1>2, CallNeedsUpload DEF Post, Defer, ServerAccepts, ServerRefuses, Rebuild
    <2>2. UNCHANGED <<content, published, rejected, superseded, outbox, ctx>>
        BY <1>2 DEF Post, Defer, ServerAccepts, ServerRefuses, rows
    <2>3. call'.status # "acknowledged"
        <3>1. CASE Post
            <4>1. \E b : call' = Sent(b)
                BY <3>1 DEF Post
            <4>. QED  BY <4>1 DEF Sent
        <3>2. CASE Defer \/ ServerAccepts \/ ServerRefuses
            BY <3>2 DEF Defer, ServerAccepts, ServerRefuses, NoCall, Accepted, Refused
        <3>. QED  BY <1>2, <3>1, <3>2
    <2>. QED  BY <2>1, <2>2, <2>3, OwingFrame
<1>3. ASSUME UNCHANGED vars \/ LateArrival \/ OwnerChanges, phase' = "upload"
      PROVE  OwingInv'
    <2>1. /\ phase = "upload" /\ ~ Rebuild /\ call' = call
          /\ UNCHANGED <<content, published, rejected, superseded, outbox, ctx>>
        BY <1>3 DEF vars, rows, process, LateArrival, OwnerChanges, Rebuild
    <2>. QED  BY <2>1, OwingFrame
<1>4. CASE Acknowledge
    <2>1. phase = "upload" /\ outbox' = outbox /\ call' = Acknowledged(call.body)
          /\ content' = content
        BY <1>4, MarksAreCurrent DEF Acknowledge
    <2>2. call'.body = call.body
        BY <2>1 DEF Acknowledged
    <2>3. NothingFallsOut'
        BY <1>4, <2>1, SettledOwesNothing DEF OwingInv, NothingFallsOut
    <2>4. ~ Rebuild
        BY <2>1 DEF Rebuild
    <2>5. \A b \in Posting' : \A e \in b.entries : e[2] = content[e[1]]
        BY <2>1, <2>4, PostingShrinks DEF OwingInv
    <2>. QED  BY <1>4, <2>1, <2>2, <2>3, <2>5, SettledOwesNothing DEF OwingInv
<1>5. CASE Isolate
    <2>1. phase = "upload" /\ outbox' = outbox \ {call.body} /\ call' = NoCall
          /\ content' = content
        BY <1>5, MarksAreCurrent DEF Isolate
    <2>2. NothingFallsOut'
        BY <1>5, <2>1, SettledOwesNothing DEF OwingInv, NothingFallsOut
    <2>3. ~ Rebuild
        BY <2>1 DEF Rebuild
    <2>4. \A b \in Posting' : \A e \in b.entries : e[2] = content[e[1]]
        BY <2>1, <2>3, PostingShrinks DEF OwingInv
    <2>. QED  BY <2>1, <2>2, <2>4 DEF OwingInv, NoCall
<1>6. CASE DeleteAcknowledged
    <2>1. /\ phase = "upload" /\ outbox' = outbox \ {call.body} /\ call' = NoCall
          /\ UNCHANGED <<content, published, rejected, superseded, ctx>>
          /\ call.status = "acknowledged"
        BY <1>6, CallNeedsUpload DEF DeleteAcknowledged
    <2>2. Outgoing' = Outgoing
        BY <2>1 DEF Outgoing, PendingRecords, StaleRecords, Revised
    <2>3. NothingFallsOut'
        BY <2>1, <2>2 DEF OwingInv, NothingFallsOut
    <2>4. \A b \in Posting' : \A e \in b.entries : e[2] = content[e[1]]
        <3>1. ~ Rebuild
            BY <2>1 DEF Rebuild
        <3>. QED  BY <3>1, PostingShrinks, <2>1 DEF OwingInv
    <2>. QED  BY <2>1, <2>3, <2>4 DEF OwingInv, NoCall
<1>7. CASE Split
    <2>1. /\ phase = "upload" /\ call' = NoCall
          /\ UNCHANGED <<content, published, rejected, superseded, ctx>>
        BY <1>7, CallNeedsUpload DEF Split
    <2>2. PICK left, right \in Body :
              /\ outbox' = (outbox \ {call.body}) \cup {left, right}
              /\ call.body.entries = left.entries \cup right.entries
        BY <1>7, SplitParts
    <2>3. Outgoing' = Outgoing
        BY <2>1 DEF Outgoing, PendingRecords, StaleRecords, Revised
    <2>4. NothingFallsOut'
        BY <2>1, <2>2, <2>3 DEF OwingInv, NothingFallsOut
    <2>5. \A b \in Posting' : \A e \in b.entries : e[2] = content[e[1]]
        <3>1. ~ Rebuild
            BY <2>1 DEF Rebuild
        <3>. QED  BY <3>1, PostingShrinks, <2>1 DEF OwingInv
    <2>. QED  BY <2>1, <2>4, <2>5 DEF OwingInv, NoCall
<1>8. ASSUME \/ \E r \in Runs : StartRun(r)
             \/ \E i \in Items, c \in Content : Collect(i, c)
             \/ EndRun \/ RequestFails \/ Crash \/ CrashWhileRevising
      PROVE  phase' # "upload"
    BY <1>8 DEF StartRun, Collect, EndRun, RequestFails, Crash,
                CrashWhileRevising, RunGone, process
<1>9. CASE phase' # "upload"
    BY <1>9 DEF OwingInv
<1>. QED
    BY <1>1, <1>2, <1>3, <1>4, <1>5, <1>6, <1>7, <1>8, <1>9
       DEF Next, RunStep, ServerStep

\* While a run uploads, every entry it owes the server is in a body of the
\* outbox (NothingFallsOut).
THEOREM NothingIsLost == Spec => []NothingFallsOut
<1>1. Init => OwingInv
    BY DEF Init, OwingInv
<1>2. OwingInv => NothingFallsOut
    BY DEF OwingInv, NothingFallsOut
<1>. QED  BY <1>1, <1>2, OwingStep, TypeCorrect, PTL DEF Spec

-----------------------------------------------------------------------------
(* The implementation: initial states are initial states of Publication    *)
(* and steps are steps of Publication or leave the mapped state alone.     *)

(* What is stored, waived or on its way was held by the companion before.  *)

HeldInv ==
    /\ \A i \in Items : content[i] # None => <<i, content[i]>> \in observed
    /\ \A b \in Posting \cup late : b.entries \subseteq observed
    /\ ledger \cup dropped \cup isolated \subseteq observed

LEMMA OutgoingWasHeld ==
    ASSUME HeldInv, Rebuild
    PROVE  Outgoing \subseteq observed'
<1>. SUFFICES ASSUME NEW e \in Outgoing PROVE e \in observed'
    OBVIOUS
<1>1. observed' = observed \cup {<<i, Revised(i)>> : i \in PendingRecords \cap ctx.settings.redact}
    BY DEF Rebuild, Revise
<1>2. CASE e \in {<<i, Revised(i)>> : i \in (PendingRecords \ StaleRecords) \ ctx.settings.hold}
    <2>1. PICK i \in PendingRecords \ StaleRecords : e = <<i, Revised(i)>>
        BY <1>2
    <2>2. CASE i \in ctx.settings.redact
        BY <1>1, <2>1, <2>2
    <2>3. CASE i \notin ctx.settings.redact
        <3>1. e = <<i, content[i]>> /\ i \in Items /\ content[i] # None
            BY <2>1, <2>3 DEF Revised, PendingRecords, Items
        <3>. QED  BY <1>1, <3>1 DEF HeldInv
    <2>. QED  BY <2>2, <2>3
<1>3. CASE e \in {<<i, content[i]>> :
                    i \in {b \in Buckets : /\ content[b] # None
                                           /\ content[b] # published[b]
                                           /\ BindingOf[b] \in ctx.open}}
    BY <1>1, <1>3 DEF HeldInv, Items
<1>. QED  BY <1>2, <1>3 DEF Outgoing

LEMMA RevisedWasHeld ==
    ASSUME HeldInv, NEW done \in SUBSET PendingRecords, Revise(done)
    PROVE  \A i \in Items : content'[i] # None => <<i, content'[i]>> \in observed'
<1>. SUFFICES ASSUME NEW i \in Items, content'[i] # None
              PROVE  <<i, content'[i]>> \in observed'
    OBVIOUS
<1>1. content'[i] = IF i \in done THEN Revised(i) ELSE content[i]
    BY DEF Revise
<1>2. CASE i \in done \cap ctx.settings.redact
    BY <1>1, <1>2 DEF Revise
<1>3. CASE i \notin done \cap ctx.settings.redact
    <2>1. content'[i] = content[i]
        BY <1>1, <1>3 DEF Revised
    <2>. QED  BY <2>1 DEF HeldInv, Revise
<1>. QED  BY <1>2, <1>3

LEMMA HeldStep == TypeOK /\ HeldInv /\ [Next]_vars => HeldInv'
<1>. SUFFICES ASSUME TypeOK, HeldInv, [Next]_vars
              PROVE  HeldInv'
    OBVIOUS
<1>1. CASE Rebuild
    <2>1. observed \subseteq observed' /\ UNCHANGED <<late, ledger, dropped, isolated>>
        BY <1>1 DEF Rebuild, Revise, server
    <2>2. \A b \in Posting' : b.entries \subseteq observed'
        BY <1>1, RebuiltPosting, OutgoingWasHeld
    <2>3. \A i \in Items : content'[i] # None => <<i, content'[i]>> \in observed'
        BY <1>1, RevisedWasHeld DEF Rebuild
    <2>. QED  BY <2>1, <2>2, <2>3 DEF HeldInv
<1>2. ASSUME ~ Rebuild
      PROVE  \A b \in Posting' : b.entries \subseteq observed
    BY <1>2, PostingShrinks DEF HeldInv
<1>3. ASSUME NEW i \in Items, NEW c \in Content, Collect(i, c)
      PROVE  HeldInv'
    <2>1. observed \subseteq observed' /\ <<i, c>> \in observed'
          /\ UNCHANGED <<late, ledger, dropped, isolated>>
          /\ content' = [content EXCEPT ![i] = c]
        BY <1>3 DEF Collect, server
    <2>2. ~ Rebuild
        BY <1>3 DEF Collect, Rebuild, process
    <2>3. \A j \in Items : content'[j] # None => <<j, content'[j]>> \in observed'
        BY <2>1 DEF HeldInv, TypeOK, RowsOK
    <2>. QED  BY <1>2, <2>1, <2>2, <2>3 DEF HeldInv
<1>4. ASSUME ServerAccepts \/ LateArrival
      PROVE  HeldInv'
    <2>1. UNCHANGED <<content, observed>> /\ late' \subseteq late /\ isolated' = isolated
        BY <1>4 DEF ServerAccepts, LateArrival, Ingest, rows, history, server
    <2>2. PICK b \in Posting \cup late :
              Ingest(b) \/ UNCHANGED <<server, history>>
        BY <1>4 DEF ServerAccepts, LateArrival, Posting
    <2>3. ledger' \cup dropped' \subseteq ledger \cup dropped \cup b.entries
        BY <2>2 DEF Ingest, Welcome, BucketEntries, server, history
    <2>4. ~ Rebuild
        BY <1>4, CallNeedsUpload DEF ServerAccepts, LateArrival, Rebuild, process, TypeOK
    <2>. QED  BY <1>2, <2>1, <2>2, <2>3, <2>4 DEF HeldInv
<1>5. CASE Isolate
    <2>1. UNCHANGED <<content, observed, late, ledger, dropped>>
          /\ isolated' = isolated \cup BucketEntries(call.body)
          /\ call.body \in Posting
        BY <1>5 DEF Isolate, server, Posting
    <2>2. ~ Rebuild
        BY <1>5, CallNeedsUpload DEF Isolate, Rebuild, TypeOK
    <2>. QED  BY <1>2, <2>1, <2>2 DEF HeldInv, BucketEntries
<1>6. ASSUME RequestFails \/ Crash
      PROVE  HeldInv'
    <2>1. UNCHANGED <<content, server, history>> /\ ~ Rebuild
        BY <1>6 DEF RequestFails, Crash, RunGone, Rebuild, rows
    <2>2. \A b \in late' : b \in late \/ b \in Posting
        BY <1>6 DEF RequestFails, Crash, Abandoned, Posting
    <2>. QED  BY <1>2, <2>1, <2>2 DEF HeldInv, server, history
<1>8. CASE CrashWhileRevising
    <2>1. observed \subseteq observed' /\ UNCHANGED <<late, ledger, dropped, isolated>>
          /\ ~ Rebuild
        BY <1>8 DEF CrashWhileRevising, Revise, RunGone, Rebuild, server
    <2>2. \A i \in Items : content'[i] # None => <<i, content'[i]>> \in observed'
        BY <1>8, RevisedWasHeld DEF CrashWhileRevising
    <2>. QED  BY <1>2, <2>1, <2>2 DEF HeldInv
<1>7. ASSUME \/ UNCHANGED vars
             \/ \E r \in Runs : StartRun(r)
             \/ Post \/ Acknowledge \/ DeleteAcknowledged \/ Split \/ Defer
             \/ EndRun \/ ServerRefuses \/ OwnerChanges
      PROVE  HeldInv'
    <2>1. UNCHANGED <<content, late, ledger, history>>
        BY <1>7 DEF vars, rows, server, StartRun, Post, Acknowledge, Split,
                    DeleteAcknowledged, Defer, EndRun, ServerRefuses, OwnerChanges
    <2>2. CASE Rebuild
        BY <2>2, <1>1
    <2>3. CASE ~ Rebuild
        BY <1>2, <2>1, <2>3 DEF HeldInv, history
    <2>. QED  BY <2>2, <2>3
<1>. QED
    BY <1>1, <1>3, <1>4, <1>5, <1>6, <1>7, <1>8 DEF Next, RunStep, ServerStep

-----------------------------------------------------------------------------
(* The simulation                                                          *)

LEMMA SimulatesInit == Init => Promise!Init
BY DEF Init, Promise!Init

LEMMA SimulatesObserve ==
    ASSUME TypeOK, TypeOK',
           \/ Rebuild \/ CrashWhileRevising
           \/ \E i \in Items, c \in Content : Collect(i, c)
    PROVE  Promise!Observe
<1>1. /\ observed \subseteq observed'
      /\ UNCHANGED <<ledger, dropped, isolated, published, rejected>>
    BY DEF Rebuild, CrashWhileRevising, Revise, Collect, server
<1>2. observed' \in SUBSET Promise!Revision
    BY DEF TypeOK, ServerOK, Entry, Promise!Revision
<1>. QED  BY <1>1, <1>2 DEF Promise!Observe

LEMMA SimulatesStore ==
    ASSUME HeldInv', ServerAccepts \/ (LateArrival /\ ~ UNCHANGED <<server, history>>)
    PROVE  Promise!Store
<1>1. /\ ledger \subseteq ledger' /\ dropped \subseteq dropped'
      /\ UNCHANGED <<isolated, observed, published, rejected>>
    BY DEF ServerAccepts, LateArrival, Ingest, rows
<1>2. ledger' \cup dropped' \cup isolated' \subseteq observed
    BY <1>1 DEF HeldInv
<1>. QED  BY <1>1, <1>2 DEF Promise!Store

\* Only an item that is not rejected gets a new mark.
LEMMA MarksAreNotRejected ==
    ASSUME TypeOK, TypeOK', RejectedIsNeverRetried, Acknowledge \/ Isolate,
           NEW i \in Items, published'[i] # published[i]
    PROVE  i \notin rejected' /\ published'[i] # None
<1>. DEFINE e == CHOOSE e \in call.body.entries : e[1] = i
<1>1. call.body \in Body /\ call.body \in Posting
    BY CallTyped DEF Acknowledge, Isolate, TypeOK, RunOK, Posting
<1>2. CASE Acknowledge
    <2>1. i \notin call.rejections /\ e \in call.body.entries /\ e[1] = i
          /\ published'[i] = e[2]
        BY <1>2 DEF Acknowledge
    <2>2. e \in Entry
        BY <1>1, <2>1 DEF Body
    <2>3. published'[i] # None
        BY <2>1, <2>2, SetsAssumption DEF Entry
    <2>4. i \notin rejected
        <3>1. CASE i \in Records
            BY <1>1, <2>1, <3>1 DEF RejectedIsNeverRetried, RecordsIn
        <3>2. CASE i \notin Records
            BY <3>2 DEF TypeOK, RowsOK
        <3>. QED  BY <3>1, <3>2
    <2>5. rejected' = rejected \cup call.rejections
        BY <1>2 DEF Acknowledge
    <2>. QED  BY <2>1, <2>3, <2>4, <2>5
<1>3. CASE Isolate
    <2>1. i \in Buckets /\ e \in call.body.entries /\ e[1] = i
          /\ published'[i] = e[2]
        BY <1>3 DEF Isolate
    <2>2. e \in Entry
        BY <1>1, <2>1 DEF Body
    <2>3. published'[i] # None
        BY <2>1, <2>2, SetsAssumption DEF Entry
    <2>4. i \notin rejected'
        BY <2>1, SetsAssumption DEF TypeOK, RowsOK
    <2>. QED  BY <2>3, <2>4
<1>. QED  BY <1>2, <1>3

LEMMA SimulatesSettle ==
    ASSUME TypeOK, TypeOK', RejectedIsNeverRetried, MarkedIsSettled', HeldInv',
           Acknowledge \/ Isolate
    PROVE  Promise!Settle
<1>1. /\ isolated \subseteq isolated' /\ rejected \subseteq rejected'
      /\ UNCHANGED <<ledger, dropped, observed>>
    BY DEF Acknowledge, Isolate, server, history
<1>2. dropped' \cup isolated' \subseteq observed
    BY <1>1 DEF HeldInv
<1>3. rejected' \subseteq Items /\ published' \in [Items -> Content \cup {None}]
    BY DEF TypeOK, RowsOK, Items
<1>4. ASSUME NEW i \in Items, published'[i] # published[i]
      PROVE  i \notin rejected' /\ <<i, published'[i]>> \in ledger \cup (dropped' \cup isolated')
    <2>1. i \notin rejected' /\ published'[i] # None
        BY <1>4, MarksAreNotRejected
    <2>. QED  BY <2>1, <1>1 DEF MarkedIsSettled
<1>. QED  BY <1>1, <1>2, <1>3, <1>4 DEF Promise!Settle

LEMMA SimulatesStep ==
    ASSUME TypeOK, TypeOK', RejectedIsNeverRetried, MarkedIsSettled', HeldInv',
           [Next]_vars
    PROVE  [Promise!Next]_(Promise!vars)
<1>1. CASE Rebuild \/ CrashWhileRevising \/ \E i \in Items, c \in Content : Collect(i, c)
    BY <1>1, SimulatesObserve DEF Promise!Next
<1>2. CASE ServerAccepts \/ (LateArrival /\ ~ UNCHANGED <<server, history>>)
    BY <1>2, SimulatesStore DEF Promise!Next
<1>3. CASE Acknowledge \/ Isolate
    BY <1>3, SimulatesSettle DEF Promise!Next
<1>4. ASSUME \/ UNCHANGED vars
             \/ \E r \in Runs : StartRun(r)
             \/ Post \/ DeleteAcknowledged \/ Split \/ Defer \/ EndRun
             \/ RequestFails \/ Crash \/ ServerRefuses \/ OwnerChanges
             \/ LateArrival /\ UNCHANGED <<server, history>>
      PROVE  UNCHANGED Promise!vars
    <2>1. UNCHANGED <<observed, ledger, dropped, isolated, published, rejected>>
        BY <1>4 DEF vars, rows, server, history, StartRun, Post, Split, Defer,
               DeleteAcknowledged, EndRun, RequestFails, Crash, ServerRefuses,
               OwnerChanges, LateArrival
    <2>. QED  BY <2>1 DEF Promise!vars
<1>. QED  BY <1>1, <1>2, <1>3, <1>4 DEF Next, RunStep, ServerStep

\* Every behaviour of the delivery, mapped to what is stored, waived, marked and
\* refused, is a behaviour of Publication: marks are set only on what the server
\* or nobody will need again, the server holds nothing a companion never held,
\* and a refused item is never marked (ImplementsPublication).
THEOREM Implements == Spec => ImplementsPublication
<1>1. Init => HeldInv
    BY DEF Init, HeldInv, Posting, ToPost, Elements, NoCall
<1>2. Spec => []HeldInv
    BY <1>1, HeldStep, TypeCorrect, PTL DEF Spec
<1>3. TypeOK /\ TypeOK' /\ RejectedIsNeverRetried /\ MarkedIsSettled' /\ HeldInv'
        /\ [Next]_vars => [Promise!Next]_(Promise!vars)
    BY SimulatesStep
<1>. QED
    BY <1>2, <1>3, SimulatesInit, TypeCorrect, RejectedNeverRetried,
       MarksAreSettled, PTL DEF Spec, ImplementsPublication, Promise!Spec
=============================================================================
