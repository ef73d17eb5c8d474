----------------------------- MODULE Folds_proofs -----------------------------
EXTENDS Integers, FiniteSets, FiniteSetsExt, FiniteSetTheorems, WellFoundedInduction, TLAPS

(***************************************************************************)
(* What a fold computes, for every finite set.  The operation, the items   *)
(* it is applied to and the order they are picked in are constant          *)
(* operators of this module: an instance of it gives them, and cites the   *)
(* lemmas for its own fold.  The parameter p is whatever state the fold    *)
(* is taken in.                                                            *)
(***************************************************************************)

CONSTANTS Op(_, _, _), Item(_, _), Pick(_), Good(_, _)

Fold(p, base, S) ==
    MapThenFoldSet(LAMBDA x, y : Op(p, x, y), base, LAMBDA x : Item(p, x), Pick, S)

\* A set of naturals has a least member, and Min is it.
LEMMA LeastOf ==
    ASSUME NEW S, S \subseteq Nat, S # {}
    PROVE  Min(S) \in S /\ \A x \in S : Min(S) <= x
<1>. DEFINE less == {ss \in Nat \X Nat : ss[1] < ss[2]}
<1>1. IsWellFoundedOn(less, Nat)
    BY NatLessThanWellFounded DEF OpToRel
<1>2. PICK x \in S : \A y \in S : <<y, x>> \notin less
    <2>. HIDE DEF less
    <2>. QED  BY <1>1, WFMin
<1>3. ASSUME NEW y \in S PROVE x <= y
    <2>1. <<y, x>> \in Nat \X Nat /\ <<y, x>>[1] = y /\ <<y, x>>[2] = x
        OBVIOUS
    <2>2. ~(y < x)
        BY <1>2, <2>1
    <2>. QED  BY <2>2
<1>. QED  BY <1>3 DEF Min

\* A set of indices has a greatest one.
LEMMA GreatestOf ==
    ASSUME NEW n \in Nat, NEW T \in SUBSET (1..n), T # {}
    PROVE  \E x \in T : \A y \in T : y <= x
<1>. DEFINE back == {n - x : x \in T}
<1>0. \A x \in T : n - x \in Nat
    OBVIOUS
<1>1. back \subseteq Nat /\ back # {} /\ \A x \in T : n - x \in back
    BY <1>0
<1>2. Min(back) \in back /\ \A d \in back : Min(back) <= d
    <2>. HIDE DEF back
    <2>. QED  BY <1>1, LeastOf
<1>3. PICK x \in T : Min(back) = n - x
    BY <1>2
<1>4. \A y \in T : n - x <= n - y
    BY <1>1, <1>2, <1>3
<1>5. \A y \in T : y <= x
    BY <1>4
<1>. QED  BY <1>5

\* Of the subsets of a finite set that are in a family, one is smallest.
LEMMA SmallestOf ==
    ASSUME NEW S, IsFiniteSet(S), NEW F \in SUBSET SUBSET S, F # {}
    PROVE  \E s \in F : \A t \in F : Cardinality(s) <= Cardinality(t)
<1>1. \A t \in F : IsFiniteSet(t) /\ Cardinality(t) \in Nat
    BY FS_Subset, FS_CardinalityType
<1>2. {Cardinality(t) : t \in F} \subseteq Nat /\ {Cardinality(t) : t \in F} # {}
    BY <1>1
<1>. DEFINE sizes == {Cardinality(t) : t \in F}
<1>3. Min(sizes) \in sizes /\ \A n \in sizes : Min(sizes) <= n
    <2>. HIDE DEF sizes
    <2>. QED  BY <1>2, LeastOf DEF sizes
<1>4. PICK s \in F : Min(sizes) = Cardinality(s)
    BY <1>3
<1>5. \A t \in F : Cardinality(t) \in sizes
    OBVIOUS
<1>. HIDE DEF sizes
<1>. QED  BY <1>3, <1>4, <1>5

Sound(S) == IsFiniteSet(S) /\ \A T \in SUBSET S : T # {} => Pick(T) \in T

Smaller(S, n) == {T \in SUBSET S : Cardinality(T) <= n}
Table(p, base, S, g) ==
   [s \in S |-> IF s = {} THEN base ELSE Op(p, Item(p, Pick(s)), g[s \ {Pick(s)}])]

\* A table of the folds of the subsets of up to n members extends to those of
\* one member more.
LEMMA TableGrows ==
    ASSUME NEW p, NEW base, NEW S, Sound(S), NEW n \in Nat, NEW g,
           g = Table(p, base, Smaller(S, n), g)
    PROVE  \E h : h = Table(p, base, Smaller(S, n + 1), h)
<1>. DEFINE h == Table(p, base, Smaller(S, n + 1), g)
<1>1. ASSUME NEW s \in Smaller(S, n + 1), s # {}
      PROVE  s \ {Pick(s)} \in Smaller(S, n) /\ s \ {Pick(s)} \in Smaller(S, n + 1)
    <2>1. IsFiniteSet(s) /\ Pick(s) \in s
        BY <1>1, FS_Subset DEF Smaller, Sound
    <2>2. Cardinality(s \ {Pick(s)}) = Cardinality(s) - 1 /\ Cardinality(s) \in Nat
        BY <2>1, FS_RemoveElement, FS_CardinalityType
    <2>. QED  BY <2>1, <2>2 DEF Smaller
<1>2. \A t \in Smaller(S, n) : t \in Smaller(S, n + 1) => h[t] = g[t]
    BY DEF Table
<1>3. ASSUME NEW s \in Smaller(S, n + 1), s # {}
      PROVE  h[s \ {Pick(s)}] = g[s \ {Pick(s)}]
    <2>. HIDE DEF h
    <2>. QED  BY <1>1, <1>2, <1>3
<1>4. h = Table(p, base, Smaller(S, n + 1), h)
    BY <1>3 DEF Table
<1>. QED  BY <1>4

\* The recursive function that a fold chooses exists: otherwise there is a least
\* number of members at which there is no table.
LEMMA TableExists ==
    ASSUME NEW p, NEW base, NEW S, Sound(S)
    PROVE  \E g : g = Table(p, base, SUBSET S, g)
<1>. DEFINE some(n) == \E g : g = Table(p, base, Smaller(S, n), g)
            bad == {n \in Nat : ~some(n)}
<1>1. some(0)
    <2>1. Smaller(S, 0) = {{}}
        <3>1. \A T \in SUBSET S : IsFiniteSet(T) /\ Cardinality(T) \in Nat
            BY FS_Subset, FS_CardinalityType DEF Sound
        <3>2. \A T \in SUBSET S : Cardinality(T) <= 0 <=> T = {}
            BY <3>1, FS_EmptySet
        <3>. QED  BY <3>2 DEF Smaller
    <2>2. [s \in {{}} |-> base] = Table(p, base, {{}}, [s \in {{}} |-> base])
        BY DEF Table
    <2>. QED  BY <2>1, <2>2
<1>2. ASSUME NEW n \in Nat, some(n) PROVE some(n + 1)
    BY <1>2, TableGrows
<1>3. bad = {}
    <2>. SUFFICES ASSUME bad # {} PROVE FALSE
        OBVIOUS
    <2>. DEFINE n == Min(bad)
    <2>1. n \in bad /\ \A x \in bad : n <= x
        <3>. HIDE DEF some
        <3>. QED  BY LeastOf
    <2>. HIDE DEF n, some
    <2>2. n \in Nat /\ n # 0 /\ ~some(n)
        BY <1>1, <2>1
    <2>3. n - 1 \in Nat /\ n - 1 < n /\ (n - 1) + 1 = n
        BY <2>2
    <2>4. some(n - 1)
        BY <2>1, <2>3
    <2>. QED  BY <1>2, <2>2, <2>3, <2>4
<1>4. Cardinality(S) \in Nat /\ Smaller(S, Cardinality(S)) = SUBSET S
    BY FS_Subset, FS_CardinalityType DEF Smaller, Sound
<1>5. some(Cardinality(S))
    <2>. HIDE DEF some
    <2>. QED  BY <1>3, <1>4
<1>. QED  BY <1>4, <1>5

The(p, base, S) == CHOOSE g : g = Table(p, base, S, g)

\* The table that CHOOSE takes is one.
LEMMA TheTable ==
    ASSUME NEW p, NEW base, NEW S, Sound(S)
    PROVE  The(p, base, SUBSET S) = Table(p, base, SUBSET S, The(p, base, SUBSET S))
<1>. DEFINE is(g) == g = Table(p, base, SUBSET S, g)
<1>1. \E g : is(g)
    BY TableExists
<1>2. is(CHOOSE g : is(g))
    <2>. HIDE DEF is
    <2>. QED  BY <1>1
<1>. QED  BY <1>2 DEF The

\* The community modules' fold is the entry of that table.
LEMMA FoldIsTable ==
    ASSUME NEW p, NEW base, NEW S
    PROVE  Fold(p, base, S) = The(p, base, SUBSET S)[S]
BY DEF Fold, MapThenFoldSet, The, Table

\* A fold is the operation applied to the member picked and to the fold of the rest.
LEMMA FoldUnfolds ==
    ASSUME NEW p, NEW base, NEW S, Sound(S)
    PROVE  /\ S = {} => Fold(p, base, S) = base
           /\ S # {} => Fold(p, base, S) = Op(p, Item(p, Pick(S)), Fold(p, base, S \ {Pick(S)}))
<1>. DEFINE all == The(p, base, SUBSET S)
<1>1. all = Table(p, base, SUBSET S, all)
    BY TheTable
<1>2. all[S] = IF S = {} THEN base ELSE Op(p, Item(p, Pick(S)), all[S \ {Pick(S)}])
    <2>. HIDE DEF all
    <2>. QED  BY <1>1 DEF Table
<1>3. ASSUME NEW R \in SUBSET S PROVE The(p, base, SUBSET R)[R] = all[R]
    <2>. DEFINE part == The(p, base, SUBSET R)
                bad == {T \in SUBSET R : part[T] # all[T]}
    <2>1. Sound(R)
        BY FS_Subset DEF Sound
    <2>2. part = Table(p, base, SUBSET R, part)
        BY <2>1, TheTable
    <2>0. part = The(p, base, SUBSET R)
        OBVIOUS
    <2>. HIDE DEF part, all
    <2>3. bad = {}
        <3>. SUFFICES ASSUME bad # {} PROVE FALSE
            OBVIOUS
        <3>1. PICK s \in bad : \A t \in bad : Cardinality(s) <= Cardinality(t)
            <4>. bad \in SUBSET SUBSET R
                OBVIOUS
            <4>. HIDE DEF bad
            <4>. QED  BY <2>1, SmallestOf DEF Sound
        <3>2. s \in SUBSET R /\ s \in SUBSET S /\ part[s] # all[s]
            OBVIOUS
        <3>3. s # {}
            BY <1>1, <2>2, <3>2 DEF Table
        <3>4. Pick(s) \in s /\ s \ {Pick(s)} \in SUBSET R
            BY <3>2, <3>3 DEF Sound
        <3>5. IsFiniteSet(s) /\ Cardinality(s \ {Pick(s)}) < Cardinality(s)
              /\ Cardinality(s) \in Nat /\ Cardinality(s \ {Pick(s)}) \in Nat
            BY <3>2, <3>4, FS_Subset, FS_RemoveElement, FS_CardinalityType DEF Sound
        <3>6. part[s \ {Pick(s)}] = all[s \ {Pick(s)}]
            BY <3>1, <3>4, <3>5
        <3>7. part[s] = Op(p, Item(p, Pick(s)), part[s \ {Pick(s)}])
            BY <2>2, <3>2, <3>3 DEF Table
        <3>8. all[s] = Op(p, Item(p, Pick(s)), all[s \ {Pick(s)}])
            BY <1>1, <3>2, <3>3 DEF Table
        <3>. QED  BY <3>2, <3>6, <3>7, <3>8
    <2>. QED  BY <2>0, <2>3
<1>. HIDE DEF all
<1>4. Fold(p, base, S) = all[S]
    BY FoldIsTable DEF all
<1>5. Fold(p, base, S \ {Pick(S)}) = all[S \ {Pick(S)}]
    BY <1>3, FoldIsTable
<1>. QED  BY <1>2, <1>4, <1>5

\* What the base has and each step of the operation keeps, the fold has: induction
\* over the data, by a smallest counterexample.
LEMMA FoldKeeps ==
    ASSUME NEW p, NEW base, NEW S, Sound(S), Good(p, base),
           \A x \in S : \A y : Good(p, y) => Good(p, Op(p, Item(p, x), y))
    PROVE  Good(p, Fold(p, base, S))
<1>. DEFINE bad == {T \in SUBSET S : ~Good(p, Fold(p, base, T))}
<1>1. bad = {}
    <2>. SUFFICES ASSUME bad # {} PROVE FALSE
        OBVIOUS
    <2>1. PICK s \in bad : \A t \in bad : Cardinality(s) <= Cardinality(t)
        <3>. bad \in SUBSET SUBSET S
            OBVIOUS
        <3>. HIDE DEF bad
        <3>. QED  BY SmallestOf DEF Sound
    <2>2. s \in SUBSET S /\ ~Good(p, Fold(p, base, s))
        OBVIOUS
    <2>3. Sound(s)
        BY <2>2, FS_Subset DEF Sound
    <2>4. s # {}
        BY <2>2, <2>3, FoldUnfolds
    <2>5. Pick(s) \in s /\ s \ {Pick(s)} \in SUBSET S
        BY <2>2, <2>4 DEF Sound
    <2>6. IsFiniteSet(s) /\ Cardinality(s \ {Pick(s)}) < Cardinality(s)
          /\ Cardinality(s) \in Nat /\ Cardinality(s \ {Pick(s)}) \in Nat
        BY <2>2, <2>5, FS_Subset, FS_RemoveElement, FS_CardinalityType DEF Sound
    <2>7. Good(p, Fold(p, base, s \ {Pick(s)}))
        BY <2>1, <2>5, <2>6
    <2>. QED  BY <2>2, <2>3, <2>4, <2>5, <2>7, FoldUnfolds
<1>. QED  BY <1>1

\* A fold over nothing is its base.
LEMMA FoldEmpty ==
    ASSUME NEW p, NEW base
    PROVE  Fold(p, base, {}) = base
BY FS_EmptySet, FoldUnfolds DEF Sound

\* Two folds over items that are the same are the same.
LEMMA FoldSame ==
    ASSUME NEW p, NEW q, NEW base, NEW S, Sound(S),
           \A x \in S : Item(p, x) = Item(q, x),
           \A x, y : Op(p, x, y) = Op(q, x, y)
    PROVE  Fold(p, base, S) = Fold(q, base, S)
<1>. DEFINE bad == {T \in SUBSET S : Fold(p, base, T) # Fold(q, base, T)}
<1>1. bad = {}
    <2>. SUFFICES ASSUME bad # {} PROVE FALSE
        OBVIOUS
    <2>1. PICK s \in bad : \A t \in bad : Cardinality(s) <= Cardinality(t)
        <3>. bad \in SUBSET SUBSET S
            OBVIOUS
        <3>. HIDE DEF bad
        <3>. QED  BY SmallestOf DEF Sound
    <2>2. s \in SUBSET S /\ Fold(p, base, s) # Fold(q, base, s)
        OBVIOUS
    <2>3. Sound(s)
        BY <2>2, FS_Subset DEF Sound
    <2>4. s # {}
        <3>. SUFFICES ASSUME s = {} PROVE FALSE
            OBVIOUS
        <3>. HIDE DEF bad
        <3>1. Fold(p, base, {}) = base /\ Fold(q, base, {}) = base
            BY FoldEmpty
        <3>. QED  BY <2>2, <3>1
    <2>5. Pick(s) \in s /\ Pick(s) \in S /\ s \ {Pick(s)} \in SUBSET S
        BY <2>2, <2>4 DEF Sound
    <2>6. IsFiniteSet(s) /\ Cardinality(s \ {Pick(s)}) < Cardinality(s)
          /\ Cardinality(s) \in Nat /\ Cardinality(s \ {Pick(s)}) \in Nat
        BY <2>2, <2>5, FS_Subset, FS_RemoveElement, FS_CardinalityType DEF Sound
    <2>7. Fold(p, base, s \ {Pick(s)}) = Fold(q, base, s \ {Pick(s)})
        BY <2>1, <2>5, <2>6
    <2>8. /\ Fold(p, base, s) = Op(p, Item(p, Pick(s)), Fold(p, base, s \ {Pick(s)}))
          /\ Fold(q, base, s) = Op(q, Item(q, Pick(s)), Fold(q, base, s \ {Pick(s)}))
        BY <2>3, <2>4, FoldUnfolds
    <2>. QED  BY <2>2, <2>5, <2>7, <2>8
<1>. QED  BY <1>1

\* An operation that may be applied to two items in either order gives a fold that
\* does not depend on which is picked.
LEMMA FoldAny ==
    ASSUME NEW p, NEW base, NEW S, Sound(S), Good(p, base),
           \A x \in S : \A acc : Good(p, acc) => Good(p, Op(p, Item(p, x), acc)),
           \A x, y \in S : \A acc : Good(p, acc) =>
              Op(p, Item(p, x), Op(p, Item(p, y), acc)) = Op(p, Item(p, y), Op(p, Item(p, x), acc)),
           NEW a \in S
    PROVE  Fold(p, base, S) = Op(p, Item(p, a), Fold(p, base, S \ {a}))
<1>. DEFINE any(T) == \A x \in T : Fold(p, base, T) = Op(p, Item(p, x), Fold(p, base, T \ {x}))
            bad == {T \in SUBSET S : ~any(T)}
<1>1. bad = {}
    <2>. SUFFICES ASSUME bad # {} PROVE FALSE
        OBVIOUS
    <2>1. PICK s \in bad : \A t \in bad : Cardinality(s) <= Cardinality(t)
        <3>. bad \in SUBSET SUBSET S
            OBVIOUS
        <3>. HIDE DEF bad
        <3>. QED  BY SmallestOf DEF Sound
    <2>2. s \in SUBSET S /\ ~any(s)
        OBVIOUS
    <2>3. PICK x \in s : Fold(p, base, s) # Op(p, Item(p, x), Fold(p, base, s \ {x}))
        BY <2>2
    <2>4. Sound(s)
        BY <2>2, FS_Subset DEF Sound
    <2>5. PICK c : c = Pick(s)
        OBVIOUS
    <2>6. c \in s /\ Fold(p, base, s) = Op(p, Item(p, c), Fold(p, base, s \ {c}))
        BY <2>3, <2>4, <2>5, FoldUnfolds DEF Sound
    <2>7. c # x
        BY <2>3, <2>6
    <2>8. \A y \in s : s \ {y} \in SUBSET S /\ any(s \ {y})
        <3>. TAKE y \in s
        <3>0. IsFiniteSet(s)
            BY <2>4 DEF Sound
        <3>1. IsFiniteSet(s) /\ Cardinality(s \ {y}) < Cardinality(s)
              /\ Cardinality(s) \in Nat /\ Cardinality(s \ {y}) \in Nat
            <4>. HIDE DEF bad
            <4>1. IsFiniteSet(s \ {y})
                BY <3>0, FS_RemoveElement
            <4>2. Cardinality(s) \in Nat /\ Cardinality(s \ {y}) \in Nat
                BY <3>0, <4>1, FS_CardinalityType
            <4>3. Cardinality(s \ {y}) = Cardinality(s) - 1
                BY <3>0, FS_RemoveElement
            <4>. QED  BY <3>0, <4>2, <4>3
        <3>2. s \ {y} \in SUBSET S
            BY <2>2
        <3>. QED  BY <2>1, <3>1, <3>2
    <2>9. PICK rest : rest = Fold(p, base, (s \ {c}) \ {x})
        OBVIOUS
    <2>10. (s \ {c}) \ {x} = (s \ {x}) \ {c} /\ x \in s \ {c} /\ c \in s \ {x}
        BY <2>3, <2>6, <2>7
    <2>11. Fold(p, base, s \ {c}) = Op(p, Item(p, x), rest)
        BY <2>6, <2>8, <2>9, <2>10
    <2>12. Fold(p, base, s \ {x}) = Op(p, Item(p, c), rest)
        BY <2>3, <2>8, <2>9, <2>10
    <2>13. Good(p, rest)
        <3>1. Sound((s \ {c}) \ {x})
            BY <2>4, FS_Subset DEF Sound
        <3>2. \A z \in (s \ {c}) \ {x} : z \in S
            BY <2>2
        <3>. QED  BY <2>9, <3>1, <3>2, FoldKeeps
    <2>14. c \in S /\ x \in S
        BY <2>2, <2>3, <2>6
    <2>. QED  BY <2>3, <2>6, <2>11, <2>12, <2>13, <2>14
<1>2. S \notin bad
    BY <1>1
<1>. QED  BY <1>2

\* What holds of no items, and of a set with any further item, holds of all.
LEMMA Grown ==
    ASSUME NEW S, IsFiniteSet(S), NEW F, {} \in F,
           \A T \in SUBSET S : \A x \in S \ T : T \in F => T \cup {x} \in F
    PROVE  S \in F
<1>. SUFFICES ASSUME S \notin F PROVE FALSE
    OBVIOUS
<1>. DEFINE bad == {T \in SUBSET S : T \notin F}
<1>1. PICK s \in bad : \A t \in bad : Cardinality(s) <= Cardinality(t)
    <2>. bad \in SUBSET SUBSET S /\ bad # {}
        OBVIOUS
    <2>. HIDE DEF bad
    <2>. QED  BY SmallestOf
<1>2. PICK x \in s : TRUE
    OBVIOUS
<1>3. IsFiniteSet(s) /\ Cardinality(s \ {x}) < Cardinality(s)
      /\ Cardinality(s) \in Nat /\ Cardinality(s \ {x}) \in Nat
    BY <1>2, FS_Subset, FS_RemoveElement, FS_CardinalityType
<1>4. s \ {x} \notin bad
    <2>. HIDE DEF bad
    <2>. QED  BY <1>1, <1>3
<1>5. s \ {x} \in F /\ s \ {x} \in SUBSET S /\ x \in S \ (s \ {x})
    BY <1>2, <1>4
<1>6. (s \ {x}) \cup {x} = s
    BY <1>2
<1>. QED  BY <1>5, <1>6
===============================================================================
