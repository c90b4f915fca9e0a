------------------------ MODULE PositionBooksProofs ------------------------
(***************************************************************************)
(* That a late fill makes no tokens and loses none, that the open rows     *)
(* claim no more than the wallet holds, that every amount is bounded by    *)
(* what the swaps can bring, and that no fill leaves more than dust in the *)
(* wallet that no row claims, for any number of positions and swaps, any   *)
(* amounts and any limit of dust.                                          *)
(*                                                                         *)
(* What the rows acquired together is a sum over the positions.  The first *)
(* part shows, by induction on the size of a set of positions, that the    *)
(* sum moves with a row as that row does.  The second is about the rules   *)
(* a late fill applies: followed or handed over, what a row acquired and   *)
(* the tokens that leave it add up to what went in.  They do because a     *)
(* closed row holds nothing, which is the invariant.                       *)
(*                                                                         *)
(* The third is about the wallet.  A sale in flight of a row that was      *)
(* closed meanwhile will still take its tokens: they are due.  The         *)
(* invariant is that the wallet covers, beside what is due, what the open  *)
(* row will claim whichever way its own swap ends: as it stands, with its  *)
(* unbooked buy, or without what an unbooked sale of it took.              *)
(*                                                                         *)
(* The fourth counts the tokens by the swaps, each as a number of its own: *)
(* what the buys brought is at least the wallet and what the landed sales  *)
(* took, and the rows acquired no more than the swaps that are booked,     *)
(* because no swap is booked twice.                                        *)
(*                                                                         *)
(* The fifth is about what the wallet holds beyond the claims.  A row is   *)
(* worth what it claims, or closed the dust it may leave.  The wallet is   *)
(* placed: it holds no more than the rows are worth and the unbooked buys  *)
(* brought, also with what an unbooked sale took.  A booking trusts the    *)
(* wallet that was read before it, so the invariant bounds the wallet by   *)
(* that too, and says that one entry or sale of the mint waits at a time.  *)
(***************************************************************************)
EXTENDS PositionBooks, FiniteSetTheorems, WellFoundedInduction, SequenceTheorems, TLAPS

Pick(S) == CHOOSE x \in S : TRUE

\* g sums the numbers f over the sets of D, as the library's fold does.
IsSums(f, g, D) ==
    g = [S \in D |-> IF S = {} THEN 0 ELSE f[Pick(S)] + g[S \ {Pick(S)}]]

Sums(f, P) == CHOOSE g : IsSums(f, g, SUBSET P)

\* A set of numbers has a least one.
LEMMA LeastNumber ==
    ASSUME NEW N \in SUBSET Nat, N # {}
    PROVE  \E m \in N : \A k \in N : ~ k < m
<1> DEFINE R == {x \in Nat \X Nat : x[1] < x[2]}
<1>1. IsWellFoundedOn(R, Nat)
    BY NatLessThanWellFounded, Zenon DEF OpToRel
<1> HIDE DEF R
<1>2. PICK m \in N : \A k \in N : ~ (<<k, m>> \in R)
    BY <1>1, WFMin
<1>3. ASSUME NEW k \in N, k < m PROVE FALSE
    <2>1. <<k, m>> \in R
        BY <1>3 DEF R
    <2> QED
        BY <1>2, <2>1
<1> QED
    BY <1>3

\* A set of positions less its chosen one is smaller.
LEMMA Smaller ==
    ASSUME NEW P, IsFiniteSet(P), NEW S \in SUBSET P, S # {}
    PROVE  /\ Pick(S) \in S /\ S \ {Pick(S)} \in SUBSET P
           /\ Cardinality(S) \in Nat /\ Cardinality(S) # 0
           /\ Cardinality(S \ {Pick(S)}) = Cardinality(S) - 1
<1>1. Pick(S) \in S
    BY DEF Pick
<1>2. IsFiniteSet(S)
    BY FS_Subset
<1> PICK x : x = Pick(S)
    OBVIOUS
<1>3. Cardinality(S \ {x}) = Cardinality(S) - 1
    BY <1>1, <1>2, FS_RemoveElement
<1>4. Cardinality(S) \in Nat /\ Cardinality(S) # 0
    BY <1>2, FS_CardinalityType, FS_EmptySet
<1> QED
    BY <1>1, <1>3, <1>4

\* The sets of at most n positions.
UpTo(P, n) == {S \in SUBSET P : Cardinality(S) <= n}

\* The sums exist.
LEMMA SumsExist ==
    ASSUME NEW P, IsFiniteSet(P), NEW f \in [P -> Nat]
    PROVE  IsSums(f, Sums(f, P), SUBSET P)
<1> DEFINE Found(n) == \E g \in [UpTo(P, n) -> Nat] : IsSums(f, g, UpTo(P, n))
           Missing == {n \in Nat : ~ Found(n)}
<1>1. ASSUME Missing # {} PROVE FALSE
    <2> Missing \in SUBSET Nat
        OBVIOUS
    <2>1. PICK m \in Missing : \A k \in Missing : ~ k < m
        BY <1>1, LeastNumber
    <2>2. Found(m)
        <3>1. CASE m = 0
            <4> DEFINE g == [S \in UpTo(P, 0) |-> 0]
            <4>1. ASSUME NEW S \in UpTo(P, 0) PROVE S = {}
                <5>1. S \in SUBSET P /\ Cardinality(S) <= 0
                    BY <4>1 DEF UpTo
                <5>2. ASSUME S # {} PROVE Cardinality(S) \in Nat /\ Cardinality(S) # 0
                    BY <5>1, <5>2, Smaller
                <5> QED
                    BY <5>1, <5>2
            <4>2. g = [S \in UpTo(P, 0) |-> IF S = {} THEN 0 ELSE f[Pick(S)] + g[S \ {Pick(S)}]]
                BY <4>1
            <4>3. g \in [UpTo(P, 0) -> Nat] /\ IsSums(f, g, UpTo(P, 0))
                BY <4>2 DEF IsSums
            <4> QED
                BY <3>1, <4>3
        <3>2. CASE m # 0
            <4>1. m - 1 \in Nat /\ m - 1 < m
                BY <3>2
            <4>2. PICK h \in [UpTo(P, m - 1) -> Nat] : IsSums(f, h, UpTo(P, m - 1))
                BY <2>1, <4>1
            <4> DEFINE val(S) == IF S = {} THEN 0 ELSE f[Pick(S)] + h[S \ {Pick(S)}]
                       g == [S \in UpTo(P, m) |-> val(S)]
            <4>3. ASSUME NEW S \in UpTo(P, m), S # {}
                  PROVE  Pick(S) \in P /\ S \ {Pick(S)} \in UpTo(P, m - 1) /\ S \ {Pick(S)} \in UpTo(P, m)
                <5>1. /\ Pick(S) \in S /\ S \ {Pick(S)} \in SUBSET P
                      /\ Cardinality(S) \in Nat /\ Cardinality(S \ {Pick(S)}) = Cardinality(S) - 1
                    BY <4>3, Smaller DEF UpTo
                <5>2. Cardinality(S) <= m
                    BY DEF UpTo
                <5>3. Cardinality(S \ {Pick(S)}) <= m - 1 /\ Cardinality(S \ {Pick(S)}) <= m
                    BY <2>1, <5>1, <5>2
                <5>4. Pick(S) \in P
                    BY <5>1 DEF UpTo
                <5> QED
                    BY <5>1, <5>3, <5>4 DEF UpTo
            <4>4. ASSUME NEW S \in UpTo(P, m - 1) PROVE S \in UpTo(P, m) /\ h[S] = val(S)
                <5>1. h[S] = val(S)
                    BY <4>2 DEF IsSums
                <5>2. Cardinality(S) \in Nat
                    BY FS_Subset, FS_CardinalityType DEF UpTo
                <5> QED
                    BY <4>1, <5>1, <5>2 DEF UpTo
            <4>5. ASSUME NEW S \in UpTo(P, m - 1) PROVE g[S] = h[S]
                BY <4>4
            <4>6. ASSUME NEW S \in UpTo(P, m)
                  PROVE  val(S) = IF S = {} THEN 0 ELSE f[Pick(S)] + g[S \ {Pick(S)}]
                <5>1. CASE S = {}
                    BY <5>1
                <5>2. CASE S # {}
                    <6>1. g[S \ {Pick(S)}] = h[S \ {Pick(S)}]
                        BY <4>3, <4>5, <5>2
                    <6> QED
                        BY <5>2, <6>1
                <5> QED
                    BY <5>1, <5>2
            <4>7. ASSUME NEW S \in UpTo(P, m) PROVE val(S) \in Nat
                <5>1. CASE S = {}
                    BY <5>1
                <5>2. CASE S # {}
                    <6>1. f[Pick(S)] \in Nat /\ h[S \ {Pick(S)}] \in Nat
                        BY <4>3, <5>2
                    <6> QED
                        BY <5>2, <6>1
                <5> QED
                    BY <5>1, <5>2
            <4>8. g \in [UpTo(P, m) -> Nat]
                BY <4>7
            <4>9. IsSums(f, g, UpTo(P, m))
                BY <4>6 DEF IsSums
            <4> QED
                BY <4>8, <4>9
        <3> QED
            BY <3>1, <3>2
    <2> QED
        BY <2>1, <2>2
<1>2. Cardinality(P) \in Nat /\ UpTo(P, Cardinality(P)) = SUBSET P
    <2>1. IsFiniteSet(P)
        OBVIOUS
    <2>2. Cardinality(P) \in Nat
        BY <2>1, FS_CardinalityType
    <2>3. \A S \in SUBSET P : Cardinality(S) <= Cardinality(P)
        BY <2>1, FS_Subset
    <2> QED
        BY <2>2, <2>3 DEF UpTo
<1>3. PICK g \in [SUBSET P -> Nat] : IsSums(f, g, SUBSET P)
    <2>1. Found(Cardinality(P))
        BY <1>1, <1>2
    <2> QED
        BY <1>2, <2>1
<1> QED
    BY <1>3 DEF Sums

\* What fails of some set of positions fails of one whose chosen position is what fails it.
LEMMA FirstFailing ==
    ASSUME NEW P, IsFiniteSet(P), NEW F, F \subseteq SUBSET P, F # {}
    PROVE  \E S \in F : S # {} => S \ {Pick(S)} \notin F
<1> DEFINE N == {Cardinality(S) : S \in F}
<1>1. \A S \in F : Cardinality(S) \in Nat
    BY FS_Subset, FS_CardinalityType
<1>2. PICK m \in N : \A k \in N : ~ k < m
    <2>1. N \in SUBSET Nat /\ N # {}
        BY <1>1
    <2> HIDE DEF N
    <2> QED
        BY <2>1, LeastNumber
<1>3. PICK S \in F : m = Cardinality(S)
    BY <1>2
<1>4. ASSUME S # {}, S \ {Pick(S)} \in F PROVE FALSE
    <2> PICK T : T = S \ {Pick(S)}
        OBVIOUS
    <2>1. Cardinality(S) \in Nat /\ Cardinality(T) = Cardinality(S) - 1
        BY <1>4, Smaller
    <2>2. Cardinality(T) \in N
        BY <1>4
    <2>3. Cardinality(T) < m
        BY <1>3, <2>1
    <2> QED
        BY <1>2, <2>2, <2>3
<1> QED
    BY <1>3, <1>4

\* The sum over a set is the row of its chosen position and the sum over the others.
LEMMA SumSplits ==
    ASSUME NEW P, IsFiniteSet(P), NEW f \in [P -> Nat]
    PROVE  /\ Sums(f, P)[{}] = 0
           /\ \A S \in SUBSET P : S # {} =>
                 Sums(f, P)[S] = f[Pick(S)] + Sums(f, P)[S \ {Pick(S)}]
           /\ \A S \in SUBSET P : Sums(f, P)[S] \in Nat
<1>1. IsSums(f, Sums(f, P), SUBSET P)
    BY SumsExist
<1> PICK g : g = Sums(f, P)
    OBVIOUS
<1>2. \A S \in SUBSET P :
         g[S] = IF S = {} THEN 0 ELSE f[Pick(S)] + g[S \ {Pick(S)}]
    BY <1>1 DEF IsSums
<1> DEFINE F == {S \in SUBSET P : g[S] \notin Nat}
<1>3. ASSUME F # {} PROVE FALSE
    <2>1. PICK S \in F : S # {} => S \ {Pick(S)} \notin F
        BY <1>3, FirstFailing
    <2>2. CASE S = {}
        <3>1. g[S] = 0
            BY <1>2, <2>2
        <3>2. 0 \in Nat
            OBVIOUS
        <3> QED
            BY <2>1, <3>1, <3>2
    <2>3. CASE S # {}
        <3>1. Pick(S) \in P /\ S \ {Pick(S)} \in SUBSET P
            BY <2>3, Smaller
        <3>2. f[Pick(S)] \in Nat /\ g[S \ {Pick(S)}] \in Nat
            BY <2>1, <2>3, <3>1
        <3>3. g[S] = f[Pick(S)] + g[S \ {Pick(S)}]
            BY <1>2, <2>3
        <3> QED
            BY <3>2, <3>3
    <2> QED
        BY <2>2, <2>3
<1> QED
    BY <1>2, <1>3

\* Whatever satisfies the equation of the sums is the sums.
LEMMA SumsUnique ==
    ASSUME NEW P, IsFiniteSet(P), NEW f \in [P -> Nat], NEW g, IsSums(f, g, SUBSET P)
    PROVE  g[P] = Sums(f, P)[P]
<1> PICK h : h = Sums(f, P)
    OBVIOUS
<1>1. /\ h[{}] = 0
      /\ \A S \in SUBSET P : S # {} => h[S] = f[Pick(S)] + h[S \ {Pick(S)}]
    BY SumSplits
<1>2. \A S \in SUBSET P : g[S] = IF S = {} THEN 0 ELSE f[Pick(S)] + g[S \ {Pick(S)}]
    BY DEF IsSums
<1> DEFINE F == {S \in SUBSET P : g[S] # h[S]}
<1>3. ASSUME F # {} PROVE FALSE
    <2>1. PICK S \in F : S # {} => S \ {Pick(S)} \notin F
        BY <1>3, FirstFailing
    <2>2. S # {}
        BY <1>1, <1>2, <2>1
    <2>3. S \ {Pick(S)} \in SUBSET P
        BY <2>2, Smaller
    <2>4. g[S \ {Pick(S)}] = h[S \ {Pick(S)}]
        BY <2>1, <2>2, <2>3
    <2> QED
        BY <1>1, <1>2, <2>1, <2>2, <2>4
<1> QED
    BY <1>3

\* When one number changes, the sum changes as it does.
LEMMA OneMoves ==
    ASSUME NEW P, IsFiniteSet(P), NEW f \in [P -> Nat], NEW g \in [P -> Nat], NEW p \in P,
           \A u \in P : u # p => g[u] = f[u]
    PROVE  Sums(g, P)[P] + f[p] = Sums(f, P)[P] + g[p]
<1> PICK h, k : h = Sums(f, P) /\ k = Sums(g, P)
    OBVIOUS
<1>1. \A S \in SUBSET P : h[S] \in Nat /\ k[S] \in Nat
    BY SumSplits
<1>2. \A S \in SUBSET P : S # {} =>
         /\ h[S] = f[Pick(S)] + h[S \ {Pick(S)}]
         /\ k[S] = g[Pick(S)] + k[S \ {Pick(S)}]
    BY SumSplits
<1>3. h[{}] = 0 /\ k[{}] = 0
    BY SumSplits
<1> DEFINE Moved(S) == IF p \in S THEN k[S] + f[p] = h[S] + g[p] ELSE k[S] = h[S]
           F == {S \in SUBSET P : ~ Moved(S)}
<1>4. ASSUME F # {} PROVE FALSE
    <2>1. PICK S \in F : S # {} => S \ {Pick(S)} \notin F
        BY <1>4, FirstFailing
    <2>2. S # {}
        BY <1>3, <2>1
    <2> PICK x, T : x = Pick(S) /\ T = S \ {x}
        OBVIOUS
    <2>3. x \in P /\ x \in S /\ T \in SUBSET P
        BY <2>2, Smaller
    <2>4. Moved(T)
        BY <2>1, <2>2, <2>3
    <2>5. h[T] \in Nat /\ k[T] \in Nat /\ h[S] \in Nat /\ k[S] \in Nat
        BY <1>1, <2>3
    <2>6. h[S] = f[x] + h[T] /\ k[S] = g[x] + k[T]
        BY <1>2, <2>2
    <2>7. CASE x = p
        <3>1. k[T] = h[T]
            BY <2>4, <2>7
        <3>2. k[S] + f[p] = h[S] + g[p]
            BY <2>5, <2>6, <2>7, <3>1
        <3> QED
            BY <2>1, <2>3, <2>7, <3>2
    <2>8. CASE x # p
        <3>1. f[x] \in Nat /\ g[x] = f[x]
            BY <2>3, <2>8
        <3>2. p \in T <=> p \in S
            BY <2>8
        <3>3. CASE p \in S
            <4>1. k[T] + f[p] = h[T] + g[p]
                BY <2>4, <3>2, <3>3
            <4>2. k[S] + f[p] = h[S] + g[p]
                BY <2>5, <2>6, <3>1, <4>1
            <4> QED
                BY <2>1, <3>3, <4>2
        <3>4. CASE p \notin S
            <4>1. k[T] = h[T]
                BY <2>4, <3>2, <3>4
            <4> QED
                BY <2>1, <2>6, <3>1, <3>4, <4>1
        <3> QED
            BY <3>3, <3>4
    <2> QED
        BY <2>7, <2>8
<1>5. Moved(P)
    BY <1>4
<1> QED
    BY <1>5

\* Beside p and q, f and g agree.
SameBut(p, q, P, f, g) ==
    /\ IsFiniteSet(P) /\ f \in [P -> Nat] /\ g \in [P -> Nat] /\ p \in P /\ q \in P /\ p # q
    /\ \A u \in P : u # p /\ u # q => g[u] = f[u]

\* When two change, it changes as they do together.
LEMMA TwoMove ==
    ASSUME NEW P, NEW p, NEW q, NEW f, NEW g, SameBut(p, q, P, f, g)
    PROVE  Sums(g, P)[P] + f[p] + f[q] = Sums(f, P)[P] + g[p] + g[q]
<1>1. /\ IsFiniteSet(P) /\ f \in [P -> Nat] /\ g \in [P -> Nat]
      /\ p \in P /\ q \in P /\ p # q /\ \A u \in P : u # p /\ u # q => g[u] = f[u]
    BY DEF SameBut
<1>0. PICK m : m = [f EXCEPT ![p] = g[p]]
    OBVIOUS
<1>2. /\ m \in [P -> Nat] /\ m[p] = g[p] /\ m[q] = f[q]
      /\ \A u \in P : u # p => m[u] = f[u]
      /\ \A u \in P : u # q => g[u] = m[u]
    BY <1>1, <1>0
<1>3. Sums(m, P)[P] + f[p] = Sums(f, P)[P] + m[p]
    BY <1>1, <1>2, OneMoves
<1>4. Sums(g, P)[P] + m[q] = Sums(m, P)[P] + g[q]
    BY <1>1, <1>2, OneMoves
<1>5. Sums(f, P)[P] \in Nat /\ Sums(g, P)[P] \in Nat /\ Sums(m, P)[P] \in Nat
    BY <1>1, <1>2, SumSplits
<1> QED
    BY <1>1, <1>2, <1>3, <1>4, <1>5

\* The folds of the library that the model sums with.
AcquiredFold(R, g) ==
    g = [S \in SUBSET Positions |->
            IF S = {} THEN 0
            ELSE acquired_amount(R[CHOOSE x \in S : TRUE]) + g[S \ {CHOOSE x \in S : TRUE}]]
HeldFold(R, D, g) ==
    g = [S \in SUBSET D |->
            IF S = {} THEN 0
            ELSE R[CHOOSE x \in S : TRUE].held + g[S \ {CHOOSE x \in S : TRUE}]]

\* A fold of the library is the sum.
LEMMA AcquiredSummed ==
    ASSUME BooksConstants, NEW R, NEW f \in [Positions -> Nat],
           \A p \in Positions : f[p] = acquired_amount(R[p])
    PROVE  (CHOOSE g : AcquiredFold(R, g))[Positions] = Sums(f, Positions)[Positions]
<1>1. ASSUME NEW g PROVE AcquiredFold(R, g) <=> IsSums(f, g, SUBSET Positions)
    <2>1. ASSUME NEW S \in SUBSET Positions, S # {}
          PROVE  acquired_amount(R[CHOOSE x \in S : TRUE]) = f[Pick(S)]
        BY <2>1 DEF Pick
    <2>2. [S \in SUBSET Positions |->
              IF S = {} THEN 0
              ELSE acquired_amount(R[CHOOSE x \in S : TRUE]) + g[S \ {CHOOSE x \in S : TRUE}]]
            = [S \in SUBSET Positions |-> IF S = {} THEN 0 ELSE f[Pick(S)] + g[S \ {Pick(S)}]]
        BY <2>1 DEF Pick
    <2> QED
        BY <2>2 DEF IsSums, AcquiredFold
<1>2. IsFiniteSet(Positions)
    BY DEF BooksConstants
<1>3. AcquiredFold(R, Sums(f, Positions))
    BY <1>1, <1>2, SumsExist
<1>4. IsSums(f, CHOOSE g : AcquiredFold(R, g), SUBSET Positions)
    BY <1>1, <1>3
<1> QED
    BY <1>2, <1>4, SumsUnique

\* So is the fold over what rows hold.
LEMMA HeldSummed ==
    ASSUME NEW D, IsFiniteSet(D), NEW R, NEW f \in [D -> Nat], \A p \in D : f[p] = R[p].held
    PROVE  (CHOOSE g : HeldFold(R, D, g))[D] = Sums(f, D)[D]
<1>1. ASSUME NEW g PROVE HeldFold(R, D, g) <=> IsSums(f, g, SUBSET D)
    <2>1. ASSUME NEW S \in SUBSET D, S # {}
          PROVE  R[CHOOSE x \in S : TRUE].held = f[Pick(S)]
        BY <2>1 DEF Pick
    <2>2. [S \in SUBSET D |->
              IF S = {} THEN 0
              ELSE R[CHOOSE x \in S : TRUE].held + g[S \ {CHOOSE x \in S : TRUE}]]
            = [S \in SUBSET D |-> IF S = {} THEN 0 ELSE f[Pick(S)] + g[S \ {Pick(S)}]]
        BY <2>1 DEF Pick
    <2> QED
        BY <2>2 DEF IsSums, HeldFold
<1>2. HeldFold(R, D, Sums(f, D))
    BY <1>1, SumsExist
<1>3. IsSums(f, CHOOSE g : HeldFold(R, D, g), SUBSET D)
    BY <1>1, <1>2
<1> QED
    BY <1>3, SumsUnique

-----------------------------------------------------------------------------
(* The rules *)

Rows == [st : {"none", "open", "closed"}, entry : BOOLEAN, tok : Nat, held : Nat,
         exited : Nat, synth : BOOLEAN, exit : Nat]

\* What the tokens and the status of a row are.
Is(r, st, held, exited) == r \in Rows /\ r.st = st /\ r.held = held /\ r.exited = exited

\* An assignment to a field of a row.
LEMMA FieldSet ==
    ASSUME NEW r, NEW x, NEW y, NEW z, Is(r, x, y, z),
           NEW n \in Nat, NEW b \in BOOLEAN, NEW c \in {"none", "open", "closed"}
    PROVE  /\ Is([r EXCEPT !.st = c], c, y, z)
           /\ Is([r EXCEPT !.entry = b], x, y, z)
           /\ Is([r EXCEPT !.tok = n], x, y, z)
           /\ Is([r EXCEPT !.held = n], x, n, z)
           /\ Is([r EXCEPT !.exited = n], x, y, n)
           /\ Is([r EXCEPT !.synth = b], x, y, z)
           /\ Is([r EXCEPT !.exit = n], x, y, z)
BY DEF Rows, Is

\* A row is what it is.
LEMMA IsItself ==
    ASSUME NEW r \in Rows
    PROVE  Is(r, r.st, r.held, r.exited)
BY DEF Is

\* The arithmetic of the rules.
LEMMA Difference ==
    ASSUME NEW a \in Nat, NEW b \in Nat
    PROVE  /\ Monus(a, b) \in Nat /\ Monus(a, b) <= a
           /\ Least(a, b) \in Nat /\ Least(a, b) <= a /\ Least(a, b) <= b
           /\ a - Least(a, b) \in Nat /\ b - Least(a, b) \in Nat
BY DEF Monus, Least

\* apply_entry_fill: the row holds the entry's tokens.
LEMMA EntryFilled ==
    ASSUME NEW r \in Rows, NEW n \in Nat
    PROVE  Is(apply_entry_fill(r, n), r.st, n, r.exited)
<1> PICK a : a = [r EXCEPT !.entry = TRUE]
    OBVIOUS
<1> PICK b : b = [a EXCEPT !.tok = n]
    OBVIOUS
<1>1. Is(a, r.st, r.held, r.exited)
    BY IsItself, FieldSet
<1>2. Is(b, r.st, r.held, r.exited)
    BY <1>1, FieldSet
<1>3. Is([b EXCEPT !.held = n], r.st, n, r.exited)
    BY <1>2, FieldSet
<1>4. apply_entry_fill(r, n) = [b EXCEPT !.held = n]
    BY DEF apply_entry_fill
<1> QED
    BY <1>3, <1>4

\* book_acquisition: it holds more by what was bought.
LEMMA Bought ==
    ASSUME NEW r \in Rows, NEW n \in Nat
    PROVE  Is(book_acquisition(r, n), r.st, r.held + n, r.exited)
<1>1. r.held + n \in Nat
    BY DEF Rows
<1> QED
    BY <1>1, IsItself, FieldSet DEF book_acquisition

\* book_exit: what is sold moves from held to exited, and no more than is held leaves.
LEMMA Sold ==
    ASSUME NEW r \in Rows, NEW n \in Nat
    PROVE  Is(book_exit(r, n), r.st, Monus(r.held, n), r.exited + n)
<1> PICK a : a = [r EXCEPT !.held = Monus(@, n)]
    OBVIOUS
<1>1. Monus(r.held, n) \in Nat /\ r.exited + n \in Nat
    BY Difference DEF Rows
<1>2. Is(a, r.st, Monus(r.held, n), r.exited)
    BY <1>1, IsItself, FieldSet
<1>3. Is([a EXCEPT !.exited = r.exited + n], r.st, Monus(r.held, n), r.exited + n)
    BY <1>1, <1>2, FieldSet
<1>4. book_exit(r, n) = [a EXCEPT !.exited = r.exited + n]
    BY DEF book_exit
<1> QED
    BY <1>3, <1>4

\* book_remaining_as_exited: nothing is held, and what was acquired is kept.
LEMMA RestExited ==
    ASSUME NEW r \in Rows
    PROVE  Is(book_remaining_as_exited(r), r.st, 0, r.exited + r.held)
<1> PICK a : a = [r EXCEPT !.held = 0]
    OBVIOUS
<1>1. r.exited + r.held \in Nat
    BY DEF Rows
<1>2. Is(a, r.st, 0, r.exited)
    <2>1. Is(r, r.st, r.held, r.exited) /\ 0 \in Nat
        BY IsItself
    <2> QED
        BY <2>1, FieldSet, Zenon
<1>3. Is([a EXCEPT !.exited = r.exited + r.held], r.st, 0, r.exited + r.held)
    BY <1>1, <1>2, FieldSet, ZenonT(30)
<1>4. book_remaining_as_exited(r) = [a EXCEPT !.exited = r.exited + r.held]
    BY DEF book_remaining_as_exited
<1> QED
    BY <1>3, <1>4

\* absorb_unbooked_sale: the row stays what it is, and may hold more.
LEMMA Absorbed ==
    ASSUME NEW r \in Rows, NEW n \in Nat
    PROVE  absorb_unbooked_sale(r, n) \in Rows /\ absorb_unbooked_sale(r, n).st = r.st
<1>1. Monus(n, r.held) \in Nat
    BY Difference DEF Rows
<1> QED
    BY <1>1, Bought DEF absorb_unbooked_sale, Is

\* A row that follows its round keeps what it acquired, and holds nothing if it stays closed.
LEMMA Followed ==
    ASSUME NEW r \in Rows, NEW n \in Nat
    PROVE  /\ follow_round(r, n) \in Rows
           /\ acquired_amount(follow_round(r, n)) = acquired_amount(r)
           /\ IF is_dust(n, acquired_amount(r))
              THEN follow_round(r, n).st = r.st /\ follow_round(r, n).held = 0
              ELSE follow_round(r, n).st = "open"
<1> PICK q : q = acquired_amount(r)
    OBVIOUS
<1>1. q \in Nat
    BY DEF acquired_amount, Rows
<1>2. CASE is_dust(n, q)
    <2> PICK a : a = [r EXCEPT !.held = 0]
        OBVIOUS
    <2>1. Is(a, r.st, 0, r.exited)
        BY IsItself, FieldSet
    <2>2. Is([a EXCEPT !.exited = q], r.st, 0, q)
        BY <1>1, <2>1, FieldSet
    <2>3. follow_round(r, n) = [a EXCEPT !.exited = q]
        BY <1>2 DEF follow_round
    <2>4. acquired_amount(follow_round(r, n)) = q
        BY <1>1, <2>2, <2>3 DEF Is, acquired_amount
    <2> QED
        BY <1>2, <2>2, <2>3, <2>4 DEF Is
<1>3. CASE ~ is_dust(n, q)
    <2> PICK h : h = Least(n, q)
        OBVIOUS
    <2>1. h \in Nat /\ q - h \in Nat /\ h + (q - h) = q
        BY <1>1, Difference
    <2> PICK a : a = [r EXCEPT !.st = "open"]
        OBVIOUS
    <2> PICK b : b = [a EXCEPT !.held = h]
        OBVIOUS
    <2> PICK c : c = [b EXCEPT !.exited = q - h]
        OBVIOUS
    <2> PICK d : d = [c EXCEPT !.synth = FALSE]
        OBVIOUS
    <2> PICK e : e = [d EXCEPT !.exit = 0]
        OBVIOUS
    <2>2. Is(a, "open", r.held, r.exited)
        BY IsItself, FieldSet
    <2>3. Is(b, "open", h, r.exited)
        BY <2>1, <2>2, FieldSet
    <2>4. Is(c, "open", h, q - h)
        BY <2>1, <2>3, FieldSet
    <2>5. Is(d, "open", h, q - h)
        BY <2>4, FieldSet
    <2>6. Is(e, "open", h, q - h)
        BY <2>5, FieldSet
    <2>7. follow_round(r, n) = e
        BY <1>3 DEF follow_round, clear_close
    <2>8. acquired_amount(e) = q
        BY <2>1, <2>6 DEF Is, acquired_amount
    <2> QED
        BY <1>3, <2>6, <2>7, <2>8 DEF Is
<1> QED
    BY <1>2, <1>3

\* What a handover comes to: the row stays as it is and holds nothing, and what it acquired and
\* what left it add up to total.
Splits(out, r, total) ==
    /\ out.row \in Rows /\ out.row.st = r.st /\ out.row.held = 0
    /\ out.tokens \in Nat /\ acquired_amount(out.row) + out.tokens = total

\* A row kept with n exited, and m tokens leaving it, come to n + m.
LEMMA KeptSplits ==
    ASSUME NEW r \in Rows, NEW n \in Nat, NEW m \in Nat
    PROVE  Splits(Kept(r, n, m), r, n + m)
<1> PICK a : a = [r EXCEPT !.held = 0]
    OBVIOUS
<1> PICK b : b = [a EXCEPT !.exited = n]
    OBVIOUS
<1>1. Is(a, r.st, 0, r.exited)
    BY IsItself, FieldSet
<1>2. Is(b, r.st, 0, n)
    BY <1>1, FieldSet
<1>3. Kept(r, n, m).row = b /\ Kept(r, n, m).tokens = m
    BY DEF Kept
<1>4. b \in Rows /\ b.st = r.st /\ b.held = 0 /\ b.exited = n
    BY <1>2 DEF Is
<1>5. acquired_amount(b) + m = n + m
    BY <1>4 DEF acquired_amount
<1> QED
    BY <1>3, <1>4, <1>5 DEF Splits

\* hand_over_round: the row and the tokens that leave it come to what it had acquired.
LEMMA RoundHandedOver ==
    ASSUME NEW r \in Rows, NEW n \in Nat
    PROVE  Splits(hand_over_round(r, n), r, acquired_amount(r))
<1> PICK q : q = acquired_amount(r)
    OBVIOUS
<1>1. q \in Nat
    BY DEF acquired_amount, Rows
<1>2. CASE is_dust(n, q)
    <2> PICK f : f = follow_round(r, n)
        OBVIOUS
    <2>1. f \in Rows /\ acquired_amount(f) = q /\ f.st = r.st /\ f.held = 0
        BY <1>2, Followed
    <2>2. hand_over_round(r, n) = [row |-> f, tokens |-> 0]
        BY <1>2 DEF hand_over_round
    <2> QED
        BY <1>1, <2>1, <2>2 DEF Splits
<1>3. CASE ~ is_dust(n, q)
    <2> PICK h : h = Least(n, q)
        OBVIOUS
    <2>1. h \in Nat /\ q - h \in Nat /\ (q - h) + h = q
        BY <1>1, Difference
    <2>2. hand_over_round(r, n) = Kept(r, q - h, h)
        BY <1>3 DEF hand_over_round
    <2> QED
        BY <2>1, <2>2, KeptSplits
<1> QED
    BY <1>2, <1>3

\* hand_over_leg: they come to that and the whole buy.
LEMMA LegHandedOver ==
    ASSUME NEW r \in Rows, NEW n \in Nat, NEW b \in Nat
    PROVE  Splits(hand_over_leg(r, b, n), r, acquired_amount(r) + b)
<1> PICK q : q = acquired_amount(r)
    OBVIOUS
<1>1. q \in Nat /\ q + b \in Nat
    BY DEF acquired_amount, Rows
<1>2. CASE is_dust(n, q + b)
    <2> PICK a : a = book_acquisition(r, b)
        OBVIOUS
    <2> PICK f : f = follow_round(a, n)
        OBVIOUS
    <2>1. a \in Rows /\ a.st = r.st /\ acquired_amount(a) = q + b
        <3>1. a \in Rows /\ a.st = r.st /\ a.held = r.held + b /\ a.exited = r.exited
            BY Bought DEF Is
        <3>2. r.held \in Nat /\ r.exited \in Nat
            BY DEF Rows
        <3> QED
            BY <3>1, <3>2 DEF acquired_amount
    <2>2. f \in Rows /\ acquired_amount(f) = q + b /\ f.st = r.st /\ f.held = 0
        BY <1>2, <2>1, Followed
    <2>3. hand_over_leg(r, b, n) = [row |-> f, tokens |-> 0]
        BY <1>2 DEF hand_over_leg
    <2> QED
        BY <1>1, <2>2, <2>3 DEF Splits
<1>3. CASE ~ is_dust(n, q + b)
    <2> PICK h, l : h = Least(n, q + b) /\ l = Least(h, b)
        OBVIOUS
    <2>1. h \in Nat /\ h <= q + b
        BY <1>1, Difference
    <2>2. l \in Nat /\ b - l \in Nat /\ h - l \in Nat /\ h - l <= q
        BY <1>1, <2>1 DEF Least
    <2>3. Monus(q, h - l) = q - (h - l)
        BY <1>1, <2>2 DEF Monus
    <2>4. Monus(q, h - l) + (b - l) \in Nat /\ (Monus(q, h - l) + (b - l)) + h = q + b
        BY <1>1, <2>1, <2>2, <2>3
    <2>5. hand_over_leg(r, b, n) = Kept(r, Monus(q, h - l) + (b - l), h)
        BY <1>3 DEF hand_over_leg
    <2> QED
        BY <2>1, <2>4, <2>5, KeptSplits
<1> QED
    BY <1>2, <1>3

\* clear_exit_for_retry leaves the tokens and the status alone.
LEMMA ExitCleared ==
    ASSUME NEW r \in Rows, NEW s
    PROVE  Is(clear_exit_for_retry(r, s), r.st, r.held, r.exited)
BY IsItself, FieldSet DEF clear_exit_for_retry

-----------------------------------------------------------------------------
(* The state *)

Swaps == [kind : Buys \union Sales, pos : Positions, amount : Nat, st : {"sent", "landed", "settled"}]

\* Amounts are numbers, and a closed row holds nothing.
RowsInv ==
    /\ rows \in [Positions -> Rows]
    /\ \A p \in Positions : rows[p].st = "closed" => rows[p].held = 0

\* The verification in hand is of a swap, and a residual is of a full exit.
SwapsInv ==
    /\ swaps \in Seq(Swaps) /\ wallet \in Nat
    /\ item \in [sig : Nat, held : Nat, residual : BOOLEAN]
    /\ item.residual => item.sig \in Sigs /\ swaps[item.sig].kind = "exit"

Inv == RowsInv /\ SwapsInv

\* What the rows acquired together, as a sum of numbers.
Sum(f) == Sums(f, Positions)[Positions]
AcquiredIs(R, f) ==
    /\ f \in [Positions -> Nat] /\ Sum(f) \in Nat
    /\ \A u \in Positions : f[u] = acquired_amount(R[u])
    /\ (CHOOSE h : AcquiredFold(R, h))[Positions] = Sum(f)

\* The rows have such numbers.
LEMMA AcquiredTyped ==
    ASSUME BooksConstants, NEW R \in [Positions -> Rows]
    PROVE  \E f : AcquiredIs(R, f)
<1>1. PICK f : f = [u \in Positions |-> acquired_amount(R[u])]
    OBVIOUS
<1>2. ASSUME NEW x \in Rows PROVE acquired_amount(x) \in Nat
    BY DEF Rows, acquired_amount
<1>3. f \in [Positions -> Nat] /\ \A u \in Positions : f[u] = acquired_amount(R[u])
    BY <1>1, <1>2
<1>4. (CHOOSE h : AcquiredFold(R, h))[Positions] = Sum(f)
    BY <1>3, AcquiredSummed DEF Sum
<1>5. IsFiniteSet(Positions)
    BY DEF BooksConstants
<1>6. Sum(f) \in Nat
    BY <1>3, <1>5, SumSplits DEF Sum
<1> QED
    BY <1>3, <1>4, <1>6 DEF AcquiredIs

\* What it is before and after a step.
LEMMA AcquiredFolds ==
    ASSUME NEW R, NEW Q, R = rows, Q = rows'
    PROVE  /\ Acquired = (CHOOSE h : AcquiredFold(R, h))[Positions]
           /\ Acquired' = (CHOOSE h : AcquiredFold(Q, h))[Positions]
<1>1. Acquired = (CHOOSE h : AcquiredFold(rows, h))[Positions]
    BY Zenon DEF Acquired, MapThenSumSet, MapThenFoldSet, AcquiredFold
<1>2. Acquired' = (CHOOSE h : AcquiredFold(rows', h))[Positions]
    BY Zenon DEF Acquired, MapThenSumSet, MapThenFoldSet, AcquiredFold
<1> QED
    BY <1>1, <1>2, Zenon

\* An assignment to one row.
LEMMA RowAssigned ==
    ASSUME BooksConstants, RowsInv, NEW p \in Positions, NEW r \in Rows, rows' = [rows EXCEPT ![p] = r]
    PROVE  /\ (r.st = "closed" => r.held = 0) => RowsInv'
           /\ Acquired \in Nat /\ Acquired' \in Nat
           /\ Acquired' + acquired_amount(rows[p]) = Acquired + acquired_amount(r)
<1>0. PICK R, Q : R = rows /\ Q = rows'
    OBVIOUS
<1>1. /\ R \in [Positions -> Rows] /\ Q \in [Positions -> Rows]
      /\ Q[p] = r /\ \A u \in Positions : u # p => Q[u] = R[u]
    BY <1>0 DEF RowsInv
<1>2. (r.st = "closed" => r.held = 0) => RowsInv'
    BY <1>0, <1>1 DEF RowsInv
<1>3. PICK f : AcquiredIs(R, f)
    BY <1>1, AcquiredTyped
<1>4. PICK g : AcquiredIs(Q, g)
    BY <1>1, AcquiredTyped
<1>5. Acquired = Sum(f) /\ Acquired' = Sum(g)
    BY <1>0, <1>3, <1>4, AcquiredFolds DEF AcquiredIs
<1>6. /\ f \in [Positions -> Nat] /\ g \in [Positions -> Nat]
      /\ \A u \in Positions : f[u] = acquired_amount(R[u]) /\ g[u] = acquired_amount(Q[u])
      /\ \A u \in Positions : u # p => g[u] = f[u]
    BY <1>1, <1>3, <1>4 DEF AcquiredIs
<1>7. IsFiniteSet(Positions)
    BY DEF BooksConstants
<1>8. \A u \in Positions : u # p => g[u] = f[u]
    BY <1>6
<1>9. f \in [Positions -> Nat] /\ g \in [Positions -> Nat]
    BY <1>6
<1>10. Sums(g, Positions)[Positions] + f[p] = Sums(f, Positions)[Positions] + g[p]
    BY <1>7, <1>8, <1>9, OneMoves
<1>11. Sum(g) + f[p] = Sum(f) + g[p]
    BY <1>10 DEF Sum
<1> QED
    BY <1>0, <1>1, <1>2, <1>3, <1>4, <1>5, <1>6, <1>11 DEF AcquiredIs

\* An assignment to two rows.
AcquiredMoves(p, r, q, z) ==
    Acquired' + acquired_amount(rows[p]) + acquired_amount(rows[q])
        = Acquired + acquired_amount(r) + acquired_amount(z)

\* The rows stay in order, and the sum moves as the two rows do.
LEMMA RowsAssigned ==
    ASSUME BooksConstants, RowsInv, NEW p \in Positions, NEW r \in Rows, NEW q \in Positions, p # q,
           NEW z \in Rows, rows' = [rows EXCEPT ![p] = r, ![q] = z]
    PROVE  /\ (r.st = "closed" => r.held = 0) /\ (z.st = "closed" => z.held = 0) => RowsInv'
           /\ Acquired \in Nat /\ Acquired' \in Nat
           /\ AcquiredMoves(p, r, q, z)
<1>0. PICK R, Q : R = rows /\ Q = rows'
    OBVIOUS
<1>1. /\ R \in [Positions -> Rows] /\ Q \in [Positions -> Rows] /\ Q[p] = r /\ Q[q] = z
      /\ \A u \in Positions : u \notin {p, q} => Q[u] = R[u]
    BY <1>0 DEF RowsInv
<1>2. (r.st = "closed" => r.held = 0) /\ (z.st = "closed" => z.held = 0) => RowsInv'
    BY <1>0, <1>1 DEF RowsInv
<1>3. PICK f : AcquiredIs(R, f)
    BY <1>1, AcquiredTyped
<1>4. PICK g : AcquiredIs(Q, g)
    BY <1>1, AcquiredTyped
<1>5. Acquired = Sum(f) /\ Acquired' = Sum(g)
    BY <1>0, <1>3, <1>4, AcquiredFolds DEF AcquiredIs
<1>6. /\ f \in [Positions -> Nat] /\ g \in [Positions -> Nat]
      /\ \A u \in Positions : f[u] = acquired_amount(R[u]) /\ g[u] = acquired_amount(Q[u])
      /\ \A u \in Positions : u \notin {p, q} => g[u] = f[u]
    BY <1>1, <1>3, <1>4 DEF AcquiredIs
<1>7. IsFiniteSet(Positions)
    BY DEF BooksConstants
<1>8. SameBut(p, q, Positions, f, g)
    BY <1>6, <1>7 DEF SameBut
<1>9. f \in [Positions -> Nat] /\ g \in [Positions -> Nat]
    BY <1>6
<1>10. Sums(g, Positions)[Positions] + f[p] + f[q] = Sums(f, Positions)[Positions] + g[p] + g[q]
    BY <1>8, TwoMove
<1>11. Sum(g) + f[p] + f[q] = Sum(f) + g[p] + g[q]
    BY <1>10 DEF Sum
<1> QED
    BY <1>0, <1>1, <1>2, <1>3, <1>4, <1>5, <1>6, <1>11 DEF AcquiredIs, AcquiredMoves

\* What the other open rows hold is a number.
LEMMA OtherHeldTyped ==
    ASSUME BooksConstants, RowsInv, NEW p
    PROVE  other_open_held(p) \in Nat
<1>0. PICK D, R : D = Beside(p) /\ R = rows
    OBVIOUS
<1>1. D \subseteq Positions /\ IsFiniteSet(D)
    BY <1>0, FS_Subset DEF BooksConstants, Beside, OpenRows
<1>2. PICK f : f = [u \in D |-> R[u].held]
    OBVIOUS
<1>3. f \in [D -> Nat] /\ \A u \in D : f[u] = R[u].held
    BY <1>0, <1>1, <1>2 DEF RowsInv, Rows
<1>4. other_open_held(p) = (CHOOSE h : HeldFold(rows, Beside(p), h))[Beside(p)]
    BY Zenon DEF other_open_held, MapThenSumSet, MapThenFoldSet, HeldFold
<1>5. other_open_held(p) = (CHOOSE h : HeldFold(R, D, h))[D]
    BY <1>0, <1>4, Zenon
<1>6. (CHOOSE h : HeldFold(R, D, h))[D] = Sums(f, D)[D]
    BY <1>1, <1>3, HeldSummed
<1>7. Sums(f, D)[D] \in Nat
    BY <1>1, <1>3, SumSplits
<1> QED
    BY <1>5, <1>6, <1>7

\* late_fill_holding is a number.
LEMMA LateHoldingTyped ==
    ASSUME BooksConstants, RowsInv, SwapsInv, NEW p, NEW r \in Rows, NEW n \in Nat
    PROVE  LateHolding(p, r, n) \in Nat
<1>1. item.held \in Nat /\ other_open_held(p) \in Nat
    BY OtherHeldTyped DEF SwapsInv
<1>2. acquired_amount(r) + n \in Nat
    BY DEF acquired_amount, Rows
<1>3. Monus(item.held, other_open_held(p)) \in Nat
    BY <1>1, Difference
<1> QED
    BY <1>2, <1>3, Difference DEF LateHolding, attributable_held


\* What a row acquired is a number.
LEMMA AcquiredNat ==
    ASSUME NEW r \in Rows
    PROVE  acquired_amount(r) \in Nat
BY DEF acquired_amount, Rows

-----------------------------------------------------------------------------
(* The late fills *)

\* A booking leaves the rows in order, and what row p had acquired becomes total, here or on
\* the open row.
Becomes(p, total) ==
    /\ RowsInv'
    /\ Acquired \in Nat /\ Acquired' \in Nat
    /\ Acquired' + acquired_amount(rows[p]) = Acquired + total

\* A booking on one row comes to what that row has acquired then.
LEMMA OneRowBooked ==
    ASSUME BooksConstants, RowsInv, NEW p \in Positions, NEW r \in Rows, NEW s, OnRow(p, s, r),
           r.st = "closed" => r.held = 0
    PROVE  Becomes(p, acquired_amount(r))
BY RowAssigned DEF OnRow, Becomes

\* A handover comes to what its parts come to: what leaves row p is on the open row.
LEMMA HandedOver ==
    ASSUME BooksConstants, RowsInv, NEW p \in Positions, Beside(p) # {}, NEW s, NEW b, NEW r,
           NEW out, NEW total, Splits(out, r, total), HandOver(p, s, out, b)
    PROVE  Becomes(p, total)
<1> PICK q, z : q = (CHOOSE u \in Beside(p) : TRUE) /\ z = book_acquisition(rows[q], out.tokens)
    OBVIOUS
<1>1. q \in Positions /\ q # p /\ rows[q].st = "open" /\ rows[q] \in Rows
    BY DEF Beside, OpenRows, RowsInv
<1>2. rows' = [rows EXCEPT ![p] = out.row, ![q] = z]
    BY <1>1 DEF HandOver
<1>3. out.row \in Rows /\ out.row.held = 0 /\ out.tokens \in Nat
      /\ acquired_amount(out.row) + out.tokens = total
    BY DEF Splits
<1>4. Is(z, "open", rows[q].held + out.tokens, rows[q].exited)
    BY <1>1, <1>3, Bought
<1>5. z \in Rows /\ z.st = "open" /\ acquired_amount(z) = acquired_amount(rows[q]) + out.tokens
    BY <1>1, <1>3, <1>4 DEF Is, acquired_amount, Rows
<1>6. RowsInv' /\ Acquired \in Nat /\ Acquired' \in Nat
    BY <1>1, <1>2, <1>3, <1>5, RowsAssigned
<1>7. AcquiredMoves(p, out.row, q, z)
    BY <1>1, <1>2, <1>3, <1>5, RowsAssigned
<1>8. rows[p] \in Rows
    BY DEF RowsInv
<1>9. acquired_amount(rows[p]) \in Nat /\ acquired_amount(rows[q]) \in Nat
      /\ acquired_amount(out.row) \in Nat
    BY <1>1, <1>3, <1>8, AcquiredNat
<1>10. Acquired' + acquired_amount(rows[p]) = Acquired + total
    BY <1>3, <1>5, <1>6, <1>7, <1>9 DEF AcquiredMoves
<1> QED
    BY <1>6, <1>10 DEF Becomes

\* A row that follows its round, or hands it over, comes to what it was given.
LEMMA LateFilled ==
    ASSUME BooksConstants, RowsInv, SwapsInv, NEW p \in Positions, NEW s, NEW r \in Rows,
           r.st = "closed", LateFill(p, s, r)
    PROVE  Becomes(p, acquired_amount(r))
<1> PICK h : h = LateHolding(p, r, 0)
    OBVIOUS
<1>1. h \in Nat
    BY LateHoldingTyped
<1>2. CASE Beside(p) = {}
    <2> PICK f : f = follow_round(r, h)
        OBVIOUS
    <2>1. f \in Rows /\ acquired_amount(f) = acquired_amount(r) /\ (f.st = "closed" => f.held = 0)
        BY <1>1, Followed
    <2>2. OnRow(p, s, f)
        BY <1>2 DEF LateFill, OnRow
    <2>3. Becomes(p, acquired_amount(f))
        BY <2>1, <2>2, OneRowBooked
    <2> QED
        BY <2>1, <2>3
<1>3. CASE Beside(p) # {}
    <2> PICK out : out = hand_over_round(r, h)
        OBVIOUS
    <2>1. Splits(out, r, acquired_amount(r))
        BY <1>1, RoundHandedOver
    <2>2. HandOver(p, s, out, TRUE)
        BY <1>3 DEF LateFill
    <2> QED
        BY <1>3, <2>1, <2>2, HandedOver
<1> QED
    BY <1>2, <1>3

\* A late buy comes to what the row had acquired and what it brought.
LEMMA LateBought ==
    ASSUME BooksConstants, RowsInv, SwapsInv, NEW s \in Sigs, swaps[s] \in Swaps,
           NEW p \in Positions, rows[p].st = "closed", LateDca(p, s)
    PROVE  Becomes(p, acquired_amount(rows[p]) + swaps[s].amount)
<1> PICK r, n : r = rows[p] /\ n = swaps[s].amount
    OBVIOUS
<1> PICK h : h = LateHolding(p, r, n)
    OBVIOUS
<1>1. r \in Rows /\ r.st = "closed" /\ n \in Nat
    BY DEF RowsInv, Swaps
<1>2. h \in Nat
    BY <1>1, LateHoldingTyped
<1>3. CASE Beside(p) = {}
    <2> PICK a : a = book_acquisition(r, n)
        OBVIOUS
    <2> PICK f : f = follow_round(a, h)
        OBVIOUS
    <2>1. a \in Rows /\ a.st = "closed" /\ a.held = r.held + n /\ a.exited = r.exited
        BY <1>1, Bought DEF Is
    <2>2. acquired_amount(a) = acquired_amount(r) + n
        BY <1>1, <2>1 DEF acquired_amount, Rows
    <2>3. f \in Rows /\ acquired_amount(f) = acquired_amount(a) /\ (f.st = "closed" => f.held = 0)
        BY <1>2, <2>1, Followed
    <2>4. OnRow(p, s, f)
        BY <1>3 DEF LateDca, OnRow
    <2>5. Becomes(p, acquired_amount(f))
        BY <2>3, <2>4, OneRowBooked
    <2> QED
        BY <2>2, <2>3, <2>5
<1>4. CASE Beside(p) # {}
    <2> PICK out : out = hand_over_leg(r, n, h)
        OBVIOUS
    <2>1. Splits(out, r, acquired_amount(r) + n)
        BY <1>1, <1>2, LegHandedOver
    <2>2. HandOver(p, s, out, out.tokens < n)
        BY <1>4 DEF LateDca
    <2> QED
        BY <1>4, <2>1, <2>2, HandedOver
<1> QED
    BY <1>3, <1>4

-----------------------------------------------------------------------------
(* The bookings *)

\* What a late fill of swap s adds to what the rows acquired together.
Brings(s) ==
    IF swaps[s].kind = "dca" THEN swaps[s].amount
    ELSE IF swaps[s].kind = "entry" THEN EntryTokens(s) ELSE 0

Conserved(s) ==
    rows[swaps[s].pos].st = "closed" /\ records' # records => Acquired' = Acquired + Brings(s)

\* What is known of a swap and its row.
LEMMA SwapFacts ==
    ASSUME RowsInv, SwapsInv, NEW s \in Sigs
    PROVE  /\ swaps[s] \in Swaps /\ swaps[s].pos \in Positions /\ swaps[s].amount \in Nat
           /\ rows[swaps[s].pos] \in Rows /\ acquired_amount(rows[swaps[s].pos]) \in Nat
           /\ rows[swaps[s].pos].st = "closed" => rows[swaps[s].pos].held = 0
<1>1. swaps[s] \in Swaps
    BY ElementOfSeq DEF SwapsInv, Sigs
<1>2. swaps[s].pos \in Positions /\ swaps[s].amount \in Nat
    BY <1>1 DEF Swaps
<1>3. rows[swaps[s].pos] \in Rows
    BY <1>2 DEF RowsInv
<1> QED
    BY <1>1, <1>2, <1>3, AcquiredNat DEF RowsInv

\* A booking of the late fill brings what it brings.
LEMMA BecomesConserves ==
    ASSUME RowsInv, SwapsInv, NEW s \in Sigs, NEW total,
           total = acquired_amount(rows[swaps[s].pos]) + Brings(s), Brings(s) \in Nat,
           Becomes(swaps[s].pos, total)
    PROVE  RowsInv' /\ Conserved(s)
<1>1. acquired_amount(rows[swaps[s].pos]) \in Nat
    BY SwapFacts
<1> QED
    BY <1>1 DEF Becomes, Conserved

\* What an entry counts is a number, and no more than it bought.
LEMMA EntryCounts ==
    ASSUME SwapsInv, NEW s \in Sigs
    PROVE  EntryTokens(s) \in Nat /\ EntryTokens(s) <= swaps[s].amount
<1>1. PICK h, a : h = item.held /\ a = swaps[s].amount
    OBVIOUS
<1>2. h \in Nat /\ a \in Nat
    <2>1. swaps[s] \in Swaps
        BY ElementOfSeq DEF SwapsInv, Sigs
    <2> QED
        BY <1>1, <2>1 DEF Swaps, SwapsInv
<1>3. EntryTokens(s) = IF h > 0 THEN Least(h, a) ELSE a
    BY <1>1 DEF EntryTokens
<1>4. Least(h, a) \in Nat /\ Least(h, a) <= a /\ a <= a
    BY <1>2 DEF Least
<1> QED
    BY <1>1, <1>2, <1>3, <1>4

\* EntryVerified conserves.
LEMMA EntryBooked ==
    ASSUME BooksConstants, RowsInv, SwapsInv, NEW s \in Sigs, BookEntry(s)
    PROVE  RowsInv' /\ Conserved(s)
<1> PICK p, n : p = swaps[s].pos /\ n = EntryTokens(s)
    OBVIOUS
<1> PICK r : r = apply_entry_fill(rows[p], n)
    OBVIOUS
<1>1. p \in Positions /\ rows[p] \in Rows /\ (rows[p].st = "closed" => rows[p].held = 0)
    BY SwapFacts
<1>2. n \in Nat
    BY EntryCounts
<1>3. Is(r, rows[p].st, n, rows[p].exited)
    BY <1>1, <1>2, EntryFilled
<1>4. r \in Rows /\ r.st = rows[p].st /\ acquired_amount(r) = n + rows[p].exited
    BY <1>3 DEF Is, acquired_amount
<1>5. CASE rows[p].entry \/ <<p, s>> \in records
    BY <1>5 DEF BookEntry, RowsInv, Conserved
<1>6. CASE ~ (rows[p].entry \/ <<p, s>> \in records) /\ rows[p].st = "closed"
    <2>1. LateFill(p, s, r)
        BY <1>6 DEF BookEntry
    <2>2. Becomes(p, acquired_amount(r))
        BY <1>1, <1>4, <1>6, <2>1, LateFilled
    <2>3. Brings(s) = n
        BY DEF BookEntry, Brings
    <2>4. acquired_amount(r) = acquired_amount(rows[p]) + n
        BY <1>1, <1>2, <1>4, <1>6 DEF acquired_amount, Rows
    <2> QED
        BY <1>2, <2>2, <2>3, <2>4, BecomesConserves
<1>7. CASE ~ (rows[p].entry \/ <<p, s>> \in records) /\ rows[p].st # "closed"
    <2>1. OnRow(p, s, r)
        BY <1>7 DEF BookEntry
    <2>2. Becomes(p, acquired_amount(r))
        BY <1>1, <1>4, <1>7, <2>1, OneRowBooked
    <2> QED
        BY <1>7, <2>2 DEF Becomes, Conserved
<1> QED
    BY <1>5, <1>6, <1>7

\* DcaVerified conserves.
LEMMA AddBooked ==
    ASSUME BooksConstants, RowsInv, SwapsInv, NEW s \in Sigs, BookAdd(s)
    PROVE  RowsInv' /\ Conserved(s)
<1> PICK p, n : p = swaps[s].pos /\ n = swaps[s].amount
    OBVIOUS
<1>1. p \in Positions /\ rows[p] \in Rows /\ n \in Nat /\ swaps[s] \in Swaps
    BY SwapFacts
<1>2. CASE entry_recorded_for_mint(p, s)
    BY <1>2 DEF BookAdd, RowsInv, Conserved
<1>3. CASE ~ entry_recorded_for_mint(p, s) /\ rows[p].st = "closed"
    <2>1. LateDca(p, s)
        BY <1>3 DEF BookAdd
    <2>2. Becomes(p, acquired_amount(rows[p]) + n)
        BY <1>1, <1>3, <2>1, LateBought
    <2>3. Brings(s) = n
        BY DEF BookAdd, Brings
    <2> QED
        BY <1>1, <2>2, <2>3, BecomesConserves
<1>4. CASE ~ entry_recorded_for_mint(p, s) /\ rows[p].st # "closed"
    <2> PICK r : r = book_acquisition(rows[p], n)
        OBVIOUS
    <2>1. r \in Rows /\ r.st # "closed"
        BY <1>1, <1>4, Bought DEF Is
    <2>2. OnRow(p, s, r)
        BY <1>4 DEF BookAdd
    <2>3. Becomes(p, acquired_amount(r))
        BY <1>1, <2>1, <2>2, OneRowBooked
    <2> QED
        BY <1>4, <2>3 DEF Becomes, Conserved
<1> QED
    BY <1>2, <1>3, <1>4

\* PartialExitVerified conserves.
LEMMA PartialBooked ==
    ASSUME BooksConstants, RowsInv, SwapsInv, NEW s \in Sigs, BookPartial(s)
    PROVE  RowsInv' /\ Conserved(s)
<1> PICK p, n : p = swaps[s].pos /\ n = swaps[s].amount
    OBVIOUS
<1>1. p \in Positions /\ rows[p] \in Rows /\ n \in Nat /\ acquired_amount(rows[p]) \in Nat
    BY SwapFacts
<1>2. CASE <<p, s>> \in records
    BY <1>2 DEF BookPartial, RowsInv, Conserved
<1>3. CASE <<p, s>> \notin records /\ rows[p].st = "closed"
    <2>1. LateFill(p, s, rows[p])
        BY <1>3 DEF BookPartial
    <2>2. Becomes(p, acquired_amount(rows[p]))
        BY <1>1, <1>3, <2>1, LateFilled
    <2>3. Brings(s) = 0
        BY DEF BookPartial, Brings
    <2> QED
        BY <1>1, <2>2, <2>3, BecomesConserves
<1>4. CASE <<p, s>> \notin records /\ rows[p].st # "closed"
    <2> PICK r : r = book_exit(rows[p], n)
        OBVIOUS
    <2>1. r \in Rows /\ r.st # "closed"
        BY <1>1, <1>4, Sold DEF Is
    <2>2. OnRow(p, s, r)
        BY <1>4 DEF BookPartial
    <2>3. Becomes(p, acquired_amount(r))
        BY <1>1, <2>1, <2>2, OneRowBooked
    <2> QED
        BY <1>4, <2>3 DEF Becomes, Conserved
<1> QED
    BY <1>2, <1>3, <1>4

\* Swaps are numbered.
LEMMA SigsAreNumbers ==
    ASSUME SwapsInv
    PROVE  Sigs \subseteq Nat
BY LenProperties DEF SwapsInv, Sigs

\* ExitVerified conserves.
LEMMA ExitBooked ==
    ASSUME BooksConstants, RowsInv, SwapsInv, NEW s \in Sigs, BookExit(s)
    PROVE  RowsInv' /\ Conserved(s)
<1> PICK p, n, r : p = swaps[s].pos /\ n = swaps[s].amount /\ r = rows[p]
    OBVIOUS
<1>1. p \in Positions /\ r \in Rows /\ n \in Nat /\ acquired_amount(r) \in Nat /\ s \in Nat
    BY SwapFacts, SigsAreNumbers
<1> DEFINE Done == <<p, s>> \in records \/ (r.st = "closed" /\ ~ r.synth /\ r.exit = s)
<1>2. CASE Done
    BY <1>2 DEF BookExit, RowsInv, Conserved
<1>3. CASE ~ Done /\ r.st = "closed"
    <2> PICK x : x = IF r.synth THEN s ELSE r.exit
        OBVIOUS
    <2> PICK a : a = [r EXCEPT !.synth = FALSE]
        OBVIOUS
    <2> PICK b : b = [a EXCEPT !.exit = x]
        OBVIOUS
    <2>1. x \in Nat
        BY <1>1 DEF Rows
    <2>2. Is(a, r.st, r.held, r.exited)
        BY <1>1, IsItself, FieldSet
    <2>3. Is(b, r.st, r.held, r.exited)
        BY <2>1, <2>2, FieldSet
    <2>4. b \in Rows /\ b.st = "closed" /\ acquired_amount(b) = acquired_amount(r)
        BY <1>3, <2>3 DEF Is, acquired_amount
    <2>5. [r EXCEPT !.synth = FALSE, !.exit = IF r.synth THEN s ELSE @] = b
        OBVIOUS
    <2>6. LateFill(p, s, b)
        BY <1>3, <2>5 DEF BookExit
    <2>7. Becomes(p, acquired_amount(b))
        BY <1>1, <2>4, <2>6, LateFilled
    <2>8. Brings(s) = 0
        BY DEF BookExit, Brings
    <2> QED
        BY <1>1, <2>4, <2>7, <2>8, BecomesConserves
<1>4. CASE ~ Done /\ r.st # "closed"
    <2>s. PICK sold : sold = IF \E u \in Pending({"dca"}) : swaps[u].pos = p THEN r
                           ELSE absorb_unbooked_sale(r, n)
        OBVIOUS
    <2>1. sold \in Rows
        BY <1>1, <2>s, Absorbed
    <2>e. PICK e : e = book_remaining_as_exited(sold)
        OBVIOUS
    <2>0. PICK x : x = IF r.exit = 0 THEN s ELSE e.exit
        OBVIOUS
    <2>a. PICK a : a = [e EXCEPT !.st = "closed"]
        OBVIOUS
    <2>b. PICK b : b = [a EXCEPT !.exit = x]
        OBVIOUS
    <2>2. e \in Rows /\ e.held = 0
        BY <2>1, <2>e, RestExited DEF Is
    <2>3. x \in Nat
        BY <1>1, <2>0, <2>2 DEF Rows
    <2>4. Is(a, "closed", 0, e.exited)
        BY <2>2, <2>a, IsItself, FieldSet
    <2>5. Is(b, "closed", 0, e.exited)
        BY <2>3, <2>4, <2>b, FieldSet
    <2>6. b \in Rows /\ b.held = 0
        BY <2>5 DEF Is
    <2>7. [e EXCEPT !.st = "closed", !.exit = IF r.exit = 0 THEN s ELSE @] = b
        BY <2>0, <2>a, <2>b
    <2>8. OnRow(p, s, b)
        BY <1>4, <2>7, <2>s, <2>e DEF BookExit
    <2>9. Becomes(p, acquired_amount(b))
        BY <1>1, <2>6, <2>8, OneRowBooked
    <2> QED
        BY <1>4, <2>9 DEF Becomes, Conserved
<1> QED
    BY <1>2, <1>3, <1>4

\* ExitResidualClearForRetry conserves.
LEMMA ResidualBooked ==
    ASSUME BooksConstants, RowsInv, SwapsInv, NEW s \in Sigs, BookResidual(s)
    PROVE  RowsInv' /\ Conserved(s)
<1> PICK p, n, r : p = swaps[s].pos /\ n = swaps[s].amount /\ r = rows[p]
    OBVIOUS
<1>1. p \in Positions /\ r \in Rows /\ n \in Nat /\ acquired_amount(r) \in Nat
      /\ (r.st = "closed" => r.held = 0)
    BY SwapFacts
<1>2. Brings(s) = 0
    BY DEF BookResidual, SwapsInv, Brings
<1>3. CASE <<p, s>> \in records
    <2> PICK c : c = clear_exit_for_retry(r, s)
        OBVIOUS
    <2>1. c \in Rows /\ c.st = r.st /\ c.held = r.held
        BY <1>1, ExitCleared DEF Is
    <2>2. rows' = [rows EXCEPT ![p] = c] /\ records' = records
        BY <1>3 DEF BookResidual
    <2>3. RowsInv'
        BY <1>1, <2>1, <2>2, RowAssigned
    <2> QED
        BY <2>2, <2>3 DEF Conserved
<1>4. CASE <<p, s>> \notin records /\ r.st = "open"
    <2> PICK e : e = book_exit(r, n)
        OBVIOUS
    <2> PICK c : c = clear_exit_for_retry(e, s)
        OBVIOUS
    <2>1. e \in Rows /\ e.st = "open"
        BY <1>1, <1>4, Sold DEF Is
    <2>2. c \in Rows /\ c.st = "open"
        BY <2>1, ExitCleared DEF Is
    <2>3. OnRow(p, s, c)
        BY <1>4 DEF BookResidual
    <2>4. Becomes(p, acquired_amount(c))
        BY <1>1, <2>2, <2>3, OneRowBooked
    <2> QED
        BY <1>4, <2>4 DEF Becomes, Conserved
<1>5. CASE <<p, s>> \notin records /\ r.st # "open"
    <2> PICK h : h = LateHolding(p, r, 0)
        OBVIOUS
    <2>1. h \in Nat
        BY <1>1, LateHoldingTyped
    <2>2. CASE Beside(p) = {}
        <3> PICK f : f = follow_round(r, h)
            OBVIOUS
        <3> PICK c : c = clear_exit_for_retry(f, s)
            OBVIOUS
        <3>1. f \in Rows /\ acquired_amount(f) = acquired_amount(r) /\ (f.st = "closed" => f.held = 0)
            BY <1>1, <2>1, Followed
        <3>2. c \in Rows /\ c.st = f.st /\ c.held = f.held /\ c.exited = f.exited
            BY <3>1, ExitCleared DEF Is
        <3>3. acquired_amount(c) = acquired_amount(r)
            BY <3>1, <3>2 DEF acquired_amount
        <3>4. OnRow(p, s, c)
            BY <1>5, <2>2 DEF BookResidual
        <3>5. Becomes(p, acquired_amount(c))
            BY <1>1, <3>1, <3>2, <3>4, OneRowBooked
        <3> QED
            BY <1>1, <1>2, <3>3, <3>5, BecomesConserves
    <2>3. CASE Beside(p) # {}
        <3>u. PICK out : out = hand_over_round(r, h)
            OBVIOUS
        <3>c. PICK c : c = clear_exit_for_retry(out.row, s)
            OBVIOUS
        <3>o. PICK o : o = [out EXCEPT !.row = c]
            OBVIOUS
        <3>1. Splits(out, r, acquired_amount(r))
            BY <1>1, <2>1, <3>u, RoundHandedOver
        <3>2. c \in Rows /\ c.st = out.row.st /\ c.held = out.row.held /\ c.exited = out.row.exited
            BY <3>1, <3>c, ExitCleared DEF Is, Splits
        <3>3. o.row = c /\ o.tokens = out.tokens
            BY <3>u, <3>o DEF hand_over_round, Kept
        <3>4. Splits(o, r, acquired_amount(r))
            BY <3>1, <3>2, <3>3 DEF Splits, acquired_amount
        <3>5. HandOver(p, s, o, TRUE)
            BY <1>5, <2>3, <3>u, <3>c, <3>o DEF BookResidual
        <3>6. Becomes(p, acquired_amount(r))
            BY <1>1, <2>3, <3>4, <3>5, HandedOver
        <3> QED
            BY <1>1, <1>2, <3>6, BecomesConserves
    <2> QED
        BY <2>2, <2>3
<1> QED
    BY <1>3, <1>4, <1>5

-----------------------------------------------------------------------------
(* The swaps *)

\* The swaps go on: none is taken back, and none changes its kind.
Continued ==
    swaps' \in Seq(Swaps) /\ \A u \in Sigs : u \in Sigs' /\ swaps'[u].kind = swaps[u].kind

\* The swaps and the verification in hand stay in order.
LEMMA ContinuedKeeps ==
    ASSUME SwapsInv, Continued, wallet' \in Nat, item' = item \/ item' = NoItem
    PROVE  SwapsInv'
<1>1. item' \in [sig : Nat, held : Nat, residual : BOOLEAN]
    <2>1. NoItem \in [sig : Nat, held : Nat, residual : BOOLEAN]
        BY DEF NoItem
    <2> QED
        BY <2>1, Zenon DEF SwapsInv
<1>2. item'.residual => item'.sig \in Sigs' /\ swaps'[item'.sig].kind = "exit"
    <2>1. CASE item' = NoItem
        BY <2>1 DEF NoItem
    <2>2. CASE item' = item
        BY <2>2 DEF SwapsInv, Continued
    <2> QED
        BY <2>1, <2>2
<1> QED
    BY <1>1, <1>2 DEF SwapsInv, Continued

\* A swap may change its status.
LEMMA SwapMarked ==
    ASSUME SwapsInv, NEW s \in Sigs, NEW x \in {"sent", "landed", "settled"},
           swaps' = [swaps EXCEPT ![s].st = x]
    PROVE  Continued
<1> PICK q, n : q = swaps /\ n = [swaps[s] EXCEPT !.st = x]
    OBVIOUS
<1>1. q \in Seq(Swaps) /\ s \in 1 .. Len(q) /\ Sigs = 1 .. Len(q)
    BY LenProperties DEF SwapsInv, Sigs
<1>2. q[s] \in Swaps
    BY <1>1, ElementOfSeq
<1>3. n \in Swaps /\ n.kind = q[s].kind
    BY <1>2 DEF Swaps
<1>4. swaps' = [q EXCEPT ![s] = n]
    OBVIOUS
<1>5. swaps' \in Seq(Swaps) /\ Len(swaps') = Len(q)
      /\ \A u \in 1 .. Len(q) : swaps'[u] = IF u = s THEN n ELSE q[u]
    BY <1>1, <1>3, <1>4, ExceptSeq
<1>6. Sigs' = 1 .. Len(q)
    BY <1>5, LenProperties DEF Sigs
<1> QED
    BY <1>1, <1>3, <1>5, <1>6 DEF Continued

\* A swap may be sent.
LEMMA SwapSent ==
    ASSUME SwapsInv, NEW kind \in Buys \union Sales, NEW p \in Positions, NEW a \in Nat,
           Send(kind, p, a)
    PROVE  Continued
<1> PICK q, n : q = swaps /\ n = [kind |-> kind, pos |-> p, amount |-> a, st |-> "sent"]
    OBVIOUS
<1>1. q \in Seq(Swaps) /\ Sigs = 1 .. Len(q) /\ Len(q) \in Nat
    BY LenProperties DEF SwapsInv, Sigs
<1>2. n \in Swaps
    BY DEF Swaps
<1>3. swaps' = Append(q, n)
    BY DEF Send
<1>4. swaps' \in Seq(Swaps) /\ Len(swaps') = Len(q) + 1
      /\ \A u \in 1 .. Len(q) : swaps'[u] = q[u]
    BY <1>1, <1>2, <1>3, AppendProperties
<1>5. Sigs' = 1 .. Len(q) + 1
    BY <1>4, LenProperties DEF Sigs
<1> QED
    BY <1>1, <1>4, <1>5 DEF Continued

\* A verification may end.
LEMMA SwapsEnd ==
    ASSUME SwapsInv, NEW s \in Sigs, Ends(s), wallet' = wallet
    PROVE  SwapsInv'
<1>1. Continued
    <2>1. CASE swaps' = swaps
        BY <2>1 DEF Continued, SwapsInv, Sigs
    <2>2. CASE swaps' = [swaps EXCEPT ![s].st = "settled"]
        BY <2>2, SwapMarked
    <2> QED
        BY <2>1, <2>2 DEF Ends
<1> QED
    BY <1>1, ContinuedKeeps DEF Ends, SwapsInv

-----------------------------------------------------------------------------
(* The steps *)

\* There are no swaps at the start, and no row is closed.
LEMMA InitHolds ==
    ASSUME Init
    PROVE  Inv
<1>1. NoRow \in Rows
    BY DEF NoRow, Rows
<1>2. RowsInv
    BY <1>1 DEF Init, RowsInv, NoRow
<1>3. SwapsInv
    BY DEF Init, SwapsInv, NoItem
<1> QED
    BY <1>2, <1>3 DEF Inv

\* The calls that send a swap, and the write-off, which leaves nothing on the row it closes.
LEMMA CallsKeep ==
    ASSUME BooksConstants, Inv, NEW p \in Positions,
           SendEntry(p) \/ SendAdd(p) \/ SendPartial(p) \/ SendExit(p) \/ WriteOff(p)
    PROVE  Inv'
<1>1. /\ RowsInv /\ SwapsInv /\ rows[p] \in Rows /\ Amounts \subseteq Nat
      /\ Is(rows[p], rows[p].st, rows[p].held, rows[p].exited)
    BY IsItself DEF Inv, RowsInv, BooksConstants
<1>2. CASE SendEntry(p)
    <2> PICK r : r = [rows[p] EXCEPT !.st = "open"]
        OBVIOUS
    <2>1. r \in Rows /\ r.st = "open"
        BY <1>1, FieldSet DEF Is
    <2>2. rows' = [rows EXCEPT ![p] = r]
        BY <1>2 DEF SendEntry
    <2>3. RowsInv'
        BY <1>1, <2>1, <2>2, RowAssigned
    <2>4. PICK a \in Nat : Send("entry", p, a)
        BY <1>1, <1>2 DEF SendEntry
    <2>5. Continued
        BY <1>1, <2>4, SwapSent DEF Buys
    <2>6. SwapsInv'
        BY <1>1, <1>2, <2>5, ContinuedKeeps DEF SendEntry, SwapsInv
    <2> QED
        BY <2>3, <2>6 DEF Inv
<1>3. CASE SendAdd(p)
    <2>1. PICK a \in Nat : Send("dca", p, a)
        BY <1>1, <1>3 DEF SendAdd
    <2>2. Continued
        BY <1>1, <2>1, SwapSent DEF Buys
    <2>3. SwapsInv'
        BY <1>1, <1>3, <2>2, ContinuedKeeps DEF SendAdd, SwapsInv
    <2> QED
        BY <1>1, <1>3, <2>3 DEF Inv, RowsInv, SendAdd
<1>4. CASE SendPartial(p)
    <2>1. PICK a \in Nat : Send("partial", p, a)
        BY <1>1, <1>4 DEF SendPartial, partial_exit_amount
    <2>2. Continued
        BY <1>1, <2>1, SwapSent DEF Sales
    <2>3. SwapsInv'
        BY <1>1, <1>4, <2>2, ContinuedKeeps DEF SendPartial, SwapsInv
    <2> QED
        BY <1>1, <1>4, <2>3 DEF Inv, RowsInv, SendPartial
<1>5. CASE SendExit(p)
    <2>0. PICK n : n = Len(swaps) + 1
        OBVIOUS
    <2> PICK r : r = [rows[p] EXCEPT !.exit = n]
        OBVIOUS
    <2>1. n \in Nat
        BY <1>1, <2>0, LenProperties DEF SwapsInv
    <2>2. r \in Rows /\ r.st = rows[p].st
        <3>1. Is(r, rows[p].st, rows[p].held, rows[p].exited)
            BY <1>1, <2>1, FieldSet
        <3> QED
            BY <3>1 DEF Is
    <2>3. rows' = [rows EXCEPT ![p] = r] /\ rows[p].st = "open"
        BY <1>5, <2>0 DEF SendExit
    <2>4. RowsInv'
        BY <1>1, <2>2, <2>3, RowAssigned
    <2>5. PICK a \in Nat : Send("exit", p, a)
        BY <1>1, <1>5 DEF SendExit, full_exit_amount
    <2>6. Continued
        BY <1>1, <2>5, SwapSent DEF Sales
    <2>7. SwapsInv'
        BY <1>1, <1>5, <2>6, ContinuedKeeps DEF SendExit, SwapsInv
    <2> QED
        BY <2>4, <2>7 DEF Inv
<1>6. CASE WriteOff(p)
    <2> PICK e : e = book_remaining_as_exited(rows[p])
        OBVIOUS
    <2> PICK a : a = [e EXCEPT !.st = "closed"]
        OBVIOUS
    <2> PICK b : b = [a EXCEPT !.synth = TRUE]
        OBVIOUS
    <2>1. e \in Rows /\ e.held = 0
        BY <1>1, RestExited DEF Is
    <2>2. Is(a, "closed", 0, e.exited)
        BY <2>1, IsItself, FieldSet
    <2>3. Is(b, "closed", 0, e.exited)
        BY <2>2, FieldSet
    <2>4. b \in Rows /\ b.held = 0
        BY <2>3 DEF Is
    <2>5. rows' = [rows EXCEPT ![p] = b]
        BY <1>6 DEF WriteOff
    <2>6. RowsInv'
        BY <1>1, <2>4, <2>5, RowAssigned
    <2>7. SwapsInv'
        BY <1>1, <1>6 DEF WriteOff, SwapsInv, Sigs
    <2> QED
        BY <2>6, <2>7 DEF Inv
<1> QED
    BY <1>2, <1>3, <1>4, <1>5, <1>6

\* A swap that lands or never will.
LEMMA ChainKeeps ==
    ASSUME BooksConstants, Inv, NEW s \in Sigs, Land(s) \/ NotLanded(s)
    PROVE  Inv'
<1>1. /\ RowsInv /\ SwapsInv /\ swaps[s].pos \in Positions /\ swaps[s].amount \in Nat
      /\ rows[swaps[s].pos] \in Rows
      /\ rows[swaps[s].pos].st = "closed" => rows[swaps[s].pos].held = 0
    BY SwapFacts DEF Inv
<1>2. CASE Land(s)
    <2>1. Continued
        BY <1>1, <1>2, SwapMarked DEF Land
    <2>2. wallet' \in Nat
        <3>1. wallet \in Nat /\ swaps[s].kind \in Buys \union Sales
            BY <1>1, SwapFacts DEF SwapsInv, Swaps
        <3>2. wallet' = IF swaps[s].kind \in Buys THEN wallet + swaps[s].amount
                        ELSE wallet - swaps[s].amount
            BY <1>2 DEF Land
        <3>3. swaps[s].kind \in Sales => wallet >= swaps[s].amount
            BY <1>2 DEF Land
        <3> QED
            BY <1>1, <3>1, <3>2, <3>3
    <2>3. SwapsInv'
        BY <1>1, <1>2, <2>1, <2>2, ContinuedKeeps DEF Land
    <2> QED
        BY <1>1, <1>2, <2>3 DEF Inv, RowsInv, Land
<1>3. CASE NotLanded(s)
    <2> PICK p : p = swaps[s].pos
        OBVIOUS
    <2>1. Continued
        BY <1>1, <1>3, SwapMarked DEF NotLanded
    <2>2. SwapsInv'
        BY <1>1, <1>3, <2>1, ContinuedKeeps DEF NotLanded, SwapsInv
    <2>3. CASE rows' = rows
        BY <1>1, <2>2, <2>3 DEF Inv, RowsInv
    <2>4. CASE rows' = [rows EXCEPT ![p] = NoRow]
        <3>1. NoRow \in Rows /\ NoRow.st # "closed"
            BY DEF NoRow, Rows
        <3> QED
            BY <1>1, <2>2, <2>4, <3>1, RowAssigned DEF Inv
    <2>5. CASE rows' = [rows EXCEPT ![p] = clear_exit_for_retry(@, s)]
        <3> PICK c : c = clear_exit_for_retry(rows[p], s)
            OBVIOUS
        <3>1. c \in Rows /\ c.st = rows[p].st /\ c.held = rows[p].held
            BY <1>1, ExitCleared DEF Is
        <3>2. rows' = [rows EXCEPT ![p] = c]
            BY <2>5
        <3> QED
            BY <1>1, <2>2, <3>1, <3>2, RowAssigned DEF Inv
    <2> QED
        BY <1>3, <2>3, <2>4, <2>5 DEF NotLanded
<1> QED
    BY <1>2, <1>3

\* The worker's reading of the wallet.
LEMMA ReadKeeps ==
    ASSUME Inv, NEW s \in Sigs, Read(s)
    PROVE  Inv'
<1>1. s \in Nat /\ wallet \in Nat
    BY SigsAreNumbers DEF Inv, SwapsInv
<1>2. PICK b \in BOOLEAN : b = (swaps[s].kind = "exit" /\ LeavesResidual(swaps[s].pos, s))
    OBVIOUS
<1>3. item' = [sig |-> s, held |-> wallet, residual |-> b]
    BY <1>2, Zenon DEF Read
<1>4. item' \in [sig : Nat, held : Nat, residual : BOOLEAN]
    BY <1>1, <1>2, <1>3, Zenon
<1>5. item'.sig = s /\ item'.residual = b
    BY <1>3
<1>6. b => swaps[s].kind = "exit"
    BY <1>2
<1>7. UNCHANGED <<rows, swaps, wallet>>
    BY DEF Read
<1> QED
    BY <1>1, <1>4, <1>5, <1>6, <1>7 DEF Inv, RowsInv, SwapsInv, Sigs

\* A booking keeps the invariant, and what the rows acquired together.
LEMMA BookKeeps ==
    ASSUME BooksConstants, Inv, NEW s \in Sigs, Book(s)
    PROVE  Inv' /\ Conserved(s) /\ item.sig = s
<1>1. RowsInv /\ SwapsInv
    BY DEF Inv
<1>2. RowsInv' /\ Conserved(s)
    BY <1>1, EntryBooked, AddBooked, PartialBooked, ExitBooked, ResidualBooked DEF Book
<1>3. item.sig = s /\ Ends(s) /\ wallet' = wallet
    BY DEF Book, BookEntry, BookAdd, BookPartial, BookExit, BookResidual
<1>4. SwapsInv'
    BY <1>1, <1>3, SwapsEnd
<1> QED
    BY <1>2, <1>3, <1>4 DEF Inv

\* What no late fill does, as an action.
LateConserved ==
    \A s \in Sigs :
        /\ item.sig = s /\ rows[swaps[s].pos].st = "closed"
        /\ records' # records
        => Acquired' = Acquired + Brings(s)

\* Every step keeps the invariant, and every late fill conserves.
LEMMA StepKeeps ==
    ASSUME Inv, Next
    PROVE  Inv' /\ LateConserved
<1>1. CASE \E p \in Positions :
             SendEntry(p) \/ SendAdd(p) \/ SendPartial(p) \/ SendExit(p) \/ WriteOff(p)
    <2>1. records' = records
        BY <1>1 DEF SendEntry, SendAdd, SendPartial, SendExit, WriteOff
    <2> QED
        BY <1>1, <2>1, BooksConstants, CallsKeep DEF LateConserved
<1>2. CASE \E s \in Sigs : Land(s) \/ NotLanded(s)
    <2>1. records' = records
        BY <1>2 DEF Land, NotLanded
    <2> QED
        BY <1>2, <2>1, BooksConstants, ChainKeeps DEF LateConserved
<1>3. CASE \E s \in Sigs : Read(s)
    <2>1. records' = records
        BY <1>3 DEF Read
    <2> QED
        BY <1>3, <2>1, ReadKeeps DEF LateConserved
<1>4. CASE \E s \in Sigs : Book(s)
    <2>1. PICK s \in Sigs : Book(s)
        BY <1>4
    <2>2. Inv' /\ Conserved(s) /\ item.sig = s
        BY <2>1, BooksConstants, BookKeeps
    <2> QED
        BY <2>2 DEF LateConserved, Conserved
<1>5. CASE Retry
    <2>1. Continued /\ wallet' \in Nat /\ item' = NoItem
        BY <1>5 DEF Retry, Continued, Inv, SwapsInv, Sigs
    <2>2. SwapsInv'
        BY <2>1, ContinuedKeeps DEF Inv
    <2> QED
        BY <1>5, <2>2 DEF Retry, Inv, RowsInv, LateConserved
<1> QED
    BY <1>1, <1>2, <1>3, <1>4, <1>5 DEF Next

\* A step that changes nothing.
LEMMA StutterKeeps ==
    ASSUME Inv, UNCHANGED vars
    PROVE  Inv'
BY DEF Inv, RowsInv, SwapsInv, Sigs, vars

\* A late fill moves tokens between the rows of the mint and makes or loses none: what the
\* rows acquired together grows by the buy that is booked and by nothing else, whether the
\* row reopens, stays closed, or hands over to the open row (late_fill, late_dca).
THEOREM LateFillsMakeNothing == Spec => LateFillsConserve
<1>1. Inv /\ [Next]_vars => Inv' /\ [LateConserved]_vars
    BY StepKeeps, StutterKeeps
<1>2. Spec => [][LateConserved]_vars
    BY InitHolds, <1>1, PTL DEF Spec
<1> QED
    BY <1>2 DEF LateFillsConserve, LateConserved, Brings

-----------------------------------------------------------------------------
(* What the open rows claim is in the wallet *)

\* No position had two swaps in flight, and the wallet was divided beside no sale.
Calm == overlapped \subseteq {"sales"}

\* What the bookings of a swap look for before they book it.
Recorded(s) ==
    IF swaps[s].kind = "dca" THEN entry_recorded_for_mint(swaps[s].pos, s)
    ELSE \/ <<swaps[s].pos, s>> \in records
         \/ (swaps[s].kind = "entry" /\ rows[swaps[s].pos].entry)

\* Tokens of the wallet that are spoken for: a sale of a row that is no longer open is in flight.
Sent(k) == {s \in Sigs : swaps[s].kind = k /\ swaps[s].st = "sent"}
Owing(k) == {s \in Sent(k) : rows[swaps[s].pos].st # "open"}
DueIn(O, q) == IF O = {} THEN 0 ELSE q[Pick(O)].amount
DueOf(k) == DueIn(Owing(k), swaps)
Due == DueOf("partial") + DueOf("exit")

\* The wallet holds n tokens beside those.
Covered(n) == n + Due <= wallet

\* The swaps of p that landed and are not booked.
Unbooked(p, kinds) ==
    {s \in Sigs : /\ swaps[s].pos = p /\ swaps[s].kind \in kinds
                  /\ swaps[s].st = "landed" /\ ~ Recorded(s)}

\* An open row is covered: with its sale in flight, with its buy unbooked, without what an unbooked
\* sale of it took, or as it stands.
RowBacked(p) ==
    /\ \A s \in Unsettled(p) : swaps[s].kind \in Sales /\ swaps[s].st = "sent" => Covered(swaps[s].amount)
    /\ \A s \in Unbooked(p, Buys) : Covered(rows[p].held + swaps[s].amount)
    /\ \A s \in Unbooked(p, Sales) : Covered(Monus(rows[p].held, swaps[s].amount))
    /\ Unbooked(p, Sales) = {} => Covered(rows[p].held)

OneOpen == \A p, q \in OpenRows : p = q
OnePartial == \A s, t \in Pending({"partial"}) : s = t

\* A position has one swap in flight, and the mint one full exit.
Alone ==
    /\ \A s, t \in Sent("exit") : s = t
    /\ \A s, t \in Pending(Buys \union Sales) : swaps[s].pos = swaps[t].pos => s = t

\* What is recorded has landed, and so has what is verified.
RecordsLanded == \A x \in records : x[2] \in Sigs /\ swaps[x[2]].st # "sent"
ItemLanded == item = NoItem \/ (item.sig \in Sigs /\ swaps[item.sig].st = "landed")

\* The holding that was read is still there unless another sale landed.
OtherSaleLanded == \E t \in Sigs : swaps[t].kind \in Sales /\ swaps[t].st = "landed" /\ t # item.sig
ItemBacked == ~ OtherSaleLanded => item.held <= wallet

Backed == Calm => Alone /\ Covered(0) /\ \A p \in OpenRows : RowBacked(p)

OrderInv == OneOpen /\ OnePartial /\ RecordsLanded /\ ItemLanded /\ ItemBacked
BackInv == OrderInv /\ Backed

-----------------------------------------------------------------------------
(* The swaps of a step *)

\* Every swap stays what it is, and s is at x.
Marked(s, x) ==
    /\ Sigs' = Sigs
    /\ \A t \in Sigs : /\ swaps'[t].kind = swaps[t].kind /\ swaps'[t].pos = swaps[t].pos
                       /\ swaps'[t].amount = swaps[t].amount
                       /\ swaps'[t].st = IF t = s THEN x ELSE swaps[t].st

\* Swap n was sent, and the others stay.
Grown(n, kind, p, a) ==
    /\ n \notin Sigs /\ Sigs' = Sigs \union {n}
    /\ \A t \in Sigs : swaps'[t] = swaps[t]
    /\ swaps'[n].kind = kind /\ swaps'[n].pos = p /\ swaps'[n].amount = a /\ swaps'[n].st = "sent"

\* What a swap is.
LEMMA SwapTyped ==
    ASSUME SwapsInv, NEW s \in Sigs
    PROVE  /\ swaps[s].kind \in Buys \union Sales /\ swaps[s].pos \in Positions
           /\ swaps[s].amount \in Nat /\ swaps[s].st \in {"sent", "landed", "settled"}
<1>1. swaps[s] \in Swaps
    BY ElementOfSeq DEF SwapsInv, Sigs
<1> QED
    BY <1>1 DEF Swaps

\* An assignment to the status of a swap.
LEMMA MarkedBy ==
    ASSUME SwapsInv, NEW s \in Sigs, NEW x, swaps' = [swaps EXCEPT ![s].st = x]
    PROVE  Marked(s, x)
<1> PICK q, n : q = swaps /\ n = [swaps[s] EXCEPT !.st = x]
    OBVIOUS
<1>1. q \in Seq(Swaps) /\ Sigs = 1 .. Len(q)
    BY LenProperties DEF SwapsInv, Sigs
<1>2. q[s] \in Swaps
    BY <1>1, ElementOfSeq
<1>3. n.kind = q[s].kind /\ n.pos = q[s].pos /\ n.amount = q[s].amount /\ n.st = x
    BY <1>2 DEF Swaps
<1>4. swaps' = [q EXCEPT ![s] = n]
    OBVIOUS
<1>5. DOMAIN swaps' = DOMAIN q
    BY <1>4
<1>6. Sigs' = Sigs
    BY <1>5 DEF Sigs
<1>7. \A u \in Sigs : swaps'[u] = IF u = s THEN n ELSE q[u]
    BY <1>4 DEF Sigs
<1>8. ASSUME NEW u \in Sigs
      PROVE  /\ swaps'[u].kind = swaps[u].kind /\ swaps'[u].pos = swaps[u].pos
             /\ swaps'[u].amount = swaps[u].amount
             /\ swaps'[u].st = IF u = s THEN x ELSE swaps[u].st
    <2>1. CASE u = s
        <3>1. swaps'[u] = n
            BY <1>7, <2>1
        <3> QED
            BY <1>3, <2>1, <3>1
    <2>2. CASE u # s
        BY <1>7, <2>2
    <2> QED
        BY <2>1, <2>2
<1> QED
    BY <1>6, <1>8 DEF Marked

\* No assignment.
LEMMA MarkedStill ==
    ASSUME swaps' = swaps, NEW s \in Sigs
    PROVE  Marked(s, swaps[s].st)
BY DEF Marked, Sigs

\* An append.
LEMMA GrownBy ==
    ASSUME SwapsInv, NEW kind, NEW p, NEW a, Send(kind, p, a)
    PROVE  Grown(Len(swaps) + 1, kind, p, a)
<1> PICK q, n : q = swaps /\ n = [kind |-> kind, pos |-> p, amount |-> a, st |-> "sent"]
    OBVIOUS
<1>1. q \in Seq(Swaps) /\ Sigs = 1 .. Len(q) /\ Len(q) \in Nat
    BY LenProperties DEF SwapsInv, Sigs
<1>2. swaps' = Append(q, n)
    BY DEF Send
<1>3. q \in Seq(Swaps \union {n})
    BY <1>1
<1>4. /\ Append(q, n) \in Seq(Swaps \union {n}) /\ Len(Append(q, n)) = Len(q) + 1
      /\ \A u \in 1 .. Len(q) : Append(q, n)[u] = q[u]
      /\ Append(q, n)[Len(q) + 1] = n
    BY <1>3, AppendProperties
<1>5. Sigs' = 1 .. Len(q) + 1
    BY <1>2, <1>4, LenProperties DEF Sigs
<1> QED
    BY <1>1, <1>2, <1>4, <1>5 DEF Grown

-----------------------------------------------------------------------------
(* The tokens that are spoken for *)

\* What swaps owe is a number.
LEMMA DueInTyped ==
    ASSUME NEW q \in Seq(Swaps), NEW O, O \subseteq DOMAIN q
    PROVE  DueIn(O, q) \in Nat
<1>1. CASE O = {}
    BY <1>1 DEF DueIn
<1>2. CASE O # {}
    <2>1. Pick(O) \in DOMAIN q
        BY <1>2 DEF Pick
    <2>2. q[Pick(O)] \in Swaps
        BY <2>1, ElementOfSeq
    <2> QED
        BY <1>2, <2>2 DEF DueIn, Swaps
<1> QED
    BY <1>1, <1>2

\* So is what is owed together.
LEMMA DueTyped ==
    ASSUME SwapsInv
    PROVE  DueOf("partial") \in Nat /\ DueOf("exit") \in Nat /\ Due \in Nat
<1>1. swaps \in Seq(Swaps)
    BY DEF SwapsInv
<1>2. ASSUME NEW k PROVE DueOf(k) \in Nat
    <2>1. Owing(k) \subseteq DOMAIN swaps
        BY DEF Owing, Sent, Sigs
    <2> QED
        BY <1>1, <2>1, DueInTyped DEF DueOf
<1> QED
    BY <1>2 DEF Due

\* And after a step.
LEMMA DueTypedNext ==
    ASSUME SwapsInv'
    PROVE  DueOf("partial")' \in Nat /\ DueOf("exit")' \in Nat /\ Due' \in Nat
<1>1. swaps' \in Seq(Swaps)
    BY DEF SwapsInv
<1>2. ASSUME NEW k PROVE DueOf(k)' \in Nat
    <2>1. Owing(k)' \subseteq DOMAIN swaps'
        BY DEF Owing, Sent, Sigs
    <2>2. DueOf(k)' = DueIn(Owing(k)', swaps')
        BY DEF DueOf, DueIn
    <2> QED
        BY <1>1, <2>1, <2>2, DueInTyped
<1> QED
    BY <1>2 DEF Due

\* Owed by the same swaps, it is the same.
LEMMA DueInSame ==
    ASSUME NEW O, NEW q, NEW r, \A t \in O : r[t].amount = q[t].amount
    PROVE  DueIn(O, r) = DueIn(O, q)
<1>1. O # {} => Pick(O) \in O
    BY DEF Pick
<1> QED
    BY <1>1 DEF DueIn

\* Owed by one swap, it is its amount.
LEMMA DueInOne ==
    ASSUME NEW O, NEW q, NEW s, s \in O, \A t \in O : t = s
    PROVE  DueIn(O, q) = q[s].amount
<1>1. Pick(O) \in O
    BY DEF Pick
<1> QED
    BY <1>1 DEF DueIn

\* The swaps of a step that leaves the amounts alone.
SwapsStay ==
    /\ Sigs \subseteq Sigs'
    /\ \A t \in Sigs : /\ swaps'[t].kind = swaps[t].kind /\ swaps'[t].pos = swaps[t].pos
                       /\ swaps'[t].amount = swaps[t].amount

\* What is owed stays when the swaps that owe it do.
LEMMA DueSame ==
    ASSUME SwapsStay, NEW k, Owing(k)' = Owing(k)
    PROVE  DueOf(k)' = DueOf(k)
<1> PICK O, q, r : O = Owing(k) /\ q = swaps /\ r = swaps'
    OBVIOUS
<1>1. \A t \in O : r[t].amount = q[t].amount
    BY DEF SwapsStay, Owing, Sent
<1>2. DueIn(O, r) = DueIn(O, q)
    BY <1>1, DueInSame
<1>3. DueOf(k)' = DueIn(Owing(k)', swaps')
    BY DEF DueOf, DueIn
<1> QED
    BY <1>2, <1>3 DEF DueOf

\* They do when no swap of a row that opens or closes is in flight.
LEMMA DueKept ==
    ASSUME SwapsStay,
           \A t \in Sigs' : /\ t \notin Sigs => swaps'[t].st # "sent" \/ swaps'[t].kind \in Buys
                                              \/ rows'[swaps'[t].pos].st = "open"
                            /\ t \in Sigs => (swaps'[t].st = "sent" <=> swaps[t].st = "sent"),
           \A t \in Sigs : swaps[t].st = "sent" =>
              (rows'[swaps[t].pos].st = "open" <=> rows[swaps[t].pos].st = "open")
    PROVE  Due' = Due
<1>1. ASSUME NEW k \in Sales PROVE Owing(k)' = Owing(k)
    <2>1. ASSUME NEW t PROVE t \in Owing(k)' <=> t \in Owing(k)
        BY DEF SwapsStay, Owing, Sent, Sales, Buys
    <2> QED
        BY <2>1
<1>2. Owing("partial")' = Owing("partial") /\ Owing("exit")' = Owing("exit")
    BY <1>1 DEF Sales
<1>3. DueOf("partial")' = DueOf("partial") /\ DueOf("exit")' = DueOf("exit")
    BY <1>2, DueSame
<1> QED
    BY <1>3 DEF Due

\* One sale of each kind is in flight.
LEMMA OneSent ==
    ASSUME OnePartial, Alone, NEW k \in Sales
    PROVE  \A s, t \in Sent(k) : s = t
<1>1. CASE k = "partial"
    BY <1>1 DEF OnePartial, Pending, Sent
<1>2. CASE k = "exit"
    BY <1>2 DEF Alone
<1> QED
    BY <1>1, <1>2 DEF Sales

\* A sale that owes gives back what it owed when it is no longer in flight.
LEMMA DueGone ==
    ASSUME SwapsInv, SwapsInv', OnePartial, Alone, NEW s \in Sigs, swaps[s].kind \in Sales,
           swaps[s].st = "sent", rows[swaps[s].pos].st # "open", NEW x, x # "sent", Marked(s, x),
           \A t \in Sigs : rows'[swaps[t].pos].st = "open" <=> rows[swaps[t].pos].st = "open"
    PROVE  Due' + swaps[s].amount = Due
<1> PICK k, a : k = swaps[s].kind /\ a = swaps[s].amount
    OBVIOUS
<1>1. SwapsStay
    BY DEF Marked, SwapsStay
<1>2. s \in Owing(k) /\ \A t \in Owing(k) : t = s
    BY OneSent DEF Owing, Sent
<1>3. Owing(k)' = {}
    BY <1>2 DEF Marked, Owing, Sent
<1>4. DueOf(k) = a /\ DueOf(k)' = 0
    <2>1. DueIn(Owing(k), swaps) = swaps[s].amount
        <3> PICK O, q : O = Owing(k) /\ q = swaps
            OBVIOUS
        <3>1. DueIn(O, q) = q[s].amount
            BY <1>2, DueInOne
        <3> QED
            BY <3>1
    <2>2. DueOf(k)' = 0
        BY <1>3 DEF DueOf, DueIn
    <2> QED
        BY <2>1, <2>2 DEF DueOf
<1>5. ASSUME NEW j \in Sales, j # k PROVE DueOf(j)' = DueOf(j)
    <2>1. Owing(j)' = Owing(j)
        <3>1. ASSUME NEW t PROVE t \in Owing(j)' <=> t \in Owing(j)
            BY <1>5 DEF Marked, Owing, Sent
        <3> QED
            BY <3>1
    <2> QED
        BY <1>1, <2>1, DueSame
<1>6. a \in Nat /\ DueOf("partial") \in Nat /\ DueOf("exit") \in Nat
    BY SwapTyped, DueTyped
<1>7. CASE k = "partial"
    BY <1>4, <1>5, <1>6, <1>7 DEF Due, Sales
<1>8. CASE k = "exit"
    BY <1>4, <1>5, <1>6, <1>8 DEF Due, Sales
<1> QED
    BY <1>7, <1>8 DEF Sales

\* A sale in flight owes what it sells when its row closes.
LEMMA DueCome ==
    ASSUME SwapsInv, OnePartial, Alone, NEW s \in Sigs, swaps[s].kind \in Sales,
           swaps[s].st = "sent", rows[swaps[s].pos].st = "open", swaps' = swaps,
           rows'[swaps[s].pos].st # "open",
           \A p \in Positions : p # swaps[s].pos => rows'[p] = rows[p]
    PROVE  Due' = Due + swaps[s].amount
<1> PICK k, a : k = swaps[s].kind /\ a = swaps[s].amount
    OBVIOUS
<1>1. SwapsStay /\ Sigs' = Sigs
    BY DEF SwapsStay, Sigs
<1>2. \A t \in Sent(k) : t = s
    BY OneSent DEF Sent
<1>3. Owing(k) = {} /\ Owing(k)' = {s}
    <2>1. Owing(k) = {}
        BY <1>2 DEF Owing
    <2>2. ASSUME NEW t PROVE t \in Owing(k)' <=> t = s
        BY <1>1, <1>2 DEF Owing, Sent
    <2> QED
        BY <2>1, <2>2
<1>4. DueOf(k) = 0 /\ DueOf(k)' = a
    <2>1. DueOf(k)' = DueIn({s}, swaps)
        BY <1>3 DEF DueOf, DueIn
    <2>2. DueIn({s}, swaps) = swaps[s].amount
        <3> PICK O, q : O = {s} /\ q = swaps
            OBVIOUS
        <3>1. DueIn(O, q) = q[s].amount
            BY DueInOne
        <3> QED
            BY <3>1
    <2>3. DueOf(k) = 0
        BY <1>3 DEF DueOf, DueIn
    <2> QED
        BY <2>1, <2>2, <2>3
<1>5. ASSUME NEW j \in Sales, j # k PROVE DueOf(j)' = DueOf(j)
    <2>1. Owing(j)' = Owing(j)
        <3>1. ASSUME NEW t \in Sigs, swaps[t].kind = j, swaps[t].st = "sent"
              PROVE  rows'[swaps[t].pos].st # "open" <=> rows[swaps[t].pos].st # "open"
            <4>1. t # s /\ swaps[t].pos \in Positions
                BY <1>5, <3>1, SwapTyped
            <4>2. t \in Pending(Buys \union Sales) /\ s \in Pending(Buys \union Sales)
                BY <3>1 DEF Pending
            <4>3. swaps[t].pos # swaps[s].pos
                BY <4>1, <4>2 DEF Alone
            <4> QED
                BY <4>1, <4>3
        <3>2. ASSUME NEW t PROVE t \in Owing(j)' <=> t \in Owing(j)
            BY <1>1, <3>1 DEF Owing, Sent
        <3> QED
            BY <3>2
    <2> QED
        BY <1>1, <2>1, DueSame
<1>6. a \in Nat /\ DueOf("partial") \in Nat /\ DueOf("exit") \in Nat
    BY SwapTyped, DueTyped
<1>7. CASE k = "partial"
    BY <1>4, <1>5, <1>6, <1>7 DEF Due, Sales
<1>8. CASE k = "exit"
    BY <1>4, <1>5, <1>6, <1>8 DEF Due, Sales
<1> QED
    BY <1>7, <1>8 DEF Sales

-----------------------------------------------------------------------------
(* The rows of a step *)

\* The swaps of q are settled, buys in flight, or booked.
Plain(q) ==
    \A t \in Unsettled(q) :
       \/ swaps[t].st = "sent" /\ swaps[t].kind \in Buys
       \/ swaps[t].st = "landed" /\ Recorded(t)

\* Then what the row holds is all it claims.
LEMMA PlainBacked ==
    ASSUME NEW q, Plain(q)', Covered(rows[q].held)'
    PROVE  RowBacked(q)'
<1>1. \A t \in Unbooked(q, Buys)' \union Unbooked(q, Sales)' : FALSE
    BY DEF Plain, Unbooked, Unsettled
<1>2. \A t \in Unsettled(q)' : swaps'[t].kind \in Sales => swaps'[t].st # "sent"
    BY DEF Plain, Buys, Sales
<1>3. Covered(rows[q].held)'
    OBVIOUS
<1> QED
    BY <1>1, <1>2, <1>3 DEF RowBacked

\* And what it claims is what it holds.
LEMMA PlainHeld ==
    ASSUME NEW q, Plain(q), RowBacked(q)
    PROVE  Covered(rows[q].held)
<1>1. \A t \in Unbooked(q, Sales) : FALSE
    BY DEF Plain, Unbooked, Unsettled, Sales, Buys
<1> QED
    BY <1>1 DEF RowBacked

\* The wallet has as much room as before.
Room == Due' + wallet <= Due + wallet'

\* Then what was covered is.
LEMMA StillCovered ==
    ASSUME NEW d \in Nat, NEW e \in Nat, NEW v \in Nat, NEW w \in Nat, e + v <= d + w,
           NEW n \in Nat, n + d <= v
    PROVE  n + e <= w
OBVIOUS

\* Nor does it lose room when less is owed.
LEMMA MoreRoom ==
    ASSUME NEW d \in Nat, NEW e \in Nat, NEW v \in Nat, e <= d
    PROVE  e + v <= d + v
OBVIOUS

\* A row that no swap of it moves stays covered.
LEMMA OtherBacked ==
    ASSUME Room, SwapsInv, SwapsInv', NEW q \in Positions, rows[q].held \in Nat, RowBacked(q),
           rows'[q].held = rows[q].held, Unsettled(q)' = Unsettled(q), SwapsStay,
           \A t \in Unsettled(q) : swaps'[t].st = swaps[t].st /\ (Recorded(t)' <=> Recorded(t))
    PROVE  RowBacked(q)'
<1>1. Due \in Nat /\ Due' \in Nat /\ wallet \in Nat /\ wallet' \in Nat
    BY DueTyped, DueTypedNext DEF SwapsInv
<1>2. \A n \in Nat : n + Due <= wallet => n + Due' <= wallet'
    <2> PICK d, e, v, w : d = Due /\ e = Due' /\ v = wallet /\ w = wallet'
        OBVIOUS
    <2>1. e + v <= d + w
        BY DEF Room
    <2>2. \A n \in Nat : n + d <= v => n + e <= w
        BY <1>1, <2>1, StillCovered
    <2> QED
        BY <2>2
<1> PICK h : h = rows[q].held
    OBVIOUS
<1>3. h \in Nat /\ h = rows'[q].held
    OBVIOUS
<1>4. \A t \in Unsettled(q) : /\ t \in Sigs /\ swaps[t].amount \in Nat
                              /\ swaps'[t].amount = swaps[t].amount /\ swaps'[t].kind = swaps[t].kind
    BY SwapTyped DEF Unsettled, SwapsStay
<1>5. ASSUME NEW k PROVE Unbooked(q, k)' = Unbooked(q, k)
    <2>1. ASSUME NEW t PROVE t \in Unbooked(q, k) <=> /\ t \in Unsettled(q) /\ swaps[t].kind \in k
                                                       /\ swaps[t].st = "landed" /\ ~ Recorded(t)
        BY DEF Unbooked, Unsettled
    <2>2. ASSUME NEW t PROVE t \in Unbooked(q, k)' <=> /\ t \in Unsettled(q)' /\ swaps'[t].kind \in k
                                                        /\ swaps'[t].st = "landed" /\ ~ Recorded(t)'
        BY DEF Unbooked, Unsettled
    <2>3. ASSUME NEW t PROVE t \in Unbooked(q, k)' <=> t \in Unbooked(q, k)
        BY <1>4, <2>1, <2>2
    <2> QED
        BY <2>3
<1>6. ASSUME NEW s \in Unsettled(q)', swaps'[s].kind \in Sales, swaps'[s].st = "sent"
      PROVE  Covered(swaps[s].amount)'
    <2>1. Covered(swaps[s].amount)
        BY <1>4, <1>6 DEF RowBacked
    <2> QED
        BY <1>2, <1>4, <1>6, <2>1 DEF Covered
<1>7. \A s : s \in Unbooked(q, Buys) \union Unbooked(q, Sales) => s \in Unsettled(q)
    BY DEF Unbooked, Unsettled
<1>8. ASSUME NEW s \in Unbooked(q, Buys) PROVE h + swaps'[s].amount + Due' <= wallet'
    <2>1. h + swaps[s].amount + Due <= wallet
        BY <1>8 DEF RowBacked, Covered
    <2>2. h + swaps[s].amount \in Nat
        BY <1>3, <1>4, <1>7, <1>8
    <2> QED
        BY <1>2, <1>4, <1>7, <1>8, <2>1, <2>2
<1>9. ASSUME NEW s \in Unbooked(q, Sales) PROVE Monus(h, swaps'[s].amount) + Due' <= wallet'
    <2>1. Monus(h, swaps[s].amount) + Due <= wallet
        BY <1>9 DEF RowBacked, Covered
    <2>2. Monus(h, swaps[s].amount) \in Nat
        BY <1>3, <1>4, <1>7, <1>9, Difference
    <2> QED
        BY <1>2, <1>4, <1>7, <1>9, <2>1, <2>2
<1>10. Unbooked(q, Sales) = {} => h + Due' <= wallet'
    BY <1>2, <1>3 DEF RowBacked, Covered
<1>11. \A s \in Unbooked(q, Buys)' : Covered(rows[q].held + swaps[s].amount)'
    BY <1>3, <1>5, <1>8 DEF Covered
<1>12. \A s \in Unbooked(q, Sales)' : Covered(Monus(rows[q].held, swaps[s].amount))'
    BY <1>3, <1>5, <1>9 DEF Covered
<1>13. Unbooked(q, Sales)' = {} => Covered(rows[q].held)'
    BY <1>3, <1>5, <1>10 DEF Covered
<1> QED
    BY <1>6, <1>11, <1>12, <1>13 DEF RowBacked

-----------------------------------------------------------------------------
(* A swap is sent *)

\* A position has nothing beside a swap in flight.
LEMMA OnlySwap ==
    ASSUME SwapsInv, Alone, NEW s \in Sigs, swaps[s].st # "settled"
    PROVE  \A t \in Unsettled(swaps[s].pos) : t = s
<1>1. ASSUME NEW t \in Unsettled(swaps[s].pos) PROVE t = s
    <2>1. t \in Pending(Buys \union Sales) /\ s \in Pending(Buys \union Sales)
        BY SwapTyped DEF Pending, Unsettled
    <2> QED
        BY <2>1 DEF Alone, Unsettled
<1> QED
    BY <1>1

\* What the histories say of a swap that is sent: the position had none in flight, and for a full
\* exit the mint had no sale that had not landed.
LEMMA SentCalm ==
    ASSUME NEW kind, NEW p, NEW a, Send(kind, p, a), Calm'
    PROVE  /\ Calm /\ Unsettled(p) = {}
           /\ kind = "exit" => \A t \in Sigs : swaps[t].kind \in Sales => swaps[t].st # "sent"
<1>1. /\ overlapped \subseteq overlapped' /\ Overlap(kind, p) \subseteq overlapped'
      /\ ExitBesideSale(kind) => "shared" \in overlapped'
    BY DEF Send
<1>2. Calm
    BY <1>1 DEF Calm
<1>3. "own" \notin Overlap(kind, p) /\ ~ ExitBesideSale(kind)
    BY <1>1 DEF Calm
<1>4. ASSUME NEW s \in Unsettled(p) PROVE FALSE
    BY <1>3, <1>4 DEF Overlap
<1> QED
    BY <1>2, <1>3, <1>4 DEF ExitBesideSale

\* The order of the swaps is kept.
LEMMA SendOrdered ==
    ASSUME SwapsInv, OrderInv, NEW n, NEW kind, NEW p, NEW a, Grown(n, kind, p, a),
           kind = "partial" => Pending({"partial"}) = {}, OneOpen',
           UNCHANGED <<records, wallet, item>>
    PROVE  OrderInv'
<1>1. OnePartial'
    <2>1. ASSUME NEW t \in Pending({"partial"})'
          PROVE  IF t = n THEN kind = "partial" ELSE t \in Pending({"partial"})
        BY <2>1 DEF Grown, Pending
    <2> QED
        BY <2>1 DEF OrderInv, OnePartial
<1>2. RecordsLanded'
    BY DEF OrderInv, RecordsLanded, Grown
<1>3. ItemLanded'
    BY DEF OrderInv, ItemLanded, Grown
<1>4. ItemBacked'
    <2>1. OtherSaleLanded => OtherSaleLanded'
        BY DEF OtherSaleLanded, Grown
    <2> QED
        BY <2>1 DEF OrderInv, ItemBacked
<1> QED
    BY <1>1, <1>2, <1>3, <1>4 DEF OrderInv

\* So is each position's one swap.
LEMMA SendAlone ==
    ASSUME SwapsInv, Alone, NEW n, NEW kind, NEW p, NEW a, Grown(n, kind, p, a), Unsettled(p) = {},
           kind = "exit" => \A t \in Sigs : swaps[t].kind \in Sales => swaps[t].st # "sent"
    PROVE  Alone'
<1>1. ASSUME NEW s \in Sent("exit")', NEW t \in Sent("exit")' PROVE s = t
    <2>1. ASSUME NEW u \in Sent("exit")'
          PROVE  IF u = n THEN kind = "exit" ELSE u \in Sent("exit") /\ kind # "exit"
        BY <2>1 DEF Grown, Sent, Sales
    <2> QED
        BY <2>1 DEF Alone
<1>2. ASSUME NEW s \in Pending(Buys \union Sales)', NEW t \in Pending(Buys \union Sales)',
             swaps'[s].pos = swaps'[t].pos
      PROVE  s = t
    <2>1. ASSUME NEW u \in Pending(Buys \union Sales)', u # n
          PROVE  u \in Pending(Buys \union Sales) /\ swaps[u].pos # p /\ swaps'[u].pos = swaps[u].pos
        BY <2>1 DEF Grown, Pending, Unsettled
    <2>2. swaps'[n].pos = p
        BY DEF Grown
    <2> QED
        BY <1>2, <2>1, <2>2 DEF Alone
<1> QED
    BY <1>1, <1>2 DEF Alone

\* The swap in flight of a position that had none is its only one.
LEMMA SentOnly ==
    ASSUME NEW n, NEW kind, NEW p, NEW a, Grown(n, kind, p, a), Unsettled(p) = {}
    PROVE  Unsettled(p)' = {n}
<1>1. ASSUME NEW t PROVE t \in Unsettled(p)' <=> t = n
    BY DEF Grown, Unsettled
<1> QED
    BY <1>1

\* And the other rows' are the same.
LEMMA SentOthers ==
    ASSUME NEW n, NEW kind, NEW p, NEW a, Grown(n, kind, p, a)
    PROVE  SwapsStay
BY DEF Grown, SwapsStay

\* open_position: the new row claims nothing yet.
LEMMA EntrySent ==
    ASSUME BooksConstants, Inv, Inv', BackInv, NEW p \in Positions, SendEntry(p)
    PROVE  BackInv'
<1> PICK n : n = Len(swaps) + 1
    OBVIOUS
<1>1. PICK a : Send("entry", p, a)
    BY DEF SendEntry
<1>2. SwapsInv /\ SwapsInv' /\ RowsInv /\ OrderInv
    BY DEF Inv, BackInv
<1>3. Grown(n, "entry", p, a)
    BY <1>1, <1>2, GrownBy
<1>4. /\ OpenRows = {} /\ rows[p] = NoRow /\ rows[p].st = "none" /\ rows[p].held = 0
      /\ rows' = [rows EXCEPT ![p].st = "open"] /\ UNCHANGED <<records, wallet, item>>
    BY DEF SendEntry, NoRow
<1>5. rows'[p].st = "open" /\ rows'[p].held = 0 /\ \A q \in Positions : q # p => rows'[q] = rows[q]
    BY <1>2, <1>4 DEF RowsInv, Rows
<1>6. OpenRows' = {p}
    BY <1>4, <1>5 DEF OpenRows
<1>7. OrderInv'
    BY <1>2, <1>3, <1>4, <1>6, SendOrdered DEF OneOpen
<1>8. ASSUME Calm' PROVE Alone' /\ Covered(0)' /\ \A q \in OpenRows' : RowBacked(q)'
    <2>1. Calm /\ Unsettled(p) = {}
        BY <1>1, <1>8, SentCalm
    <2>2. Alone /\ Covered(0)
        BY <2>1 DEF BackInv, Backed
    <2>3. Alone'
        BY <1>2, <1>3, <2>1, <2>2, SendAlone
    <2>4. SwapsStay
        BY <1>3, SentOthers
    <2>5. ASSUME NEW t \in Sigs, swaps[t].st = "sent"
          PROVE  rows'[swaps[t].pos].st = "open" <=> rows[swaps[t].pos].st = "open"
        <3>1. swaps[t].pos # p /\ swaps[t].pos \in Positions
            BY <1>2, <2>1, <2>5, SwapTyped DEF Unsettled
        <3> QED
            BY <1>5, <3>1
    <2>6. Due' = Due
        BY <1>3, <2>4, <2>5, DueKept DEF Grown, Buys
    <2>7. Covered(0)' /\ Covered(rows[p].held)'
        BY <1>4, <1>5, <2>2, <2>6 DEF Covered
    <2>8. Unsettled(p)' = {n}
        BY <1>3, <2>1, SentOnly
    <2>9. Plain(p)'
        BY <1>3, <2>8 DEF Plain, Grown, Buys
    <2>10. RowBacked(p)'
        BY <2>7, <2>9, PlainBacked
    <2> QED
        BY <1>6, <2>3, <2>7, <2>10
<1> QED
    BY <1>7, <1>8 DEF BackInv, Backed

\* A swap of an open row is covered by what the row holds, or for a full exit by the wallet.
LEMMA OwnSent ==
    ASSUME BooksConstants, Inv, Inv', BackInv, NEW p \in Positions, rows[p].st = "open",
           NEW kind \in {"dca", "partial", "exit"}, NEW a \in Nat, Send(kind, p, a),
           \A q \in Positions : rows'[q].st = rows[q].st /\ rows'[q].held = rows[q].held,
           UNCHANGED <<records, wallet, item>>,
           kind = "partial" => Pending({"partial"}) = {} /\ a <= rows[p].held,
           kind = "exit" => a <= wallet
    PROVE  BackInv'
<1> PICK n : n = Len(swaps) + 1
    OBVIOUS
<1>2. SwapsInv /\ SwapsInv' /\ RowsInv /\ OrderInv
    BY DEF Inv, BackInv
<1>3. Grown(n, kind, p, a)
    BY <1>2, GrownBy
<1>4. OpenRows' = OpenRows /\ p \in OpenRows /\ \A q \in OpenRows : q = p
    BY <1>2 DEF OpenRows, OrderInv, OneOpen
<1>5. OrderInv'
    BY <1>2, <1>3, <1>4, SendOrdered DEF OneOpen
<1>6. ASSUME Calm' PROVE Alone' /\ Covered(0)' /\ \A q \in OpenRows' : RowBacked(q)'
    <2>1. /\ Calm /\ Unsettled(p) = {}
          /\ kind = "exit" => \A t \in Sigs : swaps[t].kind \in Sales => swaps[t].st # "sent"
        BY <1>6, SentCalm
    <2>2. Alone /\ Covered(0) /\ RowBacked(p)
        BY <1>4, <2>1 DEF BackInv, Backed
    <2>3. Alone'
        BY <1>2, <1>3, <2>1, <2>2, SendAlone
    <2>4. SwapsStay
        BY <1>3, SentOthers
    <2>5. ASSUME NEW t \in Sigs, swaps[t].st = "sent"
          PROVE  rows'[swaps[t].pos].st = "open" <=> rows[swaps[t].pos].st = "open"
        BY <1>2, <2>5, SwapTyped
    <2>6. Due' = Due
        BY <1>3, <2>4, <2>5, DueKept DEF Grown
    <2>7. Plain(p)
        BY <2>1 DEF Plain
    <2>8. Covered(rows[p].held)
        BY <2>2, <2>7, PlainHeld
    <2>14. wallet' = wallet /\ rows'[p].held = rows[p].held
        OBVIOUS
    <2>9. Covered(0)' /\ Covered(rows[p].held)'
        BY <2>2, <2>6, <2>8, <2>14 DEF Covered
    <2>10. Unsettled(p)' = {n} /\ swaps'[n].st = "sent" /\ swaps'[n].kind = kind /\ swaps'[n].amount = a
        <3>1. Unsettled(p) = {}
            BY <2>1
        <3>2. Unsettled(p)' = {n}
            BY <1>3, <3>1, SentOnly
        <3>3. swaps'[n].st = "sent" /\ swaps'[n].kind = kind /\ swaps'[n].amount = a
            BY <1>3 DEF Grown
        <3> QED
            BY <3>2, <3>3
    <2>11. kind \in Sales => Covered(a)'
        <3>1. CASE kind = "partial"
            <4>1. rows[p].held \in Nat /\ wallet \in Nat /\ Due \in Nat
                BY <1>2, DueTyped DEF RowsInv, Rows, SwapsInv
            <4>2. rows[p].held + Due <= wallet /\ a <= rows[p].held
                BY <2>8, <3>1 DEF Covered
            <4>3. a + Due <= wallet
                BY <4>1, <4>2
            <4> QED
                BY <2>6, <4>3 DEF Covered
        <3>2. CASE kind = "exit"
            <4>1. Owing("partial") = {} /\ Owing("exit") = {}
                BY <2>1, <3>2 DEF Owing, Sent, Sales
            <4>2. Due = 0
                BY <4>1 DEF Due, DueOf, DueIn
            <4>3. a <= wallet
                BY <3>2
            <4> QED
                BY <2>6, <4>2, <4>3 DEF Covered
        <3> QED
            BY <3>1, <3>2 DEF Sales
    <2>12. \A k : Unbooked(p, k)' = {}
        BY <2>10 DEF Unbooked, Unsettled
    <2>13. RowBacked(p)'
        BY <2>9, <2>10, <2>11, <2>12 DEF RowBacked
    <2> QED
        BY <1>4, <2>3, <2>9, <2>13
<1> QED
    BY <1>5, <1>6 DEF BackInv, Backed

\* The calls.
LEMMA CallsBacked ==
    ASSUME BooksConstants, Inv, Inv', BackInv, NEW p \in Positions,
           SendEntry(p) \/ SendAdd(p) \/ SendPartial(p) \/ SendExit(p)
    PROVE  BackInv'
<1>1. CASE SendEntry(p)
    BY <1>1, EntrySent
<1>2. RowsInv /\ SwapsInv /\ Amounts \subseteq Nat
    BY DEF Inv, BooksConstants
<1>3. CASE SendAdd(p)
    <2>1. PICK a \in Nat : Send("dca", p, a)
        BY <1>2, <1>3 DEF SendAdd
    <2> QED
        BY <1>3, <2>1, OwnSent DEF SendAdd
<1>4. CASE SendPartial(p)
    <2>1. PICK a \in Nat : Send("partial", p, a) /\ a \in partial_exit_amount(p)
        BY <1>4 DEF SendPartial, partial_exit_amount
    <2>2. rows[p].held \in Nat /\ wallet \in Nat
        BY <1>2 DEF RowsInv, Rows, SwapsInv
    <2>3. a <= rows[p].held
        BY <2>1, <2>2 DEF partial_exit_amount, Monus, Least
    <2> QED
        BY <1>4, <2>1, <2>3, OwnSent DEF SendPartial
<1>5. CASE SendExit(p)
    <2>1. PICK a \in Nat : Send("exit", p, a) /\ a \in full_exit_amount(p)
        BY <1>5 DEF SendExit, full_exit_amount
    <2>2. wallet \in Nat /\ other_open_held(p) \in Nat /\ rows[p].held \in Nat
        BY <1>2, OtherHeldTyped DEF RowsInv, Rows, SwapsInv
    <2>3. a <= wallet
        <3> PICK u : u = IF Attributable(p) THEN Monus(wallet, other_open_held(p))
                         ELSE Least(wallet, rows[p].held)
            OBVIOUS
        <3>1. u \in Nat /\ u <= wallet
            BY <2>2, Difference
        <3>2. a \in 1 .. u
            BY <2>1 DEF full_exit_amount
        <3> QED
            BY <2>2, <3>1, <3>2
    <2>4. \A q \in Positions : rows'[q].st = rows[q].st /\ rows'[q].held = rows[q].held
        <3> PICK m : m = Len(swaps) + 1
            OBVIOUS
        <3>1. rows' = [rows EXCEPT ![p].exit = m]
            BY <1>5 DEF SendExit
        <3> QED
            BY <1>2, <3>1 DEF RowsInv, Rows
    <2> QED
        BY <1>5, <2>1, <2>3, <2>4, OwnSent DEF SendExit
<1> QED
    BY <1>1, <1>3, <1>4, <1>5

-----------------------------------------------------------------------------
(* A write-off, and the chain *)

\* A step that leaves the swaps and what is verified alone.
LEMMA OrderKept ==
    ASSUME OrderInv, OneOpen', UNCHANGED <<swaps, records, wallet, item>>
    PROVE  OrderInv'
<1>1. Sigs' = Sigs
    BY DEF Sigs
<1>2. OnePartial'
    BY <1>1 DEF OrderInv, OnePartial, Pending
<1>3. RecordsLanded' /\ ItemLanded'
    BY <1>1 DEF OrderInv, RecordsLanded, ItemLanded
<1>4. ItemBacked'
    BY <1>1 DEF OrderInv, ItemBacked, OtherSaleLanded
<1> QED
    BY <1>2, <1>3, <1>4 DEF OrderInv

\* force_close_position: what a sale in flight will take was covered.
LEMMA WriteOffBacked ==
    ASSUME BooksConstants, Inv, Inv', BackInv, NEW p \in Positions, WriteOff(p)
    PROVE  BackInv'
<1>1. SwapsInv /\ RowsInv /\ OrderInv /\ SwapsInv'
    BY DEF Inv, BackInv
<1>2. /\ rows[p].st = "open" /\ rows'[p].st = "closed" /\ \A q \in Positions : q # p => rows'[q] = rows[q]
      /\ UNCHANGED <<swaps, records, wallet, item, overlapped>>
    <2> PICK r : r = [book_remaining_as_exited(rows[p]) EXCEPT !.st = "closed", !.synth = TRUE]
        OBVIOUS
    <2>1. rows' = [rows EXCEPT ![p] = r]
        BY DEF WriteOff
    <2>2. book_remaining_as_exited(rows[p]) \in Rows
        BY <1>1, RestExited DEF Is, RowsInv
    <2>3. r.st = "closed"
        BY <2>2 DEF Rows
    <2> QED
        BY <1>1, <2>1, <2>3 DEF WriteOff, RowsInv
<1>3. OpenRows' = {} /\ p \in OpenRows
    <2>1. p \in OpenRows
        BY <1>2 DEF OpenRows
    <2>2. ASSUME NEW q \in OpenRows' PROVE FALSE
        <3>1. q \in Positions /\ rows'[q].st = "open"
            BY DEF OpenRows
        <3>2. q # p
            BY <1>2, <3>1
        <3>3. q \in OpenRows
            BY <1>2, <3>1, <3>2 DEF OpenRows
        <3> QED
            BY <1>1, <2>1, <3>2, <3>3 DEF OrderInv, OneOpen
    <2> QED
        BY <2>1, <2>2
<1>4. OrderInv'
    BY <1>1, <1>2, <1>3, OrderKept DEF OneOpen
<1>5. ASSUME Calm' PROVE Alone' /\ Covered(0)'
    <2>1. Alone /\ Covered(0) /\ RowBacked(p)
        BY <1>2, <1>3, <1>5 DEF BackInv, Backed, Calm
    <2>2. Alone'
        BY <1>2, <2>1 DEF Alone, Sent, Pending, Sigs
    <2>3. CASE \E s \in Unsettled(p) : swaps[s].kind \in Sales /\ swaps[s].st = "sent"
        <3>1. PICK s \in Unsettled(p) : swaps[s].kind \in Sales /\ swaps[s].st = "sent"
            BY <2>3
        <3>2. s \in Sigs /\ swaps[s].pos = p /\ swaps[s].amount \in Nat
            BY <1>1, SwapTyped DEF Unsettled
        <3>3. Due' = Due + swaps[s].amount
            BY <1>1, <1>2, <2>1, <3>1, <3>2, DueCome DEF OrderInv
        <3>4. swaps[s].amount + Due <= wallet
            BY <2>1, <3>1 DEF RowBacked, Covered
        <3>5. 0 + Due' <= wallet'
            BY <1>1, <1>2, <3>2, <3>3, <3>4, DueTyped
        <3> QED
            BY <2>2, <3>5 DEF Covered
    <2>4. CASE ~ \E s \in Unsettled(p) : swaps[s].kind \in Sales /\ swaps[s].st = "sent"
        <3>1. Sigs' = Sigs
            BY <1>2 DEF Sigs
        <3>2. ASSUME NEW k \in Sales PROVE Owing(k)' = Owing(k)
            <4>1. ASSUME NEW t PROVE t \in Owing(k)' <=> t \in Owing(k)
                <5>1. ASSUME t \in Sigs, swaps[t].kind = k, swaps[t].st = "sent"
                      PROVE  rows'[swaps[t].pos] = rows[swaps[t].pos]
                    <6>1. swaps[t].pos # p /\ swaps[t].pos \in Positions
                        BY <1>1, <2>4, <5>1, SwapTyped DEF Unsettled
                    <6> QED
                        BY <1>2, <6>1
                <5> QED
                    BY <1>2, <3>1, <5>1 DEF Owing, Sent
            <4> QED
                BY <4>1
        <3>3. SwapsStay
            BY <1>2, <3>1 DEF SwapsStay
        <3>4. Due' = Due
            BY <3>2, <3>3, DueSame DEF Due, Sales
        <3> QED
            BY <1>2, <2>1, <2>2, <3>4 DEF Covered
    <2> QED
        BY <2>3, <2>4
<1> QED
    BY <1>3, <1>4, <1>5 DEF BackInv, Backed

\* A swap in flight that lands, and one that is settled, leave one swap to a position.
LEMMA MarkedAlone ==
    ASSUME NEW s \in Sigs, NEW x, x # "sent", swaps[s].st # "settled", Marked(s, x)
    PROVE  (Alone => Alone') /\ (OnePartial => OnePartial')
<1>1. \A k : Pending(k)' \subseteq Pending(k)
    BY DEF Marked, Pending
<1>2. Sent("exit")' \subseteq Sent("exit")
    BY DEF Marked, Sent
<1>3. \A t \in Pending(Buys \union Sales)' : swaps'[t].pos = swaps[t].pos
    BY DEF Marked, Pending
<1>4. Alone => Alone'
    BY <1>1, <1>2, <1>3 DEF Alone
<1>5. OnePartial => OnePartial'
    BY <1>1 DEF OnePartial
<1> QED
    BY <1>4, <1>5

\* The swaps of another row are the same.
LEMMA MarkedOthers ==
    ASSUME NEW s \in Sigs, NEW x, Marked(s, x), NEW q, q # swaps[s].pos
    PROVE  /\ SwapsStay /\ Unsettled(q)' = Unsettled(q)
           /\ \A t \in Unsettled(q) : swaps'[t].st = swaps[t].st
<1>1. SwapsStay
    BY DEF Marked, SwapsStay
<1>2. ASSUME NEW t PROVE t \in Unsettled(q)' <=> t \in Unsettled(q)
    BY DEF Marked, Unsettled
<1> QED
    BY <1>1, <1>2 DEF Marked, Unsettled

\* They are recorded as they were, too, when only swap s is recorded.
LEMMA RecordedOthers ==
    ASSUME NEW s \in Sigs, NEW x, Marked(s, x), NEW q, q # swaps[s].pos,
           rows'[q].entry = rows[q].entry,
           \A u, t : <<u, t>> \in records' <=> <<u, t>> \in records \/ (t = s /\ <<u, t>> \in records')
    PROVE  \A t \in Unsettled(q) : Recorded(t)' <=> Recorded(t)
<1>1. ASSUME NEW t \in Unsettled(q) PROVE Recorded(t)' <=> Recorded(t)
    <2>1. t \in Sigs /\ t # s /\ swaps[t].pos = q /\ swaps'[t].pos = q /\ swaps'[t].kind = swaps[t].kind
        BY DEF Unsettled, Marked
    <2>2. \A u : <<u, t>> \in records' <=> <<u, t>> \in records
        BY <2>1
    <2>3. entry_recorded_for_mint(q, t)' <=> entry_recorded_for_mint(q, t)
        BY <2>2 DEF entry_recorded_for_mint
    <2> QED
        BY <2>1, <2>2, <2>3 DEF Recorded
<1> QED
    BY <1>1

\* A swap that lands or never will, and what was verified.
LEMMA ChainOrdered ==
    ASSUME SwapsInv, SwapsInv', OrderInv, OneOpen', NEW s \in Sigs, swaps[s].st = "sent",
           NEW x \in {"landed", "settled"}, Marked(s, x), UNCHANGED <<records, item>>,
           wallet' = wallet \/ (x = "landed" /\ swaps[s].kind \in Buys /\ wallet <= wallet')
                            \/ (x = "landed" /\ swaps[s].kind \in Sales)
    PROVE  OrderInv'
<1>1. OnePartial'
    BY MarkedAlone DEF OrderInv
<1>2. RecordsLanded'
    BY DEF OrderInv, RecordsLanded, Marked
<1>3. ItemLanded'
    BY DEF OrderInv, ItemLanded, Marked
<1>4. ItemBacked'
    <2>1. CASE item = NoItem
        <3>1. item'.held = 0 /\ wallet' \in Nat
            BY <2>1 DEF NoItem, SwapsInv
        <3> QED
            BY <3>1 DEF ItemBacked
    <2>2. CASE item # NoItem
        <3>1. item.sig \in Sigs /\ item.sig # s
            BY <2>2 DEF OrderInv, ItemLanded
        <3>2. OtherSaleLanded => OtherSaleLanded'
            BY DEF OtherSaleLanded, Marked
        <3>3. x = "landed" /\ swaps[s].kind \in Sales => OtherSaleLanded'
            BY <3>1 DEF OtherSaleLanded, Marked
        <3>4. item.held \in Nat /\ wallet \in Nat /\ wallet' \in Nat
            BY DEF SwapsInv
        <3>5. ASSUME ~ OtherSaleLanded' PROVE item'.held <= wallet'
            <4>1. item.held <= wallet /\ wallet <= wallet'
                BY <3>2, <3>3, <3>4, <3>5 DEF OrderInv, ItemBacked
            <4> QED
                BY <3>4, <4>1
        <3> QED
            BY <3>5 DEF ItemBacked
    <2> QED
        BY <2>1, <2>2
<1> QED
    BY <1>1, <1>2, <1>3, <1>4 DEF OrderInv

\* What is owed stays when a swap that owes nothing is done.
LEMMA DueMarked ==
    ASSUME NEW s \in Sigs, NEW x, x # "sent", Marked(s, x),
           swaps[s].st = "sent" => swaps[s].kind \notin Sales \/ rows[swaps[s].pos].st = "open",
           \A t \in Sigs : t # s /\ swaps[t].st = "sent" =>
              (rows'[swaps[t].pos].st = "open" <=> rows[swaps[t].pos].st = "open")
    PROVE  Due' = Due
<1>1. SwapsStay
    BY DEF Marked, SwapsStay
<1>2. ASSUME NEW k \in Sales PROVE Owing(k)' = Owing(k)
    <2>1. ASSUME NEW t PROVE t \in Owing(k)' <=> t \in Owing(k)
        <3>1. CASE t = s
            BY <3>1 DEF Marked, Owing, Sent
        <3>2. CASE t # s
            BY <3>2 DEF Marked, Owing, Sent
        <3> QED
            BY <3>1, <3>2
    <2> QED
        BY <2>1
<1>3. DueOf("partial")' = DueOf("partial") /\ DueOf("exit")' = DueOf("exit")
    BY <1>1, <1>2, DueSame DEF Sales
<1> QED
    BY <1>3 DEF Due

\* A row stays covered when another's swap moves and the wallet keeps its room.
LEMMA BesideBacked ==
    ASSUME Room, SwapsInv, SwapsInv', NEW s \in Sigs, NEW x, Marked(s, x), NEW q \in Positions,
           q # swaps[s].pos, rows[q].held \in Nat, rows'[q].held = rows[q].held, rows'[q].entry = rows[q].entry,
           \A u, t : <<u, t>> \in records' <=> <<u, t>> \in records \/ (t = s /\ <<u, t>> \in records'),
           RowBacked(q)
    PROVE  RowBacked(q)'
<1>1. /\ SwapsStay /\ Unsettled(q)' = Unsettled(q)
      /\ \A t \in Unsettled(q) : swaps'[t].st = swaps[t].st
    BY MarkedOthers
<1>2. \A t \in Unsettled(q) : Recorded(t)' <=> Recorded(t)
    BY RecordedOthers
<1> QED
    BY <1>1, <1>2, OtherBacked

\* The swap of a row that has no other.
LEMMA OwnMarked ==
    ASSUME SwapsInv, Alone, NEW s \in Sigs, swaps[s].st # "settled", NEW x, Marked(s, x),
           NEW p, p = swaps[s].pos
    PROVE  /\ \A t \in Unsettled(p)' : t = s /\ x # "settled"
           /\ \A t \in Sigs : t # s /\ swaps[t].st # "settled" => swaps[t].pos # p
<1>1. \A t \in Unsettled(p) : t = s
    BY OnlySwap
<1>2. \A t \in Unsettled(p)' : t \in Unsettled(p) /\ (t = s => x # "settled")
    BY DEF Marked, Unsettled
<1> QED
    BY <1>1, <1>2 DEF Unsettled

\* A swap lands: a buy brings what its row has not booked, a sale takes what was covered.
LEMMA LandBacked ==
    ASSUME BooksConstants, Inv, Inv', BackInv, NEW s \in Sigs, Land(s)
    PROVE  BackInv'
<1> PICK p, a, k : p = swaps[s].pos /\ a = swaps[s].amount /\ k = swaps[s].kind
    OBVIOUS
<1>1. SwapsInv /\ SwapsInv' /\ RowsInv /\ OrderInv
    BY DEF Inv, BackInv
<1>2. /\ p \in Positions /\ a \in Nat /\ k \in Buys \union Sales /\ swaps[s].st = "sent"
      /\ UNCHANGED <<rows, records, item, overlapped>>
      /\ (k \in Sales => wallet >= a)
      /\ wallet' = IF k \in Buys THEN wallet + a ELSE wallet - a
    BY <1>1, SwapTyped DEF Land, history
<1>3. Marked(s, "landed")
    BY <1>1, MarkedBy DEF Land
<1>4. OpenRows' = OpenRows
    BY <1>2 DEF OpenRows
<1>5. wallet \in Nat /\ wallet' \in Nat /\ Due \in Nat /\ Due' \in Nat
    BY <1>1, DueTyped, DueTypedNext DEF SwapsInv
<1>6. OrderInv'
    <2>1. OneOpen'
        BY <1>1, <1>4 DEF OrderInv, OneOpen
    <2>2. \/ k \in Buys /\ wallet <= wallet'
          \/ k \in Sales
        BY <1>2, <1>5
    <2> QED
        BY <1>1, <1>2, <1>3, <2>1, <2>2, ChainOrdered
<1>7. ASSUME Calm' PROVE Alone' /\ Covered(0)' /\ \A q \in OpenRows' : RowBacked(q)'
    <2>1. Alone /\ Covered(0) /\ \A q \in OpenRows : RowBacked(q)
        BY <1>2, <1>7 DEF BackInv, Backed, Calm
    <2>2. Alone' /\ OnePartial
        BY <1>1, <1>2, <1>3, <2>1, MarkedAlone DEF OrderInv
    <2>3. k \in Buys \/ rows[p].st = "open" => Due' = Due
        BY <1>2, <1>3, DueMarked DEF Buys, Sales
    <2>4. k \in Sales /\ rows[p].st # "open" => Due' + a = Due
        BY <1>1, <1>2, <1>3, <2>1, <2>2, DueGone
    <2>5. k \in Buys \/ rows[p].st # "open" => Room
        <3>1. CASE k \in Buys
            BY <1>2, <1>5, <2>3, <3>1 DEF Room
        <3>2. CASE k \in Sales /\ rows[p].st # "open"
            <4>1. wallet' = wallet - a /\ Due' + a = Due
                BY <1>2, <2>4, <3>2 DEF Buys, Sales
            <4> QED
                BY <1>2, <1>5, <4>1 DEF Room
        <3> QED
            BY <1>2, <3>1, <3>2
    <2>6. ASSUME NEW q \in OpenRows, q # p PROVE RowBacked(q)'
        <3>1. Room
            BY <1>1, <1>2, <2>5, <2>6 DEF OrderInv, OneOpen, OpenRows
        <3>2. q \in Positions /\ rows[q].held \in Nat
            BY <1>1 DEF RowsInv, Rows, OpenRows
        <3>3. rows' = rows /\ records' = records
            BY <1>2
        <3> QED
            BY <1>1, <1>3, <2>1, <2>6, <3>1, <3>2, <3>3, BesideBacked
    <2>7. ASSUME rows[p].st = "open"
          PROVE  /\ rows[p].held \in Nat /\ rows[p].held + Due <= wallet
                 /\ k \in Sales => a + Due <= wallet
        <3>1. RowBacked(p)
            BY <1>2, <2>1, <2>7 DEF OpenRows
        <3>2. \A t \in Unsettled(p) : t = s
            BY <1>1, <1>2, <2>1, OnlySwap
        <3>3. Unbooked(p, Sales) = {}
            BY <1>2, <3>2 DEF Unbooked, Unsettled
        <3>4. s \in Unsettled(p)
            BY <1>2 DEF Unsettled
        <3> QED
            BY <1>1, <1>2, <3>1, <3>3, <3>4 DEF RowBacked, Covered, RowsInv, Rows
    <2>8. Covered(0)'
        <3>1. CASE k \in Sales /\ rows[p].st = "open"
            <4>1. wallet' = wallet - a /\ Due' = Due /\ a + Due <= wallet
                BY <1>2, <2>3, <2>7, <3>1 DEF Buys, Sales
            <4>2. 0 + Due' <= wallet'
                BY <1>2, <1>5, <4>1
            <4> QED
                BY <4>2 DEF Covered
        <3>2. CASE k \in Buys \/ rows[p].st # "open"
            <4> PICK d, e, v, w : d = Due /\ e = Due' /\ v = wallet /\ w = wallet'
                OBVIOUS
            <4>1. e + v <= d + w /\ 0 + d <= v
                BY <2>1, <2>5, <3>2 DEF Room, Covered
            <4>2. 0 + e <= w
                BY <1>5, <4>1, StillCovered
            <4> QED
                BY <4>2 DEF Covered
        <3> QED
            BY <1>2, <3>1, <3>2
    <2>9. ASSUME rows[p].st = "open" PROVE RowBacked(p)'
        <3> PICK h : h = rows[p].held
            OBVIOUS
        <3>1. /\ h \in Nat /\ h + Due <= wallet /\ Due' = Due /\ rows'[p].held = h
              /\ k \in Sales => a + Due <= wallet
            BY <1>2, <2>3, <2>7, <2>9
        <3>2. \A t \in Unsettled(p)' : t = s
            <4>1. Alone /\ swaps[s].st # "settled"
                BY <1>2, <2>1
            <4> QED
                BY <1>1, <1>3, <4>1, OwnMarked
        <3>3. swaps'[s].st = "landed" /\ swaps'[s].kind = k /\ swaps'[s].amount = a /\ swaps'[s].pos = p
            BY <1>3 DEF Marked
        <3>4. \A t \in Unsettled(p)' : swaps'[t].st # "sent"
            BY <3>2, <3>3
        <3>5. ASSUME NEW j PROVE \A t \in Unbooked(p, j)' : t = s /\ k \in j
            BY <3>2, <3>3 DEF Unbooked, Unsettled
        <3>6. CASE k \in Buys
            <4>1. k \notin Sales /\ wallet' = wallet + a
                BY <1>2, <3>6 DEF Buys, Sales
            <4>2. h + a + Due' <= wallet' /\ h + Due' <= wallet'
                BY <1>2, <1>5, <3>1, <4>1
            <4>3. \A t \in Unbooked(p, Buys)' : Covered(rows[p].held + swaps[t].amount)'
                BY <3>1, <3>3, <3>5, <4>2 DEF Covered
            <4>4. Unbooked(p, Sales)' = {} /\ Covered(rows[p].held)'
                BY <3>1, <3>5, <4>1, <4>2 DEF Covered
            <4> QED
                BY <3>4, <4>3, <4>4 DEF RowBacked
        <3>7. CASE k \in Sales
            <4>1. k \notin Buys /\ wallet' = wallet - a
                BY <1>2, <3>7 DEF Buys, Sales
            <4>2. Monus(h, a) + Due' <= wallet'
                <5>1. CASE h > a
                    BY <1>2, <1>5, <3>1, <4>1, <5>1 DEF Monus
                <5>2. CASE ~ h > a
                    <6>1. Monus(h, a) = 0 /\ a + Due <= wallet
                        BY <3>1, <3>7, <5>2 DEF Monus
                    <6> QED
                        BY <1>2, <1>5, <3>1, <4>1, <6>1
                <5> QED
                    BY <5>1, <5>2
            <4>3. \A t \in Unbooked(p, Sales)' : Covered(Monus(rows[p].held, swaps[t].amount))'
                BY <3>1, <3>3, <3>5, <4>2 DEF Covered
            <4>4. Unbooked(p, Buys)' = {}
                BY <3>5, <4>1
            <4>5. ~ Recorded(s)'
                <5>1. <<p, s>> \notin records
                    BY <1>1, <1>2 DEF OrderInv, RecordsLanded
                <5> QED
                    BY <1>2, <3>3, <3>7, <5>1 DEF Recorded, Sales
            <4>6. s \in Unbooked(p, Sales)'
                BY <1>3, <3>3, <3>7, <4>5 DEF Unbooked, Marked
            <4> QED
                BY <3>4, <4>3, <4>4, <4>6 DEF RowBacked
        <3> QED
            BY <1>2, <3>6, <3>7
    <2> QED
        BY <1>4, <2>2, <2>6, <2>8, <2>9 DEF OpenRows
<1> QED
    BY <1>6, <1>7 DEF BackInv, Backed

\* What a swap that never landed leaves: its row as it was, or none when it was an orphan.
LEMMA NotLandedRows ==
    ASSUME RowsInv, SwapsInv, NEW s \in Sigs, NEW p, p = swaps[s].pos, NotLanded(s)
    PROVE  /\ p \in Positions /\ \A q \in Positions : q # p => rows'[q] = rows[q]
           /\ \/ rows'[p].st = rows[p].st /\ rows'[p].held = rows[p].held
              \/ swaps[s].kind = "entry" /\ rows[p].st = "open" /\ rows'[p].st = "none"
<1>1. p \in Positions /\ rows[p] \in Rows
    BY SwapFacts
<1>2. CASE swaps[s].kind = "exit"
    <2> PICK c : c = clear_exit_for_retry(rows[p], s)
        OBVIOUS
    <2>1. rows' = [rows EXCEPT ![p] = c]
        BY <1>2 DEF NotLanded
    <2>2. c.st = rows[p].st /\ c.held = rows[p].held
        BY <1>1, ExitCleared DEF Is
    <2> QED
        BY <1>1, <2>1, <2>2 DEF RowsInv
<1>3. CASE swaps[s].kind = "entry" /\ Orphan(p, s)
    <2>1. rows' = [rows EXCEPT ![p] = NoRow] /\ rows[p].st = "open"
        BY <1>3 DEF NotLanded, Orphan
    <2> QED
        BY <1>1, <1>3, <2>1 DEF RowsInv, NoRow
<1>4. CASE swaps[s].kind # "exit" /\ ~ (swaps[s].kind = "entry" /\ Orphan(p, s))
    BY <1>1, <1>4 DEF NotLanded
<1> QED
    BY <1>2, <1>3, <1>4

\* A swap never lands: what its sale would have taken stays.
LEMMA NotLandedBacked ==
    ASSUME BooksConstants, Inv, Inv', BackInv, NEW s \in Sigs, NotLanded(s)
    PROVE  BackInv'
<1> PICK p, a, k : p = swaps[s].pos /\ a = swaps[s].amount /\ k = swaps[s].kind
    OBVIOUS
<1>1. SwapsInv /\ SwapsInv' /\ RowsInv /\ OrderInv
    BY DEF Inv, BackInv
<1>2. /\ p \in Positions /\ a \in Nat /\ k \in Buys \union Sales /\ swaps[s].st = "sent"
      /\ UNCHANGED <<wallet, records, item, overlapped>>
    BY <1>1, SwapTyped DEF NotLanded, history
<1>3. Marked(s, "settled")
    BY <1>1, MarkedBy DEF NotLanded
<1>4. \A q \in Positions : q # p => rows'[q] = rows[q]
    BY <1>1, NotLandedRows
<1>5. \/ rows'[p].st = rows[p].st /\ rows'[p].held = rows[p].held
      \/ k = "entry" /\ rows[p].st = "open" /\ rows'[p].st = "none"
    BY <1>1, NotLandedRows
<1>6. \A q \in OpenRows' : q \in OpenRows /\ rows'[q].held = rows[q].held
    BY <1>4, <1>5 DEF OpenRows
<1>7. wallet \in Nat /\ wallet' \in Nat /\ Due \in Nat /\ Due' \in Nat
    BY <1>1, DueTyped, DueTypedNext DEF SwapsInv
<1>8. OrderInv'
    <2>1. OneOpen'
        BY <1>1, <1>6 DEF OrderInv, OneOpen
    <2> QED
        BY <1>1, <1>2, <1>3, <2>1, ChainOrdered
<1>9. ASSUME Calm' PROVE Alone' /\ Covered(0)' /\ \A q \in OpenRows' : RowBacked(q)'
    <2>1. Alone /\ Covered(0) /\ \A q \in OpenRows : RowBacked(q)
        BY <1>2, <1>9 DEF BackInv, Backed, Calm
    <2>2. Alone' /\ OnePartial
        BY <1>1, <1>2, <1>3, <2>1, MarkedAlone DEF OrderInv
    <2>0. Alone /\ swaps[s].st # "settled"
        BY <1>2, <2>1
    <2>3. \A t \in Unsettled(p)' : FALSE
        BY <1>1, <1>3, <2>0, OwnMarked
    <2>4. \A t \in Sigs : t # s /\ swaps[t].st # "settled" => swaps[t].pos # p
        BY <1>1, <1>3, <2>0, OwnMarked
    <2>5. ASSUME NEW t \in Sigs, t # s, swaps[t].st = "sent" PROVE rows'[swaps[t].pos] = rows[swaps[t].pos]
        <3>1. swaps[t].pos # p /\ swaps[t].pos \in Positions
            BY <1>1, <2>4, <2>5, SwapTyped
        <3> QED
            BY <1>4, <3>1
    <2>6. k \in Buys \/ rows[p].st = "open" => Due' = Due
        BY <1>2, <1>3, <2>5, DueMarked DEF Buys, Sales
    <2>7. ASSUME k \in Sales, rows[p].st # "open" PROVE Due' + a = Due
        <3>1. rows'[p].st = rows[p].st
            BY <1>5, <2>7
        <3>2. ASSUME NEW t \in Sigs PROVE rows'[swaps[t].pos].st = rows[swaps[t].pos].st
            <4>1. swaps[t].pos \in Positions
                BY <1>1, SwapTyped
            <4> QED
                BY <1>4, <3>1, <4>1
        <3> QED
            BY <1>1, <1>2, <1>3, <2>1, <2>2, <2>7, <3>2, DueGone
    <2>8. Due' <= Due
        <3>1. CASE k \in Buys \/ rows[p].st = "open"
            BY <1>7, <2>6, <3>1
        <3>2. CASE k \in Sales /\ rows[p].st # "open"
            BY <1>2, <1>7, <2>7, <3>2
        <3> QED
            BY <1>2, <3>1, <3>2
    <2>9. Room
        <3> PICK d, e, v, w : d = Due /\ e = Due' /\ v = wallet /\ w = wallet'
            OBVIOUS
        <3>1. e \in Nat /\ d \in Nat /\ v \in Nat /\ w \in Nat /\ e <= d /\ w = v
            BY <1>2, <1>7, <2>8
        <3>2. e + v <= d + v
            BY <3>1, MoreRoom
        <3> QED
            BY <3>1, <3>2 DEF Room
    <2>10. ASSUME NEW n \in Nat, n + Due <= wallet PROVE n + Due' <= wallet'
        <3> PICK d, e, v, w : d = Due /\ e = Due' /\ v = wallet /\ w = wallet'
            OBVIOUS
        <3>1. e + v <= d + w /\ n + d <= v
            BY <2>9, <2>10 DEF Room
        <3> QED
            BY <1>7, <3>1, StillCovered
    <2>11. Covered(0)'
        BY <2>1, <2>10 DEF Covered
    <2>12. ASSUME NEW q \in OpenRows' PROVE RowBacked(q)'
        <3>1. q \in Positions /\ rows[q].held \in Nat /\ rows'[q].held = rows[q].held /\ RowBacked(q)
            BY <1>1, <1>6, <2>1, <2>12 DEF RowsInv, Rows, OpenRows
        <3>2. CASE q # p
            <4>1. rows'[q].entry = rows[q].entry /\ records' = records
                BY <1>2, <1>4, <3>1, <3>2
            <4> QED
                BY <1>1, <1>3, <2>9, <3>1, <3>2, <4>1, BesideBacked
        <3>3. CASE q = p
            <4>1. \A t \in Unsettled(p) : t = s
                BY <1>1, <1>2, <2>1, OnlySwap
            <4>2. Unbooked(p, Sales) = {}
                BY <1>2, <4>1 DEF Unbooked, Unsettled
            <4>3. rows[p].held + Due <= wallet
                BY <3>1, <3>3, <4>2 DEF RowBacked, Covered
            <4>4. Covered(rows[p].held)'
                BY <2>10, <3>1, <3>3, <4>3 DEF Covered
            <4>5. Plain(p)'
                BY <2>3 DEF Plain
            <4> QED
                BY <3>3, <4>4, <4>5, PlainBacked
        <3> QED
            BY <3>2, <3>3
    <2> QED
        BY <2>2, <2>11, <2>12
<1> QED
    BY <1>8, <1>9 DEF BackInv, Backed

\* The rows, the swaps and the wallet as they were.
LEMMA StillBacked ==
    ASSUME BackInv, UNCHANGED <<rows, swaps, records, wallet, overlapped>>, ItemLanded', ItemBacked'
    PROVE  BackInv'
<1>1. Sigs' = Sigs /\ OpenRows' = OpenRows
    BY DEF Sigs, OpenRows
<1>2. OneOpen' /\ OnePartial' /\ RecordsLanded'
    BY <1>1 DEF BackInv, OrderInv, OneOpen, OnePartial, Pending, RecordsLanded
<1>3. Alone' <=> Alone
    BY <1>1 DEF Alone, Sent, Pending
<1>4. \A j : Owing(j)' = Owing(j)
    BY <1>1 DEF Owing, Sent
<1>5. \A j : DueOf(j)' = DueOf(j)
    BY <1>4 DEF DueOf, DueIn
<1>6. Due' = Due
    BY <1>5 DEF Due
<1>7. \A n : Covered(n)' <=> Covered(n)
    BY <1>6 DEF Covered
<1>8. \A t : Recorded(t)' <=> Recorded(t)
    BY DEF Recorded, entry_recorded_for_mint
<1>9. ASSUME NEW q PROVE RowBacked(q)' <=> RowBacked(q)
    <2>1. Unsettled(q)' = Unsettled(q)
        BY <1>1 DEF Unsettled
    <2>2. \A j : Unbooked(q, j)' = Unbooked(q, j)
        BY <1>1, <1>8 DEF Unbooked
    <2> QED
        BY <1>7, <2>1, <2>2 DEF RowBacked
<1>10. Backed'
    BY <1>1, <1>3, <1>7, <1>9 DEF BackInv, Backed, Calm
<1> QED
    BY <1>2, <1>10 DEF BackInv, OrderInv

\* verify_transaction reads what the wallet holds, and a retry forgets it.
LEMMA ReadBacked ==
    ASSUME Inv, BackInv, (\E s \in Sigs : Read(s)) \/ Retry \/ UNCHANGED vars
    PROVE  BackInv'
<1>1. SwapsInv /\ OrderInv
    BY DEF Inv, BackInv
<1>2. CASE \E s \in Sigs : Read(s)
    <2>1. PICK s \in Sigs : Read(s)
        BY <1>2
    <2>2. /\ UNCHANGED <<rows, swaps, records, wallet, overlapped>> /\ swaps[s].st = "landed"
          /\ item'.sig = s /\ item'.held = wallet
        BY <2>1 DEF Read, history
    <2>3. ItemLanded' /\ ItemBacked'
        BY <1>1, <2>2 DEF ItemLanded, ItemBacked, Sigs, SwapsInv
    <2> QED
        BY <2>2, <2>3, StillBacked
<1>3. CASE Retry
    <2>1. UNCHANGED <<rows, swaps, records, wallet, overlapped>> /\ item' = NoItem
        BY <1>3 DEF Retry, history
    <2>2. ItemLanded' /\ ItemBacked'
        BY <1>1, <2>1 DEF ItemLanded, ItemBacked, NoItem, SwapsInv
    <2> QED
        BY <2>1, <2>2, StillBacked
<1>4. CASE UNCHANGED vars
    <2>1. UNCHANGED <<rows, swaps, records, wallet, overlapped, item>>
        BY <1>4 DEF vars
    <2>2. ItemLanded' /\ ItemBacked'
        BY <1>1, <2>1 DEF OrderInv, ItemLanded, ItemBacked, OtherSaleLanded, Sigs
    <2> QED
        BY <2>1, <2>2, StillBacked
<1> QED
    BY <1>2, <1>3, <1>4

-----------------------------------------------------------------------------
(* The bookings *)

\* The verification of s ends.
Booked(s) == item.sig = s /\ Ends(s) /\ wallet' = wallet

\* Only records of s are added.
RecordsBy(s) ==
    records \subseteq records' /\ records' \subseteq records \union {<<u, s>> : u \in Positions}

\* The swap that is booked has landed, and is settled or verified again.
LEMMA BookedMarks ==
    ASSUME SwapsInv, OrderInv, NEW s \in Sigs, Booked(s)
    PROVE  /\ swaps[s].st = "landed" /\ item' = NoItem
           /\ \E x \in {"landed", "settled"} : Marked(s, x)
<1>1. swaps[s].st = "landed"
    <2>1. 0 \notin Sigs
        <3>1. Sigs = 1 .. Len(swaps) /\ Len(swaps) \in Nat
            BY LenProperties DEF SwapsInv, Sigs
        <3> QED
            BY <3>1
    <2> QED
        BY <2>1 DEF OrderInv, ItemLanded, Booked, NoItem
<1>2. CASE swaps' = [swaps EXCEPT ![s].st = "settled"]
    <2>1. Marked(s, "settled")
        BY <1>2, MarkedBy
    <2> QED
        BY <1>1, <2>1 DEF Booked, Ends
<1>3. CASE swaps' = swaps
    <2>1. Marked(s, "landed")
        BY <1>1, <1>3, MarkedStill
    <2> QED
        BY <1>1, <2>1 DEF Booked, Ends
<1> QED
    BY <1>2, <1>3 DEF Booked, Ends

\* What the histories say of a booking.
LEMMA BookedCalm ==
    ASSUME BackInv, NEW s \in Sigs, Booked(s), Calm'
    PROVE  /\ Alone /\ Covered(0) /\ \A q \in OpenRows : RowBacked(q)
           /\ records' # records /\ rows[swaps[s].pos].st = "closed" => Pending(Sales) \ {s} = {}
<1>1. Calm /\ ~ FillBesideSale(s)
    BY DEF Booked, Ends, Calm
<1> QED
    BY <1>1 DEF BackInv, Backed, FillBesideSale

\* Nothing is owed then, and the wallet still holds what was read.
LEMMA NoOtherSale ==
    ASSUME SwapsInv, OrderInv, NEW s \in Sigs, item.sig = s, swaps[s].st = "landed",
           Pending(Sales) \ {s} = {}
    PROVE  Due = 0 /\ item.held <= wallet
<1>1. ASSUME NEW t \in Sigs, swaps[t].kind \in Sales, t # s PROVE swaps[t].st = "settled"
    BY <1>1 DEF Pending
<1>2. Owing("partial") = {} /\ Owing("exit") = {}
    BY <1>1 DEF Owing, Sent, Sales
<1>3. Due = 0
    BY <1>2 DEF Due, DueOf, DueIn
<1>4. ~ OtherSaleLanded
    BY <1>1 DEF OtherSaleLanded
<1> QED
    BY <1>3, <1>4 DEF OrderInv, ItemBacked

\* The order of the swaps is kept.
LEMMA BookedOrdered ==
    ASSUME SwapsInv, SwapsInv', OrderInv, OneOpen', NEW s \in Sigs, Booked(s), RecordsBy(s)
    PROVE  OrderInv'
<1>1. PICK x \in {"landed", "settled"} : Marked(s, x)
    BY BookedMarks
<1>2. swaps[s].st = "landed" /\ item' = NoItem
    BY BookedMarks
<1>3. OnePartial'
    BY <1>1, <1>2, MarkedAlone DEF OrderInv
<1>4. RecordsLanded'
    <2>1. ASSUME NEW r \in records' PROVE r[2] \in Sigs /\ swaps[r[2]].st # "sent"
        <3>1. CASE r \in records
            BY <3>1 DEF OrderInv, RecordsLanded
        <3>2. CASE r \notin records
            <4>1. PICK u \in Positions : r = <<u, s>>
                BY <3>2 DEF RecordsBy
            <4> QED
                BY <1>2, <4>1
        <3> QED
            BY <3>1, <3>2
    <2> QED
        BY <1>1, <2>1 DEF RecordsLanded, Marked
<1>5. ItemLanded' /\ ItemBacked'
    BY <1>2 DEF ItemLanded, ItemBacked, NoItem, SwapsInv
<1> QED
    BY <1>3, <1>4, <1>5 DEF OrderInv

\* A booking leaves the open rows covered when each of them is untouched, or has nothing else
\* to wait for and holds what the wallet has beside what is owed.
LEMMA BookedBacked ==
    ASSUME Inv, Inv', BackInv, OneOpen', NEW s \in Sigs, Booked(s), RecordsBy(s),
           NEW p, p = swaps[s].pos,
           \A q \in Positions : q # p => rows'[q].st = rows[q].st,
           \A q \in OpenRows' : Calm' =>
              \/ q # p /\ rows'[q].held = rows[q].held /\ rows'[q].entry = rows[q].entry
              \/ Plain(q)' /\ rows'[q].held + Due <= wallet
    PROVE  BackInv'
<1>1. SwapsInv /\ SwapsInv' /\ RowsInv /\ OrderInv
    BY DEF Inv, BackInv
<1>2. OrderInv'
    BY <1>1, BookedOrdered
<1>3. PICK x \in {"landed", "settled"} : Marked(s, x)
    BY <1>1, BookedMarks
<1>4. swaps[s].st = "landed" /\ wallet' = wallet
    BY <1>1, BookedMarks DEF Booked
<1>5. ASSUME Calm' PROVE Alone' /\ Covered(0)' /\ \A q \in OpenRows' : RowBacked(q)'
    <2>1. Alone /\ Covered(0) /\ \A q \in OpenRows : RowBacked(q)
        BY <1>5, BookedCalm
    <2>2. Alone'
        BY <1>3, <1>4, <2>1, MarkedAlone
    <2>3. \A t \in Sigs : t # s /\ swaps[t].st # "settled" => swaps[t].pos # p
        BY <1>1, <1>3, <1>4, <2>1, OwnMarked
    <2>4. ASSUME NEW t \in Sigs, t # s, swaps[t].st = "sent"
          PROVE  rows'[swaps[t].pos].st = rows[swaps[t].pos].st
        <3>1. swaps[t].pos # p /\ swaps[t].pos \in Positions
            BY <1>1, <2>3, <2>4, SwapTyped
        <3> QED
            BY <3>1
    <2>5. Due' = Due
        BY <1>3, <1>4, <2>4, DueMarked
    <2>6. Covered(0)' /\ Due \in Nat /\ wallet \in Nat
        BY <1>1, <1>4, <2>1, <2>5, DueTyped DEF Covered, SwapsInv
    <2>7. Room
        <3> PICK d, e, v, w : d = Due /\ e = Due' /\ v = wallet /\ w = wallet'
            OBVIOUS
        <3>1. d \in Nat /\ v \in Nat /\ e = d /\ w = v
            BY <1>4, <2>5, <2>6
        <3>2. d <= d
            BY <3>1
        <3>3. d + v <= d + v
            BY <3>1, <3>2, MoreRoom
        <3> QED
            BY <3>1, <3>3 DEF Room
    <2>8. ASSUME NEW q \in OpenRows' PROVE RowBacked(q)'
        <3>1. q \in Positions /\ rows'[q].st = "open"
            BY DEF OpenRows
        <3>2. CASE q # p /\ rows'[q].held = rows[q].held /\ rows'[q].entry = rows[q].entry
            <4>1. rows[q].st = "open"
                BY <3>1, <3>2
            <4>2. RowBacked(q) /\ rows[q].held \in Nat
                BY <1>1, <2>1, <3>1, <4>1 DEF OpenRows, RowsInv, Rows
            <4>3. \A u, t : <<u, t>> \in records' <=> <<u, t>> \in records \/ (t = s /\ <<u, t>> \in records')
                BY DEF RecordsBy
            <4> QED
                BY <1>1, <1>3, <2>7, <3>1, <3>2, <4>2, <4>3, BesideBacked
        <3>3. CASE Plain(q)' /\ rows'[q].held + Due <= wallet
            <4>1. Covered(rows[q].held)'
                BY <1>4, <2>5, <3>3 DEF Covered
            <4> QED
                BY <3>3, <4>1, PlainBacked
        <3> QED
            BY <1>5, <3>2, <3>3
    <2> QED
        BY <2>2, <2>6, <2>8
<1> QED
    BY <1>2, <1>5 DEF BackInv, Backed

\* The row of the swap has nothing else to wait for.
LEMMA OwnPlain ==
    ASSUME Inv, BackInv, NEW s \in Sigs, Booked(s), Calm', NEW p, p = swaps[s].pos, Recorded(s)'
    PROVE  Plain(p)'
<1>1. SwapsInv /\ OrderInv
    BY DEF Inv, BackInv
<1>2. PICK x \in {"landed", "settled"} : Marked(s, x)
    BY <1>1, BookedMarks
<1>3. swaps[s].st = "landed" /\ Alone
    BY <1>1, BookedMarks, BookedCalm
<1>4. \A t \in Unsettled(p)' : t = s /\ x # "settled"
    BY <1>1, <1>2, <1>3, OwnMarked
<1>5. swaps'[s].st = x
    BY <1>2 DEF Marked
<1> QED
    BY <1>4, <1>5 DEF Plain

\* A swap that is booked already leaves its row what it held.
LEMMA IdleBacked ==
    ASSUME Inv, Inv', BackInv, NEW s \in Sigs, Booked(s), records' = records,
           \A q \in Positions : /\ rows'[q].st = rows[q].st /\ rows'[q].held = rows[q].held
                                /\ rows'[q].entry = rows[q].entry,
           NEW p, p = swaps[s].pos, rows[p].st = "open" => Recorded(s)
    PROVE  BackInv'
<1>1. SwapsInv /\ SwapsInv' /\ RowsInv /\ OrderInv
    BY DEF Inv, BackInv
<1>2. OpenRows' = OpenRows
    BY DEF OpenRows
<1>3. OneOpen'
    BY <1>1, <1>2 DEF OrderInv, OneOpen
<1>4. RecordsBy(s)
    BY DEF RecordsBy
<1>5. PICK x \in {"landed", "settled"} : Marked(s, x)
    BY <1>1, BookedMarks
<1>6. swaps[s].st = "landed" /\ p \in Positions
    BY <1>1, BookedMarks, SwapTyped
<1>7. ASSUME NEW q \in OpenRows', Calm'
      PROVE  \/ q # p /\ rows'[q].held = rows[q].held /\ rows'[q].entry = rows[q].entry
             \/ Plain(q)' /\ rows'[q].held + Due <= wallet
    <2>1. q \in OpenRows /\ q \in Positions /\ rows[q].st = "open"
        BY <1>2 DEF OpenRows
    <2>2. CASE q # p
        BY <2>1, <2>2
    <2>3. CASE q = p
        <3>1. Alone /\ RowBacked(p) /\ Recorded(s)
            BY <1>7, <2>1, <2>3, BookedCalm
        <3>2. \A t \in Unsettled(p) : t = s
            BY <1>1, <1>6, <3>1, OnlySwap
        <3>3. Plain(p)
            BY <1>6, <3>1, <3>2 DEF Plain
        <3>4. rows[p].held + Due <= wallet
            BY <3>1, <3>3, PlainHeld DEF Covered
        <3>5. Recorded(s)'
            <4>1. swaps'[s].pos = p /\ swaps'[s].kind = swaps[s].kind
                BY <1>5 DEF Marked
            <4>2. entry_recorded_for_mint(p, s)' <=> entry_recorded_for_mint(p, s)
                BY DEF entry_recorded_for_mint
            <4> QED
                BY <1>6, <3>1, <4>1, <4>2 DEF Recorded
        <3>6. Plain(p)'
            BY <1>7, <3>5, OwnPlain
        <3> QED
            BY <1>6, <2>3, <3>4, <3>6
    <2> QED
        BY <2>2, <2>3
<1> QED
    BY <1>3, <1>4, <1>7, BookedBacked

\* A booking on one row records the swap.
LEMMA OnRowRecords ==
    ASSUME Inv, BackInv, NEW s \in Sigs, Booked(s), NEW p, p = swaps[s].pos, NEW r \in Rows, OnRow(p, s, r)
    PROVE  /\ p \in Positions /\ RecordsBy(s) /\ Recorded(s)'
           /\ rows'[p] = r /\ \A q \in Positions : q # p => rows'[q] = rows[q]
<1>1. SwapsInv /\ RowsInv /\ OrderInv
    BY DEF Inv, BackInv
<1>2. PICK x \in {"landed", "settled"} : Marked(s, x)
    BY <1>1, BookedMarks
<1>3. p \in Positions /\ records' = records \union {<<p, s>>}
    BY <1>1, SwapTyped DEF OnRow
<1>4. RecordsBy(s)
    BY <1>3 DEF RecordsBy
<1>5. Recorded(s)'
    <2>1. swaps'[s].pos = p
        BY <1>2 DEF Marked
    <2>2. entry_recorded_for_mint(p, s)'
        BY <1>3 DEF entry_recorded_for_mint
    <2> QED
        BY <1>3, <2>1, <2>2 DEF Recorded
<1>6. rows'[p] = r /\ \A q \in Positions : q # p => rows'[q] = rows[q]
    BY <1>1, <1>3 DEF OnRow, RowsInv
<1> QED
    BY <1>3, <1>4, <1>5, <1>6

\* A booking on an open row: what a buy brings was covered, and so was what a sale leaves.
LEMMA OnRowBacked ==
    ASSUME Inv, Inv', BackInv, NEW s \in Sigs, Booked(s), NEW p, p = swaps[s].pos, rows[p].st = "open",
           ~ Recorded(s), NEW r \in Rows, OnRow(p, s, r),
           r.st = "open" =>
              \/ swaps[s].kind \in Buys /\ r.held <= rows[p].held + swaps[s].amount
              \/ swaps[s].kind \in Sales /\ r.held = Monus(rows[p].held, swaps[s].amount)
    PROVE  BackInv'
<1>1. SwapsInv /\ RowsInv /\ OrderInv
    BY DEF Inv, BackInv
<1>2. /\ p \in Positions /\ RecordsBy(s) /\ Recorded(s)'
      /\ rows'[p] = r /\ \A q \in Positions : q # p => rows'[q] = rows[q]
    BY OnRowRecords
<1>3. \A q \in OpenRows' : q \in OpenRows
    <2>1. ASSUME NEW q \in OpenRows' PROVE q \in OpenRows
        BY <1>2 DEF OpenRows
    <2> QED
        BY <2>1
<1>4. OneOpen'
    BY <1>1, <1>3 DEF OrderInv, OneOpen
<1>5. swaps[s].st = "landed" /\ swaps[s].amount \in Nat
    BY <1>1, BookedMarks, SwapTyped
<1>6. ASSUME NEW q \in OpenRows', Calm'
      PROVE  \/ q # p /\ rows'[q].held = rows[q].held /\ rows'[q].entry = rows[q].entry
             \/ Plain(q)' /\ rows'[q].held + Due <= wallet
    <2>1. CASE q # p
        BY <1>2, <2>1 DEF OpenRows
    <2>2. CASE q = p
        <3>1. RowBacked(p) /\ r.st = "open"
            BY <1>2, <1>3, <1>6, <2>2, BookedCalm DEF OpenRows
        <3>2. rows[p].held \in Nat /\ r.held \in Nat /\ wallet \in Nat /\ Due \in Nat
            BY <1>1, <1>2, DueTyped DEF RowsInv, Rows, SwapsInv
        <3>3. r.held + Due <= wallet
            <4>1. CASE swaps[s].kind \in Buys /\ r.held <= rows[p].held + swaps[s].amount
                <5>1. s \in Unbooked(p, Buys)
                    BY <1>5, <4>1 DEF Unbooked
                <5>2. rows[p].held + swaps[s].amount + Due <= wallet
                    BY <3>1, <5>1 DEF RowBacked, Covered
                <5> PICK h, g, a, d, w : /\ h = rows[p].held /\ g = r.held /\ a = swaps[s].amount
                                         /\ d = Due /\ w = wallet
                    OBVIOUS
                <5>3. g <= h + a /\ h + a + d <= w
                    BY <4>1, <5>2
                <5>4. h \in Nat /\ g \in Nat /\ a \in Nat /\ d \in Nat /\ w \in Nat
                    BY <1>5, <3>2
                <5>5. g + d <= w
                    BY <5>3, <5>4
                <5> QED
                    BY <5>5
            <4>2. CASE swaps[s].kind \in Sales /\ r.held = Monus(rows[p].held, swaps[s].amount)
                <5>1. s \in Unbooked(p, Sales)
                    BY <1>5, <4>2 DEF Unbooked
                <5> QED
                    BY <3>1, <4>2, <5>1 DEF RowBacked, Covered
            <4> QED
                BY <3>1, <4>1, <4>2
        <3>4. Plain(p)'
            BY <1>2, <1>6, OwnPlain
        <3> QED
            BY <1>2, <2>2, <3>3, <3>4
    <2> QED
        BY <2>1, <2>2
<1> QED
    BY <1>2, <1>4, <1>6, BookedBacked

\* A late fill of a mint without an open row: what reopens is in the wallet.
LEMMA LateRowBacked ==
    ASSUME Inv, Inv', BackInv, NEW s \in Sigs, Booked(s), NEW p, p = swaps[s].pos, rows[p].st = "closed",
           Beside(p) = {}, <<p, s>> \notin records, NEW r \in Rows, OnRow(p, s, r),
           r.st = "open" => r.held <= item.held
    PROVE  BackInv'
<1>1. SwapsInv /\ RowsInv /\ OrderInv
    BY DEF Inv, BackInv
<1>2. /\ p \in Positions /\ RecordsBy(s) /\ Recorded(s)'
      /\ rows'[p] = r /\ \A q \in Positions : q # p => rows'[q] = rows[q]
    BY OnRowRecords
<1>3. \A q \in OpenRows' : q = p
    <2>1. ASSUME NEW q \in OpenRows', q # p PROVE FALSE
        BY <1>2, <2>1 DEF OpenRows, Beside
    <2> QED
        BY <2>1
<1>4. OneOpen'
    BY <1>3 DEF OneOpen
<1>5. swaps[s].st = "landed"
    BY <1>1, BookedMarks
<1>6. ASSUME NEW q \in OpenRows', Calm'
      PROVE  Plain(q)' /\ rows'[q].held + Due <= wallet
    <2>1. records' # records
        BY DEF OnRow
    <2>2. Pending(Sales) \ {s} = {}
        BY <1>6, <2>1, BookedCalm
    <2>3. Due = 0 /\ item.held <= wallet
        BY <1>1, <1>5, <2>2, NoOtherSale DEF Booked
    <2>4. q = p /\ r.st = "open"
        BY <1>2, <1>3, <1>6 DEF OpenRows
    <2>5. r.held \in Nat /\ item.held \in Nat /\ wallet \in Nat
        BY <1>1 DEF Rows, SwapsInv
    <2>6. r.held + Due <= wallet
        <3> PICK h, g, w : h = r.held /\ g = item.held /\ w = wallet
            OBVIOUS
        <3>1. h <= g /\ g <= w
            BY <2>3, <2>4
        <3>2. h + 0 <= w
            BY <2>5, <3>1
        <3> QED
            BY <2>3, <3>2
    <2>7. Plain(p)'
        BY <1>2, <1>6, OwnPlain
    <2> QED
        BY <1>2, <2>4, <2>6, <2>7
<1> QED
    BY <1>2, <1>4, <1>6, BookedBacked

-----------------------------------------------------------------------------
(* What a handover gives the open row *)

\* The fold over what one row holds is that.
LEMMA HeldOfOne ==
    ASSUME NEW R, NEW q, R[q].held \in Nat
    PROVE  (CHOOSE h : HeldFold(R, {q}, h))[{q}] = R[q].held
<1>1. PICK D : D = {q}
    OBVIOUS
<1>2. PICK f : f = [u \in D |-> R[u].held]
    OBVIOUS
<1>3. f \in [D -> Nat] /\ \A u \in D : f[u] = R[u].held
    BY <1>1, <1>2
<1>4. IsFiniteSet(D)
    BY <1>1, FS_Singleton
<1>5. (CHOOSE h : HeldFold(R, D, h))[D] = Sums(f, D)[D]
    BY <1>3, <1>4, HeldSummed
<1>6. Pick(D) = q /\ D \ {Pick(D)} = {} /\ D \in SUBSET D /\ D # {}
    BY <1>1 DEF Pick
<1>7. /\ Sums(f, D)[{}] = 0
      /\ \A S \in SUBSET D : S # {} => Sums(f, D)[S] = f[Pick(S)] + Sums(f, D)[S \ {Pick(S)}]
    BY <1>3, <1>4, SumSplits
<1>8. Sums(f, D)[D] = f[q] + 0
    BY <1>6, <1>7
<1>9. f[q] + 0 = R[q].held
    BY <1>1, <1>2
<1> QED
    BY <1>1, <1>5, <1>8, <1>9

\* And over none it is nothing.
LEMMA HeldOfNone ==
    ASSUME NEW R
    PROVE  (CHOOSE h : HeldFold(R, {}, h))[{}] = 0
<1>1. PICK D : D = {}
    OBVIOUS
<1>2. PICK f : f = [u \in D |-> R[u].held]
    OBVIOUS
<1>3. f \in [D -> Nat] /\ \A u \in D : f[u] = R[u].held
    BY <1>1, <1>2
<1>4. IsFiniteSet(D)
    BY <1>1, FS_EmptySet
<1>5. (CHOOSE h : HeldFold(R, D, h))[D] = Sums(f, D)[D]
    BY <1>3, <1>4, HeldSummed
<1>6. Sums(f, D)[D] = 0
    BY <1>1, <1>3, <1>4, SumSplits
<1> QED
    BY <1>1, <1>5, <1>6

\* query_other_open_held beside one open row is what that row holds.
LEMMA BesideHeld ==
    ASSUME RowsInv, NEW p, NEW q \in Positions, Beside(p) = {q}
    PROVE  other_open_held(p) = rows[q].held
<1>1. other_open_held(p) = (CHOOSE h : HeldFold(rows, Beside(p), h))[Beside(p)]
    BY Zenon DEF other_open_held, MapThenSumSet, MapThenFoldSet, HeldFold
<1>0. PICK R : R = rows
    OBVIOUS
<1>2. other_open_held(p) = (CHOOSE h : HeldFold(R, {q}, h))[{q}]
    BY <1>0, <1>1, Zenon
<1>3. R[q].held \in Nat
    BY <1>0 DEF RowsInv, Rows
<1>4. (CHOOSE h : HeldFold(R, {q}, h))[{q}] = R[q].held
    BY <1>3, HeldOfOne
<1> QED
    BY <1>0, <1>2, <1>4

\* A row that follows its round claims no more than is held.
LEMMA FollowedHeld ==
    ASSUME NEW r \in Rows, NEW n \in Nat
    PROVE  follow_round(r, n).st = "open" /\ r.st = "closed" => follow_round(r, n).held <= n
<1> PICK q : q = acquired_amount(r)
    OBVIOUS
<1>1. q \in Nat
    BY AcquiredNat
<1>2. CASE is_dust(n, q)
    BY <1>2, Followed
<1>3. CASE ~ is_dust(n, q)
    <2> PICK h : h = Least(n, q)
        OBVIOUS
    <2>1. h \in Nat /\ h <= n
        BY <1>1, Difference
    <2>2. follow_round(r, n).held = h
        BY <1>3 DEF follow_round, clear_close, Rows
    <2> QED
        BY <2>1, <2>2
<1> QED
    BY <1>2, <1>3

\* Nor does it hand over more.
LEMMA HandedOverHeld ==
    ASSUME NEW r \in Rows, NEW n \in Nat, NEW b \in Nat
    PROVE  hand_over_round(r, n).tokens <= n /\ hand_over_leg(r, b, n).tokens <= n
<1> PICK q : q = acquired_amount(r)
    OBVIOUS
<1>1. q \in Nat /\ q + b \in Nat
    BY AcquiredNat
<1>2. hand_over_round(r, n).tokens <= n
    <2> PICK l : l = Least(n, q)
        OBVIOUS
    <2>1. hand_over_round(r, n).tokens = 0 \/ hand_over_round(r, n).tokens = l
        BY DEF hand_over_round, Kept
    <2>2. l <= n /\ 0 <= n
        BY <1>1, Difference
    <2> QED
        BY <2>1, <2>2
<1>3. hand_over_leg(r, b, n).tokens <= n
    <2> PICK l : l = Least(n, q + b)
        OBVIOUS
    <2>1. hand_over_leg(r, b, n).tokens = 0 \/ hand_over_leg(r, b, n).tokens = l
        BY DEF hand_over_leg, Kept
    <2>2. l <= n /\ 0 <= n
        BY <1>1, Difference
    <2> QED
        BY <2>1, <2>2
<1> QED
    BY <1>2, <1>3

\* late_fill_holding is of what was read beside the other open rows.
LEMMA LateHoldingRead ==
    ASSUME BooksConstants, RowsInv, SwapsInv, NEW p, NEW r \in Rows, NEW n \in Nat
    PROVE  /\ LateHolding(p, r, n) \in Nat /\ LateHolding(p, r, n) <= item.held
           /\ LateHolding(p, r, n) > 0 => LateHolding(p, r, n) + other_open_held(p) <= item.held
<1>1. LateHolding(p, r, n) \in Nat
    BY LateHoldingTyped
<1> PICK h, o, c, l : /\ h = item.held /\ o = other_open_held(p)
                      /\ c = acquired_amount(r) + n /\ l = LateHolding(p, r, n)
    OBVIOUS
<1>2. h \in Nat /\ o \in Nat /\ c \in Nat
    BY OtherHeldTyped, AcquiredNat DEF SwapsInv
<1>3. l = Least(Monus(h, o), c)
    BY DEF LateHolding, attributable_held
<1>4. l <= h /\ (l > 0 => l + o <= h)
    BY <1>2, <1>3 DEF Least, Monus
<1> QED
    BY <1>1, <1>4

\* What an open row waits for beside a late fill that is booked is no sale: a buy in flight, or
\* its entry, which is verified.
LEMMA TakerPlain ==
    ASSUME Inv, BackInv, NEW s \in Sigs, Booked(s), NEW p, p = swaps[s].pos, ~ other_swap_in_flight(p, s),
           Attributable(p), Pending(Sales) \ {s} = {}, NEW q \in Beside(p), rows'[q].entry = rows[q].entry
    PROVE  Plain(q)'
<1>1. SwapsInv /\ OrderInv
    BY DEF Inv, BackInv
<1>2. PICK x \in {"landed", "settled"} : Marked(s, x)
    BY <1>1, BookedMarks
<1>3. q # p /\ rows[q].st = "open" /\ rows[q].entry
    BY DEF Beside, OpenRows, Attributable
<1>4. ASSUME NEW t \in Unsettled(q)'
      PROVE  \/ swaps'[t].st = "sent" /\ swaps'[t].kind \in Buys
             \/ swaps'[t].st = "landed" /\ Recorded(t)'
    <2>1. /\ t \in Sigs /\ t # s /\ swaps[t].pos = q /\ swaps[t].st # "settled"
          /\ swaps'[t].kind = swaps[t].kind /\ swaps'[t].pos = q /\ swaps'[t].st = swaps[t].st
        BY <1>2, <1>3, <1>4 DEF Marked, Unsettled
    <2>2. swaps[t].kind \notin Sales
        BY <2>1 DEF Pending
    <2>3. swaps[t].kind # "dca"
        BY <1>3, <2>1 DEF other_swap_in_flight, Pending
    <2>4. swaps[t].kind \in Buys \union Sales /\ swaps[t].st \in {"sent", "landed", "settled"}
        BY <1>1, <2>1, SwapTyped
    <2>5. swaps[t].kind = "entry"
        BY <2>2, <2>3, <2>4 DEF Buys, Sales
    <2>6. Recorded(t)'
        BY <1>3, <2>1, <2>5 DEF Recorded
    <2> QED
        BY <2>1, <2>4, <2>5, <2>6 DEF Buys
<1> QED
    BY <1>4 DEF Plain

\* A late fill handed over: what the open row is given is in the wallet beside what it held.
LEMMA HandOverBacked ==
    ASSUME BooksConstants, Inv, Inv', BackInv, NEW s \in Sigs, Booked(s), NEW p, p = swaps[s].pos,
           rows[p].st = "closed", Beside(p) # {}, ~ other_swap_in_flight(p, s), Attributable(p),
           NEW out, NEW b, out.row \in Rows, out.row.st = "closed", out.tokens \in Nat,
           out.tokens > 0 => out.tokens + other_open_held(p) <= item.held, HandOver(p, s, out, b)
    PROVE  BackInv'
<1> PICK q, n : q = (CHOOSE u \in Beside(p) : TRUE) /\ n = out.tokens
    OBVIOUS
<1> PICK z : z = book_acquisition(rows[q], n)
    OBVIOUS
<1>1. SwapsInv /\ SwapsInv' /\ RowsInv /\ OrderInv
    BY DEF Inv, BackInv
<1>2. q \in Beside(p) /\ q \in Positions /\ q # p /\ rows[q].st = "open" /\ rows[q] \in Rows /\ p \in Positions
    BY <1>1, SwapTyped DEF Beside, OpenRows, RowsInv
<1>3. Beside(p) = {q} /\ OpenRows = {q}
    <2>1. ASSUME NEW u \in OpenRows PROVE u = q
        BY <1>1, <1>2, <2>1 DEF OrderInv, OneOpen, Beside
    <2> QED
        BY <1>2, <2>1 DEF Beside
<1>4. z.st = "open" /\ z.held = rows[q].held + n /\ z.entry = rows[q].entry
    BY <1>2 DEF book_acquisition, Rows
<1>5. /\ rows'[p] = out.row /\ rows'[q] = z
      /\ \A u \in Positions : u \notin {p, q} => rows'[u] = rows[u]
    <2>1. rows' = [rows EXCEPT ![p] = out.row, ![q] = book_acquisition(@, n)]
        BY DEF HandOver
    <2>2. rows' = [rows EXCEPT ![p] = out.row, ![q] = z]
        BY <1>1, <1>2, <2>1 DEF RowsInv
    <2> QED
        BY <1>1, <1>2, <2>2 DEF RowsInv
<1>6. RecordsBy(s) /\ (n > 0 => <<q, s>> \notin records /\ <<q, s>> \in records')
    <2>1. /\ n > 0 => <<q, s>> \notin records
          /\ records' = records \union (IF b THEN {<<p, s>>} ELSE {}) \union (IF n > 0 THEN {<<q, s>>} ELSE {})
        BY DEF HandOver
    <2>2. RecordsBy(s)
        <3>1. ASSUME NEW x \in records', x \notin records PROVE x \in {<<u, s>> : u \in Positions}
            <4>1. x = <<p, s>> \/ x = <<q, s>>
                BY <2>1, <3>1
            <4> QED
                BY <1>2, <4>1
        <3> QED
            BY <2>1, <3>1 DEF RecordsBy
    <2> QED
        BY <2>1, <2>2
<1>7. \A u \in Positions : u # p => rows'[u].st = rows[u].st
    BY <1>2, <1>4, <1>5
<1>8. \A u \in OpenRows' : u = q
    <2>1. ASSUME NEW u \in OpenRows' PROVE u \in OpenRows
        BY <1>5, <1>7, <2>1 DEF OpenRows
    <2> QED
        BY <1>3, <2>1
<1>9. OneOpen'
    BY <1>8 DEF OneOpen
<1>10. ASSUME NEW u \in OpenRows', Calm'
       PROVE  \/ u # p /\ rows'[u].held = rows[u].held /\ rows'[u].entry = rows[u].entry
              \/ Plain(u)' /\ rows'[u].held + Due <= wallet
    <2>1. rows[q].held \in Nat
        BY <1>2 DEF Rows
    <2>2. CASE n = 0
        <3>1. z.held = rows[q].held
            BY <1>4, <2>1, <2>2
        <3> QED
            BY <1>2, <1>4, <1>5, <1>8, <3>1
    <2>3. CASE n > 0
        <3>1. Pending(Sales) \ {s} = {}
            BY <1>6, <1>10, <2>3, BookedCalm
        <3>2. Due = 0 /\ item.held <= wallet
            <4>1. swaps[s].st = "landed" /\ item.sig = s
                BY <1>1, BookedMarks DEF Booked
            <4> QED
                BY <1>1, <3>1, <4>1, NoOtherSale
        <3>3. other_open_held(p) = rows[q].held
            BY <1>1, <1>2, <1>3, BesideHeld
        <3>4. z.held + Due <= wallet
            <4> PICK h, g, w : h = rows[q].held /\ g = item.held /\ w = wallet
                OBVIOUS
            <4>1. n + h <= g /\ g <= w
                BY <2>3, <3>2, <3>3
            <4>2. h \in Nat /\ g \in Nat /\ w \in Nat /\ n \in Nat
                BY <1>1, <2>1 DEF SwapsInv
            <4>3. (h + n) + 0 <= w
                BY <4>1, <4>2
            <4> QED
                BY <1>4, <3>2, <4>3
        <3>5. Plain(q)'
            BY <1>2, <1>4, <1>5, <3>1, TakerPlain
        <3> QED
            BY <1>5, <1>8, <3>4, <3>5
    <2> QED
        BY <2>2, <2>3
<1> QED
    BY <1>6, <1>7, <1>9, <1>10, BookedBacked

\* late_fill
LEMMA LateFillBacked ==
    ASSUME BooksConstants, Inv, Inv', BackInv, NEW s \in Sigs, Booked(s), NEW p, p = swaps[s].pos,
           rows[p].st = "closed", <<p, s>> \notin records, NEW r \in Rows, r.st = "closed", LateFill(p, s, r)
    PROVE  BackInv'
<1> PICK h : h = LateHolding(p, r, 0)
    OBVIOUS
<1>1. SwapsInv /\ RowsInv
    BY DEF Inv
<1>2. h \in Nat /\ h <= item.held /\ (h > 0 => h + other_open_held(p) <= item.held)
    BY <1>1, LateHoldingRead
<1>3. item.held \in Nat /\ other_open_held(p) \in Nat
    BY <1>1, OtherHeldTyped DEF SwapsInv
<1>4. CASE Beside(p) = {}
    <2> PICK f : f = follow_round(r, h)
        OBVIOUS
    <2>1. f \in Rows
        BY <1>2, Followed
    <2>2. f.st = "open" => f.held <= h
        BY <1>2, FollowedHeld
    <2>3. f.st = "open" => f.held <= item.held
        <3>1. f.held \in Nat
            BY <2>1 DEF Rows
        <3> QED
            BY <1>2, <1>3, <2>2, <3>1
    <2>4. OnRow(p, s, f)
        BY <1>4 DEF LateFill, OnRow
    <2> QED
        BY <1>4, <2>1, <2>3, <2>4, LateRowBacked
<1>5. CASE Beside(p) # {}
    <2> PICK out : out = hand_over_round(r, h)
        OBVIOUS
    <2>1. out.row \in Rows /\ out.row.st = "closed" /\ out.tokens \in Nat
        BY <1>2, RoundHandedOver DEF Splits
    <2>2. out.tokens <= h
        BY <1>2, HandedOverHeld
    <2>3. out.tokens > 0 => out.tokens + other_open_held(p) <= item.held
        BY <1>2, <1>3, <2>1, <2>2
    <2>4. HandOver(p, s, out, TRUE) /\ ~ other_swap_in_flight(p, s) /\ Attributable(p)
        BY <1>5 DEF LateFill
    <2> QED
        BY <1>5, <2>1, <2>3, <2>4, HandOverBacked
<1> QED
    BY <1>4, <1>5

\* late_dca
LEMMA LateDcaBacked ==
    ASSUME BooksConstants, Inv, Inv', BackInv, NEW s \in Sigs, Booked(s), NEW p, p = swaps[s].pos,
           rows[p].st = "closed", <<p, s>> \notin records, LateDca(p, s)
    PROVE  BackInv'
<1> PICK r, n : r = rows[p] /\ n = swaps[s].amount
    OBVIOUS
<1> PICK h : h = LateHolding(p, r, n)
    OBVIOUS
<1>1. SwapsInv /\ RowsInv /\ r \in Rows /\ r.st = "closed" /\ n \in Nat
    BY SwapFacts DEF Inv
<1>2. h \in Nat /\ h <= item.held /\ (h > 0 => h + other_open_held(p) <= item.held)
    BY <1>1, LateHoldingRead
<1>3. item.held \in Nat /\ other_open_held(p) \in Nat
    BY <1>1, OtherHeldTyped DEF SwapsInv
<1>4. CASE Beside(p) = {}
    <2> PICK a : a = book_acquisition(r, n)
        OBVIOUS
    <2> PICK f : f = follow_round(a, h)
        OBVIOUS
    <2>1. a \in Rows /\ a.st = "closed"
        BY <1>1, Bought DEF Is
    <2>2. f \in Rows
        BY <1>2, <2>1, Followed
    <2>3. f.st = "open" => f.held <= h
        BY <1>2, <2>1, FollowedHeld
    <2>4. f.st = "open" => f.held <= item.held
        <3>1. f.held \in Nat
            BY <2>2 DEF Rows
        <3> QED
            BY <1>2, <1>3, <2>3, <3>1
    <2>5. OnRow(p, s, f)
        BY <1>4 DEF LateDca, OnRow
    <2> QED
        BY <1>4, <2>2, <2>4, <2>5, LateRowBacked
<1>5. CASE Beside(p) # {}
    <2> PICK out : out = hand_over_leg(r, n, h)
        OBVIOUS
    <2>1. out.row \in Rows /\ out.row.st = "closed" /\ out.tokens \in Nat
        <3>1. Splits(out, r, acquired_amount(r) + n)
            BY <1>1, <1>2, LegHandedOver
        <3> QED
            BY <1>1, <3>1 DEF Splits
    <2>2. out.tokens <= h
        BY <1>1, <1>2, HandedOverHeld
    <2>3. out.tokens > 0 => out.tokens + other_open_held(p) <= item.held
        BY <1>2, <1>3, <2>1, <2>2
    <2>4. HandOver(p, s, out, out.tokens < n) /\ ~ other_swap_in_flight(p, s) /\ Attributable(p)
        BY <1>5 DEF LateDca
    <2> QED
        BY <1>5, <2>1, <2>3, <2>4, HandOverBacked
<1> QED
    BY <1>4, <1>5

\* A swap of a row that is not closed.
LEMMA RowOpen ==
    ASSUME RowsInv, NEW p \in Positions, rows[p].st # "none", rows[p].st # "closed"
    PROVE  rows[p].st = "open"
BY DEF RowsInv, Rows

\* EntryVerified: the entry counts no more than it bought.
LEMMA EntryBacked ==
    ASSUME BooksConstants, Inv, Inv', BackInv, NEW s \in Sigs, BookEntry(s)
    PROVE  BackInv'
<1> PICK p, n : p = swaps[s].pos /\ n = EntryTokens(s)
    OBVIOUS
<1> PICK r : r = apply_entry_fill(rows[p], n)
    OBVIOUS
<1>1. RowsInv /\ SwapsInv
    BY DEF Inv
<1>2. p \in Positions /\ rows[p] \in Rows /\ swaps[s].amount \in Nat
    BY <1>1, SwapFacts
<1>3. Booked(s) /\ swaps[s].kind = "entry" /\ rows[p].st # "none"
    BY DEF BookEntry, Booked
<1>4. n \in Nat /\ n <= swaps[s].amount
    BY <1>1, EntryCounts
<1>5. r \in Rows /\ r.st = rows[p].st /\ r.held = n
    BY <1>2, <1>4, EntryFilled DEF Is
<1>6. CASE rows[p].entry \/ <<p, s>> \in records
    <2>1. rows' = rows /\ records' = records
        BY <1>6 DEF BookEntry
    <2>2. Recorded(s)
        BY <1>3, <1>6 DEF Recorded
    <2> QED
        BY <1>3, <2>1, <2>2, IdleBacked
<1>7. CASE ~ (rows[p].entry \/ <<p, s>> \in records) /\ rows[p].st = "closed"
    <2>1. LateFill(p, s, r)
        BY <1>7 DEF BookEntry
    <2> QED
        BY <1>3, <1>5, <1>7, <2>1, LateFillBacked
<1>8. CASE ~ (rows[p].entry \/ <<p, s>> \in records) /\ rows[p].st # "closed"
    <2>1. OnRow(p, s, r)
        BY <1>8 DEF BookEntry
    <2>2. rows[p].st = "open" /\ ~ Recorded(s)
        BY <1>1, <1>2, <1>3, <1>8, RowOpen DEF Recorded
    <2>3. rows[p].held \in Nat
        BY <1>2 DEF Rows
    <2>4. swaps[s].kind \in Buys /\ r.held <= rows[p].held + swaps[s].amount
        BY <1>2, <1>3, <1>4, <1>5, <2>3 DEF Buys
    <2> QED
        BY <1>3, <1>5, <2>1, <2>2, <2>4, OnRowBacked
<1> QED
    BY <1>6, <1>7, <1>8

\* DcaVerified
LEMMA AddBacked ==
    ASSUME BooksConstants, Inv, Inv', BackInv, NEW s \in Sigs, BookAdd(s)
    PROVE  BackInv'
<1> PICK p, n : p = swaps[s].pos /\ n = swaps[s].amount
    OBVIOUS
<1>1. RowsInv /\ SwapsInv
    BY DEF Inv
<1>2. p \in Positions /\ rows[p] \in Rows /\ n \in Nat
    BY <1>1, SwapFacts
<1>3. Booked(s) /\ swaps[s].kind = "dca" /\ rows[p].st # "none"
    BY DEF BookAdd, Booked
<1>4. CASE entry_recorded_for_mint(p, s)
    <2>1. rows' = rows /\ records' = records
        BY <1>4 DEF BookAdd
    <2>2. Recorded(s)
        BY <1>3, <1>4 DEF Recorded
    <2> QED
        BY <1>3, <2>1, <2>2, IdleBacked
<1>5. CASE ~ entry_recorded_for_mint(p, s) /\ rows[p].st = "closed"
    <2>1. LateDca(p, s) /\ <<p, s>> \notin records
        BY <1>2, <1>5 DEF BookAdd, entry_recorded_for_mint
    <2> QED
        BY <1>3, <1>5, <2>1, LateDcaBacked
<1>6. CASE ~ entry_recorded_for_mint(p, s) /\ rows[p].st # "closed"
    <2> PICK r : r = book_acquisition(rows[p], n)
        OBVIOUS
    <2>1. OnRow(p, s, r)
        BY <1>6 DEF BookAdd
    <2>2. rows[p].st = "open" /\ ~ Recorded(s)
        BY <1>1, <1>2, <1>3, <1>6, RowOpen DEF Recorded
    <2>3. r \in Rows /\ r.held = rows[p].held + n /\ rows[p].held \in Nat
        BY <1>2, Bought DEF Is, Rows
    <2>4. swaps[s].kind \in Buys /\ r.held <= rows[p].held + swaps[s].amount
        BY <1>2, <1>3, <2>3 DEF Buys
    <2> QED
        BY <1>3, <2>1, <2>2, <2>3, <2>4, OnRowBacked
<1> QED
    BY <1>4, <1>5, <1>6

\* PartialExitVerified
LEMMA PartialBacked ==
    ASSUME BooksConstants, Inv, Inv', BackInv, NEW s \in Sigs, BookPartial(s)
    PROVE  BackInv'
<1> PICK p, n : p = swaps[s].pos /\ n = swaps[s].amount
    OBVIOUS
<1>1. RowsInv /\ SwapsInv
    BY DEF Inv
<1>2. p \in Positions /\ rows[p] \in Rows /\ n \in Nat
    BY <1>1, SwapFacts
<1>3. Booked(s) /\ swaps[s].kind = "partial" /\ rows[p].st # "none"
    BY DEF BookPartial, Booked
<1>4. Recorded(s) <=> <<p, s>> \in records
    BY <1>3 DEF Recorded
<1>5. CASE <<p, s>> \in records
    <2>1. rows' = rows /\ records' = records
        BY <1>5 DEF BookPartial
    <2> QED
        BY <1>3, <1>4, <1>5, <2>1, IdleBacked
<1>6. CASE <<p, s>> \notin records /\ rows[p].st = "closed"
    <2>1. LateFill(p, s, rows[p])
        BY <1>6 DEF BookPartial
    <2> QED
        BY <1>2, <1>3, <1>6, <2>1, LateFillBacked
<1>7. CASE <<p, s>> \notin records /\ rows[p].st # "closed"
    <2> PICK r : r = book_exit(rows[p], n)
        OBVIOUS
    <2>1. OnRow(p, s, r)
        BY <1>7 DEF BookPartial
    <2>2. rows[p].st = "open" /\ ~ Recorded(s)
        BY <1>1, <1>2, <1>3, <1>4, <1>7, RowOpen
    <2>3. r \in Rows /\ r.held = Monus(rows[p].held, n) /\ swaps[s].kind \in Sales
        BY <1>2, <1>3, Sold DEF Is, Sales
    <2> QED
        BY <1>3, <2>1, <2>2, <2>3, OnRowBacked
<1> QED
    BY <1>5, <1>6, <1>7

\* ExitVerified: the row it closes claims nothing.
LEMMA ExitBacked ==
    ASSUME BooksConstants, Inv, Inv', BackInv, NEW s \in Sigs, BookExit(s)
    PROVE  BackInv'
<1> PICK p, n, r : p = swaps[s].pos /\ n = swaps[s].amount /\ r = rows[p]
    OBVIOUS
<1>1. RowsInv /\ SwapsInv
    BY DEF Inv
<1>2. p \in Positions /\ r \in Rows /\ n \in Nat /\ s \in Nat
    BY <1>1, SwapFacts, SigsAreNumbers
<1>3. Booked(s) /\ swaps[s].kind = "exit" /\ r.st # "none"
    BY DEF BookExit, Booked
<1>4. Recorded(s) <=> <<p, s>> \in records
    BY <1>3 DEF Recorded
<1> DEFINE Done == <<p, s>> \in records \/ (r.st = "closed" /\ ~ r.synth /\ r.exit = s)
<1>5. CASE Done
    <2>1. rows' = rows /\ records' = records
        BY <1>5 DEF BookExit
    <2>2. r.st = "open" => Recorded(s)
        BY <1>4, <1>5
    <2> QED
        BY <1>3, <2>1, <2>2, IdleBacked
<1>6. CASE ~ Done /\ r.st = "closed"
    <2> PICK x : x = IF r.synth THEN s ELSE r.exit
        OBVIOUS
    <2> PICK a : a = [r EXCEPT !.synth = FALSE]
        OBVIOUS
    <2> PICK b : b = [a EXCEPT !.exit = x]
        OBVIOUS
    <2>1. x \in Nat
        BY <1>2 DEF Rows
    <2>2. Is(a, r.st, r.held, r.exited)
        BY <1>2, IsItself, FieldSet
    <2>3. Is(b, r.st, r.held, r.exited)
        BY <2>1, <2>2, FieldSet
    <2>4. b \in Rows /\ b.st = "closed"
        BY <1>6, <2>3 DEF Is
    <2>5. [r EXCEPT !.synth = FALSE, !.exit = IF r.synth THEN s ELSE @] = b
        OBVIOUS
    <2>6. LateFill(p, s, b)
        BY <1>6, <2>5 DEF BookExit
    <2> QED
        BY <1>3, <1>6, <2>4, <2>6, LateFillBacked
<1>7. CASE ~ Done /\ r.st # "closed"
    <2>s. PICK sold : sold = IF \E u \in Pending({"dca"}) : swaps[u].pos = p THEN r
                           ELSE absorb_unbooked_sale(r, n)
        OBVIOUS
    <2>1. sold \in Rows
        BY <1>2, <2>s, Absorbed
    <2>e. PICK e : e = book_remaining_as_exited(sold)
        OBVIOUS
    <2>0. PICK x : x = IF r.exit = 0 THEN s ELSE e.exit
        OBVIOUS
    <2>a. PICK a : a = [e EXCEPT !.st = "closed"]
        OBVIOUS
    <2>b. PICK b : b = [a EXCEPT !.exit = x]
        OBVIOUS
    <2>2. e \in Rows
        BY <2>1, <2>e, RestExited DEF Is
    <2>3. x \in Nat
        BY <1>2, <2>0, <2>2 DEF Rows
    <2>4. Is(a, "closed", e.held, e.exited)
        BY <2>2, <2>a, IsItself, FieldSet
    <2>5. Is(b, "closed", e.held, e.exited)
        BY <2>3, <2>4, <2>b, FieldSet
    <2>6. b \in Rows /\ b.st = "closed"
        BY <2>5 DEF Is
    <2>7. [e EXCEPT !.st = "closed", !.exit = IF r.exit = 0 THEN s ELSE @] = b
        BY <2>0, <2>a, <2>b
    <2>8. OnRow(p, s, b)
        BY <1>7, <2>7, <2>s, <2>e DEF BookExit
    <2>9. rows[p].st = "open" /\ ~ Recorded(s)
        BY <1>1, <1>2, <1>3, <1>4, <1>7, RowOpen
    <2>10. b.st # "open"
        BY <2>6
    <2> QED
        BY <1>3, <2>6, <2>8, <2>9, <2>10, OnRowBacked
<1> QED
    BY <1>5, <1>6, <1>7

\* ExitResidualClearForRetry: what the sale left is still claimed.
LEMMA ResidualBacked ==
    ASSUME BooksConstants, Inv, Inv', BackInv, NEW s \in Sigs, BookResidual(s)
    PROVE  BackInv'
<1> PICK p, n, r : p = swaps[s].pos /\ n = swaps[s].amount /\ r = rows[p]
    OBVIOUS
<1>1. RowsInv /\ SwapsInv
    BY DEF Inv
<1>2. p \in Positions /\ r \in Rows /\ n \in Nat
    BY <1>1, SwapFacts
<1>3. Booked(s) /\ r.st # "none"
    BY DEF BookResidual, Booked
<1>4. swaps[s].kind = "exit"
    BY <1>1 DEF BookResidual, SwapsInv
<1>5. Recorded(s) <=> <<p, s>> \in records
    BY <1>4 DEF Recorded
<1>6. CASE <<p, s>> \in records
    <2> PICK c : c = clear_exit_for_retry(r, s)
        OBVIOUS
    <2>1. c.st = r.st /\ c.held = r.held
        BY <1>2, ExitCleared DEF Is
    <2>2. c.entry = r.entry
        BY <1>2 DEF clear_exit_for_retry, Rows
    <2>3. rows' = [rows EXCEPT ![p] = c] /\ records' = records
        BY <1>6 DEF BookResidual
    <2>4. \A q \in Positions : /\ rows'[q].st = rows[q].st /\ rows'[q].held = rows[q].held
                               /\ rows'[q].entry = rows[q].entry
        BY <1>1, <1>2, <2>1, <2>2, <2>3 DEF RowsInv
    <2> QED
        BY <1>3, <1>5, <1>6, <2>3, <2>4, IdleBacked
<1>7. CASE <<p, s>> \notin records /\ r.st = "open"
    <2> PICK e : e = book_exit(r, n)
        OBVIOUS
    <2> PICK c : c = clear_exit_for_retry(e, s)
        OBVIOUS
    <2>1. e \in Rows /\ e.held = Monus(r.held, n)
        BY <1>2, Sold DEF Is
    <2>2. c \in Rows /\ c.held = Monus(r.held, n)
        BY <2>1, ExitCleared DEF Is
    <2>3. OnRow(p, s, c)
        BY <1>7 DEF BookResidual
    <2>4. swaps[s].kind \in Sales /\ ~ Recorded(s)
        BY <1>4, <1>5, <1>7 DEF Sales
    <2> QED
        BY <1>3, <1>7, <2>2, <2>3, <2>4, OnRowBacked
<1>8. CASE <<p, s>> \notin records /\ r.st # "open"
    <2> PICK h : h = LateHolding(p, r, 0)
        OBVIOUS
    <2>0. r.st = "closed"
        BY <1>1, <1>2, <1>3, <1>8, RowOpen
    <2>1. h \in Nat /\ h <= item.held /\ (h > 0 => h + other_open_held(p) <= item.held)
        BY <1>1, <1>2, LateHoldingRead
    <2>2. item.held \in Nat /\ other_open_held(p) \in Nat
        BY <1>1, OtherHeldTyped DEF SwapsInv
    <2>3. CASE Beside(p) = {}
        <3> PICK f : f = follow_round(r, h)
            OBVIOUS
        <3> PICK c : c = clear_exit_for_retry(f, s)
            OBVIOUS
        <3>1. f \in Rows
            BY <1>2, <2>1, Followed
        <3>2. c \in Rows /\ c.st = f.st /\ c.held = f.held
            BY <3>1, ExitCleared DEF Is
        <3>3. f.st = "open" => f.held <= h
            BY <1>2, <2>0, <2>1, FollowedHeld
        <3>4. c.st = "open" => c.held <= item.held
            <4>1. f.held \in Nat
                BY <3>1 DEF Rows
            <4> QED
                BY <2>1, <2>2, <3>2, <3>3, <4>1
        <3>5. OnRow(p, s, c)
            BY <1>8, <2>3 DEF BookResidual
        <3> QED
            BY <1>3, <1>8, <2>0, <2>3, <3>2, <3>4, <3>5, LateRowBacked
    <2>4. CASE Beside(p) # {}
        <3>u. PICK out : out = hand_over_round(r, h)
            OBVIOUS
        <3>c. PICK c : c = clear_exit_for_retry(out.row, s)
            OBVIOUS
        <3>o. PICK o : o = [out EXCEPT !.row = c]
            OBVIOUS
        <3>1. out.row \in Rows /\ out.row.st = "closed" /\ out.tokens \in Nat
            BY <1>2, <2>0, <2>1, <3>u, RoundHandedOver DEF Splits
        <3>2. c \in Rows /\ c.st = "closed"
            BY <3>1, <3>c, ExitCleared DEF Is
        <3>3. o.row = c /\ o.tokens = out.tokens
            BY <3>u, <3>o DEF hand_over_round, Kept
        <3>4. out.tokens <= h
            BY <1>2, <2>1, <3>u, HandedOverHeld
        <3>5. o.tokens > 0 => o.tokens + other_open_held(p) <= item.held
            BY <2>1, <2>2, <3>1, <3>3, <3>4
        <3>6. HandOver(p, s, o, TRUE) /\ ~ other_swap_in_flight(p, s) /\ Attributable(p)
            BY <1>8, <2>4, <3>u, <3>c, <3>o DEF BookResidual
        <3>7. o.row \in Rows /\ o.row.st = "closed" /\ o.tokens \in Nat
            BY <3>1, <3>2, <3>3
        <3>8. rows[p].st = "closed"
            BY <2>0
        <3> QED
            BY <1>3, <2>4, <3>5, <3>6, <3>7, <3>8, HandOverBacked
    <2> QED
        BY <2>3, <2>4
<1> QED
    BY <1>6, <1>7, <1>8

-----------------------------------------------------------------------------
(* Every step *)

\* Nothing is claimed at the start.
LEMMA InitBacked ==
    ASSUME Init
    PROVE  BackInv
<1>1. Sigs = {} /\ OpenRows = {} /\ records = {} /\ item = NoItem /\ wallet = 0
    BY DEF Init, Sigs, OpenRows, NoRow
<1>2. OneOpen /\ OnePartial /\ RecordsLanded /\ ItemLanded /\ ItemBacked
    BY <1>1 DEF OneOpen, OnePartial, Pending, RecordsLanded, ItemLanded, ItemBacked, NoItem
<1>3. Alone
    BY <1>1 DEF Alone, Sent, Pending
<1>4. Owing("partial") = {} /\ Owing("exit") = {}
    BY <1>1 DEF Owing, Sent
<1>5. Due = 0
    BY <1>4 DEF Due, DueOf, DueIn
<1>6. Covered(0)
    BY <1>1, <1>5 DEF Covered
<1> QED
    BY <1>1, <1>2, <1>3, <1>6 DEF BackInv, OrderInv, Backed

\* Every step keeps the open rows covered.
LEMMA StepBacked ==
    ASSUME Inv, Inv', BackInv, [Next]_vars
    PROVE  BackInv'
<1>1. BooksConstants
    BY BooksConstants
<1>2. CASE \E p \in Positions : SendEntry(p) \/ SendAdd(p) \/ SendPartial(p) \/ SendExit(p) \/ WriteOff(p)
    <2>1. PICK p \in Positions : SendEntry(p) \/ SendAdd(p) \/ SendPartial(p) \/ SendExit(p) \/ WriteOff(p)
        BY <1>2
    <2>2. CASE WriteOff(p)
        BY <1>1, <2>2, WriteOffBacked
    <2>3. CASE ~ WriteOff(p)
        BY <1>1, <2>1, <2>3, CallsBacked
    <2> QED
        BY <2>2, <2>3
<1>3. ASSUME NEW s \in Sigs, Land(s) \/ NotLanded(s) PROVE BackInv'
    BY <1>1, <1>3, LandBacked, NotLandedBacked
<1>4. ASSUME NEW s \in Sigs, Book(s) PROVE BackInv'
    <2>1. CASE BookEntry(s)
        BY <1>1, <2>1, EntryBacked
    <2>2. CASE BookAdd(s)
        BY <1>1, <2>2, AddBacked
    <2>3. CASE BookPartial(s)
        BY <1>1, <2>3, PartialBacked
    <2>4. CASE BookExit(s)
        BY <1>1, <2>4, ExitBacked
    <2>5. CASE BookResidual(s)
        BY <1>1, <2>5, ResidualBacked
    <2> QED
        BY <1>4, <2>1, <2>2, <2>3, <2>4, <2>5 DEF Book
<1>5. CASE (\E s \in Sigs : Read(s)) \/ Retry \/ UNCHANGED vars
    BY <1>5, ReadBacked
<1> QED
    BY <1>2, <1>3, <1>4, <1>5 DEF Next

\* Once no swap is unsettled, the open row holds what it is covered for.
LEMMA BackedHolds ==
    ASSUME Inv, BackInv
    PROVE  HoldingsBacked
<1>1. SUFFICES ASSUME Settled, overlapped \subseteq {"sales"} PROVE Claimed <= wallet
    BY DEF HoldingsBacked
<1>2. RowsInv /\ SwapsInv /\ OneOpen
    BY DEF Inv, BackInv, OrderInv
<1>3. Covered(0) /\ \A q \in OpenRows : RowBacked(q)
    BY <1>1 DEF BackInv, Backed, Calm
<1>4. wallet \in Nat /\ Due \in Nat
    BY <1>2, DueTyped DEF SwapsInv
<1>5. Claimed = (CHOOSE h : HeldFold(rows, OpenRows, h))[OpenRows]
    BY Zenon DEF Claimed, MapThenSumSet, MapThenFoldSet, HeldFold
<1>0. PICK R, O : R = rows /\ O = OpenRows
    OBVIOUS
<1>6. Claimed = (CHOOSE h : HeldFold(R, O, h))[O]
    BY <1>0, <1>5, Zenon
<1>7. CASE O = {}
    <2>1. (CHOOSE h : HeldFold(R, {}, h))[{}] = 0
        BY HeldOfNone
    <2> QED
        BY <1>4, <1>6, <1>7, <2>1
<1>8. CASE O # {}
    <2>1. PICK q : q \in O
        BY <1>8
    <2>2. O = {q}
        BY <1>0, <1>2, <2>1 DEF OneOpen
    <2>3. q \in Positions /\ R[q].held \in Nat
        BY <1>0, <1>2, <2>1 DEF OpenRows, RowsInv, Rows
    <2>4. (CHOOSE h : HeldFold(R, {q}, h))[{q}] = R[q].held
        BY <2>3, HeldOfOne
    <2>5. Unbooked(q, Sales) = {}
        BY <1>1 DEF Settled, Unbooked
    <2>6. R[q].held + Due <= wallet
        BY <1>0, <1>3, <2>1, <2>5 DEF RowBacked, Covered
    <2>7. R[q].held <= wallet
        BY <1>4, <2>3, <2>6
    <2> QED
        BY <1>6, <2>2, <2>4, <2>7
<1> QED
    BY <1>7, <1>8

\* The open rows never claim more tokens than the wallet holds, once no swap of the mint is
\* unsettled: what a late fill gives back or hands over (late_fill, late_dca), what a residual
\* leaves and what a write-off forgets are there to be sold.  Excepted are a position with two
\* swaps in flight, and a wallet divided, by a late fill or a full exit, beside another sale.
THEOREM OpenRowsBacked == Spec => []HoldingsBacked
<1>1. Init => Inv /\ BackInv
    BY InitHolds, InitBacked
<1>2. Inv /\ BackInv /\ [Next]_vars => Inv' /\ BackInv'
    <2>1. Inv /\ [Next]_vars => Inv'
        BY StepKeeps, StutterKeeps
    <2> QED
        BY <2>1, StepBacked
<1>3. Inv /\ BackInv => HoldingsBacked
    BY BackedHolds
<1> QED
    BY <1>1, <1>2, <1>3, PTL DEF Spec

-----------------------------------------------------------------------------
(* The amounts stay within what the swaps can bring *)

\* The greatest of a finite set of numbers.
LEMMA Greatest ==
    ASSUME NEW S, IsFiniteSet(S), S # {}, S \subseteq Nat
    PROVE  Max(S) \in S /\ \A y \in S : y <= Max(S)
<1> DEFINE F == {T \in SUBSET S : T # {} /\ \A m \in T : \E y \in T : ~ y <= m}
<1>1. ASSUME F # {} PROVE FALSE
    <2> F \subseteq SUBSET S
        OBVIOUS
    <2> HIDE DEF F
    <2>1. PICK T \in F : T # {} => T \ {Pick(T)} \notin F
        BY <1>1, FirstFailing
    <2> PICK x, U : x = Pick(T) /\ U = T \ {Pick(T)}
        OBVIOUS
    <2>2. T \in SUBSET S /\ T # {} /\ \A m \in T : \E y \in T : ~ y <= m
        BY <2>1 DEF F
    <2>3. x \in T /\ U \in SUBSET S /\ U \notin F
        BY <2>1, <2>2 DEF Pick
    <2>4. \A y \in T : y = x \/ y \in U
        OBVIOUS
    <2>5. CASE U = {}
        <3>1. \A y \in T : y = x
            BY <2>4, <2>5
        <3>2. x \in Nat
            BY <2>2, <2>3
        <3> QED
            BY <2>2, <2>3, <3>1, <3>2
    <2>6. CASE U # {}
        <3>1. PICK m \in U : \A y \in U : y <= m
            BY <2>3, <2>6 DEF F
        <3>2. m \in Nat /\ x \in Nat /\ m \in T /\ \A y \in U : y \in Nat
            BY <2>2, <2>3, <3>1
        <3>3. CASE x <= m
            BY <2>2, <2>4, <3>1, <3>2, <3>3
        <3>4. CASE ~ x <= m
            <4>1. \A y \in T : y <= x
                BY <2>4, <3>1, <3>2, <3>4
            <4> QED
                BY <2>2, <2>3, <4>1
        <3> QED
            BY <3>3, <3>4
    <2> QED
        BY <2>5, <2>6
<1>2. PICK m \in S : \A y \in S : y <= m
    BY <1>1
<1>3. \A y \in S : m >= y
    BY <1>2
<1>4. Max(S) \in S /\ \A y \in S : Max(S) >= y
    BY <1>3 DEF Max
<1> QED
    BY <1>4

\* Multiplication, one more time.
LEMMA Times ==
    ASSUME NEW c \in Nat, NEW m \in Nat
    PROVE  c * m \in Nat /\ 0 * m = 0 /\ (c + 1) * m = c * m + m
OBVIOUS

\* A sum of numbers up to m is at most as many times m.
LEMMA SumBounded ==
    ASSUME NEW P, IsFiniteSet(P), NEW f \in [P -> Nat], NEW m \in Nat, \A u \in P : f[u] <= m
    PROVE  Sums(f, P)[P] <= Cardinality(P) * m
<1>0. PICK h : h = Sums(f, P)
    OBVIOUS
<1>1. /\ h[{}] = 0 /\ \A S \in SUBSET P : h[S] \in Nat
      /\ \A S \in SUBSET P : S # {} => h[S] = f[Pick(S)] + h[S \ {Pick(S)}]
    BY <1>0, SumSplits
<1> DEFINE F == {S \in SUBSET P : ~ h[S] <= Cardinality(S) * m}
<1>2. ASSUME F # {} PROVE FALSE
    <2>1. PICK S \in F : S # {} => S \ {Pick(S)} \notin F
        BY <1>2, FirstFailing
    <2>2. CASE S = {}
        <3>1. Cardinality(S) = 0
            BY <2>2, FS_EmptySet
        <3>2. Cardinality(S) * m = 0
            BY <3>1, Times
        <3> QED
            BY <1>1, <2>1, <2>2, <3>2
    <2>3. CASE S # {}
        <3>1. PICK T : T = S \ {Pick(S)}
            OBVIOUS
        <3>2. PICK c : c = Cardinality(T)
            OBVIOUS
        <3>3. /\ Pick(S) \in P /\ T \in SUBSET P /\ T \notin F /\ c \in Nat
              /\ Cardinality(S) = c + 1
            <4>1. Pick(S) \in S /\ T \in SUBSET P /\ Cardinality(S) \in Nat /\ c = Cardinality(S) - 1
                BY <2>3, <3>1, <3>2, Smaller
            <4>2. IsFiniteSet(T)
                BY <4>1, FS_Subset
            <4>3. c \in Nat
                BY <3>2, <4>2, FS_CardinalityType
            <4> QED
                BY <2>1, <2>3, <3>1, <4>1, <4>3
        <3>4. h[T] <= c * m
            BY <3>2, <3>3
        <3>5. h[S] = f[Pick(S)] + h[T] /\ f[Pick(S)] <= m
            BY <1>1, <2>3, <3>1, <3>3
        <3>6. c * m \in Nat /\ (c + 1) * m = c * m + m
            BY <3>3, Times
        <3>7. h[T] \in Nat /\ f[Pick(S)] \in Nat
            BY <1>1, <3>3
        <3>8. h[S] <= c * m + m
            BY <3>4, <3>5, <3>6, <3>7
        <3> QED
            BY <2>1, <3>3, <3>6, <3>8
    <2> QED
        BY <2>2, <2>3
<1> QED
    BY <1>0, <1>2

\* What is at most two numbers everywhere sums to at most their sums.
LEMMA SumOfTwo ==
    ASSUME NEW P, IsFiniteSet(P), NEW f \in [P -> Nat], NEW g \in [P -> Nat], NEW r \in [P -> Nat],
           \A u \in P : r[u] <= f[u] + g[u]
    PROVE  Sums(r, P)[P] <= Sums(f, P)[P] + Sums(g, P)[P]
<1>0. PICK a, b, c : a = Sums(f, P) /\ b = Sums(g, P) /\ c = Sums(r, P)
    OBVIOUS
<1>1. a[{}] = 0 /\ b[{}] = 0 /\ c[{}] = 0
    BY <1>0, SumSplits
<1>2. \A S \in SUBSET P : a[S] \in Nat /\ b[S] \in Nat /\ c[S] \in Nat
    BY <1>0, SumSplits
<1>3. \A S \in SUBSET P : S # {} =>
         /\ a[S] = f[Pick(S)] + a[S \ {Pick(S)}] /\ b[S] = g[Pick(S)] + b[S \ {Pick(S)}]
         /\ c[S] = r[Pick(S)] + c[S \ {Pick(S)}]
    BY <1>0, SumSplits
<1> DEFINE F == {S \in SUBSET P : ~ c[S] <= a[S] + b[S]}
<1>4. ASSUME F # {} PROVE FALSE
    <2>1. PICK S \in F : S # {} => S \ {Pick(S)} \notin F
        BY <1>4, FirstFailing
    <2>2. S # {}
        <3>1. c[{}] <= a[{}] + b[{}]
            BY <1>1
        <3> QED
            BY <2>1, <3>1
    <2>3. PICK x, T : x = Pick(S) /\ T = S \ {Pick(S)}
        OBVIOUS
    <2>4. x \in P /\ T \in SUBSET P /\ T \notin F
        BY <2>1, <2>2, <2>3, Smaller
    <2>5. c[T] <= a[T] + b[T]
        BY <2>4
    <2>6. a[S] = f[x] + a[T] /\ b[S] = g[x] + b[T] /\ c[S] = r[x] + c[T]
        BY <1>3, <2>2, <2>3
    <2>7. a[T] \in Nat /\ b[T] \in Nat /\ c[T] \in Nat /\ f[x] \in Nat /\ g[x] \in Nat /\ r[x] \in Nat
        BY <1>2, <2>4
    <2>8. r[x] <= f[x] + g[x]
        BY <2>4
    <2>9. c[S] <= a[S] + b[S]
        BY <2>5, <2>6, <2>7, <2>8
    <2> QED
        BY <2>1, <2>9
<1> QED
    BY <1>0, <1>4

\* Each number is at most the sum.
LEMMA PartOfSum ==
    ASSUME NEW P, IsFiniteSet(P), NEW f \in [P -> Nat], NEW p \in P
    PROVE  f[p] <= Sums(f, P)[P]
<1>1. PICK g : g = [f EXCEPT ![p] = 0]
    OBVIOUS
<1>2. g \in [P -> Nat] /\ g[p] = 0 /\ \A u \in P : u # p => g[u] = f[u]
    BY <1>1
<1>3. Sums(g, P)[P] + f[p] = Sums(f, P)[P] + g[p]
    BY <1>2, OneMoves
<1>4. Sums(f, P)[P] \in Nat /\ Sums(g, P)[P] \in Nat
    BY <1>2, SumSplits
<1> QED
    BY <1>2, <1>3, <1>4

-----------------------------------------------------------------------------
(* What the swaps brought, took and had counted *)

Numbers == 1 .. MaxSwaps
Total(f) == Sums(f, Numbers)[Numbers]

\* A row has booked swap s.
Noted(s) == \E u \in Positions : <<u, s>> \in records

\* Tokens of the buys that are no longer in flight, of the sales that landed, and of what is booked.
Brought ==
    [s \in Numbers |-> IF s \in Sigs /\ swaps[s].kind \in Buys /\ swaps[s].st # "sent"
                       THEN swaps[s].amount ELSE 0]
Taken ==
    [s \in Numbers |-> IF s \in Sigs /\ swaps[s].kind \in Sales /\ (swaps[s].st = "landed" \/ Noted(s))
                       THEN swaps[s].amount ELSE 0]
Counted == [s \in Numbers |-> IF s \in Sigs /\ Noted(s) THEN swaps[s].amount ELSE 0]

\* The wallet holds what is left of the buys, and the rows acquired no more than was booked.
FlowInv ==
    /\ wallet + Total(Taken) <= Total(Brought)
    /\ Acquired <= Total(Counted)

\* A booking of a swap other than an add is recorded on the swap's own row.
RecordsOwn == \A s \in Sigs : swaps[s].kind # "dca" /\ Noted(s) => <<swaps[s].pos, s>> \in records

\* Each number is within its bound.
SwapsBounded ==
    /\ Len(swaps) <= MaxSwaps
    /\ \A s \in Sigs : /\ swaps[s].amount \in 1 .. MaxTokens
                       /\ swaps[s].kind \in Buys => swaps[s].amount \in Amounts
    /\ records \subseteq Positions \X Sigs
    /\ item.sig \in 0 .. Len(swaps) /\ item.held <= MaxTokens
    /\ writtenOff \in BOOLEAN /\ overlapped \subseteq {"own", "sales", "shared"}

Within(r) == r \in Rows /\ r.tok <= MaxTokens /\ r.exit <= MaxSwaps
RowsWithin == \A p \in Positions : Within(rows[p])

BoundsInv == SwapsBounded /\ RowsWithin /\ RecordsOwn /\ FlowInv

\* The swaps have a place each.
LEMMA Numbered ==
    ASSUME BooksConstants
    PROVE  IsFiniteSet(Numbers) /\ Cardinality(Numbers) = MaxSwaps
<1>1. MaxSwaps \in Nat
    BY DEF BooksConstants
<1>2. IsFiniteSet(1 .. MaxSwaps) /\ Cardinality(1 .. MaxSwaps) = IF 1 > MaxSwaps THEN 0 ELSE MaxSwaps - 1 + 1
    BY <1>1, FS_Interval
<1> QED
    BY <1>1, <1>2 DEF Numbers

\* Amounts are numbers.
LEMMA AmountTyped ==
    ASSUME NEW q \in Seq(Swaps), NEW s \in DOMAIN q
    PROVE  q[s].amount \in Nat
<1>1. q[s] \in Swaps
    BY ElementOfSeq
<1> QED
    BY <1>1 DEF Swaps

\* So is what is counted, before a step and after it.
LEMMA CountsTyped ==
    ASSUME SwapsInv
    PROVE  Brought \in [Numbers -> Nat] /\ Taken \in [Numbers -> Nat] /\ Counted \in [Numbers -> Nat]
<1>1. \A s \in Sigs : swaps[s].amount \in Nat
    BY AmountTyped DEF SwapsInv, Sigs
<1> QED
    BY <1>1 DEF Brought, Taken, Counted

\* After it.
LEMMA CountsTypedNext ==
    ASSUME SwapsInv'
    PROVE  Brought' \in [Numbers -> Nat] /\ Taken' \in [Numbers -> Nat] /\ Counted' \in [Numbers -> Nat]
<1>1. PICK q : q = swaps'
    OBVIOUS
<1>2. q \in Seq(Swaps)
    BY <1>1 DEF SwapsInv
<1>3. \A s \in DOMAIN q : q[s].amount \in Nat
    BY <1>2, AmountTyped
<1>4. \A s \in Sigs' : swaps'[s].amount \in Nat
    BY <1>1, <1>3 DEF Sigs
<1> QED
    BY <1>4 DEF Brought, Taken, Counted

\* When the number of one swap moves, the sum moves with it.
LEMMA SumMoves ==
    ASSUME BooksConstants, NEW s \in Numbers, NEW f \in [Numbers -> Nat], NEW g \in [Numbers -> Nat],
           \A n \in Numbers : n # s => g[n] = f[n]
    PROVE  /\ Total(g) + f[s] = Total(f) + g[s] /\ Total(f) \in Nat /\ Total(g) \in Nat
           /\ f[s] \in Nat /\ g[s] \in Nat
<1>1. IsFiniteSet(Numbers)
    BY Numbered
<1>2. Total(g) + f[s] = Total(f) + g[s]
    BY <1>1, OneMoves DEF Total
<1>3. Total(f) \in Nat /\ Total(g) \in Nat
    BY <1>1, SumSplits DEF Total
<1> QED
    BY <1>2, <1>3

\* What is counted of swap s when it is at x.
LEMMA CountsAt ==
    ASSUME SwapsInv, SwapsBounded, NEW s \in Sigs, NEW x, Marked(s, x), NEW a, a = swaps[s].amount
    PROVE  /\ s \in Numbers /\ a \in Nat
           /\ Brought[s] = (IF swaps[s].kind \in Buys /\ swaps[s].st # "sent" THEN a ELSE 0)
           /\ Brought'[s] = (IF swaps[s].kind \in Buys /\ x # "sent" THEN a ELSE 0)
           /\ Taken[s] = (IF swaps[s].kind \in Sales /\ (swaps[s].st = "landed" \/ Noted(s)) THEN a ELSE 0)
           /\ Taken'[s] = (IF swaps[s].kind \in Sales /\ (x = "landed" \/ Noted(s)') THEN a ELSE 0)
           /\ Counted[s] = (IF Noted(s) THEN a ELSE 0)
           /\ Counted'[s] = (IF Noted(s)' THEN a ELSE 0)
<1>1. s \in Numbers
    <2>1. Sigs = 1 .. Len(swaps) /\ Len(swaps) \in Nat
        BY LenProperties DEF SwapsInv, Sigs
    <2>2. Len(swaps) <= MaxSwaps
        BY DEF SwapsBounded
    <2> QED
        BY <2>1, <2>2, BooksConstants DEF Numbers, BooksConstants
<1>2. a \in Nat
    BY AmountTyped DEF SwapsInv, Sigs
<1>3. /\ s \in Sigs' /\ swaps'[s].kind = swaps[s].kind /\ swaps'[s].amount = a /\ swaps'[s].st = x
    BY DEF Marked
<1> QED
    BY <1>1, <1>2, <1>3 DEF Brought, Taken, Counted

\* A step of swap s keeps the flow when its own numbers do.
LEMMA FlowMarked ==
    ASSUME BooksConstants, SwapsInv, SwapsInv', SwapsBounded, FlowInv, NEW s \in Sigs, NEW x, Marked(s, x),
           RecordsBy(s), Acquired \in Nat, Acquired' \in Nat,
           wallet' + Taken'[s] + Brought[s] <= wallet + Taken[s] + Brought'[s],
           Acquired' + Counted[s] <= Acquired + Counted'[s]
    PROVE  FlowInv'
<1>1. s \in Numbers
    BY CountsAt
<1>2. /\ Brought \in [Numbers -> Nat] /\ Taken \in [Numbers -> Nat] /\ Counted \in [Numbers -> Nat]
      /\ Brought' \in [Numbers -> Nat] /\ Taken' \in [Numbers -> Nat] /\ Counted' \in [Numbers -> Nat]
    BY CountsTyped, CountsTypedNext
<1>3. ASSUME NEW n \in Numbers, n # s
      PROVE  Taken'[n] = Taken[n] /\ Brought'[n] = Brought[n] /\ Counted'[n] = Counted[n]
    <2>1. Noted(n)' <=> Noted(n)
        BY <1>3 DEF Noted, RecordsBy
    <2>2. /\ n \in Sigs' <=> n \in Sigs
          /\ n \in Sigs => /\ swaps'[n].kind = swaps[n].kind /\ swaps'[n].amount = swaps[n].amount
                           /\ swaps'[n].st = swaps[n].st
        BY <1>3 DEF Marked
    <2> QED
        BY <2>1, <2>2 DEF Taken, Brought, Counted
<1>4. wallet \in Nat /\ wallet' \in Nat
    BY DEF SwapsInv
<1>5. wallet + Total(Taken) <= Total(Brought) /\ Acquired <= Total(Counted)
    BY DEF FlowInv
<1>6. /\ Total(Taken') + Taken[s] = Total(Taken) + Taken'[s]
      /\ Total(Taken) \in Nat /\ Total(Taken') \in Nat /\ Taken[s] \in Nat /\ Taken'[s] \in Nat
    <2>1. PICK f, g : f = Taken /\ g = Taken'
        OBVIOUS
    <2>2. f \in [Numbers -> Nat] /\ g \in [Numbers -> Nat] /\ \A n \in Numbers : n # s => g[n] = f[n]
        BY <1>2, <1>3, <2>1
    <2> QED
        BY <1>1, <2>1, <2>2, SumMoves
<1>7. /\ Total(Brought') + Brought[s] = Total(Brought) + Brought'[s]
      /\ Total(Brought) \in Nat /\ Total(Brought') \in Nat /\ Brought[s] \in Nat /\ Brought'[s] \in Nat
    <2>1. PICK f, g : f = Brought /\ g = Brought'
        OBVIOUS
    <2>2. f \in [Numbers -> Nat] /\ g \in [Numbers -> Nat] /\ \A n \in Numbers : n # s => g[n] = f[n]
        BY <1>2, <1>3, <2>1
    <2> QED
        BY <1>1, <2>1, <2>2, SumMoves
<1>8. /\ Total(Counted') + Counted[s] = Total(Counted) + Counted'[s]
      /\ Total(Counted) \in Nat /\ Total(Counted') \in Nat /\ Counted[s] \in Nat /\ Counted'[s] \in Nat
    <2>1. PICK f, g : f = Counted /\ g = Counted'
        OBVIOUS
    <2>2. f \in [Numbers -> Nat] /\ g \in [Numbers -> Nat] /\ \A n \in Numbers : n # s => g[n] = f[n]
        BY <1>2, <1>3, <2>1
    <2> QED
        BY <1>1, <2>1, <2>2, SumMoves
<1>9. wallet' + Total(Taken') <= Total(Brought')
    BY <1>4, <1>5, <1>6, <1>7
<1>10. Acquired' <= Total(Counted')
    BY <1>5, <1>8
<1> QED
    BY <1>9, <1>10 DEF FlowInv, Total

-----------------------------------------------------------------------------
(* A booking is within the bounds *)

\* Where the rules leave the entry, its tokens and the signature of the exit.
SameTrade(z, r) == z.entry = r.entry /\ z.tok = r.tok /\ (z.exit = r.exit \/ z.exit = 0)

\* The bounds of a row survive that.
LEMMA StaysWithin ==
    ASSUME BooksConstants, NEW r, Within(r), NEW z \in Rows, SameTrade(z, r)
    PROVE  Within(z)
<1>1. MaxSwaps \in Nat
    BY DEF BooksConstants
<1> QED
    BY <1>1 DEF Within, SameTrade

\* The rules that book on a row.
LEMMA RulesKeepTrade ==
    ASSUME NEW r \in Rows, NEW n \in Nat, NEW s
    PROVE  /\ SameTrade(book_acquisition(r, n), r)
           /\ SameTrade(book_exit(r, n), r)
           /\ SameTrade(book_remaining_as_exited(r), r)
           /\ SameTrade(clear_exit_for_retry(r, s), r)
<1>1. SameTrade(book_acquisition(r, n), r)
    BY DEF SameTrade, Rows, book_acquisition
<1>2. SameTrade(book_exit(r, n), r)
    BY DEF SameTrade, Rows, book_exit
<1>3. SameTrade(book_remaining_as_exited(r), r)
    BY DEF SameTrade, Rows, book_remaining_as_exited
<1>4. SameTrade(clear_exit_for_retry(r, s), r)
    BY DEF SameTrade, Rows, clear_exit_for_retry
<1> QED
    BY <1>1, <1>2, <1>3, <1>4

\* A full sale that is absorbed, and a row that follows its round.
LEMMA RoundKeepsTrade ==
    ASSUME NEW r \in Rows, NEW n \in Nat
    PROVE  SameTrade(absorb_unbooked_sale(r, n), r) /\ SameTrade(follow_round(r, n), r)
<1>1. SameTrade(absorb_unbooked_sale(r, n), r)
    <2>1. Monus(n, r.held) \in Nat
        BY Difference DEF Rows
    <2>2. SameTrade(book_acquisition(r, Monus(n, r.held)), r)
        BY <2>1, RulesKeepTrade
    <2>3. absorb_unbooked_sale(r, n) \in {r, book_acquisition(r, Monus(n, r.held))}
        BY DEF absorb_unbooked_sale
    <2> QED
        BY <2>2, <2>3 DEF SameTrade
<1>2. CASE is_dust(n, acquired_amount(r))
    <2>1. follow_round(r, n) = [r EXCEPT !.held = 0, !.exited = acquired_amount(r)]
        BY <1>2 DEF follow_round
    <2>2. SameTrade([r EXCEPT !.held = 0, !.exited = acquired_amount(r)], r)
        BY DEF SameTrade, Rows
    <2> QED
        BY <1>1, <2>1, <2>2
<1>3. CASE ~ is_dust(n, acquired_amount(r))
    <2>1. follow_round(r, n) = clear_close(r, Least(n, acquired_amount(r)))
        BY <1>3 DEF follow_round
    <2>2. SameTrade(clear_close(r, Least(n, acquired_amount(r))), r)
        BY DEF SameTrade, Rows, clear_close
    <2> QED
        BY <1>1, <2>1, <2>2
<1> QED
    BY <1>2, <1>3

\* A handover leaves them alone.
LEMMA HandOverKeepsTrade ==
    ASSUME NEW r \in Rows, NEW n \in Nat, NEW b \in Nat
    PROVE  SameTrade(hand_over_round(r, n).row, r) /\ SameTrade(hand_over_leg(r, b, n).row, r)
<1>1. ASSUME NEW e, NEW h PROVE SameTrade(Kept(r, e, h).row, r)
    BY DEF SameTrade, Rows, Kept
<1>2. SameTrade(hand_over_round(r, n).row, r)
    <2>1. CASE is_dust(n, acquired_amount(r))
        <3>1. hand_over_round(r, n) = [row |-> follow_round(r, n), tokens |-> 0]
            BY <2>1 DEF hand_over_round
        <3> QED
            BY <3>1, RoundKeepsTrade
    <2>2. CASE ~ is_dust(n, acquired_amount(r))
        <3>1. PICK e, h : hand_over_round(r, n) = Kept(r, e, h)
            BY <2>2 DEF hand_over_round
        <3> QED
            BY <1>1, <3>1
    <2> QED
        BY <2>1, <2>2
<1>3. SameTrade(hand_over_leg(r, b, n).row, r)
    <2>1. CASE is_dust(n, acquired_amount(r) + b)
        <3>1. PICK a : a = book_acquisition(r, b)
            OBVIOUS
        <3>2. hand_over_leg(r, b, n) = [row |-> follow_round(a, n), tokens |-> 0]
            BY <2>1, <3>1 DEF hand_over_leg
        <3>3. a \in Rows /\ SameTrade(a, r)
            BY <3>1, Bought, RulesKeepTrade DEF Is
        <3>4. SameTrade(follow_round(a, n), a)
            BY <3>3, RoundKeepsTrade
        <3> QED
            BY <3>2, <3>3, <3>4 DEF SameTrade
    <2>2. CASE ~ is_dust(n, acquired_amount(r) + b)
        <3>1. PICK e, h : hand_over_leg(r, b, n) = Kept(r, e, h)
            BY <2>2 DEF hand_over_leg
        <3> QED
            BY <1>1, <3>1
    <2> QED
        BY <2>1, <2>2
<1> QED
    BY <1>2, <1>3

\* A booking counts nothing, or counts its swap for the first time and no more than it moved.
Accounted(s) ==
    /\ Acquired \in Nat /\ Acquired' \in Nat
    /\ \/ records' = records /\ Acquired' <= Acquired
       \/ ~ Noted(s) /\ Noted(s)' /\ Acquired' <= Acquired + swaps[s].amount

\* It records what it counts, on the own row unless it is an add, and the rows stay within bounds.
Sound(s) ==
    /\ RecordsBy(s) /\ Accounted(s) /\ RowsWithin'
    /\ swaps[s].kind # "dca" /\ records' # records => <<swaps[s].pos, s>> \in records'

\* What a swap had not booked, it books within the amount.
LEMMA BecomesAccounted ==
    ASSUME Inv, NEW s \in Sigs, NEW p, p = swaps[s].pos, NEW total, Becomes(p, total),
           total <= acquired_amount(rows[p]) + swaps[s].amount, total \in Nat,
           ~ Noted(s), Noted(s)'
    PROVE  Accounted(s)
<1>0. PICK a, d, c, n : /\ a = Acquired /\ d = Acquired' /\ c = acquired_amount(rows[p])
                        /\ n = swaps[s].amount
    OBVIOUS
<1>1. c \in Nat /\ n \in Nat
    BY <1>0, SwapFacts DEF Inv
<1>2. a \in Nat /\ d \in Nat /\ d + c = a + total /\ total <= c + n
    BY <1>0 DEF Becomes
<1>3. d <= a + n
    BY <1>1, <1>2
<1> QED
    BY <1>0, <1>2, <1>3 DEF Accounted

\* A booking on the swap's row.
LEMMA OnRowSound ==
    ASSUME BooksConstants, Inv, RowsWithin, NEW s \in Sigs, NEW p, p = swaps[s].pos, NEW r,
           Within(r), OnRow(p, s, r), r.st = "closed" => r.held = 0, ~ Noted(s),
           acquired_amount(r) <= acquired_amount(rows[p]) + swaps[s].amount
    PROVE  Sound(s)
<1>1. RowsInv /\ SwapsInv /\ p \in Positions /\ r \in Rows
    BY SwapFacts DEF Inv, Within
<1>2. records' = records \union {<<p, s>>} /\ rows' = [rows EXCEPT ![p] = r]
    BY DEF OnRow
<1>3. Becomes(p, acquired_amount(r))
    BY <1>1, OneRowBooked
<1>4. Accounted(s)
    <2>1. Noted(s)'
        BY <1>1, <1>2 DEF Noted
    <2>2. acquired_amount(r) \in Nat
        BY <1>1, AcquiredNat
    <2> QED
        BY <1>3, <2>1, <2>2, BecomesAccounted
<1>5. RecordsBy(s) /\ <<p, s>> \in records'
    BY <1>1, <1>2 DEF RecordsBy
<1>6. RowsWithin'
    <2>1. ASSUME NEW u \in Positions PROVE Within(rows'[u])
        BY <1>1, <1>2 DEF RowsInv, RowsWithin
    <2> QED
        BY <2>1 DEF RowsWithin, Within
<1> QED
    BY <1>4, <1>5, <1>6 DEF Sound

\* A handover.
LEMMA HandOverSound ==
    ASSUME BooksConstants, Inv, RowsWithin, NEW s \in Sigs, NEW p, p = swaps[s].pos, Beside(p) # {},
           NEW out, NEW r, NEW total \in Nat, Splits(out, r, total), NEW b, HandOver(p, s, out, b),
           Within(out.row), ~ Noted(s), total <= acquired_amount(rows[p]) + swaps[s].amount,
           b \/ (swaps[s].kind = "dca" /\ out.tokens > 0)
    PROVE  Sound(s)
<1>1. RowsInv /\ SwapsInv /\ p \in Positions /\ out.tokens \in Nat
    BY SwapFacts DEF Inv, Splits
<1>2. PICK q : q = CHOOSE u \in Beside(p) : TRUE
    OBVIOUS
<1>3. q \in Positions /\ q # p /\ rows[q] \in Rows
    BY <1>1, <1>2 DEF Beside, OpenRows, RowsInv
<1>4. PICK z : z = book_acquisition(rows[q], out.tokens)
    OBVIOUS
<1>5. z \in Rows /\ SameTrade(z, rows[q])
    BY <1>1, <1>3, <1>4, Bought, RulesKeepTrade DEF Is
<1>6. rows' = [rows EXCEPT ![p] = out.row, ![q] = z]
    BY <1>2, <1>3, <1>4 DEF HandOver
<1>7. records' = records \union (IF b THEN {<<p, s>>} ELSE {})
                         \union (IF out.tokens > 0 THEN {<<q, s>>} ELSE {})
    BY <1>2 DEF HandOver
<1>8. Becomes(p, total)
    BY <1>1, HandedOver
<1>9. Accounted(s)
    <2>1. Noted(s)'
        BY <1>1, <1>3, <1>7 DEF Noted
    <2> QED
        BY <1>8, <2>1, BecomesAccounted
<1>10. RecordsBy(s)
    BY <1>1, <1>3, <1>7 DEF RecordsBy
<1>11. swaps[s].kind # "dca" => <<p, s>> \in records'
    BY <1>7
<1>12. RowsWithin'
    <2>1. Within(z)
        BY <1>3, <1>5, StaysWithin DEF RowsWithin
    <2>2. ASSUME NEW u \in Positions PROVE Within(rows'[u])
        BY <1>1, <1>3, <1>6, <2>1, <2>2 DEF RowsInv, RowsWithin
    <2> QED
        BY <2>2 DEF RowsWithin, Within
<1> QED
    BY <1>9, <1>10, <1>11, <1>12 DEF Sound

\* The bound of the amounts is a number.
LEMMA MaxTokensTyped ==
    ASSUME BooksConstants
    PROVE  MaxTokens \in Nat /\ Max(Amounts) \in Nat /\ \A a \in Amounts : a <= Max(Amounts)
<1>1. PICK m : m = Max(Amounts)
    OBVIOUS
<1>2. m \in Amounts /\ \A a \in Amounts : a <= m
    BY <1>1, Greatest DEF BooksConstants
<1>3. m \in Nat /\ MaxSwaps \in Nat
    BY <1>2 DEF BooksConstants
<1>4. MaxSwaps * m \in Nat
    BY <1>3, Times
<1> QED
    BY <1>1, <1>2, <1>3, <1>4 DEF MaxTokens

\* A sale that is booked counts no more than it sold.
LEMMA SaleCounts ==
    ASSUME NEW r \in Rows, NEW n \in Nat
    PROVE  acquired_amount(book_exit(r, n)) <= acquired_amount(r) + n
<1>1. PICK z, h, e : z = book_exit(r, n) /\ h = r.held /\ e = r.exited
    OBVIOUS
<1>2. z.held = Monus(h, n) /\ z.exited = e + n
    BY <1>1, Sold DEF Is
<1>3. h \in Nat /\ e \in Nat
    BY <1>1 DEF Rows
<1>4. Monus(h, n) + (e + n) <= h + e + n
    BY <1>3 DEF Monus
<1>5. acquired_amount(z) = Monus(h, n) + (e + n) /\ acquired_amount(r) = h + e
    BY <1>1, <1>2 DEF acquired_amount
<1> QED
    BY <1>1, <1>4, <1>5

\* So does a full exit that books the rest of the row.
LEMMA ExitCounts ==
    ASSUME NEW r \in Rows, NEW n \in Nat
    PROVE  /\ acquired_amount(absorb_unbooked_sale(r, n)) <= acquired_amount(r) + n
           /\ acquired_amount(book_remaining_as_exited(r)) = acquired_amount(r)
<1>1. PICK h, e, x : h = r.held /\ e = r.exited /\ x = Monus(n, h)
    OBVIOUS
<1>2. h \in Nat /\ e \in Nat /\ acquired_amount(r) = h + e
    BY <1>1 DEF Rows, acquired_amount
<1>3. x \in Nat /\ x <= n
    BY <1>1, <1>2, Difference
<1>4. acquired_amount(book_acquisition(r, x)) = h + x + e
    BY <1>1, <1>3, Bought DEF Is, acquired_amount
<1>5. absorb_unbooked_sale(r, n) \in {r, book_acquisition(r, x)}
    BY <1>1 DEF absorb_unbooked_sale
<1>6. acquired_amount(absorb_unbooked_sale(r, n)) <= acquired_amount(r) + n
    <2>1. CASE absorb_unbooked_sale(r, n) = r
        BY <1>2, <2>1
    <2>2. CASE absorb_unbooked_sale(r, n) = book_acquisition(r, x)
        BY <1>2, <1>3, <1>4, <2>2
    <2> QED
        BY <1>5, <2>1, <2>2
<1>7. acquired_amount(book_remaining_as_exited(r)) = 0 + (e + h)
    BY <1>1, RestExited DEF Is, acquired_amount
<1>8. acquired_amount(book_remaining_as_exited(r)) = acquired_amount(r)
    BY <1>2, <1>7
<1> QED
    BY <1>6, <1>8

\* Nothing is booked.
LEMMA IdleSound ==
    ASSUME BooksConstants, Inv, RowsWithin, NEW s \in Sigs, NEW p, p = swaps[s].pos, records' = records,
           NEW c, Within(c), acquired_amount(c) = acquired_amount(rows[p]), rows' = [rows EXCEPT ![p] = c]
    PROVE  Sound(s)
<1>1. RowsInv /\ SwapsInv /\ p \in Positions /\ rows[p] \in Rows /\ c \in Rows
    BY SwapFacts DEF Inv, Within
<1>2. Accounted(s)
    <2>0. PICK a, d, n : a = Acquired /\ d = Acquired' /\ n = acquired_amount(c)
        OBVIOUS
    <2>1. n \in Nat
        BY <1>1, <2>0, AcquiredNat
    <2>2. a \in Nat /\ d \in Nat /\ d + n = a + n
        BY <1>1, <2>0, RowAssigned
    <2>3. d = a
        BY <2>1, <2>2
    <2> QED
        BY <2>0, <2>2, <2>3 DEF Accounted
<1>3. RowsWithin'
    <2>1. ASSUME NEW u \in Positions PROVE Within(rows'[u])
        BY <1>1 DEF RowsInv, RowsWithin
    <2> QED
        BY <2>1 DEF RowsWithin, Within
<1> QED
    BY <1>2, <1>3 DEF Sound, RecordsBy

\* Nor does the row change.
LEMMA StillSound ==
    ASSUME BooksConstants, Inv, RowsWithin, NEW s \in Sigs, records' = records, rows' = rows
    PROVE  Sound(s)
<1>1. PICK p : p = swaps[s].pos
    OBVIOUS
<1>2. p \in Positions /\ Within(rows[p])
    BY <1>1, SwapFacts DEF Inv, RowsWithin
<1>3. rows' = [rows EXCEPT ![p] = rows[p]]
    BY <1>2 DEF Inv, RowsInv
<1> QED
    BY <1>1, <1>2, <1>3, IdleSound

\* late_fill
LEMMA LateFillSound ==
    ASSUME BooksConstants, Inv, RowsWithin, NEW s \in Sigs, NEW p, p = swaps[s].pos, NEW r, Within(r),
           r.st = "closed", LateFill(p, s, r), ~ Noted(s),
           acquired_amount(r) <= acquired_amount(rows[p]) + swaps[s].amount
    PROVE  Sound(s)
<1> PICK h : h = LateHolding(p, r, 0)
    OBVIOUS
<1>1. RowsInv /\ SwapsInv /\ r \in Rows /\ p \in Positions
    BY SwapFacts DEF Inv, Within
<1>2. h \in Nat /\ acquired_amount(r) \in Nat
    BY <1>1, LateHoldingTyped, AcquiredNat
<1>3. CASE Beside(p) = {}
    <2> PICK f : f = follow_round(r, h)
        OBVIOUS
    <2>1. f \in Rows /\ acquired_amount(f) = acquired_amount(r) /\ (f.st = "closed" => f.held = 0)
        BY <1>1, <1>2, Followed
    <2>2. Within(f)
        BY <1>1, <1>2, <2>1, RoundKeepsTrade, StaysWithin
    <2>3. OnRow(p, s, f)
        BY <1>3 DEF LateFill, OnRow
    <2> QED
        BY <2>1, <2>2, <2>3, OnRowSound
<1>4. CASE Beside(p) # {}
    <2> PICK out : out = hand_over_round(r, h)
        OBVIOUS
    <2>1. Splits(out, r, acquired_amount(r))
        BY <1>1, <1>2, RoundHandedOver
    <2>2. out.row \in Rows /\ SameTrade(out.row, r)
        BY <1>1, <1>2, <2>1, HandOverKeepsTrade DEF Splits
    <2>3. Within(out.row)
        BY <2>2, StaysWithin
    <2>4. HandOver(p, s, out, TRUE)
        BY <1>4 DEF LateFill
    <2> QED
        BY <1>2, <1>4, <2>1, <2>3, <2>4, HandOverSound
<1> QED
    BY <1>3, <1>4

\* late_dca
LEMMA LateDcaSound ==
    ASSUME BooksConstants, Inv, RowsWithin, NEW s \in Sigs, NEW p, p = swaps[s].pos, swaps[s].kind = "dca",
           rows[p].st = "closed", LateDca(p, s), ~ Noted(s), swaps[s].amount > 0
    PROVE  Sound(s)
<1> PICK r, n : r = rows[p] /\ n = swaps[s].amount
    OBVIOUS
<1> PICK h : h = LateHolding(p, r, n)
    OBVIOUS
<1>1. RowsInv /\ SwapsInv /\ r \in Rows /\ p \in Positions /\ n \in Nat /\ Within(r) /\ r.st = "closed"
    BY SwapFacts DEF Inv, RowsWithin
<1>2. h \in Nat /\ acquired_amount(r) \in Nat /\ acquired_amount(r) + n \in Nat
    BY <1>1, LateHoldingTyped, AcquiredNat
<1>3. CASE Beside(p) = {}
    <2> PICK a : a = book_acquisition(r, n)
        OBVIOUS
    <2> PICK f : f = follow_round(a, h)
        OBVIOUS
    <2>1. a \in Rows /\ a.st = "closed" /\ a.held = r.held + n /\ a.exited = r.exited
        BY <1>1, Bought DEF Is
    <2>2. acquired_amount(a) = acquired_amount(r) + n
        BY <1>1, <2>1 DEF acquired_amount, Rows
    <2>3. f \in Rows /\ acquired_amount(f) = acquired_amount(a) /\ (f.st = "closed" => f.held = 0)
        <3>1. a \in Rows /\ h \in Nat
            BY <1>2, <2>1
        <3> QED
            BY <3>1, Followed
    <2>4. Within(a)
        BY <1>1, <2>1, RulesKeepTrade, StaysWithin
    <2>5. Within(f)
        BY <1>2, <2>1, <2>3, <2>4, RoundKeepsTrade, StaysWithin
    <2>6. OnRow(p, s, f)
        BY <1>3 DEF LateDca, OnRow
    <2>7. acquired_amount(f) <= acquired_amount(rows[p]) + swaps[s].amount
        BY <1>1, <1>2, <2>2, <2>3
    <2> QED
        BY <2>3, <2>5, <2>6, <2>7, OnRowSound
<1>4. CASE Beside(p) # {}
    <2> PICK out : out = hand_over_leg(r, n, h)
        OBVIOUS
    <2>1. Splits(out, r, acquired_amount(r) + n)
        BY <1>1, <1>2, LegHandedOver
    <2>2. out.row \in Rows /\ SameTrade(out.row, r) /\ out.tokens \in Nat
        BY <1>1, <1>2, <2>1, HandOverKeepsTrade DEF Splits
    <2>3. Within(out.row)
        BY <1>1, <2>2, StaysWithin
    <2>4. HandOver(p, s, out, out.tokens < n)
        BY <1>4 DEF LateDca
    <2>5. out.tokens < n \/ (swaps[s].kind = "dca" /\ out.tokens > 0)
        BY <1>1, <2>2
    <2>6. acquired_amount(r) + n <= acquired_amount(rows[p]) + swaps[s].amount
        BY <1>2
    <2> QED
        BY <1>2, <1>4, <2>1, <2>3, <2>4, <2>5, <2>6, HandOverSound
<1> QED
    BY <1>3, <1>4

\* What the own row has not recorded is not counted.
LEMMA NotYet ==
    ASSUME RecordsOwn, NEW s \in Sigs, swaps[s].kind # "dca", <<swaps[s].pos, s>> \notin records
    PROVE  ~ Noted(s)
BY DEF RecordsOwn

\* EntryVerified
LEMMA EntrySound ==
    ASSUME BooksConstants, Inv, BoundsInv, NEW s \in Sigs, BookEntry(s)
    PROVE  Sound(s)
<1> PICK p, n : p = swaps[s].pos /\ n = EntryTokens(s)
    OBVIOUS
<1> PICK r : r = apply_entry_fill(rows[p], n)
    OBVIOUS
<1>1. RowsInv /\ SwapsInv /\ RowsWithin /\ SwapsBounded /\ RecordsOwn
    BY DEF Inv, BoundsInv
<1>2. /\ p \in Positions /\ rows[p] \in Rows /\ swaps[s].amount \in Nat
      /\ (rows[p].st = "closed" => rows[p].held = 0)
    BY <1>1, SwapFacts
<1>3. swaps[s].kind = "entry"
    BY DEF BookEntry
<1>4. n \in Nat /\ n <= swaps[s].amount
    BY <1>1, EntryCounts
<1>5. r \in Rows /\ r.st = rows[p].st /\ r.held = n /\ r.exited = rows[p].exited
    BY <1>2, <1>4, EntryFilled DEF Is
<1>6. acquired_amount(r) <= acquired_amount(rows[p]) + swaps[s].amount
    BY <1>2, <1>4, <1>5 DEF acquired_amount, Rows
<1>7. Within(r)
    <2>1. r.tok = n /\ r.exit = rows[p].exit
        BY <1>2 DEF apply_entry_fill, Rows
    <2>2. rows[p].exit <= MaxSwaps /\ swaps[s].amount \in 1 .. MaxTokens
        BY <1>1, <1>2 DEF RowsWithin, Within, SwapsBounded
    <2>3. MaxTokens \in Nat
        BY MaxTokensTyped
    <2> QED
        BY <1>2, <1>4, <1>5, <2>1, <2>2, <2>3 DEF Within
<1>8. CASE rows[p].entry \/ <<p, s>> \in records
    <2>1. rows' = rows /\ records' = records
        BY <1>8 DEF BookEntry
    <2> QED
        BY <1>1, <2>1, StillSound
<1>9. CASE ~ (rows[p].entry \/ <<p, s>> \in records) /\ rows[p].st = "closed"
    <2>1. LateFill(p, s, r)
        BY <1>9 DEF BookEntry
    <2>2. ~ Noted(s)
        BY <1>1, <1>3, <1>9, NotYet
    <2> QED
        BY <1>1, <1>5, <1>6, <1>7, <1>9, <2>1, <2>2, LateFillSound
<1>10. CASE ~ (rows[p].entry \/ <<p, s>> \in records) /\ rows[p].st # "closed"
    <2>1. OnRow(p, s, r)
        BY <1>10 DEF BookEntry
    <2>2. ~ Noted(s)
        BY <1>1, <1>3, <1>10, NotYet
    <2> QED
        BY <1>1, <1>5, <1>6, <1>7, <1>10, <2>1, <2>2, OnRowSound
<1> QED
    BY <1>8, <1>9, <1>10

\* DcaVerified
LEMMA AddSound ==
    ASSUME BooksConstants, Inv, BoundsInv, NEW s \in Sigs, BookAdd(s)
    PROVE  Sound(s)
<1> PICK p, n : p = swaps[s].pos /\ n = swaps[s].amount
    OBVIOUS
<1>1. RowsInv /\ SwapsInv /\ RowsWithin /\ SwapsBounded
    BY DEF Inv, BoundsInv
<1>2. p \in Positions /\ rows[p] \in Rows /\ n \in Nat /\ Within(rows[p])
    BY <1>1, SwapFacts DEF RowsWithin
<1>3. swaps[s].kind = "dca" /\ swaps[s].amount > 0
    BY <1>1 DEF BookAdd, SwapsBounded
<1>4. Noted(s) <=> entry_recorded_for_mint(p, s)
    BY DEF Noted, entry_recorded_for_mint
<1>5. CASE Noted(s)
    <2>1. rows' = rows /\ records' = records
        BY <1>4, <1>5 DEF BookAdd
    <2> QED
        BY <1>1, <2>1, StillSound
<1>6. CASE ~ Noted(s) /\ rows[p].st = "closed"
    <2>1. LateDca(p, s)
        BY <1>4, <1>6 DEF BookAdd
    <2> QED
        BY <1>1, <1>3, <1>6, <2>1, LateDcaSound
<1>7. CASE ~ Noted(s) /\ rows[p].st # "closed"
    <2> PICK r : r = book_acquisition(rows[p], n)
        OBVIOUS
    <2>1. OnRow(p, s, r)
        BY <1>4, <1>7 DEF BookAdd
    <2>2. r \in Rows /\ r.st = rows[p].st /\ r.held = rows[p].held + n /\ r.exited = rows[p].exited
        BY <1>2, Bought DEF Is
    <2>3. acquired_amount(r) <= acquired_amount(rows[p]) + n
        BY <1>2, <2>2 DEF acquired_amount, Rows
    <2>4. Within(r)
        BY <1>2, <2>2, RulesKeepTrade, StaysWithin
    <2> QED
        BY <1>1, <1>7, <2>1, <2>2, <2>3, <2>4, OnRowSound
<1> QED
    BY <1>5, <1>6, <1>7

\* PartialExitVerified
LEMMA PartialSound ==
    ASSUME BooksConstants, Inv, BoundsInv, NEW s \in Sigs, BookPartial(s)
    PROVE  Sound(s)
<1> PICK p, n : p = swaps[s].pos /\ n = swaps[s].amount
    OBVIOUS
<1>1. RowsInv /\ SwapsInv /\ RowsWithin /\ RecordsOwn
    BY DEF Inv, BoundsInv
<1>2. /\ p \in Positions /\ rows[p] \in Rows /\ n \in Nat /\ Within(rows[p])
      /\ acquired_amount(rows[p]) \in Nat
    BY <1>1, SwapFacts DEF RowsWithin
<1>3. swaps[s].kind = "partial"
    BY DEF BookPartial
<1>4. CASE <<p, s>> \in records
    <2>1. rows' = rows /\ records' = records
        BY <1>4 DEF BookPartial
    <2> QED
        BY <1>1, <2>1, StillSound
<1>5. CASE <<p, s>> \notin records /\ rows[p].st = "closed"
    <2>1. LateFill(p, s, rows[p])
        BY <1>5 DEF BookPartial
    <2>2. ~ Noted(s)
        BY <1>1, <1>3, <1>5, NotYet
    <2>3. acquired_amount(rows[p]) <= acquired_amount(rows[p]) + n
        BY <1>2
    <2> QED
        BY <1>1, <1>2, <1>5, <2>1, <2>2, <2>3, LateFillSound
<1>6. CASE <<p, s>> \notin records /\ rows[p].st # "closed"
    <2> PICK r : r = book_exit(rows[p], n)
        OBVIOUS
    <2>1. OnRow(p, s, r)
        BY <1>6 DEF BookPartial
    <2>2. ~ Noted(s)
        BY <1>1, <1>3, <1>6, NotYet
    <2>3. r \in Rows /\ r.st = rows[p].st
        BY <1>2, Sold DEF Is
    <2>4. acquired_amount(r) <= acquired_amount(rows[p]) + n
        BY <1>2, SaleCounts
    <2>5. Within(r)
        BY <1>2, <2>3, RulesKeepTrade, StaysWithin
    <2> QED
        BY <1>1, <1>6, <2>1, <2>2, <2>3, <2>4, <2>5, OnRowSound
<1> QED
    BY <1>4, <1>5, <1>6

\* ExitVerified
LEMMA ExitSound ==
    ASSUME BooksConstants, Inv, BoundsInv, NEW s \in Sigs, BookExit(s)
    PROVE  Sound(s)
<1> PICK p, n, r : p = swaps[s].pos /\ n = swaps[s].amount /\ r = rows[p]
    OBVIOUS
<1>1. RowsInv /\ SwapsInv /\ RowsWithin /\ SwapsBounded /\ RecordsOwn
    BY DEF Inv, BoundsInv
<1>2. /\ p \in Positions /\ r \in Rows /\ n \in Nat /\ Within(r) /\ acquired_amount(r) \in Nat
      /\ (r.st = "closed" => r.held = 0)
    BY <1>1, SwapFacts DEF RowsWithin
<1>3. swaps[s].kind = "exit"
    BY DEF BookExit
<1>4. s \in Nat /\ s <= MaxSwaps
    <2>1. Sigs = 1 .. Len(swaps) /\ Len(swaps) \in Nat /\ Len(swaps) <= MaxSwaps
        BY <1>1, LenProperties DEF SwapsInv, Sigs, SwapsBounded
    <2>2. MaxSwaps \in Nat
        BY DEF BooksConstants
    <2> QED
        BY <2>1, <2>2
<1> DEFINE Done == <<p, s>> \in records \/ (r.st = "closed" /\ ~ r.synth /\ r.exit = s)
<1>5. CASE Done
    <2>1. rows' = rows /\ records' = records
        BY <1>5 DEF BookExit
    <2> QED
        BY <1>1, <2>1, StillSound
<1>6. ~ Done => ~ Noted(s)
    BY <1>1, <1>3, NotYet
<1>7. CASE ~ Done /\ r.st = "closed"
    <2> PICK x : x = IF r.synth THEN s ELSE r.exit
        OBVIOUS
    <2> PICK a : a = [r EXCEPT !.synth = FALSE]
        OBVIOUS
    <2> PICK b : b = [a EXCEPT !.exit = x]
        OBVIOUS
    <2>1. x \in Nat /\ x <= MaxSwaps
        BY <1>2, <1>4 DEF Rows, Within
    <2>2. Is(a, r.st, r.held, r.exited)
        BY <1>2, IsItself, FieldSet
    <2>3. Is(b, r.st, r.held, r.exited)
        BY <2>1, <2>2, FieldSet
    <2>4. b \in Rows /\ b.st = "closed" /\ acquired_amount(b) = acquired_amount(r)
        BY <1>7, <2>3 DEF Is, acquired_amount
    <2>5. b.tok = r.tok /\ b.exit = x
        BY <1>2 DEF Rows
    <2>6. Within(b)
        BY <1>2, <2>1, <2>4, <2>5 DEF Within
    <2>7. [r EXCEPT !.synth = FALSE, !.exit = IF r.synth THEN s ELSE @] = b
        OBVIOUS
    <2>8. LateFill(p, s, b)
        BY <1>7, <2>7 DEF BookExit
    <2>9. acquired_amount(b) <= acquired_amount(rows[p]) + swaps[s].amount
        BY <1>2, <2>4
    <2> QED
        BY <1>1, <1>6, <1>7, <2>4, <2>6, <2>8, <2>9, LateFillSound
<1>8. CASE ~ Done /\ r.st # "closed"
    <2>s. PICK sold : sold = IF \E u \in Pending({"dca"}) : swaps[u].pos = p THEN r
                           ELSE absorb_unbooked_sale(r, n)
        OBVIOUS
    <2>1. sold \in Rows /\ Within(sold)
        BY <1>2, <2>s, Absorbed, RoundKeepsTrade, StaysWithin
    <2>2. acquired_amount(sold) <= acquired_amount(r) + n
        BY <1>2, <2>s, ExitCounts
    <2>e. PICK e : e = book_remaining_as_exited(sold)
        OBVIOUS
    <2>0. PICK x : x = IF r.exit = 0 THEN s ELSE e.exit
        OBVIOUS
    <2>a. PICK a : a = [e EXCEPT !.st = "closed"]
        OBVIOUS
    <2>b. PICK b : b = [a EXCEPT !.exit = x]
        OBVIOUS
    <2>3. e \in Rows /\ e.held = 0 /\ acquired_amount(e) = acquired_amount(sold)
        BY <2>1, <2>e, RestExited, ExitCounts DEF Is
    <2>4. Within(e)
        BY <2>1, <2>3, <2>e, RulesKeepTrade, StaysWithin
    <2>5. x \in Nat /\ x <= MaxSwaps
        BY <1>4, <2>0, <2>4 DEF Rows, Within
    <2>6. Is(a, "closed", e.held, e.exited)
        BY <2>3, <2>a, IsItself, FieldSet
    <2>7. Is(b, "closed", e.held, e.exited)
        BY <2>5, <2>6, <2>b, FieldSet
    <2>8. b \in Rows /\ b.held = 0 /\ acquired_amount(b) = acquired_amount(e)
        BY <2>3, <2>7 DEF Is, acquired_amount
    <2>9. b.tok = e.tok /\ b.exit = x
        BY <2>3, <2>a, <2>b DEF Rows
    <2>10. Within(b)
        BY <2>4, <2>5, <2>8, <2>9 DEF Within
    <2>11. [e EXCEPT !.st = "closed", !.exit = IF r.exit = 0 THEN s ELSE @] = b
        BY <2>0, <2>a, <2>b
    <2>12. OnRow(p, s, b)
        BY <1>8, <2>11, <2>s, <2>e DEF BookExit
    <2>13. acquired_amount(b) <= acquired_amount(rows[p]) + swaps[s].amount
        BY <2>2, <2>3, <2>8
    <2> QED
        BY <1>1, <1>6, <1>8, <2>8, <2>10, <2>12, <2>13, OnRowSound
<1> QED
    BY <1>5, <1>7, <1>8

\* ExitResidualClearForRetry
LEMMA ResidualSound ==
    ASSUME BooksConstants, Inv, BoundsInv, NEW s \in Sigs, BookResidual(s)
    PROVE  Sound(s)
<1> PICK p, n, r : p = swaps[s].pos /\ n = swaps[s].amount /\ r = rows[p]
    OBVIOUS
<1>1. RowsInv /\ SwapsInv /\ RowsWithin /\ RecordsOwn
    BY DEF Inv, BoundsInv
<1>2. /\ p \in Positions /\ r \in Rows /\ n \in Nat /\ Within(r) /\ acquired_amount(r) \in Nat
      /\ (r.st = "closed" => r.held = 0)
    BY <1>1, SwapFacts DEF RowsWithin
<1>3. swaps[s].kind = "exit"
    BY <1>1 DEF BookResidual, SwapsInv
<1>4. CASE <<p, s>> \in records
    <2> PICK c : c = clear_exit_for_retry(r, s)
        OBVIOUS
    <2>1. c \in Rows /\ acquired_amount(c) = acquired_amount(r)
        BY <1>2, ExitCleared DEF Is, acquired_amount
    <2>2. Within(c)
        BY <1>2, <2>1, RulesKeepTrade, StaysWithin
    <2>3. rows' = [rows EXCEPT ![p] = c] /\ records' = records
        BY <1>4 DEF BookResidual
    <2> QED
        BY <1>1, <2>1, <2>2, <2>3, IdleSound
<1>5. <<p, s>> \notin records => ~ Noted(s)
    BY <1>1, <1>3, NotYet
<1>6. CASE <<p, s>> \notin records /\ r.st = "open"
    <2> PICK e : e = book_exit(r, n)
        OBVIOUS
    <2> PICK c : c = clear_exit_for_retry(e, s)
        OBVIOUS
    <2>1. e \in Rows /\ e.st = "open" /\ acquired_amount(e) <= acquired_amount(r) + n
        BY <1>2, <1>6, Sold, SaleCounts DEF Is
    <2>2. c \in Rows /\ c.st = "open" /\ acquired_amount(c) = acquired_amount(e)
        BY <2>1, ExitCleared DEF Is, acquired_amount
    <2>3. Within(e)
        BY <1>2, <2>1, RulesKeepTrade, StaysWithin
    <2>4. Within(c)
        BY <2>1, <2>2, <2>3, RulesKeepTrade, StaysWithin
    <2>5. OnRow(p, s, c)
        BY <1>6 DEF BookResidual
    <2>6. acquired_amount(c) <= acquired_amount(rows[p]) + swaps[s].amount
        BY <2>1, <2>2
    <2> QED
        BY <1>1, <1>5, <1>6, <2>2, <2>4, <2>5, <2>6, OnRowSound
<1>7. CASE <<p, s>> \notin records /\ r.st # "open"
    <2> PICK h : h = LateHolding(p, r, 0)
        OBVIOUS
    <2>1. h \in Nat
        BY <1>1, <1>2, LateHoldingTyped
    <2>2. acquired_amount(r) <= acquired_amount(rows[p]) + swaps[s].amount
        BY <1>2
    <2>3. CASE Beside(p) = {}
        <3> PICK f : f = follow_round(r, h)
            OBVIOUS
        <3> PICK c : c = clear_exit_for_retry(f, s)
            OBVIOUS
        <3>1. f \in Rows /\ acquired_amount(f) = acquired_amount(r) /\ (f.st = "closed" => f.held = 0)
            BY <1>2, <2>1, Followed
        <3>2. c \in Rows /\ c.st = f.st /\ c.held = f.held /\ c.exited = f.exited
            BY <3>1, ExitCleared DEF Is
        <3>3. acquired_amount(c) = acquired_amount(r) /\ (c.st = "closed" => c.held = 0)
            BY <3>1, <3>2 DEF acquired_amount
        <3>4. Within(f)
            BY <1>2, <2>1, <3>1, RoundKeepsTrade, StaysWithin
        <3>5. Within(c)
            BY <3>1, <3>2, <3>4, RulesKeepTrade, StaysWithin
        <3>6. OnRow(p, s, c)
            BY <1>7, <2>3 DEF BookResidual
        <3>7. acquired_amount(c) <= acquired_amount(rows[p]) + swaps[s].amount
            BY <2>2, <3>3
        <3> QED
            BY <1>1, <1>5, <1>7, <3>3, <3>5, <3>6, <3>7, OnRowSound
    <2>4. CASE Beside(p) # {}
        <3>u. PICK out : out = hand_over_round(r, h)
            OBVIOUS
        <3>c. PICK c : c = clear_exit_for_retry(out.row, s)
            OBVIOUS
        <3>o. PICK o : o = [out EXCEPT !.row = c]
            OBVIOUS
        <3>1. Splits(out, r, acquired_amount(r))
            BY <1>2, <2>1, <3>u, RoundHandedOver
        <3>2. out.row \in Rows /\ SameTrade(out.row, r)
            BY <1>2, <2>1, <3>1, <3>u, HandOverKeepsTrade DEF Splits
        <3>3. c \in Rows /\ c.st = out.row.st /\ c.held = out.row.held /\ c.exited = out.row.exited
            <4>1. PICK z : z = out.row
                OBVIOUS
            <4>2. Is(clear_exit_for_retry(z, s), z.st, z.held, z.exited)
                BY <3>2, <4>1, ExitCleared
            <4> QED
                BY <4>1, <4>2, <3>c DEF Is
        <3>4. o.row = c /\ o.tokens = out.tokens
            BY <3>u, <3>o DEF hand_over_round, Kept
        <3>5. Splits(o, r, acquired_amount(r))
            <4>1. acquired_amount(c) = acquired_amount(out.row)
                BY <3>3 DEF acquired_amount
            <4> QED
                BY <3>1, <3>3, <3>4, <4>1 DEF Splits
        <3>6. Within(out.row)
            BY <1>2, <3>2, StaysWithin
        <3>7. Within(c)
            BY <3>2, <3>3, <3>6, <3>c, RulesKeepTrade, StaysWithin
        <3>8. HandOver(p, s, o, TRUE)
            BY <1>7, <2>4, <3>u, <3>c, <3>o DEF BookResidual
        <3>9. Within(o.row)
            BY <3>4, <3>7
        <3> QED
            BY <1>1, <1>2, <1>5, <1>7, <2>2, <2>4, <3>5, <3>8, <3>9, HandOverSound
    <2> QED
        BY <2>3, <2>4
<1> QED
    BY <1>4, <1>6, <1>7

-----------------------------------------------------------------------------
(* Every step is within the bounds *)

\* The wallet holds no more than the buys can bring.
LEMMA WalletBounded ==
    ASSUME BooksConstants, SwapsInv, SwapsBounded, FlowInv
    PROVE  /\ wallet <= MaxTokens
           /\ Total(Brought) \in Nat /\ Total(Brought) <= MaxTokens
           /\ Total(Taken) \in Nat /\ Total(Counted) \in Nat
<1>0. PICK b, t, c, m : b = Brought /\ t = Taken /\ c = Counted /\ m = Max(Amounts)
    OBVIOUS
<1>1. b \in [Numbers -> Nat] /\ t \in [Numbers -> Nat] /\ c \in [Numbers -> Nat]
    BY <1>0, CountsTyped
<1>2. m \in Nat /\ \A a \in Amounts : a <= m
    BY <1>0, MaxTokensTyped
<1>3. \A s \in Numbers : b[s] <= m
    BY <1>0, <1>2 DEF Brought, SwapsBounded
<1>4. IsFiniteSet(Numbers) /\ Cardinality(Numbers) = MaxSwaps
    BY Numbered
<1>5. Sums(b, Numbers)[Numbers] <= Cardinality(Numbers) * m
    BY <1>1, <1>2, <1>3, <1>4, SumBounded
<1>6. Total(b) \in Nat /\ Total(t) \in Nat /\ Total(c) \in Nat
    BY <1>1, <1>4, SumSplits DEF Total
<1>7. Total(b) <= MaxTokens
    BY <1>0, <1>4, <1>5 DEF Total, MaxTokens
<1>8. wallet + Total(t) <= Total(b) /\ wallet \in Nat
    BY <1>0 DEF FlowInv, SwapsInv
<1>9. wallet <= MaxTokens
    BY <1>6, <1>7, <1>8, MaxTokensTyped
<1> QED
    BY <1>0, <1>6, <1>7, <1>9

\* A buy fits, when a swap may still be sent.
LEMMA BuyBounded ==
    ASSUME BooksConstants, NEW a \in Amounts, MaxSwaps # 0
    PROVE  a \in 1 .. MaxTokens
<1>1. PICK m : m = Max(Amounts)
    OBVIOUS
<1>2. a \in Nat \ {0} /\ a <= m /\ m \in Nat /\ MaxTokens \in Nat
    BY <1>1, MaxTokensTyped DEF BooksConstants
<1>3. PICK c \in Nat : MaxSwaps = c + 1
    <2>1. MaxSwaps \in Nat
        BY DEF BooksConstants
    <2>2. MaxSwaps - 1 \in Nat /\ MaxSwaps = (MaxSwaps - 1) + 1
        BY <2>1
    <2> QED
        BY <2>2
<1>4. c * m \in Nat /\ (c + 1) * m = c * m + m
    BY <1>2, Times
<1>5. MaxTokens = c * m + m
    BY <1>1, <1>3, <1>4 DEF MaxTokens
<1> QED
    BY <1>2, <1>4, <1>5

\* Rows that stay acquired what they had.
LEMMA AcquiredStill ==
    ASSUME BooksConstants, RowsInv, rows' = rows
    PROVE  Acquired \in Nat /\ Acquired' = Acquired
<1>0. PICK R : R = rows
    OBVIOUS
<1>1. /\ Acquired = (CHOOSE h : AcquiredFold(R, h))[Positions]
      /\ Acquired' = (CHOOSE h : AcquiredFold(R, h))[Positions]
    BY <1>0, AcquiredFolds
<1>2. PICK f : AcquiredIs(R, f)
    BY <1>0, AcquiredTyped DEF RowsInv
<1> QED
    BY <1>1, <1>2 DEF AcquiredIs

\* What the histories and the verification in hand are after a step.
RestBounded ==
    /\ writtenOff' \in BOOLEAN /\ overlapped' \subseteq {"own", "sales", "shared"}
    /\ item'.sig \in 0 .. Len(swaps) /\ item'.held <= MaxTokens

\* A step that moves no swap.
LEMMA QuietBounded ==
    ASSUME BooksConstants, Inv, BoundsInv, UNCHANGED <<swaps, records, wallet>>, RestBounded, RowsWithin',
           Acquired \in Nat, Acquired' \in Nat, Acquired' <= Acquired
    PROVE  BoundsInv'
<1>1. SwapsInv /\ SwapsBounded /\ RecordsOwn /\ FlowInv
    BY DEF Inv, BoundsInv
<1>2. Sigs' = Sigs
    BY DEF Sigs
<1>3. SwapsBounded'
    BY <1>1, <1>2 DEF SwapsBounded, RestBounded
<1>4. RecordsOwn'
    BY <1>1, <1>2 DEF RecordsOwn, Noted
<1>5. Brought' = Brought /\ Taken' = Taken /\ Counted' = Counted
    BY <1>2 DEF Brought, Taken, Counted, Noted
<1>6. FlowInv'
    <2>0. PICK a, d, c, w, b, t : /\ a = Acquired /\ d = Acquired' /\ c = Total(Counted) /\ w = wallet
                                  /\ b = Total(Brought) /\ t = Total(Taken)
        OBVIOUS
    <2>1. c \in Nat
        BY <1>1, <2>0, WalletBounded
    <2>2. a <= c /\ w + t <= b
        BY <1>1, <2>0 DEF FlowInv
    <2>3. d <= c
        BY <2>0, <2>1, <2>2
    <2>4. Total(Brought') = b /\ Total(Taken') = t /\ Total(Counted') = c /\ wallet' = w
        BY <1>5, <2>0
    <2>5. wallet' + Total(Taken') <= Total(Brought') /\ Acquired' <= Total(Counted')
        BY <2>0, <2>2, <2>3, <2>4
    <2> QED
        BY <2>5 DEF FlowInv, Total
<1> QED
    BY <1>3, <1>4, <1>6 DEF BoundsInv

\* As many swaps.
LEMMA SameLength ==
    ASSUME SwapsInv, SwapsInv', Sigs' = Sigs
    PROVE  Len(swaps') = Len(swaps)
<1>0. PICK a, b : a = Len(swaps) /\ b = Len(swaps')
    OBVIOUS
<1>1. Sigs = 1 .. a /\ Sigs' = 1 .. b /\ a \in Nat /\ b \in Nat
    BY <1>0, LenProperties DEF SwapsInv, Sigs
<1>2. 1 .. a = 1 .. b
    BY <1>1
<1>3. a = b
    <2>1. a = 0 \/ a \in 1 .. b
        BY <1>1, <1>2
    <2>2. b = 0 \/ b \in 1 .. a
        BY <1>1, <1>2
    <2> QED
        BY <1>1, <2>1, <2>2
<1> QED
    BY <1>0, <1>3

\* A step that marks swap s.
LEMMA MarkedBounded ==
    ASSUME SwapsInv, SwapsInv', SwapsBounded, RecordsOwn, NEW s \in Sigs, NEW x, Marked(s, x),
           RecordsBy(s), RestBounded,
           swaps[s].kind # "dca" /\ records' # records => <<swaps[s].pos, s>> \in records'
    PROVE  SwapsBounded' /\ RecordsOwn'
<1>1. Sigs' = Sigs /\ Len(swaps') = Len(swaps)
    BY SameLength DEF Marked
<1>2. records' \subseteq Positions \X Sigs
    BY DEF RecordsBy, SwapsBounded
<1>3. SwapsBounded'
    BY <1>1, <1>2 DEF SwapsBounded, RestBounded, Marked
<1>4. ASSUME NEW u \in Sigs, swaps[u].kind # "dca", NEW y \in Positions, <<y, u>> \in records'
      PROVE  <<swaps[u].pos, u>> \in records'
    <2>1. CASE <<y, u>> \in records
        <3>1. Noted(u)
            BY <2>1 DEF Noted
        <3> QED
            BY <1>4, <3>1 DEF RecordsOwn, RecordsBy
    <2>2. CASE <<y, u>> \notin records
        <3>1. u = s
            BY <1>4, <2>2 DEF RecordsBy
        <3> QED
            BY <1>4, <2>2, <3>1
    <2> QED
        BY <2>1, <2>2
<1>5. RecordsOwn'
    BY <1>1, <1>4 DEF RecordsOwn, Noted, Marked
<1> QED
    BY <1>3, <1>5

\* A booking.
LEMMA BookBounded ==
    ASSUME BooksConstants, Inv, Inv', BackInv, BoundsInv, NEW s \in Sigs, Book(s)
    PROVE  BoundsInv'
<1>1. SwapsInv /\ SwapsInv' /\ RowsInv /\ OrderInv /\ SwapsBounded /\ RecordsOwn /\ FlowInv
    BY DEF Inv, BackInv, BoundsInv
<1>2. Sound(s)
    BY EntrySound, AddSound, PartialSound, ExitSound, ResidualSound DEF Book
<1>3. Booked(s) /\ writtenOff' = writtenOff
    BY DEF Book, BookEntry, BookAdd, BookPartial, BookExit, BookResidual, Booked
<1>4. swaps[s].st = "landed" /\ item' = NoItem
    BY <1>1, <1>3, BookedMarks
<1>5. PICK x \in {"landed", "settled"} : Marked(s, x)
    BY <1>1, <1>3, BookedMarks
<1>6. RestBounded
    <2>1. Len(swaps) \in Nat /\ MaxTokens \in Nat
        BY <1>1, LenProperties, MaxTokensTyped DEF SwapsInv
    <2>2. overlapped' \subseteq {"own", "sales", "shared"} /\ writtenOff' \in BOOLEAN
        BY <1>1, <1>3 DEF Booked, Ends, SwapsBounded
    <2> QED
        BY <1>4, <2>1, <2>2 DEF RestBounded, NoItem
<1>7. SwapsBounded' /\ RecordsOwn'
    BY <1>1, <1>2, <1>5, <1>6, MarkedBounded DEF Sound
<1>8. PICK a : a = swaps[s].amount
    OBVIOUS
<1>9. /\ s \in Numbers /\ a \in Nat
      /\ Brought[s] = (IF swaps[s].kind \in Buys THEN a ELSE 0)
      /\ Brought'[s] = (IF swaps[s].kind \in Buys THEN a ELSE 0)
      /\ Taken[s] = (IF swaps[s].kind \in Sales THEN a ELSE 0)
      /\ Taken'[s] = (IF swaps[s].kind \in Sales /\ (x = "landed" \/ Noted(s)') THEN a ELSE 0)
      /\ Counted[s] = (IF Noted(s) THEN a ELSE 0)
      /\ Counted'[s] = (IF Noted(s)' THEN a ELSE 0)
    BY <1>1, <1>4, <1>5, <1>8, CountsAt
<1>10. wallet' = wallet /\ wallet \in Nat
    BY <1>1, <1>3 DEF Booked, SwapsInv
<1>11. Acquired \in Nat /\ Acquired' \in Nat
    BY <1>2 DEF Sound, Accounted
<1>12. wallet' + Taken'[s] + Brought[s] <= wallet + Taken[s] + Brought'[s]
    <2>1. PICK w, t, u, b : w = wallet /\ t = Taken[s] /\ u = Taken'[s] /\ b = Brought[s]
        OBVIOUS
    <2>2. t \in Nat /\ u \in Nat /\ b \in Nat /\ u <= t /\ Brought'[s] = b
        BY <1>9, <2>1
    <2>3. w \in Nat /\ w + u + b <= w + t + b
        BY <1>10, <2>1, <2>2
    <2> QED
        BY <1>10, <2>1, <2>2, <2>3
<1>13. Acquired' + Counted[s] <= Acquired + Counted'[s]
    <2>1. PICK c, d, f, g : c = Acquired /\ d = Acquired' /\ f = Counted[s] /\ g = Counted'[s]
        OBVIOUS
    <2>2. CASE records' = records /\ Acquired' <= Acquired
        <3>1. Noted(s)' <=> Noted(s)
            BY <2>2 DEF Noted
        <3>2. f = g /\ f \in Nat
            BY <1>9, <2>1, <3>1
        <3>3. d + f <= c + g
            BY <1>11, <2>1, <2>2, <3>2
        <3> QED
            BY <2>1, <3>3
    <2>3. CASE ~ Noted(s) /\ Noted(s)' /\ Acquired' <= Acquired + swaps[s].amount
        <3>1. f = 0 /\ g = a /\ d <= c + a
            BY <1>8, <1>9, <2>1, <2>3
        <3>2. d + f <= c + g
            BY <1>9, <1>11, <2>1, <3>1
        <3> QED
            BY <2>1, <3>2
    <2> QED
        BY <1>2, <2>2, <2>3 DEF Sound, Accounted
<1>14. FlowInv'
    BY <1>1, <1>2, <1>5, <1>11, <1>12, <1>13, FlowMarked DEF Sound
<1> QED
    BY <1>2, <1>7, <1>14 DEF BoundsInv, Sound

\* What a step of the chain does to the rows: the exit of one may be cleared, or an orphan removed.
LEMMA ChainRows ==
    ASSUME BooksConstants, Inv, RowsWithin, NEW s \in Sigs, Land(s) \/ NotLanded(s)
    PROVE  RowsWithin' /\ Acquired \in Nat /\ Acquired' \in Nat /\ Acquired' <= Acquired
<1> PICK p : p = swaps[s].pos
    OBVIOUS
<1>1. RowsInv /\ SwapsInv /\ p \in Positions /\ rows[p] \in Rows /\ Within(rows[p])
    BY SwapFacts DEF Inv, RowsWithin
<1>2. CASE rows' = rows
    <2>1. RowsWithin'
        BY <1>2 DEF RowsWithin, Within
    <2>2. Acquired \in Nat /\ Acquired' = Acquired
        BY <1>1, <1>2, AcquiredStill
    <2>3. Acquired <= Acquired
        <3>1. PICK a : a = Acquired
            OBVIOUS
        <3> QED
            BY <2>2, <3>1
    <2> QED
        BY <2>1, <2>2, <2>3
<1>3. ASSUME NEW c, Within(c), acquired_amount(c) <= acquired_amount(rows[p]),
             rows' = [rows EXCEPT ![p] = c]
      PROVE  RowsWithin' /\ Acquired \in Nat /\ Acquired' \in Nat /\ Acquired' <= Acquired
    <2>0. PICK a, d, n, m : /\ a = Acquired /\ d = Acquired' /\ n = acquired_amount(c)
                            /\ m = acquired_amount(rows[p])
        OBVIOUS
    <2>1. c \in Rows
        BY <1>3 DEF Within
    <2>2. a \in Nat /\ d \in Nat /\ d + m = a + n
        BY <1>1, <1>3, <2>0, <2>1, RowAssigned
    <2>3. n \in Nat /\ m \in Nat /\ n <= m
        BY <1>1, <1>3, <2>0, <2>1, AcquiredNat
    <2>4. d <= a
        BY <2>2, <2>3
    <2>5. ASSUME NEW u \in Positions PROVE Within(rows'[u])
        BY <1>1, <1>3 DEF RowsInv, RowsWithin
    <2>6. RowsWithin'
        BY <2>5 DEF RowsWithin, Within
    <2> QED
        BY <2>0, <2>2, <2>4, <2>6
<1>4. CASE rows' = [rows EXCEPT ![p] = NoRow]
    <2>1. NoRow \in Rows /\ NoRow.tok = 0 /\ NoRow.exit = 0 /\ acquired_amount(NoRow) = 0
        BY DEF NoRow, Rows, acquired_amount
    <2>2. MaxSwaps \in Nat /\ MaxTokens \in Nat
        BY MaxTokensTyped DEF BooksConstants
    <2>3. Within(NoRow)
        BY <2>1, <2>2 DEF Within
    <2>4. acquired_amount(rows[p]) \in Nat
        BY <1>1, AcquiredNat
    <2>5. acquired_amount(NoRow) <= acquired_amount(rows[p])
        BY <2>1, <2>4
    <2> QED
        BY <1>3, <1>4, <2>3, <2>5
<1>5. CASE rows' = [rows EXCEPT ![p] = clear_exit_for_retry(@, s)]
    <2>1. PICK c : c = clear_exit_for_retry(rows[p], s)
        OBVIOUS
    <2>2. c \in Rows /\ acquired_amount(c) = acquired_amount(rows[p])
        BY <1>1, <2>1, ExitCleared DEF Is, acquired_amount
    <2>3. Within(c)
        BY <1>1, <2>1, <2>2, RulesKeepTrade, StaysWithin
    <2>4. acquired_amount(rows[p]) \in Nat
        BY <1>1, AcquiredNat
    <2>5. acquired_amount(c) <= acquired_amount(rows[p])
        BY <2>2, <2>4
    <2>6. rows' = [rows EXCEPT ![p] = c]
        BY <1>5, <2>1
    <2> QED
        BY <1>3, <2>3, <2>5, <2>6
<1> QED
    BY <1>2, <1>4, <1>5 DEF Land, NotLanded

\* A swap lands or never will.
LEMMA ChainBounded ==
    ASSUME BooksConstants, Inv, Inv', BackInv, BoundsInv, NEW s \in Sigs, Land(s) \/ NotLanded(s)
    PROVE  BoundsInv'
<1>1. /\ SwapsInv /\ SwapsInv' /\ RowsInv /\ RecordsLanded
      /\ SwapsBounded /\ RowsWithin /\ RecordsOwn /\ FlowInv
    BY DEF Inv, BackInv, OrderInv, BoundsInv
<1>2. RowsWithin' /\ Acquired \in Nat /\ Acquired' \in Nat /\ Acquired' <= Acquired
    BY <1>1, ChainRows
<1>3. swaps[s].st = "sent" /\ records' = records /\ item' = item /\ UNCHANGED history
    BY DEF Land, NotLanded
<1>4. ~ Noted(s) /\ ~ Noted(s)'
    BY <1>1, <1>3 DEF RecordsLanded, Noted
<1>5. PICK x \in {"landed", "settled"} : /\ Marked(s, x)
                                         /\ x = "landed" => Land(s)
                                         /\ x = "settled" => NotLanded(s)
    <2>1. CASE Land(s)
        <3>1. Marked(s, "landed")
            BY <1>1, <2>1, MarkedBy DEF Land
        <3> QED
            BY <2>1, <3>1
    <2>2. CASE NotLanded(s)
        <3>1. Marked(s, "settled")
            BY <1>1, <2>2, MarkedBy DEF NotLanded
        <3> QED
            BY <2>2, <3>1
    <2> QED
        BY <2>1, <2>2
<1>6. RecordsBy(s) /\ RestBounded
    BY <1>1, <1>3 DEF RecordsBy, RestBounded, SwapsBounded, history
<1>7. SwapsBounded' /\ RecordsOwn'
    BY <1>1, <1>3, <1>5, <1>6, MarkedBounded
<1>8. PICK a : a = swaps[s].amount
    OBVIOUS
<1>9. /\ a \in Nat
      /\ Brought[s] = 0 /\ Brought'[s] = (IF swaps[s].kind \in Buys THEN a ELSE 0)
      /\ Taken[s] = 0 /\ Taken'[s] = (IF swaps[s].kind \in Sales /\ x = "landed" THEN a ELSE 0)
      /\ Counted[s] = 0 /\ Counted'[s] = 0
    BY <1>1, <1>3, <1>4, <1>5, <1>8, CountsAt
<1>10. swaps[s].kind \in Buys \/ (swaps[s].kind \in Sales /\ swaps[s].kind \notin Buys)
    BY <1>1, SwapTyped DEF Buys, Sales
<1>11. wallet' + Taken'[s] + Brought[s] <= wallet + Taken[s] + Brought'[s]
    <2>0. PICK w, v : w = wallet /\ v = wallet'
        OBVIOUS
    <2>1. w \in Nat /\ v \in Nat
        BY <1>1, <2>0 DEF SwapsInv
    <2>2. CASE x = "landed" /\ swaps[s].kind \in Buys
        <3>1. v = w + a
            BY <1>5, <1>8, <2>0, <2>2 DEF Land
        <3>2. swaps[s].kind \notin Sales
            BY <2>2 DEF Buys, Sales
        <3>3. Taken'[s] = 0 /\ Brought'[s] = a
            BY <1>9, <2>2, <3>2
        <3>4. v + 0 + 0 <= w + 0 + a
            BY <1>9, <2>1, <3>1
        <3> QED
            BY <1>9, <2>0, <3>3, <3>4
    <2>3. CASE x = "landed" /\ swaps[s].kind \notin Buys
        <3>1. v = w - a /\ w >= a
            BY <1>5, <1>8, <1>10, <2>0, <2>3 DEF Land
        <3>2. Taken'[s] = a /\ Brought'[s] = 0
            BY <1>9, <1>10, <2>3
        <3>3. v + a + 0 <= w + 0 + 0
            BY <1>9, <2>1, <3>1
        <3> QED
            BY <1>9, <2>0, <3>2, <3>3
    <2>4. CASE x = "settled"
        <3>1. v = w
            BY <1>5, <2>0, <2>4 DEF NotLanded
        <3>2. Taken'[s] = 0
            BY <1>9, <2>4
        <3>3. PICK b : b = Brought'[s]
            OBVIOUS
        <3>4. b \in Nat
            BY <1>9, <3>3
        <3>5. v + 0 + 0 <= w + 0 + b
            BY <2>1, <3>1, <3>4
        <3> QED
            BY <1>9, <2>0, <3>2, <3>3, <3>5
    <2> QED
        BY <2>2, <2>3, <2>4
<1>12. Acquired' + Counted[s] <= Acquired + Counted'[s]
    <2>1. PICK c, d : c = Acquired /\ d = Acquired'
        OBVIOUS
    <2>2. c \in Nat /\ d \in Nat /\ d <= c
        BY <1>2, <2>1
    <2>3. d + 0 <= c + 0
        BY <2>2
    <2> QED
        BY <1>9, <2>1, <2>3
<1>13. FlowInv'
    BY <1>1, <1>2, <1>5, <1>6, <1>11, <1>12, FlowMarked
<1> QED
    BY <1>2, <1>7, <1>13 DEF BoundsInv

\* A call sends a swap within its bounds.
LEMMA SendBounded ==
    ASSUME BooksConstants, Inv, Inv', BoundsInv, NEW kind \in Buys \union Sales, NEW p \in Positions,
           NEW a \in 1 .. MaxTokens, kind \in Buys => a \in Amounts, Send(kind, p, a),
           UNCHANGED <<records, wallet, item, writtenOff>>, RowsWithin',
           Acquired \in Nat, Acquired' \in Nat, Acquired' <= Acquired
    PROVE  BoundsInv'
<1> PICK n : n = Len(swaps) + 1
    OBVIOUS
<1>1. SwapsInv /\ SwapsInv' /\ SwapsBounded /\ RecordsOwn /\ FlowInv
    BY DEF Inv, BoundsInv
<1>2. Grown(n, kind, p, a)
    BY <1>1, GrownBy
<1>3. Len(swaps) \in Nat /\ Len(swaps') = n /\ n <= MaxSwaps
    <2>1. /\ swaps \in Seq(Swaps)
          /\ swaps' = Append(swaps, [kind |-> kind, pos |-> p, amount |-> a, st |-> "sent"])
        BY <1>1 DEF SwapsInv, Send
    <2>2. [kind |-> kind, pos |-> p, amount |-> a, st |-> "sent"] \in Swaps
        <3>1. MaxTokens \in Nat
            BY MaxTokensTyped
        <3> QED
            BY <3>1 DEF Swaps
    <2>3. Len(swaps) < MaxSwaps /\ MaxSwaps \in Nat
        BY DEF Send, BooksConstants
    <2>4. Len(swaps) \in Nat
        BY <2>1, LenProperties
    <2>5. Len(swaps') = Len(swaps) + 1
        BY <2>1, <2>2, AppendProperties
    <2> QED
        BY <2>3, <2>4, <2>5
<1>4. \A u \in Positions : <<u, n>> \notin records
    BY <1>1, <1>2 DEF SwapsBounded, Grown
<1>5. SwapsBounded'
    <2>1. \A u \in Sigs' : /\ swaps'[u].amount \in 1 .. MaxTokens
                           /\ swaps'[u].kind \in Buys => swaps'[u].amount \in Amounts
        BY <1>1, <1>2 DEF SwapsBounded, Grown
    <2>2. records' \subseteq Positions \X Sigs'
        BY <1>1, <1>2 DEF SwapsBounded, Grown
    <2>3. item'.sig \in 0 .. Len(swaps') /\ item'.held <= MaxTokens
        <3>1. item.sig \in 0 .. Len(swaps) /\ item.held <= MaxTokens
            BY <1>1 DEF SwapsBounded
        <3>2. item.sig \in 0 .. n
            BY <1>3, <3>1
        <3> QED
            BY <1>3, <3>1, <3>2
    <2>4. writtenOff' \in BOOLEAN /\ overlapped' \subseteq {"own", "sales", "shared"}
        BY <1>1 DEF SwapsBounded, Send, Overlap
    <2> QED
        BY <1>3, <2>1, <2>2, <2>3, <2>4 DEF SwapsBounded
<1>6. \A u \in Positions, t \in Sigs' : <<u, t>> \in records => t \in Sigs /\ t # n /\ swaps'[t] = swaps[t]
    BY <1>2, <1>4 DEF Grown
<1>7. RecordsOwn'
    BY <1>1, <1>6 DEF RecordsOwn, Noted
<1>8. Brought' = Brought /\ Taken' = Taken /\ Counted' = Counted
    <2>1. /\ n \notin Sigs /\ Sigs' = Sigs \union {n} /\ swaps'[n].st = "sent"
          /\ \A t \in Sigs : swaps'[t] = swaps[t]
        BY <1>2 DEF Grown
    <2>2. ~ Noted(n)' /\ \A t : Noted(t)' <=> Noted(t)
        BY <1>4 DEF Noted
    <2> QED
        BY <2>1, <2>2 DEF Brought, Taken, Counted
<1>9. FlowInv'
    <2>0. PICK c, d, f, w, b, t : /\ c = Acquired /\ d = Acquired' /\ f = Total(Counted) /\ w = wallet
                                  /\ b = Total(Brought) /\ t = Total(Taken)
        OBVIOUS
    <2>1. f \in Nat
        BY <1>1, <2>0, WalletBounded
    <2>2. c <= f /\ w + t <= b
        BY <1>1, <2>0 DEF FlowInv
    <2>3. c \in Nat /\ d \in Nat /\ d <= c
        BY <2>0
    <2>4. d <= f
        BY <2>1, <2>2, <2>3
    <2>5. Total(Brought') = b /\ Total(Taken') = t /\ Total(Counted') = f /\ wallet' = w
        BY <1>8, <2>0
    <2>6. wallet' + Total(Taken') <= Total(Brought') /\ Acquired' <= Total(Counted')
        BY <2>0, <2>2, <2>4, <2>5
    <2> QED
        BY <2>6 DEF FlowInv, Total
<1> QED
    BY <1>5, <1>7, <1>9 DEF BoundsInv

\* A change of one row that acquires nothing.
LEMMA RowBounded ==
    ASSUME BooksConstants, RowsInv, RowsWithin, NEW p \in Positions, NEW c, Within(c),
           c.held + c.exited = rows[p].held + rows[p].exited, rows' = [rows EXCEPT ![p] = c]
    PROVE  RowsWithin' /\ Acquired \in Nat /\ Acquired' \in Nat /\ Acquired' <= Acquired
<1>0. PICK a, d, n, m : /\ a = Acquired /\ d = Acquired' /\ n = acquired_amount(c)
                        /\ m = acquired_amount(rows[p])
    OBVIOUS
<1>1. c \in Rows /\ rows[p] \in Rows
    BY DEF Within, RowsInv
<1>2. a \in Nat /\ d \in Nat /\ d + m = a + n
    BY <1>0, <1>1, RowAssigned
<1>3. n \in Nat /\ m \in Nat /\ n = m
    BY <1>0, <1>1, AcquiredNat DEF acquired_amount
<1>4. d <= a
    BY <1>2, <1>3
<1>5. ASSUME NEW u \in Positions PROVE Within(rows'[u])
    BY DEF RowsInv, RowsWithin
<1>6. RowsWithin'
    BY <1>5 DEF RowsWithin, Within
<1> QED
    BY <1>0, <1>2, <1>4, <1>6

\* Nor does no change.
LEMMA RowsStill ==
    ASSUME BooksConstants, RowsInv, RowsWithin, rows' = rows
    PROVE  RowsWithin' /\ Acquired \in Nat /\ Acquired' \in Nat /\ Acquired' <= Acquired
<1>1. RowsWithin'
    BY DEF RowsWithin, Within
<1>2. PICK a, d : a = Acquired /\ d = Acquired'
    OBVIOUS
<1>3. a \in Nat /\ d = a
    BY <1>2, AcquiredStill
<1>4. d <= a
    BY <1>3
<1> QED
    BY <1>1, <1>2, <1>3, <1>4

\* The calls.
LEMMA CallsBounded ==
    ASSUME BooksConstants, Inv, Inv', BoundsInv, NEW p \in Positions,
           SendEntry(p) \/ SendAdd(p) \/ SendPartial(p) \/ SendExit(p)
    PROVE  BoundsInv'
<1>1. RowsInv /\ SwapsInv /\ SwapsBounded /\ RowsWithin /\ FlowInv
    BY DEF Inv, BoundsInv
<1>2. rows[p] \in Rows /\ Within(rows[p]) /\ rows[p].held \in Nat /\ wallet \in Nat
    BY <1>1 DEF RowsInv, RowsWithin, Rows, SwapsInv
<1>3. wallet <= MaxTokens /\ MaxTokens \in Nat
    BY <1>1, WalletBounded, MaxTokensTyped
<1>4. Len(swaps) < MaxSwaps /\ Len(swaps) \in Nat /\ MaxSwaps \in Nat
    BY <1>1, LenProperties DEF SendEntry, SendAdd, SendPartial, SendExit, Send, SwapsInv, BooksConstants
<1>5. MaxSwaps # 0
    BY <1>4
<1>6. CASE SendEntry(p)
    <2>1. PICK a \in Amounts : Send("entry", p, a)
        BY <1>6 DEF SendEntry
    <2>2. a \in 1 .. MaxTokens
        BY <1>5, BuyBounded
    <2>3. PICK c : c = [rows[p] EXCEPT !.st = "open"]
        OBVIOUS
    <2>4. c \in Rows /\ c.held = rows[p].held /\ c.exited = rows[p].exited /\ SameTrade(c, rows[p])
        BY <1>2, <2>3 DEF Rows, SameTrade
    <2>5. Within(c)
        BY <1>2, <2>4, StaysWithin
    <2>6. rows' = [rows EXCEPT ![p] = c] /\ UNCHANGED <<records, wallet, item, writtenOff>>
        BY <1>6, <2>3 DEF SendEntry
    <2>7. RowsWithin' /\ Acquired \in Nat /\ Acquired' \in Nat /\ Acquired' <= Acquired
        BY <1>1, <2>4, <2>5, <2>6, RowBounded
    <2> QED
        BY <2>1, <2>2, <2>6, <2>7, SendBounded DEF Buys
<1>7. CASE SendAdd(p)
    <2>1. PICK a \in Amounts : Send("dca", p, a)
        BY <1>7 DEF SendAdd
    <2>2. a \in 1 .. MaxTokens
        BY <1>5, BuyBounded
    <2>3. rows' = rows /\ UNCHANGED <<records, wallet, item, writtenOff>>
        BY <1>7 DEF SendAdd
    <2>4. RowsWithin' /\ Acquired \in Nat /\ Acquired' \in Nat /\ Acquired' <= Acquired
        BY <1>1, <2>3, RowsStill
    <2> QED
        BY <2>1, <2>2, <2>3, <2>4, SendBounded DEF Buys
<1>8. CASE SendPartial(p)
    <2>1. PICK a \in partial_exit_amount(p) : Send("partial", p, a)
        BY <1>8 DEF SendPartial
    <2>2. a \in 1 .. MaxTokens
        <3>1. PICK h, w : h = rows[p].held /\ w = wallet
            OBVIOUS
        <3>2. h \in Nat /\ w \in Nat /\ w <= MaxTokens /\ a \in 1 .. Monus(Least(h, w), 1)
            BY <1>2, <1>3, <2>1, <3>1 DEF partial_exit_amount
        <3> QED
            BY <1>3, <3>2 DEF Monus, Least
    <2>3. rows' = rows /\ UNCHANGED <<records, wallet, item, writtenOff>>
        BY <1>8 DEF SendPartial
    <2>4. RowsWithin' /\ Acquired \in Nat /\ Acquired' \in Nat /\ Acquired' <= Acquired
        BY <1>1, <2>3, RowsStill
    <2>5. "partial" \notin Buys /\ "partial" \in Sales
        BY DEF Buys, Sales
    <2> QED
        BY <2>1, <2>2, <2>3, <2>4, <2>5, SendBounded
<1>9. CASE SendExit(p)
    <2>1. PICK a \in full_exit_amount(p) : Send("exit", p, a)
        BY <1>9 DEF SendExit
    <2>2. a \in 1 .. MaxTokens
        <3>1. PICK h, w, o : h = rows[p].held /\ w = wallet /\ o = other_open_held(p)
            OBVIOUS
        <3>2. h \in Nat /\ w \in Nat /\ w <= MaxTokens /\ o \in Nat
            BY <1>1, <1>2, <1>3, <3>1, OtherHeldTyped
        <3>3. a \in 1 .. Monus(w, o) \/ a \in 1 .. Least(w, h)
            BY <2>1, <3>1 DEF full_exit_amount
        <3> QED
            BY <1>3, <3>2, <3>3 DEF Monus, Least
    <2>3. PICK n : n = Len(swaps) + 1
        OBVIOUS
    <2>4. PICK c : c = [rows[p] EXCEPT !.exit = n]
        OBVIOUS
    <2>5. n \in Nat /\ n <= MaxSwaps
        BY <1>4, <2>3
    <2>6. c \in Rows /\ c.held = rows[p].held /\ c.exited = rows[p].exited
        <3>1. Is(c, rows[p].st, rows[p].held, rows[p].exited)
            BY <1>2, <2>4, <2>5, IsItself, FieldSet
        <3> QED
            BY <3>1 DEF Is
    <2>7. c.tok = rows[p].tok /\ c.exit = n
        BY <1>2, <2>4 DEF Rows
    <2>8. Within(c)
        BY <1>2, <2>5, <2>6, <2>7 DEF Within
    <2>9. rows' = [rows EXCEPT ![p] = c] /\ UNCHANGED <<records, wallet, item, writtenOff>>
        BY <1>9, <2>3, <2>4 DEF SendExit
    <2>10. RowsWithin' /\ Acquired \in Nat /\ Acquired' \in Nat /\ Acquired' <= Acquired
        BY <1>1, <2>6, <2>8, <2>9, RowBounded
    <2>11. "exit" \notin Buys /\ "exit" \in Sales
        BY DEF Buys, Sales
    <2> QED
        BY <2>1, <2>2, <2>9, <2>10, <2>11, SendBounded
<1> QED
    BY <1>6, <1>7, <1>8, <1>9

\* What the rows acquired together, as it is now.
LEMMA AcquiredNow ==
    ASSUME NEW R, R = rows
    PROVE  Acquired = (CHOOSE h : AcquiredFold(R, h))[Positions]
<1>1. Acquired = (CHOOSE h : AcquiredFold(rows, h))[Positions]
    BY Zenon DEF Acquired, MapThenSumSet, MapThenFoldSet, AcquiredFold
<1> QED
    BY <1>1, Zenon

\* force_close_position
LEMMA WriteOffBounded ==
    ASSUME BooksConstants, Inv, BoundsInv, NEW p \in Positions, WriteOff(p)
    PROVE  BoundsInv'
<1>1. RowsInv /\ SwapsInv /\ SwapsBounded /\ RowsWithin /\ rows[p] \in Rows /\ Within(rows[p])
    BY DEF Inv, RowsInv, BoundsInv, RowsWithin
<1> PICK e : e = book_remaining_as_exited(rows[p])
    OBVIOUS
<1> PICK a : a = [e EXCEPT !.st = "closed"]
    OBVIOUS
<1> PICK b : b = [a EXCEPT !.synth = TRUE]
    OBVIOUS
<1>2. e \in Rows /\ e.held = 0 /\ e.exited = rows[p].exited + rows[p].held
    BY <1>1, RestExited DEF Is
<1>3. Is(a, "closed", 0, e.exited)
    BY <1>2, IsItself, FieldSet
<1>4. Is(b, "closed", 0, e.exited)
    BY <1>3, FieldSet
<1>5. Within(e)
    BY <1>1, <1>2, RulesKeepTrade, StaysWithin
<1>6. b \in Rows /\ SameTrade(b, e)
    BY <1>2, <1>4 DEF Is, Rows, SameTrade
<1>7. Within(b)
    BY <1>5, <1>6, StaysWithin
<1>8. b.held + b.exited = rows[p].held + rows[p].exited
    <2>1. b.held = 0 /\ b.exited = rows[p].exited + rows[p].held
        BY <1>2, <1>4 DEF Is
    <2>2. rows[p].held \in Nat /\ rows[p].exited \in Nat
        BY <1>1 DEF Rows
    <2> QED
        BY <2>1, <2>2
<1>9. /\ rows' = [rows EXCEPT ![p] = b] /\ writtenOff' = TRUE
      /\ UNCHANGED <<swaps, records, wallet, item, overlapped>>
    BY DEF WriteOff
<1>10. RowsWithin' /\ Acquired \in Nat /\ Acquired' \in Nat /\ Acquired' <= Acquired
    BY <1>1, <1>7, <1>8, <1>9, RowBounded
<1>11. RestBounded
    BY <1>1, <1>9 DEF RestBounded, SwapsBounded
<1> QED
    BY <1>9, <1>10, <1>11, QuietBounded

\* The worker's readings.
LEMMA ReadBounded ==
    ASSUME BooksConstants, Inv, BoundsInv, (\E s \in Sigs : Read(s)) \/ Retry \/ UNCHANGED vars
    PROVE  BoundsInv'
<1>1. RowsInv /\ SwapsInv /\ SwapsBounded /\ RowsWithin /\ FlowInv
    BY DEF Inv, BoundsInv
<1>2. UNCHANGED <<rows, swaps, records, wallet, writtenOff, overlapped>>
    BY DEF Read, Retry, vars, history
<1>3. RowsWithin' /\ Acquired \in Nat /\ Acquired' \in Nat /\ Acquired' <= Acquired
    BY <1>1, <1>2, RowsStill
<1>4. Len(swaps) \in Nat /\ Sigs = 1 .. Len(swaps) /\ MaxTokens \in Nat /\ wallet <= MaxTokens
    BY <1>1, LenProperties, MaxTokensTyped, WalletBounded DEF SwapsInv, Sigs
<1>5. item'.sig \in 0 .. Len(swaps) /\ item'.held <= MaxTokens
    <2>1. CASE \E s \in Sigs : Read(s)
        <3>1. PICK s \in Sigs : Read(s)
            BY <2>1
        <3>2. item'.sig = s /\ item'.held = wallet
            BY <3>1 DEF Read
        <3>3. s \in 0 .. Len(swaps)
            BY <1>4
        <3> QED
            BY <1>4, <3>2, <3>3
    <2>2. CASE Retry
        <3>1. item'.sig = 0 /\ item'.held = 0
            BY <2>2 DEF Retry, NoItem
        <3> QED
            BY <1>4, <3>1
    <2>3. CASE UNCHANGED vars
        BY <1>1, <2>3 DEF vars, SwapsBounded
    <2> QED
        BY <2>1, <2>2, <2>3
<1>6. RestBounded
    BY <1>1, <1>2, <1>5 DEF RestBounded, SwapsBounded
<1> QED
    BY <1>2, <1>3, <1>6, QuietBounded

\* At the start there is nothing.
LEMMA InitBounded ==
    ASSUME BooksConstants, Init
    PROVE  BoundsInv
<1>1. Inv
    BY InitHolds
<1>2. Len(swaps) = 0 /\ Sigs = {} /\ records = {} /\ wallet = 0 /\ item = NoItem
    BY DEF Init, Sigs
<1>3. MaxTokens \in Nat /\ MaxSwaps \in Nat /\ IsFiniteSet(Positions)
    BY MaxTokensTyped DEF BooksConstants
<1>4. SwapsBounded
    <2>1. item.sig = 0 /\ item.held = 0
        BY <1>2 DEF NoItem
    <2>2. item.sig \in 0 .. Len(swaps) /\ item.held <= MaxTokens /\ Len(swaps) <= MaxSwaps
        BY <1>2, <1>3, <2>1
    <2>3. writtenOff \in BOOLEAN /\ overlapped \subseteq {"own", "sales", "shared"}
        BY DEF Init
    <2> QED
        BY <1>2, <2>2, <2>3 DEF SwapsBounded
<1>5. RowsWithin
    <2>1. NoRow \in Rows /\ NoRow.tok = 0 /\ NoRow.exit = 0
        BY DEF NoRow, Rows
    <2>2. Within(NoRow)
        BY <1>3, <2>1 DEF Within
    <2> QED
        BY <2>2 DEF Init, RowsWithin
<1>6. RecordsOwn
    BY <1>2 DEF RecordsOwn
<1>7. FlowInv
    <2>0. PICK b, t, c, R : b = Brought /\ t = Taken /\ c = Counted /\ R = rows
        OBVIOUS
    <2>1. t = [s \in Numbers |-> 0]
        BY <1>2, <2>0 DEF Taken
    <2>2. b \in [Numbers -> Nat] /\ t \in [Numbers -> Nat] /\ c \in [Numbers -> Nat]
        BY <1>1, <2>0, CountsTyped DEF Inv
    <2>3. IsFiniteSet(Numbers)
        BY Numbered
    <2>4. Total(b) \in Nat /\ Total(t) \in Nat /\ Total(c) \in Nat
        BY <2>2, <2>3, SumSplits DEF Total
    <2>5. Total(t) <= Cardinality(Numbers) * 0
        BY <2>1, <2>2, <2>3, SumBounded DEF Total
    <2>6. Cardinality(Numbers) * 0 = 0
        <3>1. Cardinality(Numbers) \in Nat
            BY <2>3, FS_CardinalityType
        <3> QED
            BY <3>1
    <2>7. wallet + Total(t) <= Total(b)
        BY <1>2, <2>4, <2>5, <2>6
    <2>8. PICK f : AcquiredIs(R, f)
        BY <1>1, <2>0, AcquiredTyped DEF Inv, RowsInv
    <2>9. f \in [Positions -> Nat] /\ \A u \in Positions : f[u] <= 0
        <3>1. acquired_amount(NoRow) = 0
            BY DEF acquired_amount, NoRow
        <3>2. \A u \in Positions : R[u] = NoRow
            BY <2>0 DEF Init
        <3> QED
            BY <2>8, <3>1, <3>2 DEF AcquiredIs
    <2>10. Sum(f) <= Cardinality(Positions) * 0
        BY <1>3, <2>9, SumBounded DEF Sum
    <2>11. Cardinality(Positions) * 0 = 0
        <3>1. Cardinality(Positions) \in Nat
            BY <1>3, FS_CardinalityType
        <3> QED
            BY <3>1
    <2>12. Acquired = (CHOOSE h : AcquiredFold(R, h))[Positions]
        BY <2>0, AcquiredNow
    <2>13. Acquired <= Total(c)
        <3>1. Acquired = Sum(f) /\ Sum(f) \in Nat
            BY <2>8, <2>12 DEF AcquiredIs
        <3> QED
            BY <2>4, <2>10, <2>11, <3>1
    <2> QED
        BY <2>0, <2>7, <2>13 DEF FlowInv
<1> QED
    BY <1>4, <1>5, <1>6, <1>7 DEF BoundsInv

\* Every step.
LEMMA StepBounded ==
    ASSUME Inv, Inv', BackInv, BoundsInv, [Next]_vars
    PROVE  BoundsInv'
<1>1. BooksConstants
    BY BooksConstants
<1>2. ASSUME NEW p \in Positions, SendEntry(p) \/ SendAdd(p) \/ SendPartial(p) \/ SendExit(p) \/ WriteOff(p)
      PROVE  BoundsInv'
    BY <1>1, <1>2, CallsBounded, WriteOffBounded
<1>3. ASSUME NEW s \in Sigs, Land(s) \/ NotLanded(s) PROVE BoundsInv'
    BY <1>1, <1>3, ChainBounded
<1>4. ASSUME NEW s \in Sigs, Book(s) PROVE BoundsInv'
    BY <1>1, <1>4, BookBounded
<1>5. CASE (\E s \in Sigs : Read(s)) \/ Retry \/ UNCHANGED vars
    BY <1>1, <1>5, ReadBounded
<1> QED
    BY <1>2, <1>3, <1>4, <1>5 DEF Next

-----------------------------------------------------------------------------
(* The types *)

\* Twice the bound of the amounts: what was bought, and what was sold.
LEMMA AcquiredBounded ==
    ASSUME BooksConstants, Inv, BackInv, BoundsInv
    PROVE  Acquired <= 2 * MaxTokens
<1>0. PICK b, t, c, m : /\ b = Brought /\ t = Taken /\ c = Counted /\ m = MaxTokens
    OBVIOUS
<1>1. SwapsInv /\ SwapsBounded /\ FlowInv /\ RecordsLanded
    BY DEF Inv, BackInv, OrderInv, BoundsInv
<1>2. b \in [Numbers -> Nat] /\ t \in [Numbers -> Nat] /\ c \in [Numbers -> Nat] /\ IsFiniteSet(Numbers)
    BY <1>0, <1>1, CountsTyped, Numbered
<1>3. ASSUME NEW s \in Numbers PROVE c[s] <= b[s] + t[s]
    <2>1. b[s] \in Nat /\ t[s] \in Nat /\ c[s] \in Nat
        BY <1>2
    <2>2. CASE s \in Sigs /\ Noted(s)
        <3>1. swaps[s].st # "sent"
            BY <1>1, <2>2 DEF RecordsLanded, Noted
        <3>2. swaps[s].kind \in Buys \/ swaps[s].kind \in Sales
            BY <1>1, <2>2, SwapTyped
        <3>3. c[s] = b[s] \/ c[s] = t[s]
            BY <1>0, <2>2, <3>1, <3>2 DEF Brought, Taken, Counted
        <3> QED
            BY <2>1, <3>3
    <2>3. CASE ~ (s \in Sigs /\ Noted(s))
        <3>1. c[s] = 0
            BY <1>0, <2>3 DEF Counted
        <3> QED
            BY <2>1, <3>1
    <2> QED
        BY <2>2, <2>3
<1>4. Sums(c, Numbers)[Numbers] <= Sums(b, Numbers)[Numbers] + Sums(t, Numbers)[Numbers]
    BY <1>2, <1>3, SumOfTwo
<1>5. Total(c) <= Total(b) + Total(t)
    BY <1>4 DEF Total
<1>6. Total(b) \in Nat /\ Total(t) \in Nat /\ Total(c) \in Nat /\ Total(b) <= m /\ m \in Nat
    BY <1>0, <1>1, WalletBounded, MaxTokensTyped
<1>7. PICK w, a : w = wallet /\ a = Acquired
    OBVIOUS
<1>8. w \in Nat /\ w + Total(t) <= Total(b) /\ a <= Total(c)
    BY <1>0, <1>1, <1>7 DEF SwapsInv, FlowInv
<1>9. a \in Nat
    <2>1. PICK R : R = rows
        OBVIOUS
    <2>2. PICK f : AcquiredIs(R, f)
        BY <2>1, AcquiredTyped DEF Inv, RowsInv
    <2> QED
        BY <1>7, <2>1, <2>2, AcquiredNow DEF AcquiredIs
<1>10. a <= 2 * m
    BY <1>5, <1>6, <1>8, <1>9
<1> QED
    BY <1>0, <1>7, <1>10

\* What one row acquired is part of it.
LEMMA RowPart ==
    ASSUME BooksConstants, Inv, BackInv, BoundsInv, NEW p \in Positions
    PROVE  rows[p].held <= 2 * MaxTokens /\ rows[p].exited <= 2 * MaxTokens
<1>0. PICK R, a, m, h, e : /\ R = rows /\ a = Acquired /\ m = MaxTokens
                           /\ h = rows[p].held /\ e = rows[p].exited
    OBVIOUS
<1>1. PICK f : AcquiredIs(R, f)
    BY <1>0, AcquiredTyped DEF Inv, RowsInv
<1>2. a = Sum(f)
    BY <1>0, <1>1, AcquiredNow DEF AcquiredIs
<1>3. f \in [Positions -> Nat] /\ IsFiniteSet(Positions) /\ Sum(f) \in Nat
    BY <1>1 DEF AcquiredIs, BooksConstants
<1>4. f[p] <= Sum(f)
    BY <1>3, PartOfSum DEF Sum
<1>5. f[p] = h + e
    BY <1>0, <1>1 DEF AcquiredIs, acquired_amount
<1>6. h \in Nat /\ e \in Nat
    BY <1>0 DEF Inv, RowsInv, Rows
<1>7. a <= 2 * m /\ m \in Nat
    BY <1>0, AcquiredBounded, MaxTokensTyped
<1>8. h <= 2 * m /\ e <= 2 * m
    BY <1>2, <1>3, <1>4, <1>5, <1>6, <1>7
<1> QED
    BY <1>0, <1>8

\* A row within its bounds.
LEMMA RowTyped ==
    ASSUME BooksConstants, NEW r, Within(r), r.held <= 2 * MaxTokens, r.exited <= 2 * MaxTokens
    PROVE  r \in [st : {"none", "open", "closed"}, entry : BOOLEAN, tok : 0 .. MaxTokens,
                  held : 0 .. 2 * MaxTokens, exited : 0 .. 2 * MaxTokens, synth : BOOLEAN,
                  exit : 0 .. MaxSwaps]
<1>1. MaxTokens \in Nat /\ MaxSwaps \in Nat
    BY MaxTokensTyped DEF BooksConstants
<1>2. /\ r.tok \in 0 .. MaxTokens /\ r.held \in 0 .. 2 * MaxTokens /\ r.exited \in 0 .. 2 * MaxTokens
      /\ r.exit \in 0 .. MaxSwaps
    BY <1>1 DEF Within, Rows
<1> QED
    BY <1>2 DEF Within, Rows

\* The swaps within theirs.
LEMMA SwapsTyped ==
    ASSUME NEW T, NEW q \in Seq(Swaps), \A s \in DOMAIN q : q[s].amount \in T
    PROVE  q \in Seq([kind : Buys \union Sales, pos : Positions, amount : T,
                      st : {"sent", "landed", "settled"}])
<1>1. Len(q) \in Nat /\ DOMAIN q = 1 .. Len(q)
    BY LenProperties
<1>2. PICK U : U = [kind : Buys \union Sales, pos : Positions, amount : T, st : {"sent", "landed", "settled"}]
    OBVIOUS
<1>3. ASSUME NEW s \in 1 .. Len(q) PROVE q[s] \in U
    <2>1. q[s] \in Swaps /\ q[s].amount \in T
        BY <1>1, ElementOfSeq
    <2> QED
        BY <1>2, <2>1 DEF Swaps
<1>4. q = [s \in 1 .. Len(q) |-> q[s]]
    BY <1>1
<1>5. q \in [1 .. Len(q) -> U]
    BY <1>3, <1>4
<1>6. q \in Seq(U)
    BY <1>1, <1>5
<1> QED
    BY <1>2, <1>6

\* The types of the state.
LEMMA TypesHold ==
    ASSUME Inv, BackInv, BoundsInv
    PROVE  TypeOK
<1>1. /\ RowsInv /\ SwapsInv /\ SwapsBounded /\ RowsWithin /\ FlowInv /\ BooksConstants
      /\ rows \in [Positions -> Rows] /\ swaps \in Seq(Swaps)
    BY BooksConstants DEF Inv, RowsInv, SwapsInv, BoundsInv
<1>2. wallet \in Nat /\ wallet <= MaxTokens /\ MaxTokens \in Nat /\ Len(swaps) \in Nat
    BY <1>1, WalletBounded, MaxTokensTyped, LenProperties DEF SwapsInv
<1>3. rows \in [Positions -> [st : {"none", "open", "closed"}, entry : BOOLEAN,
                              tok : 0 .. MaxTokens, held : 0 .. 2 * MaxTokens,
                              exited : 0 .. 2 * MaxTokens, synth : BOOLEAN, exit : 0 .. MaxSwaps]]
    <2>1. PICK U : U = [st : {"none", "open", "closed"}, entry : BOOLEAN, tok : 0 .. MaxTokens,
                        held : 0 .. 2 * MaxTokens, exited : 0 .. 2 * MaxTokens, synth : BOOLEAN,
                        exit : 0 .. MaxSwaps]
        OBVIOUS
    <2>2. ASSUME NEW p \in Positions PROVE rows[p] \in U
        BY <1>1, <2>1, RowPart, RowTyped DEF RowsWithin
    <2>3. rows \in [Positions -> U]
        BY <1>1, <2>2
    <2> QED
        BY <2>1, <2>3
<1>4. swaps \in Seq([kind : Buys \union Sales, pos : Positions, amount : 1 .. MaxTokens,
                     st : {"sent", "landed", "settled"}])
    <2>1. \A s \in DOMAIN swaps : swaps[s].amount \in 1 .. MaxTokens
        BY <1>1 DEF SwapsBounded, Sigs
    <2> QED
        BY <1>1, <2>1, SwapsTyped
<1>5. Len(swaps) <= MaxSwaps /\ records \subseteq Positions \X Sigs
    BY <1>1 DEF SwapsBounded
<1>6. wallet \in 0 .. MaxTokens
    BY <1>2
<1>7. item \in [sig : 0 .. Len(swaps), held : 0 .. MaxTokens, residual : BOOLEAN]
    <2>1. item \in [sig : Nat, held : Nat, residual : BOOLEAN]
        BY <1>1 DEF SwapsInv
    <2>2. item.sig \in 0 .. Len(swaps) /\ item.held \in 0 .. MaxTokens
        BY <1>1, <1>2, <2>1 DEF SwapsBounded
    <2> QED
        BY <2>1, <2>2
<1>8. writtenOff \in BOOLEAN /\ overlapped \subseteq {"own", "sales", "shared"}
    BY <1>1 DEF SwapsBounded
<1> QED
    BY <1>3, <1>4, <1>5, <1>6, <1>7, <1>8 DEF TypeOK

\* Every amount has a bound, however fills are booked late, handed over, read again or written
\* off: the wallet and a row's entry hold no more than the swaps can bring, and no row books more
\* than was bought and sold together, since each swap is counted by at most one booking
\* (entry_recorded_for_mint, the records of each row, book_exit's floor).
THEOREM AmountsBounded == Spec => []TypeOK
<1>1. Init => Inv /\ BackInv /\ BoundsInv
    BY BooksConstants, InitHolds, InitBacked, InitBounded
<1>2. Inv /\ BackInv /\ BoundsInv /\ [Next]_vars => Inv' /\ BackInv' /\ BoundsInv'
    <2>1. Inv /\ [Next]_vars => Inv'
        BY StepKeeps, StutterKeeps
    <2> QED
        BY <2>1, StepBacked, StepBounded
<1>3. Inv /\ BackInv /\ BoundsInv => TypeOK
    BY TypesHold
<1> QED
    BY <1>1, <1>2, <1>3, PTL DEF Spec

-----------------------------------------------------------------------------
(* What a rule leaves as dust *)

\* A quotient grows with what is divided.
LEMMA Quotients ==
    ASSUME NEW d \in Nat \ {0}, NEW a \in Nat, NEW b \in Nat, a <= b
    PROVE  a \div d \in Nat /\ b \div d \in Nat /\ a \div d <= b \div d
<1>0. PICK x, y : x = a \div d /\ y = b \div d
    OBVIOUS
<1>1. x \in Nat /\ d * x <= a /\ a < d * x + d
    BY <1>0
<1>2. y \in Nat /\ d * y <= b /\ b < d * y + d
    BY <1>0
<1>3. ASSUME y < x PROVE FALSE
    <2>1. PICK n \in Nat : x = y + 1 + n
        <3>1. x - y - 1 \in Nat /\ x = y + 1 + (x - y - 1)
            BY <1>1, <1>2, <1>3
        <3> QED
            BY <3>1
    <2>2. d * x = d * y + d + d * n /\ d * n \in Nat /\ d * y \in Nat
        BY <1>1, <1>2, <2>1
    <2> QED
        BY <1>1, <1>2, <2>2
<1> QED
    BY <1>0, <1>1, <1>2, <1>3

\* The limit of dust grows with what was acquired.
LEMMA LimitGrows ==
    ASSUME BooksConstants, NEW a \in Nat, NEW b \in Nat, a <= b
    PROVE  DustLimit(a) \in Nat /\ DustLimit(b) \in Nat /\ DustLimit(a) <= DustLimit(b)
<1>1. DustDivisor \in Nat \ {0} /\ DustFloor \in Nat
    BY DEF BooksConstants
<1>0. PICK x, y, f : x = a \div DustDivisor /\ y = b \div DustDivisor /\ f = DustFloor
    OBVIOUS
<1>2. x \in Nat /\ y \in Nat /\ x <= y /\ f \in Nat
    BY <1>0, <1>1, Quotients
<1>3. ASSUME NEW z \in Nat PROVE Max({z, f}) \in {z, f} /\ z <= Max({z, f}) /\ f <= Max({z, f})
    <2>1. PICK S : S = {z, f}
        OBVIOUS
    <2>2. IsFiniteSet({z}) /\ S = {z} \union {f}
        BY <2>1, FS_Singleton
    <2>3. IsFiniteSet(S)
        BY <2>2, FS_AddElement
    <2>4. S # {} /\ S \subseteq Nat /\ z \in S /\ f \in S
        BY <1>2, <2>1
    <2>5. Max(S) \in S /\ \A u \in S : u <= Max(S)
        BY <2>3, <2>4, Greatest
    <2> QED
        BY <2>1, <2>4, <2>5
<1>4. Max({x, f}) \in {x, f} /\ Max({y, f}) \in {y, f} /\ y <= Max({y, f}) /\ f <= Max({y, f})
    BY <1>2, <1>3
<1>5. DustLimit(a) = Max({x, f}) /\ DustLimit(b) = Max({y, f})
    BY <1>0 DEF DustLimit
<1>6. PICK m, n : m = DustLimit(a) /\ n = DustLimit(b)
    OBVIOUS
<1>7. (m = x \/ m = f) /\ (n = y \/ n = f) /\ y <= n /\ f <= n
    BY <1>4, <1>5, <1>6
<1>8. m \in Nat /\ n \in Nat /\ m <= n
    BY <1>2, <1>7
<1> QED
    BY <1>6, <1>8

\* What an open row claims, or a closed one left as dust.
Worth(r) == IF r.st = "open" THEN r.held ELSE left_as_dust(r)

\* No row is worth more than it acquired.
LEMMA WorthTyped ==
    ASSUME BooksConstants, NEW r \in Rows
    PROVE  Worth(r) \in Nat /\ Worth(r) <= acquired_amount(r)
<1>0. PICK q, t, l : q = acquired_amount(r) /\ t = r.tok /\ l = DustLimit(t + q)
    OBVIOUS
<1>1. q \in Nat /\ t \in Nat /\ r.held \in Nat /\ r.held <= q
    BY <1>0 DEF acquired_amount, Rows
<1>2. t + q \in Nat /\ t + q <= t + q
    BY <1>1
<1>3. l \in Nat
    BY <1>0, <1>2, LimitGrows
<1>4. Least(q, l) \in Nat /\ Least(q, l) <= q
    BY <1>1, <1>3, Difference
<1>5. left_as_dust(r) = IF r.st = "closed" THEN Least(q, l) ELSE 0
    BY <1>0 DEF left_as_dust
<1> QED
    BY <1>0, <1>1, <1>4, <1>5 DEF Worth

\* A row that follows its round is worth what is held, all of it or as dust.
LEMMA FollowedWorth ==
    ASSUME BooksConstants, NEW r \in Rows, r.st = "closed", NEW n \in Nat, n <= acquired_amount(r)
    PROVE  n <= Worth(follow_round(r, n))
<1>0. PICK q, t, l, z : q = acquired_amount(r) /\ t = r.tok /\ l = DustLimit(t + q) /\ z = follow_round(r, n)
    OBVIOUS
<1>1. q \in Nat /\ t \in Nat /\ n <= q
    BY <1>0 DEF acquired_amount, Rows
<1>2. z \in Rows /\ acquired_amount(z) = q /\ z.tok = t
    BY <1>0, Followed, RoundKeepsTrade DEF SameTrade
<1>3. CASE is_dust(n, q)
    <2>1. t + q \in Nat /\ q <= t + q
        BY <1>1
    <2>2. DustLimit(q) \in Nat /\ l \in Nat /\ DustLimit(q) <= l
        BY <1>0, <1>1, <2>1, LimitGrows
    <2>3. n <= DustLimit(q)
        BY <1>3 DEF is_dust
    <2>4. n <= Least(q, l)
        BY <1>1, <2>2, <2>3 DEF Least
    <2>5. z.st = "closed"
        BY <1>0, <1>3, Followed
    <2>6. Worth(z) = Least(q, l)
        BY <1>0, <1>2, <2>5 DEF Worth, left_as_dust
    <2> QED
        BY <1>0, <2>4, <2>6
<1>4. CASE ~ is_dust(n, q)
    <2>1. follow_round(r, n) = clear_close(r, Least(n, q))
        BY <1>0, <1>4 DEF follow_round
    <2>2. Least(n, q) = n
        BY <1>1 DEF Least
    <2>3. clear_close(r, n).held = n /\ clear_close(r, n).st = "open"
        BY DEF clear_close, Rows
    <2> QED
        BY <2>1, <2>2, <2>3 DEF Worth
<1> QED
    BY <1>3, <1>4

\* A buy that a closed row books late, and the part of it that leaves the row, are what is held.
LEMMA LegWorth ==
    ASSUME BooksConstants, NEW r \in Rows, r.st = "closed", NEW b \in Nat,
           NEW n \in Nat, n <= acquired_amount(r) + b
    PROVE  /\ n <= Worth(follow_round(book_acquisition(r, b), n))
           /\ n <= Worth(hand_over_leg(r, b, n).row) + hand_over_leg(r, b, n).tokens
<1>0. PICK q, a : q = acquired_amount(r) /\ a = book_acquisition(r, b)
    OBVIOUS
<1>1. q \in Nat
    BY <1>0, AcquiredNat
<1>2. a \in Rows /\ a.st = "closed" /\ acquired_amount(a) = q + b
    <2>1. a \in Rows /\ a.st = r.st /\ a.held = r.held + b /\ a.exited = r.exited
        BY <1>0, Bought DEF Is
    <2>2. r.held \in Nat /\ r.exited \in Nat
        BY DEF Rows
    <2> QED
        BY <1>0, <2>1, <2>2 DEF acquired_amount
<1>3. n <= Worth(follow_round(a, n))
    BY <1>0, <1>2, FollowedWorth
<1>4. PICK out : out = hand_over_leg(r, b, n)
    OBVIOUS
<1>5. CASE is_dust(n, q + b)
    <2>1. out.row = follow_round(a, n) /\ out.tokens = 0
        BY <1>0, <1>4, <1>5 DEF hand_over_leg
    <2>2. Worth(out.row) \in Nat
        <3>1. out.row \in Rows
            BY <1>2, <2>1, Followed
        <3> QED
            BY <3>1, WorthTyped
    <2> QED
        BY <1>0, <1>3, <1>4, <2>1, <2>2
<1>6. CASE ~ is_dust(n, q + b)
    <2>1. Least(n, q + b) = n
        BY <1>0, <1>1 DEF Least
    <2>2. out.tokens = n
        BY <1>0, <1>4, <1>6, <2>1 DEF hand_over_leg, Kept
    <2>3. Worth(out.row) \in Nat
        <3>1. out.row \in Rows
            BY <1>4, LegHandedOver DEF Splits
        <3> QED
            BY <3>1, WorthTyped
    <2> QED
        BY <1>0, <1>3, <1>4, <2>2, <2>3
<1> QED
    BY <1>5, <1>6

-----------------------------------------------------------------------------
(* What the rows are worth together *)

Worths == [p \in Positions |-> Worth(rows[p])]
Value == Sum(Worths)

\* The rows' worths are numbers, before a step and after it.
LEMMA WorthsTyped ==
    ASSUME BooksConstants
    PROVE  /\ RowsInv => Worths \in [Positions -> Nat] /\ Value \in Nat
           /\ RowsInv' => Worths' \in [Positions -> Nat] /\ Value' \in Nat
<1>1. \A r \in Rows : Worth(r) \in Nat
    BY WorthTyped
<1>2. IsFiniteSet(Positions)
    BY DEF BooksConstants
<1>3. ASSUME NEW f \in [Positions -> Nat] PROVE Sum(f) \in Nat
    BY <1>2, SumSplits DEF Sum
<1>4. RowsInv => Worths \in [Positions -> Nat]
    BY <1>1 DEF RowsInv, Worths
<1>5. RowsInv' => Worths' \in [Positions -> Nat]
    BY <1>1 DEF RowsInv, Worths
<1> QED
    BY <1>3, <1>4, <1>5 DEF Value

\* Their sum moves with one row.
LEMMA WorthMoved ==
    ASSUME BooksConstants, RowsInv, RowsInv', NEW p \in Positions, NEW r, rows' = [rows EXCEPT ![p] = r]
    PROVE  /\ Value' + Worth(rows[p]) = Value + Worth(r)
           /\ Value \in Nat /\ Value' \in Nat /\ Worth(rows[p]) \in Nat /\ Worth(r) \in Nat
<1>1. Worths \in [Positions -> Nat] /\ Worths' \in [Positions -> Nat] /\ Value \in Nat /\ Value' \in Nat
    BY WorthsTyped
<1>2. rows'[p] = r /\ \A u \in Positions : u # p => rows'[u] = rows[u]
    BY DEF RowsInv
<1>3. Worths'[p] = Worth(r) /\ \A u \in Positions : u # p => Worths'[u] = Worths[u]
    BY <1>2 DEF Worths
<1>4. Worths[p] = Worth(rows[p])
    BY DEF Worths
<1>0. PICK f, g : f = Worths /\ g = Worths'
    OBVIOUS
<1>5. IsFiniteSet(Positions) /\ f \in [Positions -> Nat] /\ g \in [Positions -> Nat]
      /\ \A u \in Positions : u # p => g[u] = f[u]
    BY <1>0, <1>1, <1>3 DEF BooksConstants
<1>6. Sums(g, Positions)[Positions] + f[p] = Sums(f, Positions)[Positions] + g[p]
    BY <1>5, OneMoves, Zenon
<1>7. Value = Sums(f, Positions)[Positions] /\ Value' = Sums(g, Positions)[Positions]
    BY <1>0 DEF Value, Sum
<1>8. f[p] = Worth(rows[p]) /\ g[p] = Worth(r) /\ f[p] \in Nat /\ g[p] \in Nat
    BY <1>0, <1>3, <1>4, <1>5
<1> QED
    BY <1>1, <1>6, <1>7, <1>8

\* Two rows are assigned, and what their worths do to the sum.
TwoRowsSet(p, r, q, z) == rows' = [rows EXCEPT ![p] = r, ![q] = z]
WorthsMove(p, r, q, z) ==
    /\ Value' + Worth(rows[p]) + Worth(rows[q]) = Value + Worth(r) + Worth(z)
    /\ Value \in Nat /\ Value' \in Nat /\ Worth(r) \in Nat /\ Worth(z) \in Nat
    /\ Worth(rows[p]) \in Nat /\ Worth(rows[q]) \in Nat

\* The sum moves with them.
LEMMA WorthsMoved ==
    ASSUME BooksConstants, RowsInv, RowsInv', NEW p \in Positions, NEW r, NEW q \in Positions, p # q,
           NEW z, TwoRowsSet(p, r, q, z)
    PROVE  WorthsMove(p, r, q, z)
<1>1. Worths \in [Positions -> Nat] /\ Worths' \in [Positions -> Nat] /\ Value \in Nat /\ Value' \in Nat
    BY WorthsTyped
<1>2. /\ rows'[p] = r /\ rows'[q] = z
      /\ \A u \in Positions : u # p /\ u # q => rows'[u] = rows[u]
    BY DEF RowsInv, TwoRowsSet
<1>3. /\ Worths'[p] = Worth(r) /\ Worths'[q] = Worth(z)
      /\ \A u \in Positions : u # p /\ u # q => Worths'[u] = Worths[u]
    <2>1. \A u \in Positions : Worths'[u] = Worth(rows'[u]) /\ Worths[u] = Worth(rows[u])
        BY DEF Worths
    <2> QED
        BY <1>2, <2>1
<1>4. Worths[p] = Worth(rows[p]) /\ Worths[q] = Worth(rows[q])
    BY DEF Worths
<1>0. PICK f, g : f = Worths /\ g = Worths'
    OBVIOUS
<1>5. SameBut(p, q, Positions, f, g)
    BY <1>0, <1>1, <1>3 DEF BooksConstants, SameBut
<1>6. Sums(g, Positions)[Positions] + f[p] + f[q] = Sums(f, Positions)[Positions] + g[p] + g[q]
    BY <1>5, TwoMove
<1>7. Value = Sums(f, Positions)[Positions] /\ Value' = Sums(g, Positions)[Positions]
    BY <1>0 DEF Value, Sum
<1>8. /\ f[p] = Worth(rows[p]) /\ g[p] = Worth(r) /\ f[q] = Worth(rows[q]) /\ g[q] = Worth(z)
      /\ f[p] \in Nat /\ g[p] \in Nat /\ f[q] \in Nat /\ g[q] \in Nat
    BY <1>0, <1>1, <1>3, <1>4
<1> QED
    BY <1>1, <1>6, <1>7, <1>8 DEF WorthsMove

\* When no row changes its worth, the sum stays.
LEMMA ValueStill ==
    ASSUME \A u \in Positions : Worth(rows'[u]) = Worth(rows[u])
    PROVE  Value' = Value
<1>1. Worths' = Worths
    BY DEF Worths
<1> QED
    BY <1>1 DEF Value

\* The fold of the library that sums what is left as dust.
LeftFold(R, g) ==
    g = [S \in SUBSET Positions |->
            IF S = {} THEN 0
            ELSE left_as_dust(R[CHOOSE x \in S : TRUE]) + g[S \ {CHOOSE x \in S : TRUE}]]

\* It is the sum.
LEMMA LeftSummed ==
    ASSUME BooksConstants, NEW R, NEW f \in [Positions -> Nat],
           \A p \in Positions : f[p] = left_as_dust(R[p])
    PROVE  (CHOOSE g : LeftFold(R, g))[Positions] = Sums(f, Positions)[Positions]
<1>1. ASSUME NEW g PROVE LeftFold(R, g) <=> IsSums(f, g, SUBSET Positions)
    <2>1. ASSUME NEW S \in SUBSET Positions, S # {}
          PROVE  left_as_dust(R[CHOOSE x \in S : TRUE]) = f[Pick(S)]
        BY <2>1 DEF Pick
    <2>2. [S \in SUBSET Positions |->
              IF S = {} THEN 0
              ELSE left_as_dust(R[CHOOSE x \in S : TRUE]) + g[S \ {CHOOSE x \in S : TRUE}]]
            = [S \in SUBSET Positions |-> IF S = {} THEN 0 ELSE f[Pick(S)] + g[S \ {Pick(S)}]]
        BY <2>1 DEF Pick
    <2> QED
        BY <2>2 DEF IsSums, LeftFold
<1>2. IsFiniteSet(Positions)
    BY DEF BooksConstants
<1>3. LeftFold(R, Sums(f, Positions))
    BY <1>1, <1>2, SumsExist
<1>4. IsSums(f, CHOOSE g : LeftFold(R, g), SUBSET Positions)
    BY <1>1, <1>3
<1> QED
    BY <1>2, <1>4, SumsUnique

\* What the rows are worth is what the open row claims and what the closed ones left.
LEMMA ValueSplits ==
    ASSUME BooksConstants, RowsInv, OneOpen
    PROVE  Value = Claimed + Left
<1>0. PICK R, O : R = rows /\ O = OpenRows
    OBVIOUS
<1>1. Claimed = (CHOOSE h : HeldFold(R, O, h))[O]
    <2>1. Claimed = (CHOOSE h : HeldFold(rows, OpenRows, h))[OpenRows]
        BY Zenon DEF Claimed, MapThenSumSet, MapThenFoldSet, HeldFold
    <2> QED
        BY <1>0, <2>1, Zenon
<1>2. Left = (CHOOSE h : LeftFold(R, h))[Positions]
    <2>1. Left = (CHOOSE h : LeftFold(rows, h))[Positions]
        BY Zenon DEF Left, MapThenSumSet, MapThenFoldSet, LeftFold
    <2> QED
        BY <1>0, <2>1, Zenon
<1>3. PICK d : d = [u \in Positions |-> IF R[u].st = "open" THEN 0 ELSE Worth(R[u])]
    OBVIOUS
<1>4. \A u \in Positions : R[u] \in Rows /\ Worth(R[u]) \in Nat
    BY <1>0, WorthTyped DEF RowsInv
<1>5. d \in [Positions -> Nat] /\ \A u \in Positions : d[u] = left_as_dust(R[u])
    BY <1>3, <1>4 DEF Worth, left_as_dust
<1>6. Left = Sums(d, Positions)[Positions]
    BY <1>2, <1>5, LeftSummed
<1>7. PICK f : f = Worths
    OBVIOUS
<1>8. f \in [Positions -> Nat] /\ \A u \in Positions : f[u] = Worth(R[u])
    BY <1>0, <1>7, WorthsTyped DEF Worths
<1>9. Value = Sums(f, Positions)[Positions]
    BY <1>7 DEF Value, Sum
<1>10. IsFiniteSet(Positions)
    BY DEF BooksConstants
<1>11. Sums(d, Positions)[Positions] \in Nat /\ Sums(f, Positions)[Positions] \in Nat
    BY <1>5, <1>8, <1>10, SumSplits
<1>12. CASE O = {}
    <2>1. \A u \in Positions : R[u].st # "open"
        BY <1>0, <1>12 DEF OpenRows
    <2>2. f = d
        BY <1>3, <1>5, <1>8, <2>1
    <2>3. Claimed = 0
        BY <1>1, <1>12, HeldOfNone
    <2> QED
        BY <1>6, <1>9, <1>11, <2>2, <2>3
<1>13. CASE O # {}
    <2>1. PICK q : q \in O
        BY <1>13
    <2>2. O = {q}
        BY <1>0, <2>1 DEF OneOpen
    <2>6. q \in Positions /\ R[q].st = "open"
        BY <1>0, <2>1 DEF OpenRows
    <2>7. R[q].held \in Nat
        BY <1>4, <2>6 DEF Rows
    <2>3. Claimed = R[q].held
        BY <1>1, <2>2, <2>7, HeldOfOne
    <2>4. f[q] = R[q].held /\ d[q] = 0
        BY <1>3, <1>8, <2>6 DEF Worth
    <2>8. \A u \in Positions : u # q => f[u] = d[u]
        <3>1. \A u \in Positions : u # q => R[u].st # "open"
            BY <1>0, <2>2 DEF OpenRows
        <3> QED
            BY <1>3, <1>8, <3>1
    <2>9. d \in [Positions -> Nat]
        BY <1>5
    <2>5. Sums(f, Positions)[Positions] + d[q] = Sums(d, Positions)[Positions] + f[q]
        BY <1>8, <1>10, <2>6, <2>8, <2>9, OneMoves, Zenon
    <2> QED
        BY <1>6, <1>9, <1>11, <2>3, <2>4, <2>5, <2>7
<1> QED
    BY <1>12, <1>13

-----------------------------------------------------------------------------
(* What the rows have yet to book *)

\* No write-off, one sale of a position at a time, and no wallet divided beside another sale.
Quiet == ~ writtenOff /\ overlapped \subseteq {"own"}

\* Tokens of the buys that landed and that no row booked.
Unclaimed ==
    [s \in Numbers |-> IF s \in Sigs /\ swaps[s].kind \in Buys /\ swaps[s].st = "landed" /\ ~ Noted(s)
                       THEN swaps[s].amount ELSE 0]
Awaited == Total(Unclaimed)

\* The entries and sales that no row booked, and the sales of them that landed.
Waiting == {s \in Pending({"entry"} \union Sales) : ~ Noted(s)}
Unsold == {s \in Sigs : swaps[s].kind \in Sales /\ swaps[s].st = "landed" /\ ~ Noted(s)}

\* A position is traded once its entry is verified, and holds what an entry or an add brought.
Traded == \A s \in Sigs : swaps[s].kind # "entry" => rows[swaps[s].pos].entry
HeldBought == \A p \in Positions : rows[p].held > 0 => rows[p].entry

\* One entry or sale waits at a time, of the open row.
OneWaits ==
    /\ \A s, t \in Waiting : s = t
    /\ \A s \in Waiting : /\ rows[swaps[s].pos].st = "open"
                          /\ swaps[s].kind = "entry" => ~ rows[swaps[s].pos].entry

\* The wallet holds no more than was read and what landed since.
ReadAll == item # NoItem => wallet + Unclaimed[item.sig] <= item.held + Awaited

\* A full exit that is verified as complete left nothing, or dust of what its row acquired.
SoldOut(r, w) ==
    LET own == IF r.held > 0 THEN r.held ELSE r.tok
    IN  w = 0 \/ is_dust(Least(w, own + r.exited), own + r.exited)
ReadSold ==
    /\ item # NoItem /\ ~ item.residual
    /\ swaps[item.sig].kind = "exit" /\ rows[swaps[item.sig].pos].st = "open"
    => SoldOut(rows[swaps[item.sig].pos], item.held)

\* What the wallet holds is claimed, left as dust, or will be booked: also with what an unbooked
\* sale took.
Placed ==
    /\ wallet <= Value + Awaited
    /\ \A s \in Unsold : wallet + swaps[s].amount <= Value + Awaited

LeftInv == Traded /\ HeldBought /\ (Quiet => OneWaits /\ ReadAll /\ ReadSold /\ Placed)

\* What is unclaimed is a number, before a step and after it.
LEMMA UnclaimedTyped ==
    ASSUME BooksConstants
    PROVE  /\ SwapsInv => Unclaimed \in [Numbers -> Nat] /\ Awaited \in Nat
           /\ SwapsInv' => Unclaimed' \in [Numbers -> Nat] /\ Awaited' \in Nat
<1>1. IsFiniteSet(Numbers)
    BY Numbered
<1>2. ASSUME NEW f \in [Numbers -> Nat] PROVE Total(f) \in Nat
    BY <1>1, SumSplits DEF Total
<1>3. SwapsInv => Unclaimed \in [Numbers -> Nat]
    <2>1. SwapsInv => \A s \in Sigs : swaps[s].amount \in Nat
        BY AmountTyped DEF SwapsInv, Sigs
    <2> QED
        BY <2>1 DEF Unclaimed
<1>4. SwapsInv' => Unclaimed' \in [Numbers -> Nat]
    <2>1. PICK q : q = swaps'
        OBVIOUS
    <2>2. SwapsInv' => \A s \in DOMAIN q : q[s].amount \in Nat
        <3>1. SwapsInv' => q \in Seq(Swaps)
            BY <2>1 DEF SwapsInv
        <3> QED
            BY <3>1, AmountTyped
    <2>3. SwapsInv' => \A s \in Sigs' : swaps'[s].amount \in Nat
        BY <2>1, <2>2 DEF Sigs
    <2> QED
        BY <2>3 DEF Unclaimed
<1>5. SwapsInv => Awaited \in Nat
    BY <1>2, <1>3 DEF Awaited
<1>6. SwapsInv' => Awaited' \in Nat
    BY <1>2, <1>4 DEF Awaited
<1> QED
    BY <1>3, <1>4, <1>5, <1>6

\* What is unclaimed of swap s when it is at x.
LEMMA UnclaimedAt ==
    ASSUME SwapsInv, SwapsBounded, NEW s \in Sigs, NEW x, Marked(s, x), NEW a, a = swaps[s].amount
    PROVE  /\ s \in Numbers /\ a \in Nat
           /\ Unclaimed[s] = (IF swaps[s].kind \in Buys /\ swaps[s].st = "landed" /\ ~ Noted(s) THEN a ELSE 0)
           /\ Unclaimed'[s] = (IF swaps[s].kind \in Buys /\ x = "landed" /\ ~ Noted(s)' THEN a ELSE 0)
<1>1. s \in Numbers /\ a \in Nat
    BY CountsAt
<1>2. /\ s \in Sigs' /\ swaps'[s].kind = swaps[s].kind /\ swaps'[s].amount = a /\ swaps'[s].st = x
    BY DEF Marked
<1> QED
    BY <1>1, <1>2 DEF Unclaimed

\* What is awaited moves with the swap of the step.
LEMMA AwaitedMoves ==
    ASSUME BooksConstants, SwapsInv, SwapsInv', SwapsBounded, NEW s \in Sigs, NEW x, Marked(s, x),
           RecordsBy(s)
    PROVE  /\ Awaited' + Unclaimed[s] = Awaited + Unclaimed'[s]
           /\ Awaited \in Nat /\ Awaited' \in Nat /\ Unclaimed[s] \in Nat /\ Unclaimed'[s] \in Nat
           /\ Unclaimed[s] <= Awaited
           /\ \A n \in Numbers : n # s => Unclaimed'[n] = Unclaimed[n]
<1>1. s \in Numbers
    BY UnclaimedAt
<1>2. Unclaimed \in [Numbers -> Nat] /\ Unclaimed' \in [Numbers -> Nat] /\ Awaited \in Nat /\ Awaited' \in Nat
    BY UnclaimedTyped
<1>3. ASSUME NEW n \in Numbers, n # s
      PROVE  Unclaimed'[n] = Unclaimed[n]
    <2>1. Noted(n)' <=> Noted(n)
        BY <1>3 DEF Noted, RecordsBy
    <2>2. /\ n \in Sigs' <=> n \in Sigs
          /\ n \in Sigs => /\ swaps'[n].kind = swaps[n].kind /\ swaps'[n].amount = swaps[n].amount
                           /\ swaps'[n].st = swaps[n].st
        BY <1>3 DEF Marked
    <2> QED
        BY <2>1, <2>2 DEF Unclaimed
<1>0. PICK f, g : f = Unclaimed /\ g = Unclaimed'
    OBVIOUS
<1>4. f \in [Numbers -> Nat] /\ g \in [Numbers -> Nat] /\ \A n \in Numbers : n # s => g[n] = f[n]
    BY <1>0, <1>2, <1>3
<1>5. Total(g) + f[s] = Total(f) + g[s]
    BY <1>1, <1>4, SumMoves
<1>6. Awaited = Total(f) /\ Awaited' = Total(g)
    BY <1>0 DEF Awaited
<1>7. f[s] \in Nat /\ g[s] \in Nat
    BY <1>1, <1>4
<1>8. f[s] <= Total(f)
    <2>1. IsFiniteSet(Numbers)
        BY Numbered
    <2>2. f[s] <= Sums(f, Numbers)[Numbers]
        BY <1>1, <1>4, <2>1, PartOfSum
    <2> QED
        BY <2>2 DEF Total
<1> QED
    BY <1>0, <1>2, <1>3, <1>5, <1>6, <1>7, <1>8

\* It stays when swaps are only sent.
LEMMA AwaitedSent ==
    ASSUME NEW n, NEW kind, NEW p, NEW a, Grown(n, kind, p, a), records' = records
    PROVE  Unclaimed' = Unclaimed /\ Awaited' = Awaited
<1>1. Unclaimed' = Unclaimed
    <2>1. ASSUME NEW t
          PROVE  t \in Sigs' /\ swaps'[t].st = "landed" <=> t \in Sigs /\ swaps[t].st = "landed"
        BY DEF Grown
    <2>2. \A t : Noted(t)' <=> Noted(t)
        BY DEF Noted
    <2>3. \A t \in Sigs : swaps'[t] = swaps[t] /\ t \in Sigs'
        BY DEF Grown
    <2> QED
        BY <2>1, <2>2, <2>3 DEF Unclaimed
<1> QED
    BY <1>1 DEF Awaited

\* A swap of the step that is booked, or settled, waits no more, and none waits anew.
LEMMA WaitingMarked ==
    ASSUME NEW s \in Sigs, swaps[s].st # "settled", NEW x, Marked(s, x), RecordsBy(s)
    PROVE  /\ \A t \in Waiting' : /\ t \in Waiting /\ swaps'[t].kind = swaps[t].kind
                                  /\ swaps'[t].pos = swaps[t].pos
           /\ Noted(s)' \/ x = "settled" => s \notin Waiting' /\ s \notin Unsold'
           /\ \A t \in Unsold' : /\ t = s \/ t \in Unsold
                                 /\ swaps'[t].amount = swaps[t].amount
<1>1. \A t : Noted(t) => Noted(t)'
    BY DEF Noted, RecordsBy
<1>2. ASSUME NEW t \in Waiting'
      PROVE  t \in Waiting /\ swaps'[t].kind = swaps[t].kind /\ swaps'[t].pos = swaps[t].pos
    <2>1. /\ t \in Sigs' /\ swaps'[t].kind \in {"entry"} \union Sales
          /\ swaps'[t].st # "settled" /\ ~ Noted(t)'
        BY <1>2 DEF Waiting, Pending
    <2>2. t \in Sigs /\ swaps'[t].kind = swaps[t].kind /\ swaps'[t].pos = swaps[t].pos
          /\ swaps[t].st # "settled"
        BY <2>1 DEF Marked
    <2> QED
        BY <1>1, <2>1, <2>2 DEF Waiting, Pending
<1>3. ASSUME Noted(s)' \/ x = "settled" PROVE s \notin Waiting' /\ s \notin Unsold'
    BY <1>3 DEF Waiting, Pending, Unsold, Marked
<1>4. ASSUME NEW t \in Unsold' PROVE (t = s \/ t \in Unsold) /\ swaps'[t].amount = swaps[t].amount
    <2>1. t \in Sigs' /\ swaps'[t].kind \in Sales /\ swaps'[t].st = "landed" /\ ~ Noted(t)'
        BY <1>4 DEF Unsold
    <2>2. /\ t \in Sigs /\ swaps'[t].kind = swaps[t].kind /\ swaps'[t].amount = swaps[t].amount
          /\ t # s => swaps[t].st = "landed"
        BY <2>1 DEF Marked
    <2> QED
        BY <1>1, <2>1, <2>2 DEF Unsold
<1> QED
    BY <1>2, <1>3, <1>4

\* A sale that landed unbooked waits.
LEMMA UnsoldWaits ==
    Unsold \subseteq Waiting
BY DEF Unsold, Waiting, Pending, Sales

\* A step keeps the verified entries, and a row that holds tokens has one.
EntriesStay ==
    \A u \in Positions : (rows[u].entry => rows'[u].entry) /\ (rows'[u].held > 0 => rows'[u].entry)

\* The booking of s is noted, leaves the row of what else waits open, and places what was awaited.
Settles(s) ==
    /\ Noted(s)'
    /\ \A t \in Waiting : t # s =>
          rows'[swaps[t].pos].st = "open" /\ rows'[swaps[t].pos].entry = rows[swaps[t].pos].entry
    /\ wallet + Unclaimed[s] <= Value' + Awaited
    /\ \A t \in Unsold : t # s => wallet + swaps[t].amount + Unclaimed[s] <= Value' + Awaited

\* What the histories say of a booking.
LEMMA BookedQuiet ==
    ASSUME NEW s \in Sigs, Booked(s), writtenOff' = writtenOff, Quiet'
    PROVE  Quiet /\ (records' # records /\ rows[swaps[s].pos].st = "closed" => Pending(Sales) \ {s} = {})
<1>1. Quiet /\ ~ FillBesideSale(s)
    BY DEF Booked, Ends, Quiet
<1> QED
    BY <1>1 DEF FillBesideSale

\* A booking that does that keeps the invariant.
LEMMA BookedLeft ==
    ASSUME BooksConstants, Inv, Inv', BackInv, BoundsInv, LeftInv, NEW s \in Sigs, Booked(s), RecordsBy(s),
           writtenOff' = writtenOff, EntriesStay, Quiet' => Settles(s)
    PROVE  LeftInv'
<1>1. /\ RowsInv /\ RowsInv' /\ SwapsInv /\ SwapsInv' /\ OrderInv /\ SwapsBounded
      /\ Traded /\ HeldBought
    BY DEF Inv, BackInv, BoundsInv, LeftInv
<1>2. PICK x \in {"landed", "settled"} : Marked(s, x)
    BY <1>1, BookedMarks
<1>3. swaps[s].st = "landed" /\ item' = NoItem /\ wallet' = wallet
    BY <1>1, BookedMarks DEF Booked
<1>4. Traded'
    <2>1. ASSUME NEW t \in Sigs', swaps'[t].kind # "entry" PROVE rows'[swaps'[t].pos].entry
        <3>1. t \in Sigs /\ swaps[t].kind # "entry" /\ swaps'[t].pos = swaps[t].pos
            BY <1>2, <2>1 DEF Marked
        <3>2. swaps[t].pos \in Positions
            BY <1>1, <3>1, SwapTyped
        <3> QED
            BY <1>1, <3>1, <3>2 DEF Traded, EntriesStay
    <2> QED
        BY <2>1 DEF Traded
<1>5. HeldBought'
    BY DEF HeldBought, EntriesStay
<1>6. ASSUME Quiet' PROVE OneWaits' /\ Placed'
    <2>1. Quiet /\ Settles(s)
        BY <1>6, BookedQuiet
    <2>2. OneWaits
        BY <2>1 DEF LeftInv
    <2>3. /\ \A t \in Waiting' : /\ t \in Waiting /\ swaps'[t].kind = swaps[t].kind
                                /\ swaps'[t].pos = swaps[t].pos
          /\ s \notin Waiting' /\ s \notin Unsold'
          /\ \A t \in Unsold' : (t = s \/ t \in Unsold) /\ swaps'[t].amount = swaps[t].amount
        BY <1>2, <1>3, <2>1, WaitingMarked DEF Settles
    <2>4. OneWaits'
        BY <2>1, <2>2, <2>3 DEF OneWaits, Settles
    <2>5. /\ Awaited' + Unclaimed[s] = Awaited + Unclaimed'[s]
          /\ Awaited \in Nat /\ Awaited' \in Nat /\ Unclaimed[s] \in Nat
        BY <1>1, <1>2, AwaitedMoves
    <2>6. Unclaimed'[s] = 0
        BY <1>1, <1>2, <2>1, UnclaimedAt DEF Settles
    <2>7. Value' \in Nat /\ wallet \in Nat
        BY <1>1, WorthsTyped DEF SwapsInv
    <2>0. PICK v, w, u, a, b : v = Value' /\ w = wallet /\ u = Unclaimed[s] /\ a = Awaited /\ b = Awaited'
        OBVIOUS
    <2>8. b + u = a /\ a \in Nat /\ b \in Nat /\ u \in Nat /\ v \in Nat /\ w \in Nat
        BY <2>0, <2>5, <2>6, <2>7
    <2>9. wallet' <= Value' + Awaited'
        <3>1. w + u <= v + a
            BY <2>0, <2>1 DEF Settles
        <3>2. w <= v + b
            BY <2>8, <3>1
        <3> QED
            BY <1>3, <2>0, <3>2
    <2>10. ASSUME NEW t \in Unsold' PROVE wallet' + swaps'[t].amount <= Value' + Awaited'
        <3>1. t \in Unsold /\ t # s /\ swaps'[t].amount = swaps[t].amount
            BY <2>3, <2>10
        <3>2. PICK c : c = swaps[t].amount
            OBVIOUS
        <3>3. c \in Nat
            BY <1>1, <3>1, <3>2, SwapTyped DEF Unsold
        <3>4. w + c + u <= v + a
            BY <2>0, <2>1, <3>1, <3>2 DEF Settles
        <3>5. w + c <= v + b
            BY <2>8, <3>3, <3>4
        <3> QED
            BY <1>3, <2>0, <3>1, <3>2, <3>5
    <2> QED
        BY <2>4, <2>9, <2>10 DEF Placed
<1>7. ReadAll' /\ ReadSold'
    BY <1>3 DEF ReadAll, ReadSold
<1> QED
    BY <1>4, <1>5, <1>6, <1>7 DEF LeftInv

-----------------------------------------------------------------------------
(* A booking places what it books *)

\* Where two rows have the same tokens and status.
SameRow(z, r) ==
    z.st = r.st /\ z.entry = r.entry /\ z.tok = r.tok /\ z.held = r.held /\ z.exited = r.exited

\* An exit that is cleared leaves them alone.
LEMMA ClearedSame ==
    ASSUME NEW r \in Rows, NEW s
    PROVE  SameRow(clear_exit_for_retry(r, s), r)
BY ExitCleared, RulesKeepTrade DEF Is, SameRow, SameTrade

\* They are worth the same.
LEMMA SameWorth ==
    ASSUME NEW z, NEW r, SameRow(z, r)
    PROVE  Worth(z) = Worth(r)
BY DEF SameRow, Worth, left_as_dust, acquired_amount

\* A swap that waits is the only one, of the open row.
LEMMA WaitsAlone ==
    ASSUME SwapsInv, OneWaits, NEW s \in Sigs, swaps[s].st # "settled", ~ Noted(s), swaps[s].kind # "dca"
    PROVE  /\ rows[swaps[s].pos].st = "open"
           /\ swaps[s].kind = "entry" => ~ rows[swaps[s].pos].entry
           /\ \A t \in Waiting : t = s
<1>1. s \in Waiting
    BY SwapTyped DEF Waiting, Pending, Buys
<1> QED
    BY <1>1 DEF OneWaits

\* A verification that books nothing, because the swap was booked.
LEMMA IdleLeft ==
    ASSUME BooksConstants, Inv, Inv', BackInv, BoundsInv, LeftInv, NEW s \in Sigs, Booked(s),
           records' = records, writtenOff' = writtenOff,
           \A u \in Positions : SameRow(rows'[u], rows[u]), Quiet => Noted(s)
    PROVE  LeftInv'
<1>1. RowsInv /\ SwapsInv /\ OrderInv /\ SwapsBounded
    BY DEF Inv, BackInv, BoundsInv
<1>2. PICK x \in {"landed", "settled"} : Marked(s, x)
    BY <1>1, BookedMarks
<1>3. RecordsBy(s)
    BY DEF RecordsBy
<1>4. EntriesStay
    BY DEF EntriesStay, SameRow, LeftInv, HeldBought
<1>5. ASSUME Quiet' PROVE Settles(s)
    <2>1. Quiet
        BY <1>5, BookedQuiet
    <2>2. Noted(s) /\ Noted(s)'
        BY <2>1 DEF Noted
    <2>3. OneWaits /\ Placed
        BY <2>1 DEF LeftInv
    <2>4. Unclaimed[s] = 0
        BY <1>1, <1>2, <2>2, UnclaimedAt
    <2>5. \A u \in Positions : Worth(rows'[u]) = Worth(rows[u])
        BY SameWorth
    <2>6. Value' = Value
        BY <2>5, ValueStill
    <2>7. ASSUME NEW t \in Waiting
          PROVE  rows'[swaps[t].pos].st = "open" /\ rows'[swaps[t].pos].entry = rows[swaps[t].pos].entry
        <3>1. rows[swaps[t].pos].st = "open" /\ swaps[t].pos \in Positions
            BY <1>1, <2>3, <2>7, SwapTyped DEF OneWaits, Waiting, Pending
        <3> QED
            BY <3>1 DEF SameRow
    <2>8. wallet \in Nat
        BY <1>1 DEF SwapsInv
    <2>9. wallet + Unclaimed[s] <= Value' + Awaited
        BY <2>3, <2>4, <2>6, <2>8 DEF Placed
    <2>10. ASSUME NEW t \in Unsold PROVE wallet + swaps[t].amount + Unclaimed[s] <= Value' + Awaited
        <3>1. swaps[t].amount \in Nat
            BY <1>1, <2>10, SwapTyped DEF Unsold
        <3>2. wallet + swaps[t].amount <= Value + Awaited
            BY <2>3, <2>10 DEF Placed
        <3> QED
            BY <2>4, <2>6, <2>8, <3>1, <3>2
    <2> QED
        BY <2>2, <2>7, <2>9, <2>10 DEF Settles
<1> QED
    BY <1>3, <1>4, <1>5, BookedLeft

\* A booking on one row.
LEMMA OnRowStays ==
    ASSUME RowsInv, HeldBought, NEW p \in Positions, NEW s \in Sigs, NEW r, OnRow(p, s, r),
           rows[p].entry => r.entry, r.held > 0 => r.entry
    PROVE  /\ EntriesStay /\ RecordsBy(s) /\ Noted(s)' /\ rows' = [rows EXCEPT ![p] = r]
           /\ rows'[p] = r /\ \A u \in Positions : u # p => rows'[u] = rows[u]
<1>1. rows'[p] = r /\ \A u \in Positions : u # p => rows'[u] = rows[u]
    BY DEF OnRow, RowsInv
<1>2. EntriesStay
    BY <1>1 DEF EntriesStay, HeldBought
<1>3. RecordsBy(s) /\ Noted(s)'
    BY DEF OnRow, RecordsBy, Noted
<1> QED
    BY <1>1, <1>2, <1>3 DEF OnRow

\* A handover leaves the rows open that were, and the other row has its entry.
LEMMA HandOverStays ==
    ASSUME RowsInv, HeldBought, NEW p \in Positions, Beside(p) # {}, Attributable(p), NEW s \in Sigs,
           NEW out, NEW b, HandOver(p, s, out, b), out.row.entry, out.row.held = 0, out.tokens \in Nat
    PROVE  /\ EntriesStay /\ RecordsBy(s) /\ (b \/ out.tokens > 0 => Noted(s)')
           /\ \A u \in Beside(p) : rows'[u].st = "open" /\ rows'[u].entry = rows[u].entry
<1>1. PICK q : q = CHOOSE u \in Beside(p) : TRUE
    OBVIOUS
<1>2. q \in Positions /\ q # p /\ rows[q] \in Rows /\ rows[q].entry
    BY <1>1 DEF Beside, OpenRows, RowsInv, Attributable
<1>3. PICK z : z = book_acquisition(rows[q], out.tokens)
    OBVIOUS
<1>4. z.entry = rows[q].entry /\ z.st = rows[q].st
    BY <1>2, <1>3, Bought, RulesKeepTrade DEF Is, SameTrade
<1>5. /\ rows' = [rows EXCEPT ![p] = out.row, ![q] = z]
      /\ records' = records \union (IF b THEN {<<p, s>>} ELSE {})
                            \union (IF out.tokens > 0 THEN {<<q, s>>} ELSE {})
    BY <1>1, <1>2, <1>3 DEF HandOver
<1>6. /\ rows'[p] = out.row /\ rows'[q] = z
      /\ \A u \in Positions : u # p /\ u # q => rows'[u] = rows[u]
    BY <1>2, <1>5 DEF RowsInv
<1>7. EntriesStay
    <2>1. ASSUME NEW u \in Positions
          PROVE  (rows[u].entry => rows'[u].entry) /\ (rows'[u].held > 0 => rows'[u].entry)
        <3>1. CASE u = p
            BY <1>6, <3>1
        <3>2. CASE u = q
            BY <1>2, <1>4, <1>6, <3>2
        <3>3. CASE u # p /\ u # q
            BY <1>6, <3>3 DEF HeldBought
        <3> QED
            BY <3>1, <3>2, <3>3
    <2> QED
        BY <2>1 DEF EntriesStay
<1>8. RecordsBy(s)
    BY <1>2, <1>5 DEF RecordsBy
<1>9. b \/ out.tokens > 0 => Noted(s)'
    BY <1>2, <1>5 DEF Noted
<1>10. ASSUME NEW u \in Beside(p) PROVE rows'[u].st = "open" /\ rows'[u].entry = rows[u].entry
    <2>1. u \in Positions /\ u # p /\ rows[u].st = "open"
        BY DEF Beside, OpenRows
    <2> QED
        BY <1>4, <1>6, <2>1
<1> QED
    BY <1>7, <1>8, <1>9, <1>10

\* A late fill of a position whose entry is verified.
LEMMA LateFillStays ==
    ASSUME BooksConstants, RowsInv, SwapsInv, HeldBought, NEW p \in Positions, NEW s \in Sigs,
           NEW r \in Rows, r.entry, r.st = "closed", LateFill(p, s, r)
    PROVE  EntriesStay /\ RecordsBy(s)
<1>0. PICK h : h = LateHolding(p, r, 0)
    OBVIOUS
<1>1. h \in Nat
    BY <1>0, LateHoldingTyped
<1>2. CASE Beside(p) = {}
    <2>1. OnRow(p, s, follow_round(r, h))
        BY <1>0, <1>2 DEF LateFill, OnRow
    <2>2. follow_round(r, h).entry
        BY <1>1, RoundKeepsTrade DEF SameTrade
    <2> QED
        BY <2>1, <2>2, OnRowStays
<1>3. CASE Beside(p) # {}
    <2>1. PICK out : out = hand_over_round(r, h)
        OBVIOUS
    <2>2. HandOver(p, s, out, TRUE) /\ Attributable(p)
        BY <1>0, <1>3, <2>1 DEF LateFill
    <2>3. out.row.entry
        BY <1>1, <2>1, HandOverKeepsTrade DEF SameTrade
    <2>4. out.row.held = 0 /\ out.tokens \in Nat
        BY <1>1, <2>1, RoundHandedOver DEF Splits
    <2> QED
        BY <1>3, <2>2, <2>3, <2>4, HandOverStays
<1> QED
    BY <1>2, <1>3

\* An entry or a sale that is booked on its open row is placed when the row's worth takes it up.
LEMMA OpenLeft ==
    ASSUME BooksConstants, Inv, Inv', BackInv, BoundsInv, LeftInv, NEW s \in Sigs, Booked(s),
           writtenOff' = writtenOff, NEW p, p = swaps[s].pos, swaps[s].kind # "dca", ~ Noted(s),
           NEW r, OnRow(p, s, r), rows[p].entry => r.entry, r.held > 0 => r.entry,
           Quiet => wallet + Unclaimed[s] + Worth(rows[p]) <= Value + Worth(r) + Awaited
    PROVE  LeftInv'
<1>1. RowsInv /\ RowsInv' /\ SwapsInv /\ OrderInv /\ SwapsBounded /\ HeldBought /\ p \in Positions
    BY SwapFacts DEF Inv, BackInv, BoundsInv, LeftInv
<1>2. EntriesStay /\ RecordsBy(s) /\ Noted(s)' /\ rows' = [rows EXCEPT ![p] = r]
    BY <1>1, OnRowStays
<1>3. PICK x \in {"landed", "settled"} : Marked(s, x)
    BY <1>1, BookedMarks
<1>4. ASSUME Quiet' PROVE Settles(s)
    <2>1. Quiet
        BY <1>4, BookedQuiet
    <2>2. OneWaits
        BY <2>1 DEF LeftInv
    <2>3. swaps[s].st = "landed"
        BY <1>1, BookedMarks
    <2>4. \A t \in Waiting : t = s
        BY <1>1, <2>2, <2>3, WaitsAlone
    <2>5. \A t \in Unsold : t = s
        BY <2>4, UnsoldWaits
    <2>6. /\ Value' + Worth(rows[p]) = Value + Worth(r)
          /\ Value \in Nat /\ Value' \in Nat /\ Worth(rows[p]) \in Nat /\ Worth(r) \in Nat
        BY <1>1, <1>2, WorthMoved
    <2>7. Awaited \in Nat /\ Unclaimed[s] \in Nat /\ wallet \in Nat
        BY <1>1, <1>3, UnclaimedTyped, UnclaimedAt DEF SwapsInv
    <2>0. PICK v, d, w, u, a, m, n : /\ v = Value /\ d = Value' /\ w = wallet /\ u = Unclaimed[s]
                                     /\ a = Awaited /\ m = Worth(rows[p]) /\ n = Worth(r)
        OBVIOUS
    <2>8. w + u + m <= v + n + a
        BY <2>0, <2>1
    <2>9. w + u <= d + a
        BY <2>0, <2>6, <2>7, <2>8
    <2> QED
        BY <1>2, <2>0, <2>4, <2>5, <2>9 DEF Settles
<1> QED
    BY <1>1, <1>2, <1>4, BookedLeft

\* A late entry or sale of a closed row waits no more.
LEMMA LateLeft ==
    ASSUME BooksConstants, Inv, Inv', BackInv, BoundsInv, LeftInv, NEW s \in Sigs, Booked(s),
           writtenOff' = writtenOff, swaps[s].kind # "dca", ~ Noted(s), rows[swaps[s].pos].st = "closed",
           EntriesStay, RecordsBy(s)
    PROVE  LeftInv'
<1>1. SwapsInv /\ OrderInv
    BY DEF Inv, BackInv
<1>2. ASSUME Quiet' PROVE FALSE
    <2>1. Quiet
        BY <1>2, BookedQuiet
    <2>2. OneWaits
        BY <2>1 DEF LeftInv
    <2>3. swaps[s].st = "landed"
        BY <1>1, BookedMarks
    <2> QED
        BY <1>1, <2>2, <2>3, WaitsAlone
<1> QED
    BY <1>2, BookedLeft

\* A verification of a swap is one in hand.
LEMMA InHand ==
    ASSUME SwapsInv, NEW s \in Sigs, item.sig = s
    PROVE  item # NoItem
<1>1. Sigs = 1 .. Len(swaps) /\ Len(swaps) \in Nat
    BY LenProperties DEF SwapsInv, Sigs
<1>2. s # 0
    BY <1>1
<1> QED
    BY <1>2 DEF NoItem

\* EntryVerified: what the entry counts is what it bought, or all that was read.
LEMMA EntryLeft ==
    ASSUME BooksConstants, Inv, Inv', BackInv, BoundsInv, LeftInv, NEW s \in Sigs, BookEntry(s)
    PROVE  LeftInv'
<1> PICK p, a, n : p = swaps[s].pos /\ a = swaps[s].amount /\ n = EntryTokens(s)
    OBVIOUS
<1> PICK r : r = apply_entry_fill(rows[p], n)
    OBVIOUS
<1>1. RowsInv /\ SwapsInv /\ OrderInv /\ SwapsBounded /\ RecordsOwn /\ HeldBought
    BY DEF Inv, BackInv, BoundsInv, LeftInv
<1>2. p \in Positions /\ rows[p] \in Rows /\ a \in Nat /\ item.held \in Nat
    BY <1>1, SwapFacts DEF SwapsInv
<1>3. Booked(s) /\ swaps[s].kind = "entry" /\ rows[p].st # "none" /\ writtenOff' = writtenOff
    BY DEF BookEntry, Booked
<1>4. n = a \/ (n = item.held /\ item.held > 0)
    BY DEF EntryTokens, Least
<1>5. r \in Rows /\ r.st = rows[p].st /\ r.held = n /\ n \in Nat
    <2>1. n \in Nat
        BY <1>2, <1>4
    <2> QED
        BY <1>2, <2>1, EntryFilled DEF Is
<1>6. r.entry
    BY <1>2 DEF apply_entry_fill, Rows
<1>7. <<p, s>> \notin records => ~ Noted(s)
    BY <1>1, <1>3, NotYet
<1>8. swaps[s].st = "landed" /\ item.sig = s
    BY <1>1, <1>3, BookedMarks DEF Booked
<1>9. CASE rows[p].entry \/ <<p, s>> \in records
    <2>1. rows' = rows /\ records' = records
        BY <1>9 DEF BookEntry
    <2>2. ASSUME Quiet PROVE Noted(s)
        <3>1. OneWaits
            BY <2>2 DEF LeftInv
        <3>2. ASSUME ~ Noted(s) PROVE ~ rows[p].entry
            BY <1>1, <1>3, <1>8, <3>1, <3>2, WaitsAlone
        <3> QED
            BY <1>2, <1>9, <3>2 DEF Noted
    <2>3. \A u \in Positions : SameRow(rows'[u], rows[u])
        BY <2>1 DEF SameRow
    <2> QED
        BY <1>3, <2>1, <2>2, <2>3, IdleLeft
<1>10. CASE ~ (rows[p].entry \/ <<p, s>> \in records) /\ rows[p].st = "closed"
    <2>1. LateFill(p, s, r)
        BY <1>10 DEF BookEntry
    <2>2. EntriesStay /\ RecordsBy(s)
        BY <1>1, <1>2, <1>5, <1>6, <1>10, <2>1, LateFillStays
    <2> QED
        BY <1>3, <1>7, <1>10, <2>2, LateLeft
<1>11. CASE ~ (rows[p].entry \/ <<p, s>> \in records) /\ rows[p].st # "closed"
    <2>1. OnRow(p, s, r)
        BY <1>11 DEF BookEntry
    <2>2. rows[p].st = "open" /\ rows[p].held = 0
        BY <1>1, <1>2, <1>3, <1>11, RowOpen DEF HeldBought, Rows
    <2>3. Worth(rows[p]) = 0 /\ Worth(r) = n
        BY <1>5, <2>2 DEF Worth
    <2>4. PICK x \in {"landed", "settled"} : Marked(s, x)
        BY <1>1, <1>3, BookedMarks
    <2>5. Unclaimed[s] = a
        BY <1>1, <1>3, <1>7, <1>8, <1>11, <2>4, UnclaimedAt DEF Buys
    <2>6. ASSUME Quiet PROVE wallet + Unclaimed[s] + Worth(rows[p]) <= Value + Worth(r) + Awaited
        <3>1. wallet <= Value + Awaited
            BY <2>6 DEF LeftInv, Placed
        <3>2. item # NoItem
            BY <1>1, <1>8, InHand
        <3>3. wallet + Unclaimed[s] <= item.held + Awaited
            BY <1>8, <2>6, <3>2 DEF LeftInv, ReadAll
        <3>0. PICK v, w, b, h : v = Value /\ w = wallet /\ b = Awaited /\ h = item.held
            OBVIOUS
        <3>4. v \in Nat /\ w \in Nat /\ b \in Nat /\ h \in Nat
            BY <1>1, <1>2, <3>0, WorthsTyped, UnclaimedTyped DEF SwapsInv
        <3>5. w <= v + b /\ w + a <= h + b
            BY <2>5, <3>0, <3>1, <3>3
        <3>6. w + a + 0 <= v + n + b
            BY <1>2, <1>4, <3>0, <3>4, <3>5
        <3> QED
            BY <2>3, <2>5, <3>0, <3>6
    <2> QED
        BY <1>3, <1>6, <1>7, <1>11, <2>1, <2>6, OpenLeft
<1> QED
    BY <1>9, <1>10, <1>11

\* A sale that is booked on its open row takes from it no more than it sold.
LEMMA SoldLeft ==
    ASSUME BooksConstants, Inv, Inv', BackInv, BoundsInv, LeftInv, NEW s \in Sigs, Booked(s),
           writtenOff' = writtenOff, NEW p, p = swaps[s].pos, swaps[s].kind \in Sales, ~ Noted(s),
           rows[p].st = "open", NEW r, OnRow(p, s, r), r.st = "open", r.entry = rows[p].entry,
           r.held = Monus(rows[p].held, swaps[s].amount)
    PROVE  LeftInv'
<1>0. PICK h, n : h = rows[p].held /\ n = swaps[s].amount
    OBVIOUS
<1>1. RowsInv /\ SwapsInv /\ OrderInv /\ SwapsBounded /\ Traded
    BY DEF Inv, BackInv, BoundsInv, LeftInv
<1>2. p \in Positions /\ h \in Nat /\ n \in Nat
    BY <1>0, <1>1, SwapFacts DEF Rows
<1>3. swaps[s].kind # "dca" /\ swaps[s].kind # "entry"
    BY DEF Sales
<1>4. rows[p].entry
    BY <1>1, <1>3 DEF Traded
<1>5. swaps[s].st = "landed"
    BY <1>1, BookedMarks
<1>6. PICK x \in {"landed", "settled"} : Marked(s, x)
    BY <1>1, BookedMarks
<1>7. Unclaimed[s] = 0
    BY <1>1, <1>6, UnclaimedAt DEF Sales, Buys
<1>8. Worth(rows[p]) = h /\ Worth(r) = Monus(h, n)
    BY <1>0 DEF Worth
<1>9. ASSUME Quiet PROVE wallet + Unclaimed[s] + Worth(rows[p]) <= Value + Worth(r) + Awaited
    <2>1. s \in Unsold
        BY <1>5 DEF Unsold
    <2>2. wallet + n <= Value + Awaited
        BY <1>0, <1>9, <2>1 DEF LeftInv, Placed
    <2>0. PICK v, w, b : v = Value /\ w = wallet /\ b = Awaited
        OBVIOUS
    <2>3. v \in Nat /\ w \in Nat /\ b \in Nat
        BY <1>1, <2>0, WorthsTyped, UnclaimedTyped DEF SwapsInv
    <2>4. w + n <= v + b
        BY <2>0, <2>2
    <2>5. w + 0 + h <= v + Monus(h, n) + b
        BY <1>2, <2>3, <2>4 DEF Monus
    <2> QED
        BY <1>7, <1>8, <2>0, <2>5
<1> QED
    BY <1>3, <1>4, <1>9, OpenLeft

\* PartialExitVerified
LEMMA PartialLeft ==
    ASSUME BooksConstants, Inv, Inv', BackInv, BoundsInv, LeftInv, NEW s \in Sigs, BookPartial(s)
    PROVE  LeftInv'
<1> PICK p, n : p = swaps[s].pos /\ n = swaps[s].amount
    OBVIOUS
<1>1. RowsInv /\ SwapsInv /\ OrderInv /\ RecordsOwn /\ HeldBought /\ Traded
    BY DEF Inv, BackInv, BoundsInv, LeftInv
<1>2. p \in Positions /\ rows[p] \in Rows /\ n \in Nat
    BY <1>1, SwapFacts
<1>3. Booked(s) /\ swaps[s].kind = "partial" /\ rows[p].st # "none" /\ writtenOff' = writtenOff
    BY DEF BookPartial, Booked
<1>4. <<p, s>> \notin records => ~ Noted(s)
    BY <1>1, <1>3, NotYet
<1>5. rows[p].entry
    BY <1>1, <1>3 DEF Traded
<1>6. CASE <<p, s>> \in records
    <2>1. rows' = rows /\ records' = records
        BY <1>6 DEF BookPartial
    <2>2. Noted(s) /\ \A u \in Positions : SameRow(rows'[u], rows[u])
        BY <1>2, <1>6, <2>1 DEF Noted, SameRow
    <2> QED
        BY <1>3, <2>1, <2>2, IdleLeft
<1>7. CASE <<p, s>> \notin records /\ rows[p].st = "closed"
    <2>1. LateFill(p, s, rows[p])
        BY <1>7 DEF BookPartial
    <2>2. EntriesStay /\ RecordsBy(s)
        BY <1>1, <1>2, <1>5, <1>7, <2>1, LateFillStays
    <2> QED
        BY <1>3, <1>4, <1>7, <2>2, LateLeft
<1>8. CASE <<p, s>> \notin records /\ rows[p].st # "closed"
    <2>1. PICK r : r = book_exit(rows[p], n)
        OBVIOUS
    <2>2. OnRow(p, s, r)
        BY <1>8, <2>1 DEF BookPartial
    <2>3. rows[p].st = "open"
        BY <1>1, <1>2, <1>3, <1>8, RowOpen
    <2>4. r.st = "open" /\ r.held = Monus(rows[p].held, n) /\ r.entry = rows[p].entry
        BY <1>2, <2>1, <2>3, Sold, RulesKeepTrade DEF Is, SameTrade
    <2> QED
        BY <1>3, <1>4, <1>8, <2>2, <2>3, <2>4, SoldLeft DEF Sales
<1> QED
    BY <1>6, <1>7, <1>8

\* ExitResidualClearForRetry
LEMMA ResidualLeft ==
    ASSUME BooksConstants, Inv, Inv', BackInv, BoundsInv, LeftInv, NEW s \in Sigs, BookResidual(s)
    PROVE  LeftInv'
<1> PICK p, n, r : p = swaps[s].pos /\ n = swaps[s].amount /\ r = rows[p]
    OBVIOUS
<1>1. RowsInv /\ SwapsInv /\ OrderInv /\ RecordsOwn /\ HeldBought /\ Traded
    BY DEF Inv, BackInv, BoundsInv, LeftInv
<1>2. p \in Positions /\ r \in Rows /\ n \in Nat
    BY <1>1, SwapFacts
<1>3. Booked(s) /\ swaps[s].kind = "exit" /\ r.st # "none" /\ writtenOff' = writtenOff
    BY <1>1 DEF BookResidual, Booked, SwapsInv
<1>4. <<p, s>> \notin records => ~ Noted(s)
    BY <1>1, <1>3, NotYet
<1>5. r.entry
    BY <1>1, <1>3 DEF Traded
<1>6. CASE <<p, s>> \in records
    <2>1. PICK c : c = clear_exit_for_retry(r, s)
        OBVIOUS
    <2>2. rows' = [rows EXCEPT ![p] = c] /\ records' = records
        BY <1>6, <2>1 DEF BookResidual
    <2>3. SameRow(c, r)
        BY <1>2, <2>1, ClearedSame
    <2>4. \A u \in Positions : SameRow(rows'[u], rows[u])
        <3>1. rows'[p] = c /\ \A u \in Positions : u # p => rows'[u] = rows[u]
            BY <1>1, <1>2, <2>2 DEF RowsInv
        <3> QED
            BY <2>3, <3>1 DEF SameRow
    <2>5. Noted(s)
        BY <1>2, <1>6 DEF Noted
    <2> QED
        BY <1>3, <2>2, <2>4, <2>5, IdleLeft
<1>7. CASE <<p, s>> \notin records /\ r.st = "open"
    <2>1. PICK e : e = book_exit(r, n)
        OBVIOUS
    <2>2. PICK c : c = clear_exit_for_retry(e, s)
        OBVIOUS
    <2>3. e \in Rows /\ e.st = "open" /\ e.held = Monus(r.held, n) /\ e.entry = r.entry
        BY <1>2, <1>7, <2>1, Sold, RulesKeepTrade DEF Is, SameTrade
    <2>4. SameRow(c, e)
        BY <2>2, <2>3, ClearedSame
    <2>5. OnRow(p, s, c)
        BY <1>7, <2>1, <2>2 DEF BookResidual
    <2>6. c.st = "open" /\ c.held = Monus(rows[p].held, swaps[s].amount) /\ c.entry = rows[p].entry
        BY <2>3, <2>4 DEF SameRow
    <2> QED
        BY <1>3, <1>4, <1>7, <2>5, <2>6, SoldLeft DEF Sales
<1>8. CASE <<p, s>> \notin records /\ r.st # "open"
    <2>1. r.st = "closed"
        BY <1>2, <1>3, <1>8 DEF Rows
    <2>2. PICK h : h = LateHolding(p, r, 0)
        OBVIOUS
    <2>3. h \in Nat
        BY <1>1, <1>2, <2>2, LateHoldingTyped
    <2>4. CASE Beside(p) = {}
        <3>1. PICK f : f = follow_round(r, h)
            OBVIOUS
        <3>2. PICK c : c = clear_exit_for_retry(f, s)
            OBVIOUS
        <3>3. f \in Rows /\ f.entry
            BY <1>2, <1>5, <2>3, <3>1, Followed, RoundKeepsTrade DEF SameTrade
        <3>4. c.entry
            BY <3>2, <3>3, ClearedSame DEF SameRow
        <3>5. OnRow(p, s, c)
            BY <1>8, <2>2, <2>4, <3>1, <3>2 DEF BookResidual
        <3>6. EntriesStay /\ RecordsBy(s)
            BY <1>1, <1>2, <3>4, <3>5, OnRowStays
        <3> QED
            BY <1>3, <1>4, <1>8, <2>1, <3>6, LateLeft
    <2>5. CASE Beside(p) # {}
        <3>1. PICK out : out = hand_over_round(r, h)
            OBVIOUS
        <3>2. PICK c : c = clear_exit_for_retry(out.row, s)
            OBVIOUS
        <3>3. PICK o : o = [out EXCEPT !.row = c]
            OBVIOUS
        <3>4. out.row \in Rows /\ out.row.held = 0 /\ out.tokens \in Nat
            BY <1>2, <2>3, <3>1, RoundHandedOver DEF Splits
        <3>5. out.row.entry
            BY <1>2, <1>5, <2>3, <3>1, HandOverKeepsTrade DEF SameTrade
        <3>6. o.row = c /\ o.tokens = out.tokens
            BY <3>1, <3>3 DEF hand_over_round, Kept
        <3>7. c.entry /\ c.held = 0
            <4>1. PICK z : z = out.row
                OBVIOUS
            <4>2. SameRow(c, z)
                BY <3>2, <3>4, <4>1, ClearedSame
            <4> QED
                BY <3>4, <3>5, <4>1, <4>2 DEF SameRow
        <3>8. HandOver(p, s, o, TRUE) /\ Attributable(p)
            BY <1>8, <2>2, <2>5, <3>1, <3>2, <3>3 DEF BookResidual
        <3>9. EntriesStay /\ RecordsBy(s)
            BY <1>1, <1>2, <2>5, <3>4, <3>6, <3>7, <3>8, HandOverStays
        <3> QED
            BY <1>3, <1>4, <1>8, <2>1, <3>9, LateLeft
    <2> QED
        BY <2>4, <2>5
<1> QED
    BY <1>6, <1>7, <1>8

\* Two numbers are at most the sum.
LEMMA TwoPartsOfSum ==
    ASSUME NEW P, IsFiniteSet(P), NEW f \in [P -> Nat], NEW p \in P, NEW q \in P, q # p
    PROVE  f[p] + f[q] <= Sums(f, P)[P]
<1>1. PICK g : g = [f EXCEPT ![p] = 0]
    OBVIOUS
<1>2. g \in [P -> Nat] /\ g[p] = 0 /\ g[q] = f[q] /\ \A u \in P : u # p => g[u] = f[u]
    BY <1>1
<1>3. Sums(g, P)[P] + f[p] = Sums(f, P)[P] + g[p]
    BY <1>2, OneMoves
<1>4. Sums(f, P)[P] \in Nat /\ Sums(g, P)[P] \in Nat
    BY <1>2, SumSplits
<1>5. g[q] <= Sums(g, P)[P]
    BY <1>2, PartOfSum
<1> QED
    BY <1>2, <1>3, <1>4, <1>5

\* A row is worth no more than the rows together, and two are not.
LEMMA PartsOfValue ==
    ASSUME BooksConstants, NEW f \in [Positions -> Nat], NEW p \in Positions
    PROVE  f[p] <= Sum(f) /\ \A q \in Positions : q # p => f[p] + f[q] <= Sum(f)
<1>1. IsFiniteSet(Positions)
    BY DEF BooksConstants
<1>2. f[p] <= Sum(f)
    BY <1>1, PartOfSum DEF Sum
<1>3. ASSUME NEW q \in Positions, q # p PROVE f[p] + f[q] <= Sum(f)
    BY <1>1, <1>3, TwoPartsOfSum DEF Sum
<1> QED
    BY <1>2, <1>3

\* A full exit that left nothing or dust: the closed row keeps all that was read as dust, or as
\* much as it claimed.
LEMMA SoldOutWorth ==
    ASSUME BooksConstants, NEW r \in Rows, NEW w \in Nat, SoldOut(r, w),
           NEW c \in Nat, acquired_amount(r) <= c, NEW m, m = Least(c, DustLimit(r.tok + c))
    PROVE  m \in Nat /\ (w <= m \/ r.held <= m)
<1>0. PICK h, e, t, o : h = r.held /\ e = r.exited /\ t = r.tok /\ o = IF h > 0 THEN h ELSE t
    OBVIOUS
<1>1. h \in Nat /\ e \in Nat /\ t \in Nat /\ o \in Nat /\ h + e <= c
    BY <1>0 DEF Rows, acquired_amount
<1>2. o + e \in Nat /\ t + c \in Nat /\ o + e <= t + c
    BY <1>0, <1>1
<1>3. PICK k, l : k = DustLimit(o + e) /\ l = DustLimit(t + c)
    OBVIOUS
<1>4. k \in Nat /\ l \in Nat /\ k <= l
    BY <1>2, <1>3, LimitGrows
<1>5. w = 0 \/ Least(w, o + e) <= k
    BY <1>0, <1>3 DEF SoldOut, is_dust
<1>6. m = Least(c, l)
    BY <1>0, <1>3
<1>7. m \in Nat
    BY <1>4, <1>6, Difference
<1>8. CASE h <= l
    <2>1. h <= m
        BY <1>1, <1>4, <1>6, <1>8 DEF Least
    <2> QED
        BY <1>0, <1>7, <2>1
<1>9. CASE ~ h <= l
    <2>1. o = h /\ h <= c
        BY <1>0, <1>1, <1>4, <1>9
    <2>2. w <= m
        BY <1>1, <1>4, <1>5, <1>6, <1>9, <2>1 DEF Least
    <2> QED
        BY <1>7, <2>2
<1> QED
    BY <1>8, <1>9

\* What a full exit absorbs is acquired beside the rest.
LEMMA AbsorbedMore ==
    ASSUME NEW r \in Rows, NEW n \in Nat
    PROVE  acquired_amount(r) <= acquired_amount(absorb_unbooked_sale(r, n))
<1>0. PICK x : x = Monus(n, r.held)
    OBVIOUS
<1>1. x \in Nat /\ r.held \in Nat /\ r.exited \in Nat
    BY <1>0, Difference DEF Rows
<1>2. PICK a : a = book_acquisition(r, x)
    OBVIOUS
<1>3. a.held = r.held + x /\ a.exited = r.exited
    BY <1>1, <1>2, Bought DEF Is
<1>4. absorb_unbooked_sale(r, n) = r \/ absorb_unbooked_sale(r, n) = a
    BY <1>0, <1>2 DEF absorb_unbooked_sale
<1> QED
    BY <1>1, <1>3, <1>4 DEF acquired_amount

\* ExitVerified: what is left of a full exit that is booked is dust of the row it closes.
LEMMA ExitLeft ==
    ASSUME BooksConstants, Inv, Inv', BackInv, BoundsInv, LeftInv, NEW s \in Sigs, BookExit(s)
    PROVE  LeftInv'
<1> PICK p, n, r : p = swaps[s].pos /\ n = swaps[s].amount /\ r = rows[p]
    OBVIOUS
<1>1. RowsInv /\ SwapsInv /\ OrderInv /\ SwapsBounded /\ RecordsOwn /\ HeldBought /\ Traded
    BY DEF Inv, BackInv, BoundsInv, LeftInv
<1>2. p \in Positions /\ r \in Rows /\ n \in Nat /\ s \in Nat
    BY <1>1, SwapFacts, SigsAreNumbers
<1>3. Booked(s) /\ swaps[s].kind = "exit" /\ r.st # "none" /\ writtenOff' = writtenOff
    BY DEF BookExit, Booked
<1>4. <<p, s>> \notin records => ~ Noted(s)
    BY <1>1, <1>3, NotYet
<1>5. r.entry
    BY <1>1, <1>3 DEF Traded
<1>6. swaps[s].st = "landed" /\ item.sig = s
    BY <1>1, <1>3, BookedMarks DEF Booked
<1> DEFINE Done == <<p, s>> \in records \/ (r.st = "closed" /\ ~ r.synth /\ r.exit = s)
<1>7. CASE Done
    <2>1. rows' = rows /\ records' = records
        BY <1>7 DEF BookExit
    <2>2. ASSUME Quiet PROVE Noted(s)
        <3>1. OneWaits
            BY <2>2 DEF LeftInv
        <3>2. ASSUME ~ Noted(s) PROVE r.st = "open"
            BY <1>1, <1>3, <1>6, <3>1, <3>2, WaitsAlone
        <3> QED
            BY <1>2, <1>7, <3>2 DEF Noted
    <2>3. \A u \in Positions : SameRow(rows'[u], rows[u])
        BY <2>1 DEF SameRow
    <2> QED
        BY <1>3, <2>1, <2>2, <2>3, IdleLeft
<1>8. CASE ~ Done /\ r.st = "closed"
    <2> PICK x : x = IF r.synth THEN s ELSE r.exit
        OBVIOUS
    <2> PICK a : a = [r EXCEPT !.synth = FALSE]
        OBVIOUS
    <2> PICK b : b = [a EXCEPT !.exit = x]
        OBVIOUS
    <2>1. x \in Nat
        BY <1>2 DEF Rows
    <2>2. Is(a, r.st, r.held, r.exited)
        BY <1>2, IsItself, FieldSet
    <2>3. Is(b, r.st, r.held, r.exited)
        BY <2>1, <2>2, FieldSet
    <2>4. b \in Rows /\ b.st = "closed"
        BY <1>8, <2>3 DEF Is
    <2>5. b.entry
        BY <1>2, <1>5 DEF Rows
    <2>6. [r EXCEPT !.synth = FALSE, !.exit = IF r.synth THEN s ELSE @] = b
        OBVIOUS
    <2>7. LateFill(p, s, b)
        BY <1>8, <2>6 DEF BookExit
    <2>8. EntriesStay /\ RecordsBy(s)
        BY <1>1, <1>2, <2>4, <2>5, <2>7, LateFillStays
    <2> QED
        BY <1>3, <1>4, <1>8, <2>8, LateLeft
<1>9. CASE ~ Done /\ r.st # "closed"
    <2>s. PICK sold : sold = IF \E u \in Pending({"dca"}) : swaps[u].pos = p THEN r
                           ELSE absorb_unbooked_sale(r, n)
        OBVIOUS
    <2>1. r.st = "open"
        BY <1>2, <1>3, <1>9 DEF Rows
    <2>2. sold \in Rows /\ sold.tok = r.tok /\ sold.entry = r.entry
        BY <1>2, <2>s, Absorbed, RoundKeepsTrade DEF SameTrade
    <2>3. /\ acquired_amount(r) <= acquired_amount(sold)
          /\ acquired_amount(r) \in Nat /\ acquired_amount(sold) \in Nat
        <3>1. acquired_amount(r) \in Nat /\ acquired_amount(sold) \in Nat
            BY <1>2, <2>2, AcquiredNat
        <3>2. acquired_amount(r) <= acquired_amount(absorb_unbooked_sale(r, n))
            BY <1>2, AbsorbedMore
        <3> QED
            BY <3>1, <3>2, <2>s
    <2>e. PICK e : e = book_remaining_as_exited(sold)
        OBVIOUS
    <2>0. PICK x : x = IF r.exit = 0 THEN s ELSE e.exit
        OBVIOUS
    <2>a. PICK a : a = [e EXCEPT !.st = "closed"]
        OBVIOUS
    <2>b. PICK b : b = [a EXCEPT !.exit = x]
        OBVIOUS
    <2>4. /\ e \in Rows /\ e.held = 0 /\ e.exited = sold.exited + sold.held
          /\ e.tok = r.tok /\ e.entry = r.entry
        BY <2>2, <2>e, RestExited, RulesKeepTrade DEF Is, SameTrade
    <2>5. x \in Nat
        BY <1>2, <2>0, <2>4 DEF Rows
    <2>6. Is(a, "closed", e.held, e.exited)
        BY <2>4, <2>a, IsItself, FieldSet
    <2>7. Is(b, "closed", e.held, e.exited)
        BY <2>5, <2>6, <2>b, FieldSet
    <2>8. b.st = "closed" /\ b.held = 0 /\ b.exited = sold.exited + sold.held
        BY <2>4, <2>7 DEF Is
    <2>9. b.tok = r.tok /\ b.entry = r.entry
        BY <2>4, <2>a, <2>b DEF Rows
    <2>10. acquired_amount(b) = acquired_amount(sold)
        BY <2>2, <2>8 DEF acquired_amount, Rows
    <2>11. [e EXCEPT !.st = "closed", !.exit = IF r.exit = 0 THEN s ELSE @] = b
        BY <2>0, <2>a, <2>b
    <2>12. OnRow(p, s, b)
        BY <1>9, <2>11, <2>s, <2>e DEF BookExit
    <2>13. PICK y \in {"landed", "settled"} : Marked(s, y)
        BY <1>1, <1>3, BookedMarks
    <2>14. Unclaimed[s] = 0
        BY <1>1, <1>3, <2>13, UnclaimedAt DEF Sales, Buys
    <2>15. PICK c, m : c = acquired_amount(sold) /\ m = Least(c, DustLimit(r.tok + c))
        OBVIOUS
    <2>16. Worth(b) = m /\ Worth(rows[p]) = r.held
        BY <2>1, <2>8, <2>9, <2>10, <2>15 DEF Worth, left_as_dust
    <2>17. ASSUME Quiet PROVE wallet + Unclaimed[s] + Worth(rows[p]) <= Value + Worth(b) + Awaited
        <3>0. PICK v, w, k, h, g : /\ v = Value /\ w = wallet /\ k = Awaited /\ h = r.held
                                   /\ g = item.held
            OBVIOUS
        <3>1. v \in Nat /\ w \in Nat /\ k \in Nat /\ h \in Nat /\ g \in Nat
            BY <1>1, <1>2, <3>0, WorthsTyped, UnclaimedTyped DEF SwapsInv, Rows
        <3>2. w <= v + k
            BY <2>17, <3>0 DEF LeftInv, Placed
        <3>3. item # NoItem
            BY <1>1, <1>6, InHand
        <3>4. w <= g + k
            <4>1. wallet + Unclaimed[s] <= item.held + Awaited
                BY <1>6, <2>17, <3>3 DEF LeftInv, ReadAll
            <4> QED
                BY <2>14, <3>0, <3>1, <4>1
        <3>5. SoldOut(r, g)
            <4>1. ~ item.residual
                BY DEF BookExit
            <4> QED
                BY <1>3, <1>6, <2>1, <2>17, <3>0, <3>3, <4>1 DEF LeftInv, ReadSold
        <3>6. m \in Nat /\ (g <= m \/ h <= m)
            BY <1>2, <2>3, <2>15, <3>0, <3>1, <3>5, SoldOutWorth
        <3>7. h <= v
            <4>1. PICK f : f = Worths
                OBVIOUS
            <4>2. f \in [Positions -> Nat] /\ f[p] = Worth(rows[p])
                BY <1>1, <1>2, <4>1, WorthsTyped DEF Worths
            <4>3. f[p] <= Sum(f)
                BY <1>2, <4>2, PartsOfValue
            <4> QED
                BY <2>16, <3>0, <4>1, <4>2, <4>3 DEF Value
        <3>8. w + 0 + h <= v + m + k
            BY <3>1, <3>2, <3>4, <3>6, <3>7
        <3> QED
            BY <2>14, <2>16, <3>0, <3>8
    <2>18. (rows[p].entry => b.entry) /\ (b.held > 0 => b.entry)
        BY <1>5, <2>9
    <2> QED
        BY <1>3, <1>4, <1>9, <2>12, <2>17, <2>18, OpenLeft
<1> QED
    BY <1>7, <1>8, <1>9

\* late_fill_holding is all that may be the position's, or all that was read beside the open rows.
LEMMA LateHoldingIs ==
    ASSUME BooksConstants, RowsInv, SwapsInv, NEW p, NEW r \in Rows, NEW n \in Nat
    PROVE  /\ LateHolding(p, r, n) \in Nat /\ LateHolding(p, r, n) <= acquired_amount(r) + n
           /\ \/ LateHolding(p, r, n) = acquired_amount(r) + n
              \/ item.held <= LateHolding(p, r, n) + other_open_held(p)
<1> PICK h, o, c, l : /\ h = item.held /\ o = other_open_held(p)
                      /\ c = acquired_amount(r) + n /\ l = LateHolding(p, r, n)
    OBVIOUS
<1>1. h \in Nat /\ o \in Nat /\ c \in Nat
    BY OtherHeldTyped, AcquiredNat DEF SwapsInv
<1>2. l = Least(Monus(h, o), c)
    BY DEF LateHolding, attributable_held
<1>3. l \in Nat /\ l <= c /\ (l = c \/ h <= l + o)
    BY <1>1, <1>2 DEF Least, Monus
<1> QED
    BY <1>3

\* An add that is booked is placed when the rows' worth grows by it, or takes up all that was read.
LEMMA AddSettles ==
    ASSUME BooksConstants, Inv, Inv', BackInv, BoundsInv, LeftInv, NEW s \in Sigs, Booked(s), Quiet,
           swaps[s].kind = "dca", ~ Noted(s), Noted(s)',
           \A t \in Waiting :
              rows'[swaps[t].pos].st = "open" /\ rows'[swaps[t].pos].entry = rows[swaps[t].pos].entry,
           Value + swaps[s].amount <= Value' \/ (Unsold = {} /\ item.held <= Value')
    PROVE  Settles(s)
<1>1. RowsInv /\ RowsInv' /\ SwapsInv /\ OrderInv /\ SwapsBounded /\ Placed /\ ReadAll
    BY DEF Inv, BackInv, BoundsInv, LeftInv
<1>2. PICK x \in {"landed", "settled"} : Marked(s, x)
    BY <1>1, BookedMarks
<1>3. swaps[s].st = "landed" /\ item.sig = s
    BY <1>1, BookedMarks DEF Booked
<1>4. Unclaimed[s] = swaps[s].amount
    BY <1>1, <1>2, <1>3, UnclaimedAt DEF Buys
<1>5. item # NoItem
    BY <1>1, <1>3, InHand
<1>0. PICK v, d, w, k, n, g : /\ v = Value /\ d = Value' /\ w = wallet /\ k = Awaited
                              /\ n = swaps[s].amount /\ g = item.held
    OBVIOUS
<1>6. v \in Nat /\ d \in Nat /\ w \in Nat /\ k \in Nat /\ n \in Nat /\ g \in Nat
    BY <1>0, <1>1, WorthsTyped, UnclaimedTyped, SwapFacts DEF SwapsInv
<1>7. w <= v + k /\ w + n <= g + k
    BY <1>0, <1>1, <1>3, <1>4, <1>5 DEF Placed, ReadAll
<1>8. CASE v + n <= d
    <2>1. w + n <= d + k
        BY <1>6, <1>7, <1>8
    <2>2. ASSUME NEW t \in Unsold PROVE w + swaps[t].amount + n <= d + k
        <3>1. PICK c : c = swaps[t].amount
            OBVIOUS
        <3>2. c \in Nat
            BY <1>1, <2>2, <3>1, SwapTyped DEF Unsold
        <3>3. w + c <= v + k
            BY <1>0, <1>1, <2>2, <3>1 DEF Placed
        <3>4. w + c + n <= d + k
            BY <1>6, <1>8, <3>2, <3>3
        <3> QED
            BY <3>1, <3>4
    <2> QED
        BY <1>0, <1>4, <2>1, <2>2 DEF Settles
<1>9. CASE Unsold = {} /\ g <= d
    <2>1. w + n <= d + k
        BY <1>6, <1>7, <1>9
    <2> QED
        BY <1>0, <1>4, <1>9, <2>1 DEF Settles
<1> QED
    BY <1>0, <1>8, <1>9

\* A late add that its row follows, without another open row.
LEMMA LateAddAlone ==
    ASSUME BooksConstants, Inv, Inv', BackInv, BoundsInv, LeftInv, NEW s \in Sigs, Booked(s),
           writtenOff' = writtenOff, swaps[s].kind = "dca", ~ Noted(s), NEW p, p = swaps[s].pos,
           rows[p].st = "closed", LateDca(p, s), Beside(p) = {}
    PROVE  LeftInv'
<1> PICK r, n, h : r = rows[p] /\ n = swaps[s].amount /\ h = LateHolding(p, r, n)
    OBVIOUS
<1>1. RowsInv /\ RowsInv' /\ SwapsInv /\ OrderInv /\ Traded /\ HeldBought
    BY DEF Inv, BackInv, LeftInv
<1>2. p \in Positions /\ r \in Rows /\ n \in Nat /\ acquired_amount(r) \in Nat
    BY <1>1, SwapFacts
<1>3. /\ h \in Nat /\ h <= acquired_amount(r) + n
      /\ h = acquired_amount(r) + n \/ item.held <= h + other_open_held(p)
    BY <1>1, <1>2, LateHoldingIs
<1>4. PICK a, f : a = book_acquisition(r, n) /\ f = follow_round(a, h)
    OBVIOUS
<1>5. a \in Rows /\ f \in Rows /\ f.entry
    <2>1. a \in Rows /\ SameTrade(a, r)
        BY <1>2, <1>4, Bought, RulesKeepTrade DEF Is
    <2>2. f \in Rows /\ SameTrade(f, a)
        BY <1>3, <1>4, <2>1, Followed, RoundKeepsTrade
    <2>3. r.entry
        BY <1>1 DEF Traded
    <2> QED
        BY <2>1, <2>2, <2>3 DEF SameTrade
<1>6. OnRow(p, s, f)
    BY <1>4 DEF LateDca, OnRow
<1>7. EntriesStay /\ RecordsBy(s) /\ Noted(s)' /\ rows' = [rows EXCEPT ![p] = f] /\ rows'[p] = f
    BY <1>1, <1>2, <1>5, <1>6, OnRowStays
<1>8. ASSUME Quiet' PROVE Settles(s)
    <2>1. Quiet /\ (records' # records => Pending(Sales) \ {s} = {})
        BY <1>8, BookedQuiet
    <2>2. records' # records
        BY <1>7 DEF Noted
    <2>3. Unsold = {}
        BY <2>1, <2>2 DEF Unsold, Pending, Sales
    <2>4. Waiting = {}
        <3>1. ASSUME NEW t \in Waiting PROVE FALSE
            <4>1. rows[swaps[t].pos].st = "open" /\ swaps[t].pos \in Positions
                BY <1>1, <2>1, <3>1, SwapTyped DEF LeftInv, OneWaits, Waiting, Pending
            <4> QED
                BY <4>1 DEF Beside, OpenRows
        <3> QED
            BY <3>1
    <2>5. h <= Worth(f)
        BY <1>2, <1>3, <1>4, LegWorth
    <2>6. /\ Value' + Worth(r) = Value + Worth(f)
          /\ Value \in Nat /\ Value' \in Nat /\ Worth(r) \in Nat /\ Worth(f) \in Nat
        BY <1>1, <1>2, <1>7, WorthMoved
    <2>7. Worth(r) <= acquired_amount(r)
        BY <1>2, WorthTyped
    <2>0. PICK v, d, c, x, y : /\ v = Value /\ d = Value' /\ c = acquired_amount(r)
                               /\ x = Worth(r) /\ y = Worth(f)
        OBVIOUS
    <2>8. /\ v \in Nat /\ d \in Nat /\ c \in Nat /\ x \in Nat /\ y \in Nat
          /\ d + x = v + y /\ x <= c /\ h <= y
        BY <1>2, <2>0, <2>5, <2>6, <2>7
    <2>9. CASE h = acquired_amount(r) + n
        <3>1. v + n <= d
            BY <1>2, <2>0, <2>8, <2>9
        <3> QED
            BY <1>7, <2>0, <2>1, <2>4, <3>1, AddSettles
    <2>10. CASE item.held <= h + other_open_held(p)
        <3>1. other_open_held(p) = 0
            <4>1. other_open_held(p) = (CHOOSE g : HeldFold(rows, Beside(p), g))[Beside(p)]
                BY Zenon DEF other_open_held, MapThenSumSet, MapThenFoldSet, HeldFold
            <4>2. PICK R : R = rows
                OBVIOUS
            <4>3. other_open_held(p) = (CHOOSE g : HeldFold(R, {}, g))[{}]
                BY <4>1, <4>2, Zenon
            <4> QED
                BY <4>3, HeldOfNone
        <3>2. y <= d
            <4>1. PICK g : g = Worths'
                OBVIOUS
            <4>2. g \in [Positions -> Nat] /\ g[p] = y
                BY <1>1, <1>2, <1>7, <2>0, <4>1, WorthsTyped DEF Worths
            <4>3. g[p] <= Sum(g)
                BY <1>2, <4>2, PartsOfValue
            <4> QED
                BY <2>0, <4>1, <4>2, <4>3 DEF Value
        <3>3. item.held <= Value'
            <4>1. PICK i : i = item.held
                OBVIOUS
            <4>2. i \in Nat
                BY <1>1, <4>1 DEF SwapsInv
            <4>3. i <= d
                BY <1>3, <2>8, <2>10, <3>1, <3>2, <4>1, <4>2
            <4> QED
                BY <2>0, <4>1, <4>3
        <3> QED
            BY <1>7, <2>1, <2>3, <2>4, <3>3, AddSettles
    <2> QED
        BY <1>3, <2>9, <2>10
<1> QED
    BY <1>7, <1>8, BookedLeft

\* A late add of which the other open row takes what is held.
LEMMA LateAddBeside ==
    ASSUME BooksConstants, Inv, Inv', BackInv, BoundsInv, LeftInv, NEW s \in Sigs, Booked(s),
           writtenOff' = writtenOff, swaps[s].kind = "dca", ~ Noted(s), NEW p, p = swaps[s].pos,
           rows[p].st = "closed", LateDca(p, s), Beside(p) # {}
    PROVE  LeftInv'
<1> PICK r, n, h : r = rows[p] /\ n = swaps[s].amount /\ h = LateHolding(p, r, n)
    OBVIOUS
<1>o. PICK out : out = hand_over_leg(r, n, h)
    OBVIOUS
<1>q. PICK q : q = CHOOSE u \in Beside(p) : TRUE
    OBVIOUS
<1>1. /\ RowsInv /\ RowsInv' /\ SwapsInv /\ OrderInv /\ OneOpen /\ SwapsBounded
      /\ Traded /\ HeldBought
    BY DEF Inv, BackInv, OrderInv, BoundsInv, LeftInv
<1>2. p \in Positions /\ r \in Rows /\ n \in Nat /\ acquired_amount(r) \in Nat
    BY <1>1, SwapFacts
<1>3. q \in Positions /\ q # p /\ rows[q].st = "open" /\ rows[q] \in Rows /\ Beside(p) = {q}
    <2>1. q \in Beside(p)
        BY <1>q
    <2>2. \A u \in Beside(p) : u = q
        BY <1>1, <2>1 DEF OneOpen, Beside
    <2>3. q \in Positions /\ q # p /\ rows[q].st = "open"
        BY <2>1 DEF Beside, OpenRows
    <2> QED
        BY <1>1, <2>1, <2>2, <2>3 DEF RowsInv
<1>4. /\ h \in Nat /\ h <= acquired_amount(r) + n
      /\ h = acquired_amount(r) + n \/ item.held <= h + other_open_held(p)
    BY <1>1, <1>2, LateHoldingIs
<1>5. out.row \in Rows /\ out.row.held = 0 /\ out.tokens \in Nat /\ out.row.entry
    <2>4. Splits(out, r, acquired_amount(r) + n)
        BY <1>2, <1>4, <1>o, LegHandedOver
    <2>1. out.row \in Rows /\ out.row.held = 0 /\ out.tokens \in Nat
        BY <2>4 DEF Splits
    <2>2. SameTrade(out.row, r)
        BY <1>2, <1>4, <1>o, HandOverKeepsTrade
    <2>3. r.entry
        BY <1>1 DEF Traded
    <2> QED
        BY <2>1, <2>2, <2>3 DEF SameTrade
<1>6. HandOver(p, s, out, out.tokens < n) /\ Attributable(p)
    BY <1>o DEF LateDca
<1>7. /\ EntriesStay /\ RecordsBy(s) /\ (out.tokens < n \/ out.tokens > 0 => Noted(s)')
      /\ \A u \in Beside(p) : rows'[u].st = "open" /\ rows'[u].entry = rows[u].entry
    BY <1>1, <1>2, <1>5, <1>6, HandOverStays
<1>8. Noted(s)'
    <2>1. n > 0
        BY <1>1, <1>2 DEF SwapsBounded
    <2> QED
        BY <1>2, <1>5, <1>7, <2>1
<1>9. PICK z : z = book_acquisition(rows[q], out.tokens)
    OBVIOUS
<1>10. z.st = "open" /\ z.held = rows[q].held + out.tokens
    <2>1. PICK e, o : e = rows[q] /\ o = out.tokens
        OBVIOUS
    <2>2. Is(z, e.st, e.held + o, e.exited)
        BY <1>3, <1>5, <1>9, <2>1, Bought
    <2> QED
        BY <1>3, <2>1, <2>2 DEF Is
<1>11. rows' = [rows EXCEPT ![p] = out.row, ![q] = z]
    BY <1>3, <1>6, <1>9, <1>q DEF HandOver
<1>12. rows'[p] = out.row /\ rows'[q] = z
    BY <1>1, <1>2, <1>3, <1>11 DEF RowsInv
<1>13. other_open_held(p) = rows[q].held
    BY <1>1, <1>3, BesideHeld
<1>14. ASSUME Quiet' PROVE Settles(s)
    <2>1. Quiet /\ (records' # records => Pending(Sales) \ {s} = {})
        BY <1>14, BookedQuiet
    <2>2. records' # records
        BY <1>8 DEF Noted
    <2>3. Unsold = {}
        BY <2>1, <2>2 DEF Unsold, Pending, Sales
    <2>4. ASSUME NEW t \in Waiting
          PROVE  rows'[swaps[t].pos].st = "open" /\ rows'[swaps[t].pos].entry = rows[swaps[t].pos].entry
        <3>1. rows[swaps[t].pos].st = "open" /\ swaps[t].pos \in Positions
            BY <1>1, <2>1, <2>4, SwapTyped DEF LeftInv, OneWaits, Waiting, Pending
        <3>2. swaps[t].pos \in Beside(p)
            BY <3>1 DEF Beside, OpenRows
        <3> QED
            BY <1>7, <3>2
    <2>5. h <= Worth(out.row) + out.tokens
        BY <1>2, <1>4, <1>o, LegWorth
    <2>6. /\ Value' + Worth(r) + Worth(rows[q]) = Value + Worth(out.row) + Worth(z)
          /\ Value \in Nat /\ Value' \in Nat /\ Worth(out.row) \in Nat /\ Worth(r) \in Nat
        <3>1. PICK e : e = out.row
            OBVIOUS
        <3>2. TwoRowsSet(p, e, q, z) /\ p # q
            BY <1>3, <1>11, <3>1 DEF TwoRowsSet
        <3>3. WorthsMove(p, e, q, z)
            BY <1>1, <1>2, <1>3, <3>2, WorthsMoved
        <3> QED
            BY <3>1, <3>3 DEF WorthsMove
    <2>7. Worth(r) <= acquired_amount(r)
        BY <1>2, WorthTyped
    <2>8. Worth(rows[q]) = rows[q].held /\ Worth(z) = rows[q].held + out.tokens
        BY <1>3, <1>10 DEF Worth
    <2>0. PICK v, d, c, x, y, o, k : /\ v = Value /\ d = Value' /\ c = acquired_amount(r)
                                     /\ x = Worth(r) /\ y = Worth(out.row) /\ o = out.tokens
                                     /\ k = rows[q].held
        OBVIOUS
    <2>9. k \in Nat /\ o \in Nat
        BY <1>3, <1>5, <2>0 DEF Rows
    <2>10. /\ v \in Nat /\ d \in Nat /\ c \in Nat /\ x \in Nat /\ y \in Nat
           /\ d + x + k = v + y + (k + o) /\ x <= c /\ h <= y + o
        BY <1>2, <2>0, <2>5, <2>6, <2>7, <2>8
    <2>11. CASE h = acquired_amount(r) + n
        <3>1. h = c + n
            BY <2>0, <2>11
        <3>2. v + n <= d
            BY <1>2, <2>9, <2>10, <3>1
        <3> QED
            BY <1>8, <2>0, <2>1, <2>4, <3>2, AddSettles
    <2>12. CASE item.held <= h + other_open_held(p)
        <3>1. y + (k + o) <= d
            <4>1. PICK g : g = Worths'
                OBVIOUS
            <4>2. g \in [Positions -> Nat] /\ g[p] = y /\ g[q] = k + o
                BY <1>1, <1>2, <1>3, <1>12, <2>0, <2>8, <4>1, WorthsTyped DEF Worths
            <4>3. g[p] + g[q] <= Sum(g)
                BY <1>2, <1>3, <4>2, PartsOfValue
            <4> QED
                BY <2>0, <4>1, <4>2, <4>3 DEF Value
        <3>2. item.held <= Value'
            <4>1. PICK i : i = item.held
                OBVIOUS
            <4>2. i \in Nat /\ i <= h + k
                BY <1>1, <1>13, <2>0, <2>12, <4>1 DEF SwapsInv
            <4>3. i <= d
                BY <1>4, <2>9, <2>10, <3>1, <4>2
            <4> QED
                BY <2>0, <4>1, <4>3
        <3> QED
            BY <1>8, <2>1, <2>3, <2>4, <3>2, AddSettles
    <2> QED
        BY <1>4, <2>11, <2>12
<1> QED
    BY <1>7, <1>14, BookedLeft

\* DcaVerified
LEMMA AddLeft ==
    ASSUME BooksConstants, Inv, Inv', BackInv, BoundsInv, LeftInv, NEW s \in Sigs, BookAdd(s)
    PROVE  LeftInv'
<1> PICK p, n, r : p = swaps[s].pos /\ n = swaps[s].amount /\ r = rows[p]
    OBVIOUS
<1>1. RowsInv /\ RowsInv' /\ SwapsInv /\ OrderInv /\ HeldBought /\ Traded
    BY DEF Inv, BackInv, LeftInv
<1>2. p \in Positions /\ r \in Rows /\ n \in Nat
    BY <1>1, SwapFacts
<1>3. Booked(s) /\ swaps[s].kind = "dca" /\ r.st # "none" /\ writtenOff' = writtenOff
    BY DEF BookAdd, Booked
<1>4. entry_recorded_for_mint(p, s) <=> Noted(s)
    BY DEF entry_recorded_for_mint, Noted
<1>5. r.entry
    BY <1>1, <1>3 DEF Traded
<1>6. CASE Noted(s)
    <2>1. rows' = rows /\ records' = records
        BY <1>4, <1>6 DEF BookAdd
    <2>2. \A u \in Positions : SameRow(rows'[u], rows[u])
        BY <2>1 DEF SameRow
    <2> QED
        BY <1>3, <1>6, <2>1, <2>2, IdleLeft
<1>7. CASE ~ Noted(s) /\ r.st = "closed"
    <2>1. LateDca(p, s)
        BY <1>4, <1>7 DEF BookAdd
    <2>2. CASE Beside(p) = {}
        BY <1>3, <1>7, <2>1, <2>2, LateAddAlone
    <2>3. CASE Beside(p) # {}
        BY <1>3, <1>7, <2>1, <2>3, LateAddBeside
    <2> QED
        BY <2>2, <2>3
<1>8. CASE ~ Noted(s) /\ r.st # "closed"
    <2>1. PICK a : a = book_acquisition(r, n)
        OBVIOUS
    <2>2. OnRow(p, s, a)
        BY <1>4, <1>8, <2>1 DEF BookAdd
    <2>3. r.st = "open"
        BY <1>2, <1>3, <1>8 DEF Rows
    <2>4. a.st = "open" /\ a.held = r.held + n /\ a.entry = r.entry
        BY <1>2, <2>1, <2>3, Bought, RulesKeepTrade DEF Is, SameTrade
    <2>5. /\ EntriesStay /\ RecordsBy(s) /\ Noted(s)' /\ rows' = [rows EXCEPT ![p] = a]
          /\ rows'[p] = a /\ \A u \in Positions : u # p => rows'[u] = rows[u]
        BY <1>1, <1>2, <1>5, <2>2, <2>4, OnRowStays
    <2>6. ASSUME Quiet' PROVE Settles(s)
        <3>1. Quiet
            BY <1>3, <2>6, BookedQuiet
        <3>2. ASSUME NEW t \in Waiting
              PROVE  rows'[swaps[t].pos].st = "open" /\ rows'[swaps[t].pos].entry = rows[swaps[t].pos].entry
            <4>1. rows[swaps[t].pos].st = "open" /\ swaps[t].pos \in Positions
                BY <1>1, <3>1, <3>2, SwapTyped DEF LeftInv, OneWaits, Waiting, Pending
            <4>2. CASE swaps[t].pos = p
                BY <2>4, <2>5, <4>2
            <4>3. CASE swaps[t].pos # p
                BY <2>5, <4>1, <4>3
            <4> QED
                BY <4>2, <4>3
        <3>3. Value + n <= Value'
            <4>0. PICK v, d, k : v = Value /\ d = Value' /\ k = r.held
                OBVIOUS
            <4>1. Value' + Worth(r) = Value + Worth(a) /\ Value \in Nat /\ Value' \in Nat
                BY <1>1, <1>2, <2>5, WorthMoved
            <4>2. Worth(r) = k /\ Worth(a) = k + n
                BY <2>3, <2>4, <4>0 DEF Worth
            <4>3. d + k = v + (k + n) /\ d \in Nat /\ v \in Nat /\ k \in Nat
                BY <1>2, <4>0, <4>1, <4>2 DEF Rows
            <4>4. v + n <= d
                BY <1>2, <4>3
            <4> QED
                BY <4>0, <4>4
        <3> QED
            BY <1>3, <1>8, <2>5, <3>1, <3>2, <3>3, AddSettles
    <2> QED
        BY <1>3, <2>5, <2>6, BookedLeft
<1> QED
    BY <1>6, <1>7, <1>8

-----------------------------------------------------------------------------
(* The calls, the chain and the reading leave everything placed *)

\* The swap that is verified is one of them, and has landed.
LEMMA ItemLands ==
    ASSUME SwapsInv, SwapsBounded, OrderInv, item # NoItem
    PROVE  item.sig \in Sigs /\ swaps[item.sig].st = "landed" /\ item.sig \in Numbers
<1>1. item.sig \in Sigs /\ swaps[item.sig].st = "landed"
    BY DEF OrderInv, ItemLanded
<1>2. Sigs = 1 .. Len(swaps) /\ Len(swaps) \in Nat
    BY LenProperties DEF SwapsInv, Sigs
<1>3. Len(swaps) <= MaxSwaps /\ MaxSwaps \in Nat
    BY BooksConstants DEF SwapsBounded, BooksConstants
<1>4. item.sig \in Numbers
    BY <1>1, <1>2, <1>3 DEF Numbers
<1> QED
    BY <1>1, <1>4

\* A sale is sent when nothing waits.
LEMMA NoneWaits ==
    ASSUME SwapsInv, OneOpen, Quiet => OneWaits, NEW p \in Positions, rows[p].st = "open", rows[p].entry,
           NEW kind \in Sales, NEW a, Send(kind, p, a), writtenOff' = writtenOff, Quiet'
    PROVE  Waiting = {}
<1>1. overlapped \subseteq overlapped' /\ "sales" \notin Overlap(kind, p)
    BY DEF Send, Quiet
<1>2. Quiet
    BY <1>1 DEF Quiet
<1>3. ASSUME NEW t \in Waiting PROVE FALSE
    <2>1. /\ t \in Sigs /\ swaps[t].kind \in {"entry"} \union Sales /\ swaps[t].st # "settled"
          /\ rows[swaps[t].pos].st = "open" /\ (swaps[t].kind = "entry" => ~ rows[swaps[t].pos].entry)
        BY <1>2, <1>3 DEF OneWaits, Waiting, Pending
    <2>2. swaps[t].pos = p
        BY <2>1, SwapTyped DEF OneOpen, OpenRows
    <2>3. swaps[t].kind \in Sales /\ t \in Unsettled(p)
        BY <2>1, <2>2 DEF Unsettled
    <2> QED
        BY <1>1, <2>3 DEF Overlap
<1> QED
    BY <1>3

\* A swap that is sent changes no row that has its entry, and is the one that waits.
LEMMA SentLeft ==
    ASSUME BooksConstants, Inv, Inv', BackInv, BoundsInv, LeftInv, NEW kind, NEW p \in Positions, NEW a,
           Send(kind, p, a), UNCHANGED <<records, wallet, item, writtenOff>>,
           \A u \in Positions : /\ rows'[u].entry = rows[u].entry /\ rows'[u].held = rows[u].held
                                /\ Worth(rows'[u]) = Worth(rows[u])
                                /\ rows[u].entry \/ rows[u].st = "open" => SameRow(rows'[u], rows[u]),
           rows'[p].st = "open", IF kind = "entry" THEN ~ rows[p].entry ELSE rows[p].entry,
           Quiet' => kind = "dca" \/ Waiting = {}
    PROVE  LeftInv'
<1> PICK n : n = Len(swaps) + 1
    OBVIOUS
<1>1. RowsInv /\ SwapsInv /\ SwapsInv' /\ OrderInv /\ SwapsBounded /\ Traded /\ HeldBought
    BY DEF Inv, BackInv, BoundsInv, LeftInv
<1>2. Grown(n, kind, p, a)
    BY <1>1, GrownBy
<1>3. /\ n \notin Sigs /\ Sigs' = Sigs \union {n} /\ \A t \in Sigs : swaps'[t] = swaps[t]
      /\ swaps'[n].kind = kind /\ swaps'[n].pos = p /\ swaps'[n].st = "sent"
    BY <1>2 DEF Grown
<1>4. \A t : Noted(t)' <=> Noted(t)
    BY DEF Noted
<1>5. Traded'
    <2>1. ASSUME NEW t \in Sigs', swaps'[t].kind # "entry" PROVE rows'[swaps'[t].pos].entry
        <3>1. CASE t = n
            BY <1>3, <2>1, <3>1
        <3>2. CASE t # n
            <4>1. t \in Sigs /\ swaps'[t] = swaps[t]
                BY <1>3, <3>2
            <4>2. swaps[t].pos \in Positions
                BY <1>1, <4>1, SwapTyped
            <4> QED
                BY <1>1, <2>1, <4>1, <4>2 DEF Traded
        <3> QED
            BY <3>1, <3>2
    <2> QED
        BY <2>1 DEF Traded
<1>6. HeldBought'
    BY <1>1 DEF HeldBought
<1>7. ASSUME Quiet' PROVE OneWaits' /\ ReadAll' /\ ReadSold' /\ Placed'
    <2>1. Quiet
        BY <1>7 DEF Quiet, Send
    <2>2. OneWaits /\ ReadAll /\ ReadSold /\ Placed
        BY <2>1 DEF LeftInv
    <2>3. ASSUME NEW t \in Waiting'
          PROVE  IF t = n THEN kind # "dca" ELSE t \in Waiting /\ swaps'[t] = swaps[t]
        <3>1. t \in Sigs' /\ swaps'[t].kind \in {"entry"} \union Sales /\ swaps'[t].st # "settled"
              /\ ~ Noted(t)'
            BY <2>3 DEF Waiting, Pending
        <3>2. CASE t = n
            BY <1>3, <3>1, <3>2 DEF Sales
        <3>3. CASE t # n
            BY <1>3, <1>4, <3>1, <3>3 DEF Waiting, Pending
        <3> QED
            BY <3>2, <3>3
    <2>4. OneWaits'
        <3>1. \A t, u \in Waiting' : t = u
            BY <1>7, <2>2, <2>3 DEF OneWaits
        <3>2. ASSUME NEW t \in Waiting'
              PROVE  /\ rows'[swaps'[t].pos].st = "open"
                     /\ swaps'[t].kind = "entry" => ~ rows'[swaps'[t].pos].entry
            <4>1. CASE t = n
                BY <1>3, <4>1
            <4>2. CASE t # n
                <5>1. t \in Waiting /\ swaps'[t] = swaps[t]
                    BY <2>3, <4>2
                <5>2. swaps[t].pos \in Positions
                    BY <1>1, <5>1, SwapTyped DEF Waiting, Pending
                <5>3. /\ rows[swaps[t].pos].st = "open"
                      /\ swaps[t].kind = "entry" => ~ rows[swaps[t].pos].entry
                    BY <2>2, <5>1 DEF OneWaits
                <5> QED
                    BY <5>1, <5>2, <5>3 DEF SameRow
            <4> QED
                BY <4>1, <4>2
        <3> QED
            BY <3>1, <3>2 DEF OneWaits
    <2>5. Unclaimed' = Unclaimed /\ Awaited' = Awaited
        BY <1>2, AwaitedSent
    <2>6. ReadAll'
        BY <2>2, <2>5 DEF ReadAll
    <2>7. ReadSold'
        <3>1. ASSUME item # NoItem, swaps'[item.sig].kind = "exit"
              PROVE  /\ swaps'[item.sig] = swaps[item.sig] /\ swaps[item.sig].pos \in Positions
                     /\ SameRow(rows'[swaps[item.sig].pos], rows[swaps[item.sig].pos])
            <4>1. item.sig \in Sigs
                BY <1>1, <3>1, ItemLands
            <4>2. swaps'[item.sig] = swaps[item.sig] /\ swaps[item.sig].pos \in Positions
                BY <1>1, <1>3, <4>1, SwapTyped
            <4>3. rows[swaps[item.sig].pos].entry
                BY <1>1, <3>1, <4>1, <4>2 DEF Traded
            <4> QED
                BY <4>2, <4>3
        <3> QED
            BY <2>2, <3>1 DEF ReadSold, SameRow, SoldOut
    <2>8. Value' = Value
        BY ValueStill
    <2>9. ASSUME NEW t \in Unsold' PROVE t \in Unsold /\ swaps'[t] = swaps[t]
        <3>1. t \in Sigs' /\ swaps'[t].kind \in Sales /\ swaps'[t].st = "landed" /\ ~ Noted(t)'
            BY <2>9 DEF Unsold
        <3>2. t \in Sigs /\ swaps'[t] = swaps[t]
            BY <1>3, <3>1
        <3> QED
            BY <1>4, <3>1, <3>2 DEF Unsold
    <2>10. Placed'
        BY <2>2, <2>5, <2>8, <2>9 DEF Placed
    <2> QED
        BY <2>4, <2>6, <2>7, <2>10
<1> QED
    BY <1>5, <1>6, <1>7 DEF LeftInv

\* A call sends a swap of a position that has its entry, or the first entry.
LEMMA CallsLeft ==
    ASSUME BooksConstants, ~ EarlyTrades, Inv, Inv', BackInv, BoundsInv, LeftInv, NEW p \in Positions,
           SendEntry(p) \/ SendAdd(p) \/ SendPartial(p) \/ SendExit(p)
    PROVE  LeftInv'
<1>1. /\ RowsInv /\ SwapsInv /\ OneOpen /\ HeldBought /\ (Quiet => OneWaits)
      /\ rows[p] \in Rows
    BY DEF Inv, RowsInv, BackInv, OrderInv, LeftInv
<1>2. CASE SendEntry(p)
    <2>1. PICK a : Send("entry", p, a)
        BY <1>2 DEF SendEntry
    <2>2. OpenRows = {} /\ rows[p] = NoRow /\ UNCHANGED <<records, wallet, item, writtenOff>>
        BY <1>2 DEF SendEntry
    <2>3. PICK r, c : r = rows[p] /\ c = [r EXCEPT !.st = "open"]
        OBVIOUS
    <2>4. /\ r.st = "none" /\ ~ r.entry /\ r.held = 0
          /\ c.st = "open" /\ c.entry = r.entry /\ c.held = 0
        BY <1>1, <2>2, <2>3 DEF NoRow
    <2>5. Worth(c) = 0 /\ Worth(r) = 0
        BY <2>4 DEF Worth, left_as_dust
    <2>6. rows'[p] = c /\ \A u \in Positions : u # p => rows'[u] = rows[u]
        BY <1>1, <1>2, <2>3 DEF SendEntry, RowsInv
    <2>7. \A u \in Positions : /\ rows'[u].entry = rows[u].entry /\ rows'[u].held = rows[u].held
                               /\ Worth(rows'[u]) = Worth(rows[u])
                               /\ rows[u].entry \/ rows[u].st = "open" => SameRow(rows'[u], rows[u])
        <3>1. ASSUME NEW u \in Positions
              PROVE  /\ rows'[u].entry = rows[u].entry /\ rows'[u].held = rows[u].held
                     /\ Worth(rows'[u]) = Worth(rows[u])
                     /\ rows[u].entry \/ rows[u].st = "open" => SameRow(rows'[u], rows[u])
            <4>1. CASE u = p
                BY <2>3, <2>4, <2>5, <2>6, <4>1
            <4>2. CASE u # p
                BY <2>6, <4>2 DEF SameRow
            <4> QED
                BY <4>1, <4>2
        <3> QED
            BY <3>1
    <2>8. Quiet' => Waiting = {}
        <3>1. ASSUME Quiet' PROVE Waiting = {}
            <4>1. Quiet
                BY <2>1, <2>2, <3>1 DEF Quiet, Send
            <4>2. ASSUME NEW t \in Waiting PROVE FALSE
                <5>1. rows[swaps[t].pos].st = "open" /\ swaps[t].pos \in Positions
                    BY <1>1, <4>1, <4>2, SwapTyped DEF OneWaits, Waiting, Pending
                <5> QED
                    BY <2>2, <5>1 DEF OpenRows
            <4> QED
                BY <4>2
        <3> QED
            BY <3>1
    <2> QED
        BY <2>1, <2>2, <2>3, <2>4, <2>6, <2>7, <2>8, SentLeft
<1>3. ASSUME rows' = rows \/ \E x : rows' = [rows EXCEPT ![p].exit = x]
      PROVE  \A u \in Positions : /\ rows'[u].entry = rows[u].entry /\ rows'[u].held = rows[u].held
                                  /\ Worth(rows'[u]) = Worth(rows[u])
                                  /\ rows'[u].st = rows[u].st /\ SameRow(rows'[u], rows[u])
    <2>1. CASE rows' = rows
        BY <2>1 DEF SameRow
    <2>2. ASSUME NEW x, rows' = [rows EXCEPT ![p].exit = x]
          PROVE  \A u \in Positions : SameRow(rows'[u], rows[u])
        <3>1. PICK c : c = [rows[p] EXCEPT !.exit = x]
            OBVIOUS
        <3>2. rows'[p] = c /\ \A u \in Positions : u # p => rows'[u] = rows[u]
            BY <1>1, <2>2, <3>1 DEF RowsInv
        <3>3. SameRow(c, rows[p])
            BY <1>1, <3>1 DEF SameRow, Rows
        <3> QED
            BY <3>2, <3>3 DEF SameRow
    <2>3. \A u \in Positions : SameRow(rows'[u], rows[u])
        BY <1>3, <2>1, <2>2
    <2> QED
        BY <2>3, SameWorth DEF SameRow
<1>4. CASE SendAdd(p)
    <2>1. PICK a : Send("dca", p, a)
        BY <1>4 DEF SendAdd
    <2>2. /\ rows[p].st = "open" /\ rows[p].entry /\ rows' = rows
          /\ UNCHANGED <<records, wallet, item, writtenOff>>
        BY <1>4 DEF SendAdd
    <2> QED
        BY <1>3, <2>1, <2>2, SentLeft
<1>5. CASE SendPartial(p)
    <2>1. PICK a \in partial_exit_amount(p) : Send("partial", p, a)
        BY <1>5 DEF SendPartial
    <2>2. rows[p].st = "open" /\ rows' = rows /\ UNCHANGED <<records, wallet, item, writtenOff>>
        BY <1>5 DEF SendPartial
    <2>3. rows[p].entry
        <3>1. PICK h, w : h = rows[p].held /\ w = wallet
            OBVIOUS
        <3>2. h \in Nat /\ w \in Nat /\ a \in 1 .. Monus(Least(h, w), 1)
            BY <1>1, <2>1, <3>1 DEF partial_exit_amount, Rows, SwapsInv
        <3>3. h > 0
            BY <3>2 DEF Monus, Least
        <3> QED
            BY <1>1, <3>1, <3>3 DEF HeldBought
    <2>4. Quiet' => Waiting = {}
        BY <1>1, <2>1, <2>2, <2>3, NoneWaits DEF Sales
    <2> QED
        BY <1>3, <2>1, <2>2, <2>3, <2>4, SentLeft
<1>6. CASE SendExit(p)
    <2>1. PICK a : Send("exit", p, a)
        BY <1>6 DEF SendExit
    <2>2. /\ rows[p].st = "open" /\ rows[p].entry /\ \E x : rows' = [rows EXCEPT ![p].exit = x]
          /\ UNCHANGED <<records, wallet, item, writtenOff>>
        BY <1>6 DEF SendExit
    <2>3. Quiet' => Waiting = {}
        BY <1>1, <2>1, <2>2, NoneWaits DEF Sales
    <2> QED
        BY <1>3, <2>1, <2>2, <2>3, SentLeft
<1> QED
    BY <1>2, <1>4, <1>5, <1>6

\* force_close_position: what is written off may be lost.
LEMMA WriteOffLeft ==
    ASSUME BooksConstants, Inv, LeftInv, NEW p \in Positions, WriteOff(p)
    PROVE  LeftInv'
<1>1. RowsInv /\ SwapsInv /\ rows[p] \in Rows /\ Traded /\ HeldBought
    BY DEF Inv, RowsInv, LeftInv
<1>2. PICK e, a, c : /\ e = book_remaining_as_exited(rows[p]) /\ a = [e EXCEPT !.st = "closed"]
                     /\ c = [a EXCEPT !.synth = TRUE]
    OBVIOUS
<1>3. e \in Rows /\ e.entry = rows[p].entry /\ e.held = 0
    BY <1>1, <1>2, RestExited, RulesKeepTrade DEF Is, SameTrade
<1>4. c.entry = rows[p].entry /\ c.held = 0
    BY <1>2, <1>3 DEF Rows
<1>5. rows' = [rows EXCEPT ![p] = c] /\ swaps' = swaps /\ writtenOff'
    BY <1>2 DEF WriteOff
<1>6. rows'[p] = c /\ \A u \in Positions : u # p => rows'[u] = rows[u]
    BY <1>1, <1>5 DEF RowsInv
<1>7. Traded'
    <2>1. ASSUME NEW t \in Sigs', swaps'[t].kind # "entry" PROVE rows'[swaps'[t].pos].entry
        <3>1. t \in Sigs /\ swaps'[t] = swaps[t] /\ swaps[t].pos \in Positions /\ rows[swaps[t].pos].entry
            BY <1>1, <1>5, <2>1, SwapTyped DEF Traded, Sigs
        <3> QED
            BY <1>4, <1>6, <3>1
    <2> QED
        BY <2>1 DEF Traded
<1>8. HeldBought'
    <2>1. ASSUME NEW u \in Positions, rows'[u].held > 0 PROVE rows'[u].entry
        <3>1. u # p
            BY <1>4, <1>6, <2>1
        <3> QED
            BY <1>1, <1>6, <2>1, <3>1 DEF HeldBought
    <2> QED
        BY <2>1 DEF HeldBought
<1>9. ~ Quiet'
    BY <1>5 DEF Quiet
<1> QED
    BY <1>7, <1>8, <1>9 DEF LeftInv

\* A swap that lands brings what is awaited, or takes what its sale will book.
LEMMA LandLeft ==
    ASSUME BooksConstants, Inv, Inv', BackInv, BoundsInv, LeftInv, NEW s \in Sigs, Land(s)
    PROVE  LeftInv'
<1>1. RowsInv /\ SwapsInv /\ SwapsInv' /\ OrderInv /\ SwapsBounded /\ Traded /\ HeldBought
    BY DEF Inv, BackInv, BoundsInv, LeftInv
<1>2. /\ rows' = rows /\ records' = records /\ item' = item
      /\ writtenOff' = writtenOff /\ overlapped' = overlapped
      /\ swaps[s].st = "sent" /\ swaps' = [swaps EXCEPT ![s].st = "landed"]
    BY DEF Land, history
<1>3. Marked(s, "landed") /\ RecordsBy(s)
    BY <1>1, <1>2, MarkedBy DEF RecordsBy
<1>4. ~ Noted(s) /\ ~ Noted(s)'
    BY <1>1, <1>2 DEF Noted, OrderInv, RecordsLanded
<1>5. \A t \in Sigs' : t \in Sigs /\ swaps'[t].kind = swaps[t].kind /\ swaps'[t].pos = swaps[t].pos
    BY <1>3 DEF Marked
<1>6. Traded' /\ HeldBought'
    BY <1>1, <1>2, <1>5 DEF Traded, HeldBought
<1>7. ASSUME Quiet' PROVE OneWaits' /\ ReadAll' /\ ReadSold' /\ Placed'
    <2>1. OneWaits /\ ReadAll /\ ReadSold /\ Placed
        BY <1>2, <1>7 DEF LeftInv, Quiet
    <2>2. /\ \A t \in Waiting' : /\ t \in Waiting /\ swaps'[t].kind = swaps[t].kind
                                /\ swaps'[t].pos = swaps[t].pos
          /\ \A t \in Unsold' : (t = s \/ t \in Unsold) /\ swaps'[t].amount = swaps[t].amount
        BY <1>2, <1>3, WaitingMarked
    <2>3. OneWaits'
        BY <1>2, <2>1, <2>2 DEF OneWaits
    <2>4. ReadSold'
        <3>1. ASSUME item # NoItem
              PROVE  /\ swaps'[item.sig].kind = swaps[item.sig].kind
                     /\ swaps'[item.sig].pos = swaps[item.sig].pos
            <4>1. item.sig \in Sigs
                BY <1>1, <3>1, ItemLands
            <4> QED
                BY <1>3, <4>1 DEF Marked
        <3> QED
            BY <1>2, <2>1, <3>1 DEF ReadSold
    <2>0. PICK v, w, k, l, a, u : /\ v = Value /\ w = wallet /\ k = Awaited /\ l = Awaited'
                                  /\ a = swaps[s].amount /\ u = Unclaimed'[s]
        OBVIOUS
    <2>5. /\ Awaited' + Unclaimed[s] = Awaited + Unclaimed'[s] /\ Awaited \in Nat /\ Awaited' \in Nat
          /\ \A n \in Numbers : n # s => Unclaimed'[n] = Unclaimed[n]
        BY <1>1, <1>3, AwaitedMoves
    <2>6. /\ Unclaimed[s] = 0 /\ a \in Nat
          /\ u = IF swaps[s].kind \in Buys THEN a ELSE 0
        BY <1>1, <1>2, <1>3, <1>4, <2>0, UnclaimedAt
    <2>7. v \in Nat /\ w \in Nat /\ k \in Nat /\ l \in Nat /\ u \in Nat /\ l = k + u
        BY <1>1, <2>0, <2>5, <2>6, WorthsTyped DEF SwapsInv
    <2>8. Value' = v
        BY <1>2, <2>0 DEF Value, Worths
    <2>9. w <= v + k
        BY <2>0, <2>1 DEF Placed
    <2>10. wallet' \in Nat /\ wallet' <= w + u /\ (swaps[s].kind \notin Buys => wallet' + a = w)
        <3>1. CASE swaps[s].kind \in Buys
            BY <2>0, <2>6, <2>7, <3>1 DEF Land
        <3>2. CASE swaps[s].kind \notin Buys
            <4>1. swaps[s].kind \in Sales
                BY <1>1, <3>2, SwapTyped
            <4>2. w >= a /\ wallet' = w - a
                BY <2>0, <3>2, <4>1 DEF Land
            <4> QED
                BY <2>6, <2>7, <3>2, <4>2
        <3> QED
            BY <3>1, <3>2
    <2>11. PICK x : x = wallet'
        OBVIOUS
    <2>15. x \in Nat /\ x <= w + u
        BY <2>10, <2>11
    <2>12. wallet' <= Value' + Awaited'
        <3>1. x <= v + l
            BY <2>7, <2>9, <2>10, <2>11
        <3> QED
            BY <2>0, <2>8, <2>11, <3>1
    <2>13. ASSUME NEW t \in Unsold' PROVE wallet' + swaps'[t].amount <= Value' + Awaited'
        <3>1. swaps'[t].amount = swaps[t].amount /\ (t = s \/ t \in Unsold)
            BY <2>2, <2>13
        <3>2. CASE t = s
            <4>1. swaps[s].kind \in Sales
                BY <1>5, <2>13, <3>2 DEF Unsold
            <4>2. x + a = w
                BY <2>10, <2>11, <4>1 DEF Sales, Buys
            <4>3. x + a <= v + l
                BY <2>7, <2>9, <4>2
            <4> QED
                BY <2>0, <2>8, <2>11, <3>1, <3>2, <4>3
        <3>3. CASE t # s
            <4>1. t \in Unsold /\ t \in Waiting
                BY <3>1, <3>3, UnsoldWaits
            <4>2. s \notin Waiting
                BY <2>1, <3>3, <4>1 DEF OneWaits
            <4>3. swaps[s].kind \notin Sales
                BY <1>2, <1>4, <4>2 DEF Waiting, Pending
            <4>4. PICK c : c = swaps[t].amount
                OBVIOUS
            <4>5. c \in Nat
                BY <1>1, <4>1, <4>4, SwapTyped DEF Unsold
            <4>6. w + c <= v + k
                BY <2>0, <2>1, <4>1, <4>4 DEF Placed
            <4>7. x + c <= v + l
                BY <2>7, <2>15, <4>5, <4>6
            <4> QED
                BY <2>0, <2>8, <2>11, <3>1, <4>4, <4>7
        <3> QED
            BY <3>2, <3>3
    <2>14. ReadAll'
        <3>1. ASSUME item # NoItem PROVE wallet' + Unclaimed'[item.sig] <= item.held + Awaited'
            <4>1. item.sig # s /\ item.sig \in Numbers
                BY <1>1, <1>2, <3>1, ItemLands
            <4>2. PICK m, g : m = Unclaimed[item.sig] /\ g = item.held
                OBVIOUS
            <4>3. Unclaimed'[item.sig] = m
                BY <2>5, <4>1, <4>2
            <4>4. m \in Nat /\ g \in Nat
                BY <1>1, <4>1, <4>2, UnclaimedTyped DEF SwapsInv
            <4>5. w + m <= g + k
                BY <2>0, <2>1, <3>1, <4>2 DEF ReadAll
            <4>6. x + m <= g + l
                BY <2>7, <2>15, <4>4, <4>5
            <4> QED
                BY <2>0, <2>11, <4>2, <4>3, <4>6
        <3> QED
            BY <1>2, <3>1 DEF ReadAll
    <2> QED
        BY <2>3, <2>4, <2>12, <2>13, <2>14 DEF Placed
<1> QED
    BY <1>6, <1>7 DEF LeftInv

\* The rows when a swap never landed: as they were, or without the position of an entry.
LEMMA NotLandedSame ==
    ASSUME RowsInv, SwapsInv, HeldBought, NEW s \in Sigs, NotLanded(s)
    PROVE  \/ \A u \in Positions : SameRow(rows'[u], rows[u])
           \/ LET p == swaps[s].pos
              IN  /\ p \in Positions /\ swaps[s].kind = "entry" /\ ~ rows[p].entry
                  /\ \A u \in Positions : u # p => rows'[u] = rows[u]
                  /\ rows'[p].held = 0 /\ ~ rows'[p].entry
                  /\ Worth(rows'[p]) = 0 /\ Worth(rows[p]) = 0
<1> PICK p : p = swaps[s].pos
    OBVIOUS
<1>1. p \in Positions /\ rows[p] \in Rows
    BY SwapFacts
<1>2. CASE swaps[s].kind = "exit"
    <2>1. PICK c : c = clear_exit_for_retry(rows[p], s)
        OBVIOUS
    <2>2. rows' = [rows EXCEPT ![p] = c]
        BY <1>2, <2>1 DEF NotLanded
    <2>3. SameRow(c, rows[p])
        BY <1>1, <2>1, ClearedSame
    <2>4. rows'[p] = c /\ \A u \in Positions : u # p => rows'[u] = rows[u]
        BY <1>1, <2>2 DEF RowsInv
    <2> QED
        BY <2>3, <2>4 DEF SameRow
<1>3. CASE swaps[s].kind = "entry" /\ Orphan(p, s)
    <2>1. rows' = [rows EXCEPT ![p] = NoRow] /\ rows[p].st = "open" /\ ~ rows[p].entry
        BY <1>3 DEF NotLanded, Orphan
    <2>2. rows'[p] = NoRow /\ \A u \in Positions : u # p => rows'[u] = rows[u]
        BY <1>1, <2>1 DEF RowsInv
    <2>3. Worth(NoRow) = 0 /\ NoRow.held = 0 /\ ~ NoRow.entry
        BY DEF NoRow, Worth, left_as_dust
    <2>4. rows[p].held = 0
        BY <1>1, <2>1 DEF HeldBought, Rows
    <2>5. Worth(rows[p]) = 0
        BY <2>1, <2>4 DEF Worth
    <2> QED
        BY <1>1, <1>3, <2>1, <2>2, <2>3, <2>5
<1>4. CASE swaps[s].kind # "exit" /\ ~ (swaps[s].kind = "entry" /\ Orphan(p, s))
    BY <1>4 DEF NotLanded, SameRow
<1> QED
    BY <1>2, <1>3, <1>4

\* A swap that never lands took nothing and brings nothing.
LEMMA NotLandedLeft ==
    ASSUME BooksConstants, Inv, Inv', BackInv, BoundsInv, LeftInv, NEW s \in Sigs, NotLanded(s)
    PROVE  LeftInv'
<1> PICK p : p = swaps[s].pos
    OBVIOUS
<1>1. RowsInv /\ SwapsInv /\ SwapsInv' /\ OrderInv /\ SwapsBounded /\ Traded /\ HeldBought
    BY DEF Inv, BackInv, BoundsInv, LeftInv
<1>2. /\ records' = records /\ item' = item /\ wallet' = wallet
      /\ writtenOff' = writtenOff /\ overlapped' = overlapped
      /\ swaps[s].st = "sent" /\ swaps' = [swaps EXCEPT ![s].st = "settled"]
    BY DEF NotLanded, history
<1>3. Marked(s, "settled") /\ RecordsBy(s)
    BY <1>1, <1>2, MarkedBy DEF RecordsBy
<1>4. ~ Noted(s)
    BY <1>1, <1>2 DEF Noted, OrderInv, RecordsLanded
<1>5. \A t \in Sigs' : t \in Sigs /\ swaps'[t].kind = swaps[t].kind /\ swaps'[t].pos = swaps[t].pos
    BY <1>3 DEF Marked
<1>6. /\ \A u \in Positions : /\ rows[u].entry => SameRow(rows'[u], rows[u])
                              /\ rows'[u].held > 0 => rows'[u].entry
                              /\ Worth(rows'[u]) = Worth(rows[u])
      /\ \/ \A u \in Positions : SameRow(rows'[u], rows[u])
         \/ /\ swaps[s].kind = "entry"
            /\ \A u \in Positions : u # p => rows'[u] = rows[u]
    <2>1. CASE \A u \in Positions : SameRow(rows'[u], rows[u])
        BY <1>1, <2>1, SameWorth DEF SameRow, HeldBought
    <2>2. CASE /\ p \in Positions /\ swaps[s].kind = "entry" /\ ~ rows[p].entry
               /\ \A u \in Positions : u # p => rows'[u] = rows[u]
               /\ rows'[p].held = 0 /\ ~ rows'[p].entry
               /\ Worth(rows'[p]) = 0 /\ Worth(rows[p]) = 0
        <3>1. ASSUME NEW u \in Positions
              PROVE  /\ rows[u].entry => SameRow(rows'[u], rows[u])
                     /\ rows'[u].held > 0 => rows'[u].entry
                     /\ Worth(rows'[u]) = Worth(rows[u])
            <4>1. CASE u = p
                BY <2>2, <4>1
            <4>2. CASE u # p
                BY <1>1, <2>2, <4>2 DEF SameRow, HeldBought
            <4> QED
                BY <4>1, <4>2
        <3> QED
            BY <2>2, <3>1
    <2> QED
        BY <1>1, <2>1, <2>2, NotLandedSame
<1>7. Traded'
    <2>1. ASSUME NEW t \in Sigs', swaps'[t].kind # "entry" PROVE rows'[swaps'[t].pos].entry
        <3>1. t \in Sigs /\ swaps'[t].kind = swaps[t].kind /\ swaps'[t].pos = swaps[t].pos
            BY <1>5
        <3>2. swaps[t].pos \in Positions /\ rows[swaps[t].pos].entry
            BY <1>1, <2>1, <3>1, SwapTyped DEF Traded
        <3> QED
            BY <1>6, <3>1, <3>2 DEF SameRow
    <2> QED
        BY <2>1 DEF Traded
<1>8. HeldBought'
    BY <1>6 DEF HeldBought
<1>9. ASSUME Quiet' PROVE OneWaits' /\ ReadAll' /\ ReadSold' /\ Placed'
    <2>1. OneWaits /\ ReadAll /\ ReadSold /\ Placed
        BY <1>2, <1>9 DEF LeftInv, Quiet
    <2>2. /\ \A t \in Waiting' : /\ t \in Waiting /\ swaps'[t].kind = swaps[t].kind
                                /\ swaps'[t].pos = swaps[t].pos
          /\ s \notin Waiting' /\ s \notin Unsold'
          /\ \A t \in Unsold' : (t = s \/ t \in Unsold) /\ swaps'[t].amount = swaps[t].amount
        BY <1>2, <1>3, WaitingMarked
    <2>3. ASSUME NEW t \in Waiting' PROVE SameRow(rows'[swaps[t].pos], rows[swaps[t].pos])
        <3>1. t \in Waiting /\ t # s /\ swaps[t].pos \in Positions
            BY <1>1, <2>2, <2>3, SwapTyped DEF Waiting, Pending
        <3>2. s \notin Waiting
            BY <2>1, <3>1 DEF OneWaits
        <3>3. swaps[s].kind # "entry"
            BY <1>2, <1>4, <3>2 DEF Waiting, Pending
        <3> QED
            BY <1>6, <3>1, <3>3
    <2>4. OneWaits'
        BY <2>1, <2>2, <2>3 DEF OneWaits, SameRow
    <2>5. ASSUME item # NoItem
          PROVE  /\ item.sig \in Sigs /\ item.sig # s /\ item.sig \in Numbers
                 /\ swaps'[item.sig].kind = swaps[item.sig].kind /\ swaps'[item.sig].pos = swaps[item.sig].pos
        <3>1. item.sig \in Sigs /\ item.sig # s /\ item.sig \in Numbers
            BY <1>1, <1>2, <2>5, ItemLands
        <3> QED
            BY <1>3, <3>1 DEF Marked
    <2>6. ReadSold'
        <3>1. ASSUME item # NoItem, swaps'[item.sig].kind = "exit"
              PROVE  SameRow(rows'[swaps[item.sig].pos], rows[swaps[item.sig].pos])
            <4>1. item.sig \in Sigs /\ swaps[item.sig].kind = "exit"
                BY <2>5, <3>1
            <4>2. swaps[item.sig].pos \in Positions /\ rows[swaps[item.sig].pos].entry
                BY <1>1, <4>1, SwapTyped DEF Traded
            <4> QED
                BY <1>6, <4>2
        <3> QED
            BY <1>2, <2>1, <2>5, <3>1 DEF ReadSold, SameRow, SoldOut
    <2>7. Awaited' = Awaited /\ \A n \in Numbers : n # s => Unclaimed'[n] = Unclaimed[n]
        <3>1. /\ Awaited' + Unclaimed[s] = Awaited + Unclaimed'[s]
              /\ Awaited \in Nat /\ Awaited' \in Nat
              /\ \A n \in Numbers : n # s => Unclaimed'[n] = Unclaimed[n]
            BY <1>1, <1>3, AwaitedMoves
        <3>2. Unclaimed[s] = 0 /\ Unclaimed'[s] = 0
            BY <1>1, <1>2, <1>3, UnclaimedAt
        <3> QED
            BY <3>1, <3>2
    <2>8. ReadAll'
        BY <1>2, <2>1, <2>5, <2>7 DEF ReadAll
    <2>9. Value' = Value
        BY <1>6, ValueStill
    <2>10. Placed'
        BY <1>2, <2>1, <2>2, <2>7, <2>9 DEF Placed
    <2> QED
        BY <2>4, <2>6, <2>8, <2>10
<1> QED
    BY <1>7, <1>8, <1>9 DEF LeftInv

\* verify_transaction: what is read is what the wallet holds, and a full exit that is read as
\* complete left nothing, or dust of its row.
LEMMA ReadLeft ==
    ASSUME BooksConstants, Inv, BackInv, BoundsInv, LeftInv, NEW s \in Sigs, Read(s)
    PROVE  LeftInv'
<1> PICK p, r : p = swaps[s].pos /\ r = rows[p]
    OBVIOUS
<1>1. RowsInv /\ SwapsInv /\ OneOpen /\ SwapsBounded /\ Traded /\ HeldBought
    BY DEF Inv, BackInv, OrderInv, BoundsInv, LeftInv
<1>2. /\ rows' = rows /\ swaps' = swaps /\ records' = records /\ wallet' = wallet
      /\ writtenOff' = writtenOff /\ overlapped' = overlapped
    BY DEF Read, history
<1>3. /\ item' = [sig |-> s, held |-> wallet,
                  residual |-> swaps[s].kind = "exit" /\ LeavesResidual(p, s)]
      /\ swaps[s].st = "landed"
    BY DEF Read
<1>4. item'.sig = s /\ item'.held = wallet
      /\ item'.residual = (swaps[s].kind = "exit" /\ LeavesResidual(p, s))
    BY <1>3
<1>5. Traded' /\ HeldBought'
    BY <1>1, <1>2 DEF Traded, HeldBought, Sigs
<1>6. Unclaimed' = Unclaimed /\ Awaited' = Awaited
    <2>1. Unclaimed' = Unclaimed
        BY <1>2 DEF Unclaimed, Sigs, Noted
    <2> QED
        BY <2>1 DEF Awaited
<1>7. ASSUME Quiet' PROVE OneWaits' /\ Placed'
    <2>1. OneWaits /\ Placed
        BY <1>2, <1>7 DEF LeftInv, Quiet
    <2>2. Value' = Value
        BY <1>2 DEF Value, Worths
    <2>3. Waiting' = Waiting /\ Unsold' = Unsold
        BY <1>2 DEF Waiting, Unsold, Pending, Sigs, Noted
    <2> QED
        BY <1>2, <1>6, <2>1, <2>2, <2>3 DEF OneWaits, Placed
<1>8. ReadAll'
    <2>1. swaps' = swaps
        BY <1>2
    <2>2. PICK x : x = swaps[s].st /\ Marked(s, x)
        BY <2>1, MarkedStill
    <2>3. s \in Numbers
        BY <1>1, <2>2, UnclaimedAt
    <2>4. PICK f : f = Unclaimed
        OBVIOUS
    <2>5. f \in [Numbers -> Nat] /\ IsFiniteSet(Numbers)
        BY <1>1, <2>4, UnclaimedTyped, Numbered
    <2>6. f[s] <= Sums(f, Numbers)[Numbers] /\ f[s] \in Nat
        BY <2>3, <2>5, PartOfSum
    <2>7. Awaited = Sums(f, Numbers)[Numbers] /\ Awaited \in Nat
        BY <1>1, <2>4, UnclaimedTyped DEF Awaited, Total
    <2>8. PICK w, k, m : w = wallet /\ k = Awaited /\ m = f[s]
        OBVIOUS
    <2>9. w \in Nat /\ k \in Nat /\ m \in Nat /\ m <= k
        BY <1>1, <2>6, <2>7, <2>8 DEF SwapsInv
    <2>10. w + m <= w + k
        BY <2>9
    <2>11. wallet' + Unclaimed'[item'.sig] <= item'.held + Awaited'
        BY <1>2, <1>4, <1>6, <2>4, <2>8, <2>10
    <2> QED
        BY <2>11 DEF ReadAll
<1>9. ASSUME r.st = "open", ~ LeavesResidual(p, s) PROVE SoldOut(r, wallet)
    <2> PICK w, o, a, b : /\ w = wallet /\ o = IF r.held > 0 THEN r.held ELSE r.tok
                          /\ a = o + r.exited /\ b = other_open_held(p)
        OBVIOUS
    <2>1. p \in Positions /\ r \in Rows /\ w \in Nat
        BY <1>1, SwapFacts DEF SwapsInv
    <2>2. Beside(p) = {}
        BY <1>1, <1>9, <2>1 DEF OneOpen, Beside, OpenRows
    <2>3. b = 0
        <3>1. other_open_held(p) = (CHOOSE g : HeldFold(rows, Beside(p), g))[Beside(p)]
            BY Zenon DEF other_open_held, MapThenSumSet, MapThenFoldSet, HeldFold
        <3>2. PICK R : R = rows
            OBVIOUS
        <3>3. other_open_held(p) = (CHOOSE g : HeldFold(R, {}, g))[{}]
            BY <2>2, <3>1, <3>2, Zenon
        <3> QED
            BY <3>3, HeldOfNone
    <2>4. Attributable(p)
        BY <2>2 DEF Attributable
    <2>5. w = 0 \/ (o # 0 /\ (is_dust(w, a) \/ is_dust(attributable_held(w, b, a), a)))
        BY <1>9, <2>4 DEF LeavesResidual
    <2>6. o \in Nat /\ a \in Nat
        BY <2>1 DEF Rows
    <2>7. attributable_held(w, b, a) = Least(w, a)
        BY <2>1, <2>3 DEF attributable_held, Monus
    <2>8. DustLimit(a) \in Nat
        BY <2>6, LimitGrows
    <2>9. is_dust(w, a) => is_dust(Least(w, a), a)
        BY <2>1, <2>6, <2>8 DEF is_dust, Least
    <2>10. w = 0 \/ is_dust(Least(w, a), a)
        BY <2>5, <2>7, <2>9
    <2> QED
        BY <2>10 DEF SoldOut
<1>10. ReadSold'
    BY <1>2, <1>4, <1>9 DEF ReadSold
<1> QED
    BY <1>5, <1>7, <1>8, <1>10 DEF LeftInv

\* A verification that ends with nothing booked, and a step that changes nothing.
LEMMA StillLeft ==
    ASSUME LeftInv, UNCHANGED <<rows, swaps, records, wallet, writtenOff, overlapped>>,
           item' = NoItem \/ item' = item
    PROVE  LeftInv'
<1>1. Sigs' = Sigs /\ \A t : Noted(t)' <=> Noted(t)
    BY DEF Sigs, Noted
<1>2. Traded' /\ HeldBought'
    BY <1>1 DEF LeftInv, Traded, HeldBought
<1>3. Unclaimed' = Unclaimed
    BY <1>1 DEF Unclaimed
<1>4. Awaited' = Awaited
    BY <1>3 DEF Awaited
<1>5. Waiting' = Waiting /\ Unsold' = Unsold
    BY <1>1 DEF Waiting, Unsold, Pending
<1>6. Value' = Value
    BY DEF Value, Worths
<1>7. ASSUME Quiet' PROVE OneWaits' /\ ReadAll' /\ ReadSold' /\ Placed'
    <2>1. OneWaits /\ ReadAll /\ ReadSold /\ Placed
        BY <1>7 DEF LeftInv, Quiet
    <2>2. OneWaits' /\ Placed'
        BY <1>4, <1>5, <1>6, <2>1 DEF OneWaits, Placed
    <2>3. ReadAll' /\ ReadSold'
        BY <1>3, <1>4, <2>1 DEF ReadAll, ReadSold
    <2> QED
        BY <2>2, <2>3
<1> QED
    BY <1>2, <1>7 DEF LeftInv

\* At the start there is nothing.
LEMMA InitLeft ==
    ASSUME BooksConstants, Init
    PROVE  LeftInv
<1>1. RowsInv /\ SwapsInv
    BY InitHolds DEF Inv
<1>2. Sigs = {} /\ item = NoItem /\ wallet = 0 /\ \A u \in Positions : rows[u].held = 0
    BY DEF Init, Sigs, NoRow
<1>3. Traded /\ HeldBought
    BY <1>2 DEF Traded, HeldBought
<1>4. Waiting = {} /\ Unsold = {}
    BY <1>2 DEF Waiting, Unsold, Pending
<1>5. Value \in Nat /\ Awaited \in Nat
    BY <1>1, WorthsTyped, UnclaimedTyped
<1>6. wallet <= Value + Awaited
    <2>1. PICK v, k : v = Value /\ k = Awaited
        OBVIOUS
    <2>2. 0 <= v + k
        BY <1>5, <2>1
    <2> QED
        BY <1>2, <2>1, <2>2
<1> QED
    BY <1>2, <1>3, <1>4, <1>6 DEF LeftInv, OneWaits, ReadAll, ReadSold, Placed

\* Every step.
LEMMA StepLeft ==
    ASSUME ~ EarlyTrades, Inv, Inv', BackInv, BoundsInv, LeftInv, [Next]_vars
    PROVE  LeftInv'
<1>1. BooksConstants
    BY BooksConstants
<1>2. ASSUME NEW p \in Positions, SendEntry(p) \/ SendAdd(p) \/ SendPartial(p) \/ SendExit(p) \/ WriteOff(p)
      PROVE  LeftInv'
    BY <1>1, <1>2, CallsLeft, WriteOffLeft
<1>3. ASSUME NEW s \in Sigs, Land(s) \/ NotLanded(s) PROVE LeftInv'
    BY <1>1, <1>3, LandLeft, NotLandedLeft
<1>4. ASSUME NEW s \in Sigs, Read(s) PROVE LeftInv'
    BY <1>1, <1>4, ReadLeft
<1>5. ASSUME NEW s \in Sigs, Book(s) PROVE LeftInv'
    <2>1. CASE BookEntry(s)
        BY <1>1, <2>1, EntryLeft
    <2>2. CASE BookAdd(s)
        BY <1>1, <2>2, AddLeft
    <2>3. CASE BookPartial(s)
        BY <1>1, <2>3, PartialLeft
    <2>4. CASE BookExit(s)
        BY <1>1, <2>4, ExitLeft
    <2>5. CASE BookResidual(s)
        BY <1>1, <2>5, ResidualLeft
    <2> QED
        BY <1>5, <2>1, <2>2, <2>3, <2>4, <2>5 DEF Book
<1>6. CASE Retry \/ UNCHANGED vars
    <2>1. /\ UNCHANGED <<rows, swaps, records, wallet, writtenOff, overlapped>>
          /\ item' = NoItem \/ item' = item
        BY <1>6 DEF Retry, history, vars
    <2> QED
        BY <2>1, StillLeft
<1> QED
    BY <1>2, <1>3, <1>4, <1>5, <1>6 DEF Next

\* A sum of nothing is nothing.
LEMMA SumOfNothing ==
    ASSUME NEW P, IsFiniteSet(P), NEW f \in [P -> Nat], \A p \in P : f[p] = 0
    PROVE  Sums(f, P)[P] = 0
<1>1. \A p \in P : f[p] <= 0
    OBVIOUS
<1>2. PICK c, t : c = Cardinality(P) /\ t = Sums(f, P)[P]
    OBVIOUS
<1>3. c \in Nat /\ t \in Nat
    BY <1>2, FS_CardinalityType, SumSplits
<1>4. t <= c * 0
    BY <1>1, <1>2, SumBounded
<1> QED
    BY <1>2, <1>3, <1>4

\* Once no swap is unsettled, nothing is awaited.
LEMMA LeftHolds ==
    ASSUME Inv, BackInv, LeftInv
    PROVE  NothingLost
<1>1. SUFFICES ASSUME Settled, ~ writtenOff, overlapped \subseteq {"own"} PROVE wallet <= Claimed + Left
    BY DEF NothingLost
<1>2. BooksConstants /\ RowsInv /\ SwapsInv /\ OneOpen
    BY BooksConstants DEF Inv, BackInv, OrderInv
<1>3. wallet <= Value + Awaited
    BY <1>1 DEF LeftInv, Placed, Quiet
<1>4. Awaited = 0
    <2>1. PICK f : f = Unclaimed
        OBVIOUS
    <2>2. f \in [Numbers -> Nat] /\ IsFiniteSet(Numbers)
        BY <1>2, <2>1, UnclaimedTyped, Numbered
    <2>3. \A n \in Numbers : f[n] = 0
        BY <1>1, <2>1 DEF Unclaimed, Settled
    <2>4. Sums(f, Numbers)[Numbers] = 0
        BY <2>2, <2>3, SumOfNothing
    <2> QED
        BY <2>1, <2>4 DEF Awaited, Total
<1>5. Value = Claimed + Left /\ Value \in Nat
    BY <1>2, ValueSplits, WorthsTyped
<1> QED
    BY <1>3, <1>4, <1>5

\* No fill, however late, leaves tokens in the wallet that no position will sell: once nothing is
\* unsettled, what the open row does not claim is the dust of the closed rows (follow_round,
\* hand_over_leg, classify_exit_residual), when positions are traded once their entry is verified,
\* as the auto-trader does.  Excepted are a write-off, a position with two sales at once, and a
\* wallet divided, by a late fill or a full exit, beside another sale.
THEOREM NothingIsLost == ~ EarlyTrades => (Spec => []NothingLost)
<1>1. SUFFICES ASSUME ~ EarlyTrades PROVE Spec => []NothingLost
    OBVIOUS
<1>2. Init => Inv /\ BackInv /\ BoundsInv /\ LeftInv
    BY BooksConstants, InitHolds, InitBacked, InitBounded, InitLeft
<1>3. Inv /\ BackInv /\ BoundsInv /\ LeftInv /\ [Next]_vars => Inv' /\ BackInv' /\ BoundsInv' /\ LeftInv'
    <2>1. Inv /\ [Next]_vars => Inv'
        BY StepKeeps, StutterKeeps
    <2> QED
        BY <1>1, <2>1, StepBacked, StepBounded, StepLeft
<1>4. Inv /\ BackInv /\ LeftInv => NothingLost
    BY LeftHolds
<1> QED
    BY <1>2, <1>3, <1>4, PTL DEF Spec

=============================================================================
