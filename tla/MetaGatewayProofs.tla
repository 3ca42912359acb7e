--------------------------- MODULE MetaGatewayProofs ---------------------------
(***************************************************************************)
(* Proofs about the search of the meta facade (MetaGateway), for every    *)
(* number of backends, every length of tool list and every limit.         *)
(*                                                                         *)
(* Scan, the inner 'for tool in backend.get_cached_tools()' loop, is a     *)
(* recursive function over the tool index, which the provers see as a     *)
(* CHOOSE.  So the module first shows that the CHOOSE has a fixpoint      *)
(* (ScanExists) and reasons about the fixpoint by induction over the index *)
(* in least-counterexample form: the induction theorems of the library    *)
(* take an operator parameter, but WFMin and NatLessThanWellFounded do    *)
(* not, and they give LeastNat, from which each induction is done.        *)
(*                                                                         *)
(* Then: TypeOK (MetaTypeCorrect); a count of the matches (Rank, Upto) by *)
(* backend and position; what a scan computes (ScanSpec); the loop        *)
(* invariant SearchInv of the outer walk over the backends; and from it   *)
(* SearchResult (SearchCorrect), for every limit: the spec's result for a *)
(* limit of 1 or more, and for 0 or less what the code does instead: it    *)
(* starts the first backend and keeps its first tool if that matches.      *)
(***************************************************************************)
EXTENDS MetaGateway, WellFoundedInduction, FiniteSetTheorems, TLAPS

-----------------------------------------------------------------------------
(* The inner loop as a fixpoint. *)

\* The body of Scan's recursive function, for a candidate function g.
ScanStep(b, t, lim, m, g, k) ==
    IF k = 0 THEN m
    ELSE IF k > 1 /\ Len(g[k - 1]) >= lim THEN g[k - 1]
    ELSE IF t[k] THEN Append(g[k - 1], <<b, k>>)
    ELSE g[k - 1]

\* The function Scan's LET defines, as the provers see it.
ScanFn(b, t, lim, m) ==
    CHOOSE g : g = [k \in 0..Len(t) |-> ScanStep(b, t, lim, m, g, k)]

\* Scan returns the last entry of that function.
LEMMA ScanIs ==
  ASSUME NEW b, NEW t, NEW lim, NEW m
  PROVE  Scan(b, t, lim, m) = ScanFn(b, t, lim, m)[Len(t)]
BY DEF Scan, ScanFn, ScanStep

(* Every non-empty set of naturals has a least element: the induction   *)
(* principle of this module, from the well-foundedness of < on Nat.      *)
LEMMA LeastNat ==
  ASSUME NEW T \in SUBSET Nat, T # {}
  PROVE  \E n \in T : \A k \in T : n <= k
<1> DEFINE R == {ss \in Nat \X Nat : ss[1] < ss[2]}
<1>1. R = OpToRel(<, Nat)
  BY Zenon DEF OpToRel
<1>2. PICK x \in T : \A y \in T : ~(<<y, x>> \in R)
  BY <1>1, NatLessThanWellFounded, WFMin
<1>3. \A y \in T : ~(y < x)
  BY <1>2
<1> QED
  BY <1>3

\* An entry of the scan depends only on the entry before it.
LEMMA ScanStepLocal ==
  ASSUME NEW b, NEW t, NEW lim, NEW m, NEW g, NEW h, NEW k \in Nat,
         k > 0 => g[k - 1] = h[k - 1]
  PROVE  ScanStep(b, t, lim, m, g, k) = ScanStep(b, t, lim, m, h, k)
BY DEF ScanStep

(* The recursion has a solution on 0..N, built one index at a time: the  *)
(* CHOOSE of ScanFn picks a function that satisfies its equation.         *)
LEMMA ScanExists ==
  ASSUME NEW b, NEW t, NEW lim, NEW m, NEW N \in Nat
  PROVE  \E g : g = [k \in 0..N |-> ScanStep(b, t, lim, m, g, k)]
<1> DEFINE Good(g, n) == g = [k \in 0..n |-> ScanStep(b, t, lim, m, g, k)]
           Ok(n) == \E g : Good(g, n)
<1>1. Ok(0)
  <2> DEFINE g0 == [k \in 0..0 |-> m]
  <2>1. Good(g0, 0)
    BY DEF ScanStep
  <2> QED
    BY <2>1
<1>2. ASSUME NEW n \in Nat, Ok(n) PROVE Ok(n + 1)
  <2>1. PICK g : Good(g, n)
    BY <1>2
  <2> DEFINE h == [k \in 0..(n + 1) |->
                     IF k <= n THEN g[k] ELSE ScanStep(b, t, lim, m, g, n + 1)]
  <2>2. ASSUME NEW k \in 0..(n + 1) PROVE h[k] = ScanStep(b, t, lim, m, h, k)
    <3>1. k > 0 => g[k - 1] = h[k - 1]
      BY <2>1
    <3>2. ScanStep(b, t, lim, m, g, k) = ScanStep(b, t, lim, m, h, k)
      BY <3>1, ScanStepLocal
    <3>3. CASE k <= n
      BY <2>1, <3>2, <3>3
    <3>4. CASE k = n + 1
      BY <3>2, <3>4
    <3> QED
      BY <3>3, <3>4
  <2>3. Good(h, n + 1)
    BY <2>2
  <2> QED
    BY <2>3
<1>3. \A n \in Nat : Ok(n)
  <2> DEFINE Bad == {i \in Nat : ~Ok(i)}
  <2> SUFFICES ASSUME Bad # {} PROVE FALSE
    OBVIOUS
  <2>1. PICK n \in Bad : \A j \in Bad : n <= j
    BY LeastNat
  <2>2. n # 0
    BY <1>1, <2>1
  <2>3. Ok(n - 1)
    BY <2>1, <2>2
  <2> QED
    BY <2>1, <2>2, <2>3, <1>2
<1> QED
  BY <1>3

\* The function the CHOOSE picks satisfies Scan's defining equation.
LEMMA ScanFix ==
  ASSUME NEW b, NEW t, NEW lim, NEW m, Len(t) \in Nat
  PROVE  ScanFn(b, t, lim, m)
           = [k \in 0..Len(t) |-> ScanStep(b, t, lim, m, ScanFn(b, t, lim, m), k)]
<1>1. \E g : g = [k \in 0..Len(t) |-> ScanStep(b, t, lim, m, g, k)]
  BY ScanExists
<1> QED
  BY <1>1 DEF ScanFn

\* A cached tool list is a sequence of flags no longer than MaxTools.
LEMMA ToolListLen ==
  ASSUME NEW t \in ToolLists
  PROVE  /\ t \in Seq(BOOLEAN)
         /\ Len(t) \in 0..MaxTools
         /\ DOMAIN t = 1..Len(t)
<1>1. PICK n \in 0..MaxTools : t \in [1..n -> BOOLEAN]
  BY DEF ToolLists
<1>2. n \in Nat
  BY MetaAssumption
<1> QED
  BY <1>1, <1>2

(* The scan of a backend's cache, from a list of matches, returns a list *)
(* of matches: by induction over the tool index.                          *)
LEMMA ScanType ==
  ASSUME NEW b \in Backends, NEW t \in ToolLists, NEW lim, NEW m \in Seq(Match)
  PROVE  Scan(b, t, lim, m) \in Seq(Match)
<1> DEFINE G == ScanFn(b, t, lim, m)
           N == Len(t)
<1>1. N \in 0..MaxTools /\ t \in Seq(BOOLEAN)
  BY ToolListLen
<1>2. G = [k \in 0..N |-> ScanStep(b, t, lim, m, G, k)]
  BY <1>1, ScanFix
<1>3. \A k \in 0..N : G[k] \in Seq(Match)
  <2> DEFINE Bad == {k \in 0..N : G[k] \notin Seq(Match)}
  <2> SUFFICES ASSUME Bad # {} PROVE FALSE
    OBVIOUS
  <2>0. Bad \subseteq Nat
    BY <1>1
  <2>1. PICK k \in Bad : \A j \in Bad : k <= j
    BY <2>0, LeastNat
  <2>2. CASE k = 0
    BY <1>2, <2>1, <2>2 DEF ScanStep
  <2>3. CASE k # 0
    <3>1. G[k - 1] \in Seq(Match)
      BY <1>1, <2>1, <2>3
    <3>2. <<b, k>> \in Match
      BY <1>1, <2>1, <2>3, MetaAssumption DEF Match
    <3>3. G[k] \in {G[k - 1], Append(G[k - 1], <<b, k>>)}
      BY <1>2, <2>1, <2>3 DEF ScanStep
    <3>4. Append(G[k - 1], <<b, k>>) \in Seq(Match)
      BY <3>1, <3>2
    <3> QED
      BY <2>1, <3>1, <3>3, <3>4
  <2> QED
    BY <2>2, <2>3
<1> QED
  BY <1>1, <1>3, ScanIs

\* Every step of the search keeps the types.
LEMMA TypeStep == TypeOK /\ [Next]_vars => TypeOK'
<1> SUFFICES ASSUME TypeOK, [Next]_vars PROVE TypeOK'
  OBVIOUS
<1>1. CASE SearchStep
  <2>1. next \in Backends
    BY <1>1 DEF TypeOK, SearchStep
  <2>2. matches' \in Seq(Match)
    BY <1>1, <2>1, ScanType DEF TypeOK, SearchStep
  <2>3. next' \in 1..(NB + 1) /\ (done' \/ next' \in Backends)
    <3>1. next' = next + 1 /\ (next = NB => done')
      BY <1>1 DEF SearchStep
    <3> QED
      BY <2>1, <3>1, MetaAssumption DEF Backends
  <2> QED
    BY <1>1, <2>1, <2>2, <2>3 DEF TypeOK, SearchStep, Backends
<1>2. CASE Finished \/ UNCHANGED vars
  BY <1>2 DEF Finished, TypeOK, vars
<1> QED
  BY <1>1, <1>2 DEF Next

(* The search's types hold in every state: the loop's index stays within  *)
(* the backends until the loop ends, and every match is a pair of a       *)
(* backend and a position within a cached tool list.                      *)
THEOREM MetaTypeCorrect == Spec => []TypeOK
<1>1. Init => TypeOK
  BY MetaAssumption DEF Init, TypeOK, Backends
<1> QED
  BY <1>1, TypeStep, PTL DEF Spec

\* The caches do not change during a search, nor what is counted from them.
LEMMA CacheFrame ==
  ASSUME avail' = avail
  PROVE  /\ AllMatches' = AllMatches
         /\ \A x : Rank(x)' = Rank(x)
         /\ \A c : Upto(c)' = Upto(c)
         /\ \A sq : Ranked(sq)' = Ranked(sq)
<1>1. AllMatches' = AllMatches
  BY DEF AllMatches
<1> QED
  BY <1>1 DEF Rank, Upto, Ranked

-----------------------------------------------------------------------------
(* Counting the matches. *)

\* The matches of backend b at positions up to k, and of backends up to b.
HitsTo(b, k) == {y \in AllMatches : y[1] = b /\ y[2] <= k}
Below(b) == {y \in AllMatches : y[1] <= b}

\* The size of a union of two disjoint finite sets.
LEMMA DisjointCard ==
  ASSUME NEW S, NEW T, IsFiniteSet(S), IsFiniteSet(T), S \cap T = {}
  PROVE  /\ IsFiniteSet(S \cup T)
         /\ Cardinality(S \cup T) = Cardinality(S) + Cardinality(T)
<1>1. Cardinality(S \cap T) = 0
  BY FS_EmptySet
<1>2. Cardinality(S) \in Nat /\ Cardinality(T) \in Nat
  BY FS_CardinalityType
<1>3. Cardinality(S \cup T) = Cardinality(S) + Cardinality(T) - Cardinality(S \cap T)
  BY FS_Union
<1> QED
  BY <1>1, <1>2, <1>3, FS_Union

\* There are finitely many matches, so every set of them has a size.
LEMMA MatchFinite ==
  /\ IsFiniteSet(Match)
  /\ AllMatches \subseteq Match
  /\ IsFiniteSet(AllMatches)
  /\ \A S \in SUBSET AllMatches : IsFiniteSet(S) /\ Cardinality(S) \in Nat
<1>1. IsFiniteSet(Backends) /\ IsFiniteSet(1..MaxTools)
  BY MetaAssumption, FS_Interval DEF Backends
<1>2. IsFiniteSet(Match)
  BY <1>1, FS_Product DEF Match
<1>3. AllMatches \subseteq Match
  BY DEF AllMatches
<1>4. IsFiniteSet(AllMatches)
  BY <1>2, <1>3, FS_Subset
<1>5. \A S \in SUBSET AllMatches : IsFiniteSet(S) /\ Cardinality(S) \in Nat
  BY <1>4, FS_Subset, FS_CardinalityType
<1> QED
  BY <1>2, <1>3, <1>4, <1>5

\* A match is a pair: its backend and its position in that backend's list.
LEMMA MatchPair ==
  ASSUME TypeOK, NEW y \in AllMatches
  PROVE  /\ y = <<y[1], y[2]>>
         /\ y[1] \in Backends /\ y[2] \in 1..Len(avail[y[1]])
         /\ avail[y[1]][y[2]] = TRUE
<1>1. y \in Match /\ y[2] \in DOMAIN avail[y[1]] /\ avail[y[1]][y[2]]
  BY DEF AllMatches
<1>2. DOMAIN avail[y[1]] = 1..Len(avail[y[1]])
  BY <1>1, ToolListLen DEF TypeOK, Match
<1> QED
  BY <1>1, <1>2 DEF Match

\* A position of backend b that holds a matching tool is a match.
LEMMA HitIsMatch ==
  ASSUME TypeOK, NEW b \in Backends, NEW k \in 1..Len(avail[b]), avail[b][k]
  PROVE  <<b, k>> \in AllMatches
<1>1. Len(avail[b]) \in 0..MaxTools /\ DOMAIN avail[b] = 1..Len(avail[b])
  BY ToolListLen DEF TypeOK
<1> QED
  BY <1>1, MetaAssumption DEF AllMatches, Match

\* No match before the first position; one more at each matching position.
LEMMA HitsStep ==
  ASSUME TypeOK, NEW b \in Backends, NEW k \in 1..Len(avail[b])
  PROVE  /\ Cardinality(HitsTo(b, 0)) = 0
         /\ Cardinality(HitsTo(b, k - 1)) \in Nat
         /\ Cardinality(HitsTo(b, k))
              = Cardinality(HitsTo(b, k - 1)) + (IF avail[b][k] THEN 1 ELSE 0)
<1>0. \A y \in AllMatches : y = <<y[1], y[2]>> /\ y[2] \in Nat /\ y[2] >= 1
  BY MetaAssumption DEF AllMatches, Match
<1>1. HitsTo(b, 0) = {}
  BY <1>0 DEF HitsTo
<1>2. IsFiniteSet(HitsTo(b, k - 1)) /\ Cardinality(HitsTo(b, k - 1)) \in Nat
  BY MatchFinite DEF HitsTo
<1>5. Cardinality(HitsTo(b, k))
        = Cardinality(HitsTo(b, k - 1)) + (IF avail[b][k] THEN 1 ELSE 0)
  <2>3. CASE avail[b][k]
    <3>1. <<b, k>> \in AllMatches
      BY <2>3, HitIsMatch
    <3>2. HitsTo(b, k) = HitsTo(b, k - 1) \cup {<<b, k>>}
      BY <1>0, <3>1 DEF HitsTo
    <3>3. <<b, k>> \notin HitsTo(b, k - 1)
      BY DEF HitsTo
    <3>4. Cardinality(HitsTo(b, k)) = Cardinality(HitsTo(b, k - 1)) + 1
      BY <1>2, <3>2, <3>3, FS_AddElement
    <3> QED
      BY <2>3, <3>4
  <2>4. CASE ~avail[b][k]
    <3>1. HitsTo(b, k) = HitsTo(b, k - 1)
      <4>1. \A y \in AllMatches : y[1] = b /\ y[2] = k => avail[b][k]
        BY Zenon DEF AllMatches
      <4> QED
        BY <1>0, <2>4, <4>1 DEF HitsTo
    <3> QED
      BY <1>2, <2>4, <3>1
  <2> QED
    BY <2>3, <2>4
<1> QED
  BY <1>1, <1>2, <1>5, FS_EmptySet


\* Every match's backend and position are positive numbers.
LEMMA MatchNat ==
  \A y \in AllMatches : /\ y = <<y[1], y[2]>>
                        /\ y[1] \in Nat /\ y[1] >= 1 /\ y[1] <= NB
                        /\ y[2] \in Nat /\ y[2] >= 1
BY MetaAssumption DEF AllMatches, Match, Backends

(* The rank of a matching tool: the matches of the backends before its    *)
(* own, then those of its own backend at earlier positions, then itself.   *)
LEMMA RankAt ==
  ASSUME TypeOK, NEW b \in Backends, NEW k \in 1..Len(avail[b]), avail[b][k]
  PROVE  Rank(<<b, k>>) = Upto(b - 1) + Cardinality(HitsTo(b, k - 1)) + 1
<1>1. {y \in AllMatches : Before(y, <<b, k>>)} = Below(b - 1) \cup HitsTo(b, k - 1)
  BY MatchNat DEF Before, Below, HitsTo, Backends
<1>2. Below(b - 1) \cap HitsTo(b, k - 1) = {}
  BY MatchNat DEF Below, HitsTo, Backends
<1>3. /\ IsFiniteSet(Below(b - 1)) /\ IsFiniteSet(HitsTo(b, k - 1))
      /\ Cardinality(Below(b - 1)) \in Nat
      /\ Cardinality(HitsTo(b, k - 1)) \in Nat
  BY MatchFinite DEF Below, HitsTo
<1>4. Cardinality(Below(b - 1) \cup HitsTo(b, k - 1))
        = Cardinality(Below(b - 1)) + Cardinality(HitsTo(b, k - 1))
  BY <1>2, <1>3, DisjointCard
<1> QED
  BY <1>1, <1>4 DEF Rank, Upto, Below

(* Upto grows by the matches of each backend, from none before the first *)
(* to all of them at the last.                                             *)
LEMMA UptoStep ==
  ASSUME TypeOK, NEW b \in Backends
  PROVE  /\ Upto(b - 1) \in Nat
         /\ Cardinality(HitsTo(b, Len(avail[b]))) \in Nat
         /\ Upto(b) = Upto(b - 1) + Cardinality(HitsTo(b, Len(avail[b])))
<1> DEFINE H == HitsTo(b, Len(avail[b]))
<1>1. Below(b) = Below(b - 1) \cup H
  <2>1. \A y \in AllMatches : y[1] = b => y[2] <= Len(avail[b])
    <3> SUFFICES ASSUME NEW y \in AllMatches, y[1] = b PROVE y[2] <= Len(avail[b])
      OBVIOUS
    <3>1. y[2] \in 1..Len(avail[y[1]])
      BY MatchPair
    <3>2. Len(avail[b]) \in Nat
      BY ToolListLen DEF TypeOK
    <3> QED
      BY <3>1, <3>2
  <2> QED
    BY <2>1, MatchNat DEF Below, HitsTo, Backends
<1>2. Below(b - 1) \cap H = {}
  BY MatchNat DEF Below, HitsTo, Backends
<1>3. /\ IsFiniteSet(Below(b - 1)) /\ IsFiniteSet(H)
      /\ Cardinality(Below(b - 1)) \in Nat /\ Cardinality(H) \in Nat
  BY MatchFinite DEF Below, HitsTo
<1> QED
  BY <1>1, <1>2, <1>3, DisjointCard DEF Upto, Below

\* No match lies before the first backend; all of them by the last.
LEMMA UptoEnds ==
  /\ Upto(0) = 0
  /\ Upto(NB) = Cardinality(AllMatches)
<1>1. {m \in AllMatches : m[1] <= 0} = {}
  BY MatchNat
<1>2. {m \in AllMatches : m[1] <= NB} = AllMatches
  BY MatchNat
<1> QED
  BY <1>1, <1>2, FS_EmptySet DEF Upto

\* Rank is strictly increasing along the order of the matches.
LEMMA RankLess ==
  ASSUME NEW x \in AllMatches, NEW y \in AllMatches, Before(x, y)
  PROVE  Rank(x) < Rank(y)
<1> DEFINE Sx == {z \in AllMatches : Before(z, x)}
           Sy == {z \in AllMatches : Before(z, y)}
<1>1. Sx \cup {x} \subseteq Sy /\ x \notin Sx
  BY MatchNat DEF Before
<1>2. IsFiniteSet(Sx) /\ IsFiniteSet(Sy) /\ Cardinality(Sx) \in Nat
      /\ Cardinality(Sy) \in Nat
  BY MatchFinite
<1>3. Cardinality(Sx \cup {x}) = Cardinality(Sx) + 1 /\ IsFiniteSet(Sx \cup {x})
  BY <1>1, <1>2, FS_AddElement
<1>4. Cardinality(Sx \cup {x}) <= Cardinality(Sy)
  BY <1>1, <1>2, FS_Subset
<1> QED
  BY <1>2, <1>3, <1>4 DEF Rank

\* Two different matches have different ranks.
LEMMA RankInjective ==
  ASSUME NEW x \in AllMatches, NEW y \in AllMatches, x # y
  PROVE  Rank(x) # Rank(y)
<1>1. Before(x, y) \/ Before(y, x)
  BY MatchNat DEF Before
<1>2. Rank(x) \in Nat /\ Rank(y) \in Nat
  BY MatchFinite DEF Rank
<1>3. CASE Before(x, y)
  BY <1>2, <1>3, RankLess
<1>4. CASE Before(y, x)
  BY <1>2, <1>4, RankLess
<1> QED
  BY <1>1, <1>3, <1>4

-----------------------------------------------------------------------------
(* What the scan of one backend computes. *)

(* Entered below the limit with the matches of the backends before b,    *)
(* in rank order, the scan of b's cache appends b's matches in rank order *)
(* and stops at the limit: it returns the first min(limit, Upto(b))       *)
(* matches.                                                                *)
LEMMA ScanSpec ==
  ASSUME TypeOK, limit \in Int, NEW b \in Backends,
         NEW m \in Seq(Match), Ranked(m),
         Len(m) = Upto(b - 1), Upto(b - 1) < limit
  PROVE  /\ Scan(b, avail[b], limit, m) \in Seq(Match)
         /\ Ranked(Scan(b, avail[b], limit, m))
         /\ Len(Scan(b, avail[b], limit, m)) = CapAt(Upto(b), limit)
<1> DEFINE t == avail[b]
           N == Len(t)
           G == ScanFn(b, t, limit, m)
           U == Upto(b - 1)
           C(k) == Cardinality(HitsTo(b, k))
           P(k) == /\ G[k] \in Seq(Match)
                   /\ Ranked(G[k])
                   /\ Len(G[k]) = CapAt(U + C(k), limit)
<1>1. t \in ToolLists /\ N \in 0..MaxTools /\ t \in Seq(BOOLEAN)
      /\ DOMAIN t = 1..N
  BY ToolListLen DEF TypeOK
<1>2. G = [k \in 0..N |-> ScanStep(b, t, limit, m, G, k)]
  <2>1. N \in Nat
    BY <1>1, MetaAssumption
  <2> QED
    BY <2>1, ScanFix
<1>3. U \in Nat /\ C(N) \in Nat /\ Upto(b) = U + C(N)
  BY UptoStep
<1>4. \A k \in 0..N : C(k) \in Nat
  BY MatchFinite DEF HitsTo
<1>5. C(0) = 0
  <2>1. HitsTo(b, 0) = {}
    BY MatchNat DEF HitsTo
  <2> QED
    BY <2>1, FS_EmptySet
<1>6. P(0)
  BY <1>2, <1>3, <1>5 DEF ScanStep, CapAt
<1>7. ASSUME NEW k \in 1..N, P(k - 1) PROVE P(k)
  <2> DEFINE L == Len(G[k - 1])
  <2>1. /\ C(k - 1) \in Nat
        /\ C(k) = C(k - 1) + (IF t[k] THEN 1 ELSE 0)
    BY <1>1, HitsStep
  <2>2. L = CapAt(U + C(k - 1), limit) /\ G[k - 1] \in Seq(Match)
        /\ Ranked(G[k - 1])
    BY <1>7
  <2>3. G[k] = ScanStep(b, t, limit, m, G, k)
    BY <1>2
  <2>4. CASE k > 1 /\ L >= limit
    <3>1. G[k] = G[k - 1]
      BY <2>3, <2>4 DEF ScanStep
    <3>2. U + C(k - 1) >= limit /\ L = limit
      BY <1>3, <2>1, <2>2, <2>4 DEF CapAt
    <3>3. CapAt(U + C(k), limit) = limit
      BY <1>3, <2>1, <3>2 DEF CapAt
    <3> QED
      BY <2>2, <3>1, <3>2, <3>3
  <2>5. CASE ~(k > 1 /\ L >= limit)
    <3>1. L < limit
      <4>1. CASE k = 1
        BY <1>2, <4>1 DEF ScanStep
      <4> QED
        BY <2>5, <4>1
    <3>2. L = U + C(k - 1)
      BY <1>3, <2>1, <2>2, <3>1 DEF CapAt
    <3>3. CASE t[k]
      <4>1. G[k] = Append(G[k - 1], <<b, k>>)
        BY <2>3, <2>5, <3>3 DEF ScanStep
      <4>2. <<b, k>> \in AllMatches /\ <<b, k>> \in Match
        BY <3>3, HitIsMatch, MatchFinite
      <4>3. Rank(<<b, k>>) = L + 1
        BY <3>2, <3>3, RankAt
      <4>4. Ranked(G[k])
        BY <2>2, <4>1, <4>2, <4>3 DEF Ranked
      <4>5. Len(G[k]) = CapAt(U + C(k), limit)
        BY <1>3, <2>1, <2>2, <3>1, <3>2, <3>3, <4>1 DEF CapAt
      <4> QED
        BY <2>2, <4>1, <4>2, <4>4, <4>5
    <3>4. CASE ~t[k]
      <4>1. G[k] = G[k - 1]
        BY <2>3, <2>5, <3>4 DEF ScanStep
      <4> QED
        BY <2>1, <2>2, <3>4, <4>1
    <3> QED
      BY <1>1, <3>3, <3>4
  <2> QED
    BY <2>4, <2>5
<1>8. \A k \in 0..N : P(k)
  <2> DEFINE Bad == {k \in 0..N : ~P(k)}
  <2> SUFFICES ASSUME Bad # {} PROVE FALSE
    OBVIOUS
  <2>1. Bad \subseteq Nat
    BY <1>1
  <2>2. PICK k \in Bad : \A j \in Bad : k <= j
    BY <2>1, LeastNat
  <2>3. k # 0
    BY <1>6, <2>2
  <2>4. P(k - 1)
    BY <1>1, <2>2, <2>3
  <2> QED
    BY <1>1, <1>7, <2>2, <2>3, <2>4
<1> QED
  BY <1>1, <1>3, <1>8, ScanIs

-----------------------------------------------------------------------------
(* The walk over the backends. *)

(* A scan from the empty list with a limit of 0 or less keeps the first  *)
(* tool if it matches and then breaks, whatever follows it.              *)
LEMMA ScanZero ==
  ASSUME NEW b \in Backends, NEW t \in ToolLists, NEW lim \in Int, lim < 1
  PROVE  Scan(b, t, lim, << >>)
           = IF Len(t) >= 1 /\ t[1] THEN << <<b, 1>> >> ELSE << >>
<1> DEFINE N == Len(t)
           G == ScanFn(b, t, lim, << >>)
           F == IF N >= 1 /\ t[1] THEN << <<b, 1>> >> ELSE << >>
<1>1. N \in 0..MaxTools /\ t \in Seq(BOOLEAN) /\ N \in Nat
  BY ToolListLen, MetaAssumption
<1>2. G = [k \in 0..N |-> ScanStep(b, t, lim, << >>, G, k)]
  BY <1>1, ScanFix
<1>3. CASE N = 0
  <2>1. G[0] = << >> /\ F = << >>
    BY <1>2, <1>3 DEF ScanStep
  <2> QED
    BY <1>3, <2>1, ScanIs
<1>4. CASE N >= 1
  <2>1. G[1] = F
    <3>1. G[0] = << >>
      BY <1>1, <1>2 DEF ScanStep
    <3>2. G[1] = IF t[1] THEN Append(G[0], <<b, 1>>) ELSE G[0]
      <4>1. 1 \in 0..N
        BY <1>1, <1>4
      <4>2. G[1] = ScanStep(b, t, lim, << >>, G, 1)
        BY <1>2, <4>1
      <4>3. (1 = 0) = FALSE /\ (1 > 1) = FALSE /\ 1 - 1 = 0
        OBVIOUS
      <4>4. ScanStep(b, t, lim, << >>, G, 1)
              = IF t[1] THEN Append(G[0], <<b, 1>>) ELSE G[0]
        BY <4>3, Zenon DEF ScanStep
      <4> QED
        BY <4>2, <4>4
    <3>3. Append(<< >>, <<b, 1>>) = << <<b, 1>> >>
      OBVIOUS
    <3> QED
      BY <1>4, <3>1, <3>2, <3>3
  <2>2. \A k \in 1..N : G[k] = F
    <3> DEFINE Bad == {k \in 1..N : G[k] # F}
    <3> SUFFICES ASSUME Bad # {} PROVE FALSE
      OBVIOUS
    <3>1. Bad \subseteq Nat
      OBVIOUS
    <3>2. PICK k \in Bad : \A j \in Bad : k <= j
      BY <3>1, LeastNat
    <3>3. k > 1 /\ k - 1 \in 1..N
      BY <2>1, <3>2
    <3>4. G[k - 1] = F
      BY <3>2, <3>3
    <3>5. Len(G[k - 1]) >= lim
      BY <3>4
    <3>6. G[k] = G[k - 1]
      BY <1>2, <3>3, <3>5 DEF ScanStep
    <3> QED
      BY <3>2, <3>4, <3>6
  <2> QED
    BY <1>4, <2>2, ScanIs
<1> QED
  BY <1>1, <1>3, <1>4

\* With a limit of 0 or less, the scan of the first backend is ZeroLimitMatches.
LEMMA ZeroScan ==
  ASSUME TypeOK, limit < 1
  PROVE  Scan(1, avail[1], limit, << >>) = ZeroLimitMatches
<1> DEFINE t == avail[1]
<1>1. 1 \in Backends /\ t \in ToolLists /\ limit \in Int
  BY MetaAssumption DEF TypeOK, Backends
<1>2. Len(t) \in 0..MaxTools /\ DOMAIN t = 1..Len(t)
  BY <1>1, ToolListLen
<1>3. (<<1, 1>> \in AllMatches) <=> (Len(t) >= 1 /\ t[1])
  <2>1. ASSUME Len(t) >= 1, t[1] PROVE <<1, 1>> \in AllMatches
    <3>1. <<1, 1>> \in Match /\ 1 \in DOMAIN t
      BY <1>1, <1>2, <2>1, MetaAssumption DEF Match
    <3> QED
      BY <2>1, <3>1 DEF AllMatches
  <2>2. ASSUME <<1, 1>> \in AllMatches PROVE Len(t) >= 1 /\ t[1]
    <3>1. 1 \in DOMAIN t /\ t[1]
      BY <2>2 DEF AllMatches
    <3> QED
      BY <1>2, <3>1
  <2> QED
    BY <2>1, <2>2
<1> QED
  BY <1>1, <1>3, ScanZero DEF ZeroLimitMatches

\* Before the loop: no match, no backend started, nothing passed.
LEMMA InitSearchInv ==
  ASSUME Init
  PROVE  SearchInv
<1>1. TypeOK
  BY MetaAssumption DEF Init, TypeOK, Backends
<1>2. Upto(0) = 0 /\ limit \in Int
  BY UptoEnds, MetaAssumption DEF Init
<1>3. limit >= 1 => PositiveLimitInv
  BY <1>2 DEF Init, PositiveLimitInv, Ranked
<1>4. limit < 1 => NonPositiveLimitInv
  BY DEF Init, NonPositiveLimitInv
<1> QED
  BY <1>1, <1>3, <1>4 DEF Init, SearchInv

(* One iteration of the outer loop, for a limit of 1 or more: the scan   *)
(* of the next backend keeps the list in rank order and the outer break ends the loop exactly when  *)
(* the limit has been reached or the last backend has been scanned.       *)
LEMMA PositiveStepInv ==
  ASSUME SearchInv, SearchStep, limit >= 1
  PROVE  PositiveLimitInv'
<1>1. TypeOK /\ ~done /\ next \in Backends /\ limit \in Nat \ {0}
  BY MetaAssumption DEF SearchInv, SearchStep, TypeOK
<1>2. /\ Len(matches) = Upto(next - 1) /\ Upto(next - 1) < limit
      /\ Ranked(matches) /\ matches \in Seq(Match)
  BY <1>1 DEF SearchInv, PositiveLimitInv, TypeOK
<1>3. /\ matches' \in Seq(Match)
      /\ Ranked(matches')
      /\ Len(matches') = CapAt(Upto(next), limit)
  BY <1>1, <1>2, ScanSpec DEF SearchStep
<1>4. /\ avail' = avail /\ limit' = limit /\ next' = next + 1
      /\ started' = started \cup {next}
      /\ done' = (Len(matches') >= limit \/ next = NB)
  BY DEF SearchStep
<1>5. Upto(next) \in Nat /\ Upto(next - 1) \in Nat
  BY <1>1, UptoStep
<1>7. Ranked(matches)'
  BY <1>3, <1>4, CacheFrame
<1>9. /\ (Upto(next - 1))' = Upto(next)
      /\ \A c \in Int : (Upto(c))' = Upto(c)
  BY <1>1, <1>4 DEF Upto, AllMatches, Backends
<1>10. /\ done' => Len(matches') >= limit \/ next = NB
       /\ ~done' => Len(matches') < limit /\ next # NB
  <2>1. done' => (Len(matches') >= limit \/ next = NB)
    BY <1>4, Zenon
  <2>2. ~done' => ~(Len(matches') >= limit) /\ next # NB
    BY <1>4, Zenon
  <2>3. Len(matches') \in Nat
    BY <1>3
  <2> QED
    BY <1>1, <2>1, <2>2, <2>3
<1>11. (\A c \in 1..(next - 2) : Upto(c) < limit)'
  <2> SUFFICES ASSUME NEW c \in 1..(next' - 2) PROVE (Upto(c))' < limit
    BY <1>4
  <2>1. c \in 1..(next - 1)
    BY <1>1, <1>4 DEF Backends
  <2>2. Upto(c) < limit
    <3>1. CASE c = next - 1
      BY <1>2, <3>1
    <3>2. CASE c # next - 1
      <4>1. c \in 1..(next - 2)
        BY <1>1, <2>1, <3>2, MetaAssumption DEF Backends
      <4> QED
        BY <4>1 DEF SearchInv, PositiveLimitInv
    <3> QED
      BY <3>1, <3>2
  <2> QED
    BY <1>9, <2>2
<1>12. (~done => /\ Len(matches) = Upto(next - 1)
                 /\ Upto(next - 1) < limit)'
  <2> SUFFICES ASSUME ~done' PROVE Len(matches') = Upto(next) /\ Upto(next) < limit
    BY <1>4, <1>9
  <2> QED
    BY <1>3, <1>5, <1>10 DEF CapAt
<1>13. (done => /\ next \in 2..(NB + 1)
                /\ Len(matches) = CapAt(Upto(next - 1), limit)
                /\ Upto(next - 1) >= limit \/ next = NB + 1)'
  <2> SUFFICES ASSUME done'
               PROVE /\ next + 1 \in 2..(NB + 1)
                     /\ Len(matches') = CapAt(Upto(next), limit)
                     /\ Upto(next) >= limit \/ next + 1 = NB + 1
    BY <1>4, <1>9
  <2>1. next + 1 \in 2..(NB + 1)
    BY <1>1, MetaAssumption DEF Backends
  <2>2. Upto(next) >= limit \/ next = NB
    BY <1>3, <1>5, <1>10 DEF CapAt
  <2> QED
    BY <1>3, <2>1, <2>2
<1> QED
  BY <1>7, <1>11, <1>12, <1>13 DEF PositiveLimitInv

(* One iteration of the outer loop, for a limit of 0 or less: the scan of *)
(* the first backend keeps its first tool if it matches, and the outer     *)
(* break ends the loop.                                                    *)
LEMMA NonPositiveStepInv ==
  ASSUME SearchInv, SearchStep, limit < 1
  PROVE  NonPositiveLimitInv'
<1>1. TypeOK /\ ~done /\ limit \in Int
  BY MetaAssumption DEF SearchInv, SearchStep, TypeOK
<1>2. next = 1 /\ matches = << >>
  BY <1>1 DEF SearchInv, NonPositiveLimitInv
<1>3. matches' = ZeroLimitMatches /\ next' = 2
  BY <1>1, <1>2, ZeroScan DEF SearchStep
<1>4. Len(matches') >= limit
  BY <1>1, <1>3 DEF ZeroLimitMatches
<1>5. done'
  <2>1. done' = (Len(matches') >= limit \/ next = NB)
    BY DEF SearchStep
  <2> QED
    BY <1>4, <2>1, Zenon
<1>6. ZeroLimitMatches' = ZeroLimitMatches
  BY CacheFrame DEF SearchStep, ZeroLimitMatches
<1> QED
  BY <1>3, <1>5, <1>6 DEF NonPositiveLimitInv

\* Every iteration of the outer loop keeps the loop invariant.
LEMMA SearchStepInv ==
  ASSUME SearchInv, SearchStep
  PROVE  SearchInv'
<1>1. TypeOK /\ limit \in Int /\ limit' = limit /\ next \in Backends
  BY MetaAssumption DEF SearchInv, SearchStep, TypeOK
<1>2. TypeOK'
  BY TypeStep DEF SearchInv, Next
<1>3. started' = 1..(next' - 1)
  BY <1>1 DEF SearchInv, SearchStep, Backends
<1>4. limit >= 1 => PositiveLimitInv'
  BY PositiveStepInv
<1>5. limit < 1 => NonPositiveLimitInv'
  BY NonPositiveStepInv
<1> QED
  BY <1>1, <1>2, <1>3, <1>4, <1>5 DEF SearchInv

(* SearchInv holds in every state of the search, for every number of      *)
(* backends, every length of tool list and every limit.                    *)
THEOREM SearchInvHolds == Spec => []SearchInv
<1>1. Init => SearchInv
  BY InitSearchInv
<1>2. SearchInv /\ [Next]_vars => SearchInv'
  <2> SUFFICES ASSUME SearchInv, [Next]_vars PROVE SearchInv'
    OBVIOUS
  <2>1. CASE SearchStep
    BY <2>1, SearchStepInv
  <2>2. CASE Finished \/ UNCHANGED vars
    <3>1. /\ avail' = avail /\ limit' = limit /\ next' = next
          /\ matches' = matches /\ started' = started /\ done' = done
      BY <2>2 DEF Finished, vars
    <3> QED
      BY <3>1 DEF SearchInv, PositiveLimitInv, NonPositiveLimitInv,
                  ZeroLimitMatches, TypeOK, Ranked, Upto, Rank, AllMatches,
                  Before
  <2> QED
    BY <2>1, <2>2 DEF Next
<1> QED
  BY <1>1, <1>2, PTL DEF Spec

\* The number of matches is the number the reference definition wants.
LEMMA DoneLen ==
  ASSUME SearchInv, done, limit >= 1
  PROVE  /\ next - 1 \in Backends
         /\ Len(matches) = Wanted
<1> DEFINE B == next - 1
<1>1. B \in Backends /\ limit \in Nat \ {0}
  BY MetaAssumption DEF SearchInv, PositiveLimitInv, TypeOK, Backends
<1>2. Len(matches) = CapAt(Upto(B), limit) /\ (Upto(B) >= limit \/ B = NB)
  BY MetaAssumption DEF SearchInv, PositiveLimitInv
<1>3. Upto(B) \in Nat /\ Upto(B) <= Cardinality(AllMatches)
      /\ Cardinality(AllMatches) \in Nat
  <2>1. {m \in AllMatches : m[1] <= B} \subseteq AllMatches
    OBVIOUS
  <2> QED
    BY <2>1, MatchFinite, FS_Subset DEF Upto
<1>4. B = NB => Upto(B) = Cardinality(AllMatches)
  BY UptoEnds
<1> QED
  BY <1>1, <1>2, <1>3, <1>4 DEF Wanted, CapAt

(* The list returned is the reference list: the match at index i is the  *)
(* one of rank i, which no other match has.                                *)
LEMMA DoneMatches ==
  ASSUME SearchInv, done, limit >= 1
  PROVE  matches = RefMatches
<1>1. /\ Len(matches) = Wanted
      /\ matches \in Seq(Match)
      /\ Ranked(matches)
  BY DoneLen DEF SearchInv, PositiveLimitInv, TypeOK
<1>2. ASSUME NEW i \in 1..Len(matches)
      PROVE  (CHOOSE x \in AllMatches : Rank(x) = i) = matches[i]
  <2>1. matches[i] \in AllMatches /\ Rank(matches[i]) = i
    BY <1>1 DEF Ranked
  <2>2. \A x \in AllMatches : Rank(x) = i => x = matches[i]
    BY <2>1, RankInjective
  <2> QED
    BY <2>1, <2>2, Zenon
<1>3. RefMatches = [n \in 1..Len(matches) |-> CHOOSE x \in AllMatches : Rank(x) = n]
  BY <1>1 DEF RefMatches
<1> QED
  BY <1>1, <1>2, <1>3

(* The backends started are the reference ones: those up to the first by *)
(* which limit matches exist, or all of them if there is none.            *)
LEMMA DoneStarted ==
  ASSUME SearchInv, done, limit >= 1
  PROVE  started = RefStarted
<1> DEFINE B == next - 1
           Needed(b) == Upto(b) >= limit /\ \A c \in 1..(b - 1) : Upto(c) < limit
<1>1. B \in Backends /\ limit \in Nat \ {0} /\ started = 1..B
  BY DoneLen, MetaAssumption DEF SearchInv, TypeOK
<1>2. \A c \in 1..(B - 1) : Upto(c) < limit
  BY DEF SearchInv, PositiveLimitInv
<1>3. Upto(B) >= limit \/ B = NB
  BY MetaAssumption DEF SearchInv, PositiveLimitInv
<1>4. \A b \in Backends : Upto(b) \in Nat
  BY UptoStep DEF SearchInv
<1>5. RefStarted = 1..LastNeeded
  BY <1>1 DEF RefStarted
<1>6. CASE \E b \in Backends : Upto(b) >= limit
  <2>1. Upto(B) >= limit
    <3> SUFFICES ASSUME Upto(B) < limit PROVE FALSE
      BY <1>1, <1>4
    <3>1. B = NB
      BY <1>1, <1>3, <1>4
    <3>2. \A c \in Backends : Upto(c) < limit
      BY <1>1, <1>2, <3>1, MetaAssumption DEF Backends
    <3> QED
      BY <1>1, <1>4, <1>6, <3>2
  <2>2. Needed(B)
    BY <1>2, <2>1
  <2>3. \A b \in Backends : Needed(b) => b = B
    BY <1>1, <1>2, <1>4, <2>1, MetaAssumption DEF Backends
  <2>4. LastNeeded = B
    BY <1>1, <1>6, <2>2, <2>3, Zenon DEF LastNeeded
  <2> QED
    BY <1>1, <1>5, <2>4
<1>7. CASE ~\E b \in Backends : Upto(b) >= limit
  <2>1. LastNeeded = NB
    BY <1>7 DEF LastNeeded
  <2>2. B = NB
    BY <1>1, <1>3, <1>4, <1>7
  <2> QED
    BY <1>1, <1>5, <2>1, <2>2
<1> QED
  BY <1>6, <1>7

(* gateway_search_tools returns SearchResult for every limit                *)
(* (Gateway._call_search_tools): for a limit of 1 or more the spec's       *)
(* result, the first 'limit' matching tools in registration order and      *)
(* list order, having started exactly the backends up to the one that      *)
(* supplied the last match it needed; for 0 or less the first backend      *)
(* started and its first tool if it matches, where the spec wants nothing. *)
THEOREM SearchCorrect == Spec => []SearchResult
<1>1. SearchInv => SearchResult
  <2> SUFFICES ASSUME SearchInv, done
               PROVE  IF limit >= 1
                      THEN matches = RefMatches /\ started = RefStarted
                      ELSE matches = ZeroLimitMatches /\ started = {1}
    BY DEF SearchResult
  <2>1. CASE limit >= 1
    BY <2>1, DoneMatches, DoneStarted
  <2>2. CASE ~(limit >= 1)
    <3>1. limit < 1
      BY <2>2, MetaAssumption DEF SearchInv, TypeOK
    <3>2. next = 2 /\ matches = ZeroLimitMatches /\ started = 1..(next - 1)
      BY <3>1 DEF SearchInv, NonPositiveLimitInv
    <3> QED
      BY <2>2, <3>2
  <2> QED
    BY <2>1, <2>2
<1> QED
  BY <1>1, SearchInvHolds, PTL
=============================================================================
