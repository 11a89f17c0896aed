---------------------------- MODULE ScanTheorems ----------------------------
(***************************************************************************)
(* What the scan of a folder keeps, for all files, providers and sizes of  *)
(* the page.  The order of the hits and the pages comes first; then what   *)
(* the pass keeps (ScanHolds), one conjunct at a time; and what it says    *)
(* when it ends follows from what it kept until then (ScanEnds).           *)
(***************************************************************************)
EXTENDS PartsTheorems

-----------------------------------------------------------------------------
(* Ranks and pages.                                                        *)

Before(f, S) == {g \in S : g < f}

\* The rank is the number of the members before.
LEMMA RankCounts ==
  ASSUME NEW f, NEW S
  PROVE  Scan!Rank(f, S) = Cardinality(Before(f, S))
BY SameCount DEF Scan!Rank, Before

LEMMA BeforeIsFinite ==
  ASSUME NEW f, NEW S \in SUBSET Files
  PROVE  IsFiniteSet(S) /\ S \subseteq Nat /\ IsFiniteSet(Before(f, S))
<1>1. Before(f, S) \subseteq S
  BY DEF Before
<1>2. IsFiniteSet(S)
  BY ScanConstants, FS_Subset
<1>3. S \subseteq Nat
  BY ScanConstants
<1>4. QED
  BY <1>1, <1>2, <1>3, FS_Subset

\* The ranks are in the order of the members.
LEMMA RanksInOrder ==
  ASSUME NEW S \in SUBSET Files, NEW f \in S, NEW g \in S, f =< g
  PROVE  Scan!Rank(f, S) =< Scan!Rank(g, S)
<1>1. Before(f, S) \subseteq Before(g, S)
  <2>1. ASSUME NEW h \in S, h < f
        PROVE  h < g
    <3>1. h \in Nat /\ f \in Nat /\ g \in Nat
      BY ScanConstants
    <3>2. QED
      BY <2>1, <3>1
  <2>2. QED
    BY <2>1 DEF Before
<1>2. Cardinality(Before(f, S)) =< Cardinality(Before(g, S))
  BY <1>1, BeforeIsFinite, FS_Subset
<1>3. QED
  BY <1>2, RankCounts

\* The rank is a number.
LEMMA RankIsNat ==
  ASSUME NEW f, NEW S \in SUBSET Files
  PROVE  Scan!Rank(f, S) \in Nat
<1>1. IsFiniteSet(Before(f, S))
  BY BeforeIsFinite
<1>2. QED
  BY <1>1, FS_CardinalityType, RankCounts

\* A finite set of numbers that is not empty has a greatest member.
LEMMA GreatestMember ==
  ASSUME NEW S \in SUBSET Nat, IsFiniteSet(S), S # {}
  PROVE  \E m \in S : \A x \in S : x =< m
<1> DEFINE Has(T) == \E m \in T : \A x \in T : x =< m
           Bad == {Cardinality(T) : T \in {U \in SUBSET S : U # {} /\ ~Has(U)}}
<1>1. SUFFICES ASSUME ~Has(S)
               PROVE  FALSE
  OBVIOUS
<1>2. \A T \in SUBSET S : IsFiniteSet(T) /\ Cardinality(T) \in Nat
  BY FS_Subset, FS_CardinalityType
<1>3. Bad \in SUBSET Nat /\ Bad # {}
  BY <1>1, <1>2
<1>4. PICK k \in Bad : \A n \in Bad : k =< n
  <2> HIDE DEF Bad
  <2>1. QED
    BY <1>3, LeastMember
<1>5. PICK T \in SUBSET S : T # {} /\ ~Has(T) /\ Cardinality(T) = k
  BY <1>4
<1>6. PICK x \in T : TRUE
  BY <1>5
<1>7. CASE T \ {x} = {}
  <2>1. x =< x /\ T = {x}
    BY <1>5, <1>6, <1>7
  <2>2. QED
    BY <1>5, <2>1
<1>8. CASE T \ {x} # {}
  <2>1. Cardinality(T \ {x}) = Cardinality(T) - 1 /\ Cardinality(T) \in Nat
    BY <1>2, <1>6, FS_RemoveElement
  <2>2. Has(T \ {x})
    <3>1. ASSUME ~Has(T \ {x})
          PROVE  FALSE
      <4>1. Cardinality(T \ {x}) \in Bad
        BY <1>8, <3>1
      <4>2. QED
        BY <1>4, <1>5, <2>1, <4>1
    <3>2. QED
      BY <3>1
  <2>3. PICK m \in T \ {x} : \A y \in T \ {x} : y =< m
    BY <2>2
  <2>4. m \in Nat /\ x \in Nat
    OBVIOUS
  <2>5. CASE x =< m
    BY <1>5, <2>3, <2>5
  <2>6. CASE ~(x =< m)
    <3>1. \A y \in T : y =< x
      BY <2>3, <2>4, <2>6
    <3>2. QED
      BY <1>5, <3>1
  <2>7. QED
    BY <2>5, <2>6
<1>9. QED
  BY <1>7, <1>8

\* Fewer than n + 1 members have a rank below n.
LEMMA FewRankBelow ==
  ASSUME NEW S \in SUBSET Files, NEW n \in Nat
  PROVE  Cardinality({g \in S : Scan!Rank(g, S) < n}) =< n
<1> DEFINE T == {g \in S : Scan!Rank(g, S) < n}
<1>1. IsFiniteSet(S) /\ IsFiniteSet(T) /\ S \subseteq Nat /\ T \subseteq S
  BY ScanConstants, FS_Subset
<1>2. CASE T = {}
  BY <1>2, FS_EmptySet
<1>3. CASE T # {}
  <2>1. PICK m \in T : \A x \in T : x =< m
    <3> HIDE DEF T
    <3>1. QED
      BY <1>1, <1>3, GreatestMember
  <2> DEFINE below == Before(m, S)
  <2>2. IsFiniteSet(below) /\ Cardinality(below) \in Nat /\ Cardinality(below) < n
    <3>1. IsFiniteSet(below)
      BY BeforeIsFinite
    <3>2. Cardinality(below) \in Nat
      BY <3>1, FS_CardinalityType
    <3>3. Scan!Rank(m, S) < n
      BY <2>1
    <3>4. QED
      BY <3>1, <3>2, <3>3, RankCounts
  <2>3. T \subseteq below \cup {m} /\ m \notin below
    <3>1. ASSUME NEW x \in T
          PROVE  x \in below \cup {m}
      <4>1. x \in Nat /\ m \in Nat /\ x \in S /\ x =< m
        BY <1>1, <2>1
      <4>2. QED
        BY <4>1 DEF Before
    <3>2. m \in Nat
      BY <1>1, <2>1
    <3>3. m \notin below
      BY <3>2 DEF Before
    <3>4. QED
      <4> HIDE DEF T, below
      <4>1. QED
        BY <3>1, <3>3
  <2>4. Cardinality(below \cup {m}) = Cardinality(below) + 1 /\ IsFiniteSet(below \cup {m})
    <3> HIDE DEF below
    <3>1. QED
      BY <2>2, <2>3, FS_AddElement
  <2>5. Cardinality(T) =< Cardinality(below \cup {m}) /\ Cardinality(T) \in Nat
    BY <1>1, <2>3, <2>4, FS_Subset, FS_CardinalityType
  <2>6. Cardinality(T) =< n
    <3> HIDE DEF T, below
    <3>1. QED
      BY <2>2, <2>4, <2>5
  <2>7. QED
    BY <2>6
<1>4. QED
  BY <1>2, <1>3

\* A page is no larger than it may be, lies before the rest, and is all there
\* is when it is not full.
LEMMA PageIsFirst ==
  ASSUME NEW S \in SUBSET Files
  PROVE  /\ Scan!FirstOf(S) \subseteq S
         /\ Cardinality(Scan!FirstOf(S)) =< PageSize
         /\ \A f \in S : \A g \in Scan!FirstOf(S) : f =< g => f \in Scan!FirstOf(S)
         /\ Cardinality(Scan!FirstOf(S)) < PageSize => Scan!FirstOf(S) = S
<1> DEFINE P == Scan!FirstOf(S)
<1>1. P = {f \in S : Scan!Rank(f, S) < PageSize}
  BY DEF Scan!FirstOf
<1>2. IsFiniteSet(S) /\ IsFiniteSet(P) /\ P \subseteq S /\ S \subseteq Nat
  BY <1>1, ScanConstants, FS_Subset
<1>3. Cardinality(P) =< PageSize
  BY <1>1, FewRankBelow, ScanConstants
<1>4. ASSUME NEW f \in S, NEW g \in P, f =< g
      PROVE  f \in P
  <2>1. g \in S
    BY <1>2
  <2>2. Scan!Rank(f, S) =< Scan!Rank(g, S)
    BY <2>1, <1>4, RanksInOrder
  <2>3. Scan!Rank(f, S) \in Nat /\ Scan!Rank(g, S) \in Nat /\ Scan!Rank(g, S) < PageSize
    BY <2>1, <1>1, RankIsNat
  <2>4. QED
    BY <1>1, <2>2, <2>3, ScanConstants
<1>5. ASSUME Cardinality(P) < PageSize
      PROVE  P = S
  <2>1. SUFFICES ASSUME S \ P # {}
                 PROVE  FALSE
    BY <1>2
  <2>2. PICK m \in S \ P : \A x \in S \ P : m =< x
    <3>1. S \ P \in SUBSET Nat
      BY <1>2
    <3>2. QED
      BY <2>1, <3>1, LeastMember
  <2>3. Before(m, S) \subseteq P
    <3>1. ASSUME NEW h \in S, h < m, h \notin P
          PROVE  FALSE
      <4>1. m =< h /\ h \in Nat /\ m \in Nat
        BY <1>2, <2>2, <3>1
      <4>2. QED
        BY <3>1, <4>1
    <3>2. QED
      BY <3>1 DEF Before
  <2>4. Scan!Rank(m, S) =< Cardinality(P)
    <3>1. Cardinality(Before(m, S)) =< Cardinality(P)
      <4> HIDE DEF P
      <4>1. QED
        BY <1>2, <2>3, FS_Subset
    <3>2. QED
      BY <3>1, RankCounts
  <2>5. Scan!Rank(m, S) \in Nat /\ Cardinality(P) \in Nat
    BY <1>2, FS_CardinalityType, RankIsNat
  <2>6. m \in P
    BY <1>1, <1>5, <2>2, <2>4, <2>5, ScanConstants
  <2>7. QED
    BY <2>2, <2>6
<1>6. QED
  BY <1>2, <1>3, <1>4, <1>5

\* The page behind a cursor: its members stand before the next cursor, and
\* behind those that stood before this one.
LEMMA PageMoves ==
  ASSUME NEW S \in SUBSET Files, NEW n \in Nat,
         NEW f \in Scan!FirstOf({g \in S : Scan!Rank(g, S) >= n})
  PROVE  /\ f \in S /\ Scan!Rank(f, S) >= n /\ Scan!Rank(f, S) < n + PageSize
         /\ \A g \in S : Scan!Rank(g, S) < n => g < f
<1> DEFINE before == {g \in S : Scan!Rank(g, S) < n}
           rest == {g \in S : Scan!Rank(g, S) >= n}
           far == Before(f, rest)
<1>1. f \in rest /\ Scan!Rank(f, rest) < PageSize
  BY DEF Scan!FirstOf
<1>2. /\ IsFiniteSet(S) /\ S \subseteq Nat /\ rest \subseteq S /\ f \in S
      /\ \A g \in S : Scan!Rank(g, S) \in Nat
  BY <1>1, ScanConstants, FS_Subset, RankIsNat
<1>3. /\ IsFiniteSet(before) /\ IsFiniteSet(far)
      /\ Cardinality(before) \in Nat /\ Cardinality(far) \in Nat
  <2>1. IsFiniteSet(before)
    BY <1>2, FS_Subset
  <2>2. IsFiniteSet(far)
    <3>1. rest \in SUBSET Files
      BY <1>2
    <3> HIDE DEF rest
    <3>2. QED
      BY <3>1, BeforeIsFinite
  <2>3. QED
    <3> HIDE DEF before, far
    <3>1. QED
      BY <2>1, <2>2, FS_CardinalityType
<1>4. Cardinality(before) =< n
  BY FewRankBelow
<1>5. Cardinality(far) < PageSize
  <2>1. Scan!Rank(f, rest) = Cardinality(far)
    BY RankCounts
  <2>2. QED
    <3> HIDE DEF rest, far
    <3>1. QED
      BY <1>1, <2>1
<1>6. Before(f, S) \subseteq before \cup far
  <2>1. ASSUME NEW g \in Before(f, S)
        PROVE  g \in before \cup far
    <3>1. g \in S /\ g < f
      BY DEF Before
    <3>2. CASE Scan!Rank(g, S) < n
      BY <3>1, <3>2
    <3>3. CASE ~(Scan!Rank(g, S) < n)
      <4>1. g \in rest
        BY <1>2, <3>1, <3>3
      <4>2. QED
        BY <3>1, <4>1 DEF Before
    <3>4. QED
      BY <3>2, <3>3
  <2>2. QED
    BY <2>1
<1>7. Cardinality(before \cup far) =< Cardinality(before) + Cardinality(far)
  <2> HIDE DEF before, far
  <2>1. IsFiniteSet(before \cap far)
    BY <1>3, FS_Intersection
  <2>2. Cardinality(before \cap far) \in Nat
    BY <2>1, FS_CardinalityType
  <2>3. Cardinality(before \cup far) =
          Cardinality(before) + Cardinality(far) - Cardinality(before \cap far)
    BY <1>3, FS_Union
  <2>4. QED
    BY <1>3, <2>2, <2>3
<1>8. Cardinality(before \cup far) \in Nat /\ IsFiniteSet(before \cup far)
  BY <1>3, FS_Union, FS_CardinalityType
<1>9. Scan!Rank(f, S) =< Cardinality(before \cup far)
  <2> HIDE DEF before, far
  <2>1. Cardinality(Before(f, S)) =< Cardinality(before \cup far)
    BY <1>6, <1>8, FS_Subset
  <2>2. QED
    BY <2>1, RankCounts
<1>10. Scan!Rank(f, S) < n + PageSize
  <2> HIDE DEF before, far
  <2>1. QED
    BY <1>2, <1>3, <1>4, <1>5, <1>7, <1>8, <1>9, ScanConstants
<1>11. ASSUME NEW g \in S, Scan!Rank(g, S) < n
       PROVE  g < f
  <2>1. SUFFICES ASSUME ~(g < f)
                 PROVE  FALSE
    OBVIOUS
  <2>2. f \in Nat /\ g \in Nat /\ f \in S
    BY <1>2
  <2>3. Scan!Rank(f, S) =< Scan!Rank(g, S)
    BY <2>1, <2>2, RanksInOrder
  <2>4. QED
    BY <1>1, <1>2, <1>11, <2>3
<1>12. QED
  BY <1>1, <1>2, <1>10, <1>11

-----------------------------------------------------------------------------
(* What the pass keeps.                                                    *)

\* What the pass has concluded on.
Looked == records \cup clips \cup extras \cup orphans \cup wrong

\* The hits that the pages so far stand for.
Behind ==
  {f \in Scan!Selected(rows) : Scan!Rank(f, Scan!Selected(rows)) < cursor}

ByIndex == request.discovery = "index"
Complete == Scan!MayBeComplete /\ ~Scan!Skipped

ScanTyped ==
  /\ request \in Scan!Requests /\ umid \in Umids
  /\ rows \subseteq Files /\ disk \subseteq Files
  /\ indexed \subseteq rows /\ stayed \subseteq disk
  /\ moved \in BOOLEAN /\ lossy \in BOOLEAN /\ more \in BOOLEAN /\ descent \in BOOLEAN
  /\ cursor \in Nat /\ seen \in Nat /\ total \in Nat
  /\ fetched \subseteq Files /\ hits \subseteq Files /\ verified \subseteq Files
  /\ records \subseteq Files /\ clips \subseteq Files /\ extras \subseteq Files
  /\ orphans \subseteq Files /\ wrong \subseteq Files
  /\ listed \in [Scan!Homes -> Scan!Listing]
  /\ matched \subseteq Providers
  /\ unmade \subseteq Scan!Homes
  /\ consumed \subseteq Scan!Homes \cup UNION {Subpaths[p] : p \in Providers}
  /\ DOMAIN kept = {umid[f] : f \in Files}
  /\ \A u \in DOMAIN kept : kept[u].first \in Files \cup {0}
  /\ \A f \in clips : kept[umid[f]].last \in Files

\* Where the pass stands.
ScanPhases ==
  /\ pc \in {"start", "prefetch", "fetch", "read", "conclude", "done"}
  /\ pc # "read" => hits = {} /\ records = {}
  /\ pc \in {"start", "prefetch"} \/ (pc = "fetch" /\ ~more) => Looked = {}
  /\ pc \in {"start", "prefetch", "conclude"} => ~more
  /\ pc = "prefetch" => ByIndex
  /\ ByIndex => ~more /\ (pc \in {"fetch", "read"} => clips = {})
  /\ pc # "done" => ~descent
  /\ pc = "start" => cursor = request.first /\ fetched = {} /\ seen = 0

\* A segment is a clip beside nothing that its listing held, which is all that
\* stayed.
ScanListings ==
  /\ \A d \in Scan!Homes :
       /\ listed[d].state # "read" => listed[d].names = {}
       /\ listed[d].state = "read" => {g \in stayed : Home[g] = d} \subseteq listed[d].names
  /\ \A f \in records \cup clips :
       \/ ~Scan!Grouping(f) \/ Number[f] =< 1
       \/ listed[Home[f]].state = "failed"
       \/ /\ listed[Home[f]].state = "read"
          /\ Scan!Siblings(f, listed[Home[f]].names) = {}
  /\ \A f \in extras \cup orphans : ~(Number[f] =< 1)
  /\ stayed \cap Looked \subseteq verified

\* The prefetch: what lies behind the cursor was brought unless an answer
\* lacked a hit; and while the index stood still, there is nothing else.
PrefetchSound ==
  pc = "prefetch" =>
    /\ ~lossy => \A f \in indexed : f =< cursor => f \in fetched
    /\ ~moved => fetched \subseteq rows /\ (cursor # 0 => total = Cardinality(rows))

BucketSound == pc = "fetch" /\ ByIndex /\ ~Scan!Skipped => indexed \subseteq fetched

\* The pages: no hit is counted twice, those so far stand before the cursor,
\* and with as many as the index has, none was left out.
PagesSound ==
  Complete /\ pc # "done" =>
    /\ ~ByIndex => seen =< Cardinality(hits \cup Looked)
    /\ ~ByIndex /\ more => hits \cup Looked \subseteq Behind
    /\ pc \in {"read", "conclude"} /\ ~more /\ seen >= total =>
         Scan!Selected(indexed) \subseteq hits \cup Looked

ScanDiscovery == PrefetchSound /\ BucketSound /\ PagesSound

\* What a clip remembers of the files it was given: the last of them, and the
\* first unless an earlier scan made its row.
Remembers(f, k) ==
  /\ k.last \in clips /\ umid[k.last] = umid[f] /\ f =< k.last
  /\ umid[f] \notin known => k.first \in clips /\ umid[k.first] = umid[f] /\ k.first =< f

\* The hits come in order.
ScanKept ==
  Complete /\ pc # "done" =>
    /\ \A f \in clips : \A g \in hits \cup records : f < g
    /\ \A f \in clips : Remembers(f, kept[umid[f]])

ScanHolds == ScanTyped /\ ScanPhases /\ ScanListings /\ ScanDiscovery /\ ScanKept

\* The pages are numbers of hits.
LEMMA PageCounts ==
  ASSUME NEW S \in SUBSET Files
  PROVE  /\ IsFiniteSet(S)
         /\ Scan!Cardinality(S) \in Nat /\ Scan!Cardinality(S) = Cardinality(S)
<1>1. IsFiniteSet(S)
  BY ScanConstants, FS_Subset
<1>2. QED
  BY <1>1, FS_CardinalityType, SameCount

\* The last of the hits of a full page.
LEMMA LastOfPage ==
  ASSUME NEW S \in SUBSET Files, S # {}
  PROVE  Scan!Max(S) \in S /\ \A x \in S : x =< Scan!Max(S)
<1>1. S \in SUBSET Nat /\ IsFiniteSet(S)
  BY PageCounts, ScanConstants
<1>2. PICK m \in S : \A x \in S : x =< m
  BY <1>1, GreatestMember
<1>3. \A x \in S : m >= x
  BY <1>1, <1>2
<1>4. Scan!Max(S) \in S /\ \A x \in S : Scan!Max(S) >= x
  BY <1>3 DEF Scan!Max
<1>5. QED
  BY <1>1, <1>4

\* The first of the files of a clip.
LEMMA FirstOfClip ==
  ASSUME NEW S \in SUBSET Files, S # {}
  PROVE  Scan!Min(S) \in S /\ \A x \in S : Scan!Min(S) =< x
<1>1. S \in SUBSET Nat
  BY ScanConstants
<1>2. QED
  BY <1>1, LeastMember DEF Scan!Min

\* The listing of a directory is taken once.
LEMMA ListingsTyped ==
  ASSUME ScanTyped, NEW d \in Scan!Homes, Scan!List(d)
  PROVE  /\ listed' \in [Scan!Homes -> Scan!Listing]
         /\ listed'[d].names \subseteq Files
<1>1. CASE UNCHANGED listed
  BY <1>1 DEF ScanTyped, Scan!Listing
<1>2. CASE listed' = [listed EXCEPT ![d] =
                        [state |-> "read", names |-> {g \in disk : Home[g] = d}]]
  <2>1. [state |-> "read", names |-> {g \in disk : Home[g] = d}] \in Scan!Listing
    BY DEF ScanTyped, Scan!Listing
  <2>2. QED
    BY <1>2, <2>1 DEF ScanTyped, Scan!Listing
<1>3. CASE listed' = [listed EXCEPT ![d] = [state |-> "failed", names |-> {}]]
  <2>1. [state |-> "failed", names |-> {}] \in Scan!Listing
    BY DEF ScanTyped, Scan!Listing
  <2>2. QED
    BY <1>3, <2>1 DEF ScanTyped, Scan!Listing
<1>4. QED
  BY <1>1, <1>2, <1>3 DEF Scan!List

\* What a page of the prefetch brings, and when it is the last.
LEMMA PrefetchDoes ==
  ASSUME ScanTyped, Scan!Prefetch
  PROVE  /\ Scan!NextPage \in SUBSET Files
         /\ \E got \in SUBSET Scan!NextPage :
              /\ fetched' = fetched \cup got
              /\ total' = IF cursor = 0 THEN Cardinality(rows) ELSE total
              /\ lossy' \in BOOLEAN /\ (lossy' <=> lossy \/ got # Scan!NextPage)
              /\ \/ /\ UNCHANGED <<pc, errors, unmade, descent, consumed>>
                    /\ Scan!NextPage # {} /\ cursor' = Scan!Max(Scan!NextPage)
                 \/ /\ UNCHANGED <<cursor, unmade, descent, consumed>>
                    /\ pc' = "done" /\ "short index" \in errors'
                 \/ /\ UNCHANGED <<cursor, errors, unmade, descent, consumed>> /\ pc' = "fetch"
                    /\ ~(Cardinality(fetched') < total')
                    /\ got = Scan!NextPage => Cardinality(got) # PageSize
<1> DEFINE page == Scan!NextPage
<1>1. page \in SUBSET Files
  BY DEF ScanTyped, Scan!NextPage, Scan!FirstOf
<1>2. PICK got \in SUBSET page, placed \in BOOLEAN :
        /\ Scan!Delivered(page, got)
        /\ fetched' = fetched \cup got
        /\ total' = IF cursor = 0 THEN Scan!Cardinality(rows) ELSE total
        /\ IF Scan!Filling(page, got, placed) = PageSize
           THEN cursor' = Scan!CursorAfter(page) /\ UNCHANGED <<pc, Scan!verdict>>
           ELSE /\ UNCHANGED cursor
                /\ IF Scan!Short(fetched', total')
                   THEN Scan!Raise("short index")
                   ELSE pc' = "fetch" /\ UNCHANGED Scan!verdict
  BY DEF Scan!Prefetch
<1>3. /\ total' = IF cursor = 0 THEN Cardinality(rows) ELSE total
      /\ lossy' = (lossy \/ got # page) /\ lossy \in BOOLEAN
  BY <1>2, SameCount DEF Scan!Delivered, ScanTyped
<1>4. lossy' \in BOOLEAN /\ (lossy' <=> lossy \/ got # page)
  BY <1>3
<1>5. \/ /\ UNCHANGED <<pc, errors, unmade, descent, consumed>>
         /\ page # {} /\ cursor' = Scan!Max(page)
      \/ /\ UNCHANGED <<cursor, unmade, descent, consumed>>
         /\ pc' = "done" /\ "short index" \in errors'
      \/ /\ UNCHANGED <<cursor, errors, unmade, descent, consumed>> /\ pc' = "fetch"
         /\ ~(Cardinality(fetched') < total')
         /\ got = page => Cardinality(got) # PageSize
  <2>1. CASE Scan!Filling(page, got, placed) = PageSize
    <3>1. page # {}
      <4>1. SUFFICES ASSUME page = {}
                     PROVE  FALSE
        OBVIOUS
      <4>2. Scan!Filling(page, got, placed) = 0
        <5> HIDE DEF page
        <5>1. got = {}
          BY <4>1
        <5>2. QED
          BY <4>1, <5>1, SameCount, FS_EmptySet DEF Scan!Filling
      <4>3. QED
        BY <2>1, <4>2, ScanConstants
    <3>2. QED
      <4> HIDE DEF page
      <4>1. QED
        BY <1>2, <2>1, <3>1 DEF Scan!CursorAfter, Scan!verdict
  <2>2. CASE Scan!Filling(page, got, placed) # PageSize /\ Scan!Short(fetched', total')
    <3> HIDE DEF page
    <3>1. QED
      BY <1>2, <2>2 DEF Scan!Raise
  <2>3. CASE Scan!Filling(page, got, placed) # PageSize /\ ~Scan!Short(fetched', total')
    <3> HIDE DEF page
    <3>1. got = page => Cardinality(got) # PageSize
      BY <2>3, SameCount DEF Scan!Filling
    <3>2. ~(Cardinality(fetched') < total')
      BY <2>3, SameCount DEF Scan!Short
    <3>3. QED
      BY <1>2, <2>3, <3>1, <3>2 DEF Scan!verdict
  <2>4. QED
    BY <2>1, <2>2, <2>3
<1>6. QED
  BY <1>1, <1>2, <1>3, <1>4, <1>5

\* What a page of the query brings.
LEMMA FetchPageDoes ==
  ASSUME ScanTyped, Scan!FetchPage
  PROVE  LET all == Scan!Selected(rows)
             page == Scan!FirstOf({f \in all : Scan!Rank(f, all) >= cursor})
         IN  /\ all \in SUBSET Files /\ page \in SUBSET Files
             /\ \E got \in SUBSET page :
                  /\ hits' = IF Scan!Counting THEN {} ELSE got
                  /\ lossy' \in BOOLEAN /\ (lossy' <=> lossy \/ got # page)
                  /\ total' = Cardinality(all) /\ seen' = seen + Cardinality(got)
                  /\ more' \in BOOLEAN
                  /\ more' <=> request.ask # "page" /\ Cardinality(got) = PageSize
<1> DEFINE all == Scan!Selected(rows)
           page == Scan!FirstOf({f \in all : Scan!Rank(f, all) >= cursor})
<1>1. all \in SUBSET Files
  BY DEF ScanTyped, Scan!Selected
<1>2. page \in SUBSET Files
  <2> HIDE DEF all
  <2>1. QED
    BY <1>1 DEF Scan!FirstOf
<1>3. PICK got \in SUBSET page :
        /\ Scan!Delivered(page, got)
        /\ hits' = IF Scan!Counting THEN {} ELSE got
        /\ total' = Scan!Cardinality(all)
        /\ seen' = seen + Scan!Cardinality(got)
        /\ more' = (request.ask # "page" /\ Scan!Cardinality(got) = PageSize)
  BY DEF Scan!FetchPage
<1> HIDE DEF all, page
<1>4. lossy' = (lossy \/ got # page) /\ lossy \in BOOLEAN
  BY <1>3 DEF Scan!Delivered, ScanTyped
<1>5. lossy' \in BOOLEAN /\ (lossy' <=> lossy \/ got # page)
  BY <1>4
<1>6. more' \in BOOLEAN /\ (more' <=> request.ask # "page" /\ Cardinality(got) = PageSize)
  BY <1>3, SameCount
<1>7. total' = Cardinality(all) /\ seen' = seen + Cardinality(got)
  BY <1>3, SameCount
<1>8. QED
  BY <1>1, <1>2, <1>3, <1>5, <1>6, <1>7 DEF all, page

\* The files among these that share an identity.
OfClip(u, good) == {f \in good : umid[f] = u}

\* What building the clips of a page does.
AssembleDoes(good) ==
  /\ clips' = clips \cup good /\ wrong' = wrong \cup (records \ good)
  /\ records' = {} /\ hits = {} /\ hits' = {}
  /\ pc = "read" /\ pc' = (IF more THEN "fetch" ELSE "conclude")
  /\ matched' \subseteq matched \cup Providers
  /\ DOMAIN kept' = DOMAIN kept
  /\ \A u \in DOMAIN kept :
       /\ OfClip(u, good) = {} => kept'[u] = kept[u]
       /\ OfClip(u, good) # {} =>
            /\ kept'[u].last = Scan!Max(OfClip(u, good))
            /\ kept'[u].first = IF OfClip(u, clips) = {} /\ u \notin known
                                THEN Scan!Min(OfClip(u, good)) ELSE kept[u].first
  /\ UNCHANGED <<request, umid, known, rows, indexed, moved, disk, stayed, cursor, fetched, seen,
                 total, more, lossy, listed, verified, extras, orphans, unmade, errors, descent,
                 consumed>>

LEMMA AssembleKeeps ==
  ASSUME ScanTyped, Scan!Assemble
  PROVE  \E good \in SUBSET records : AssembleDoes(good)
<1>1. PICK good \in SUBSET records :
        /\ LET of(u) == {f \in good : umid[f] = u}
               born(u) == clips \cap {f \in Files : umid[f] = u} = {} /\ u \notin known
           IN  kept' = [u \in DOMAIN kept |->
                          IF of(u) = {} THEN kept[u]
                          ELSE [first |-> IF born(u) THEN Scan!Min(of(u)) ELSE kept[u].first,
                                last |-> Scan!Max(of(u))]]
        /\ clips' = clips \cup good
        /\ wrong' = wrong \cup (records \ good)
        /\ matched' = matched \cup {p \in Providers :
                                     \E f \in good : p \in Scan!Offered(f) /\ f \in Reads[p]}
  BY DEF Scan!Assemble
<1>2. \A u : clips \cap {f \in Files : umid[f] = u} = OfClip(u, clips)
  BY DEF OfClip, ScanTyped
<1>3. kept' = [u \in DOMAIN kept |->
                 IF OfClip(u, good) = {} THEN kept[u]
                 ELSE [first |-> IF OfClip(u, clips) = {} /\ u \notin known
                                 THEN Scan!Min(OfClip(u, good)) ELSE kept[u].first,
                       last |-> Scan!Max(OfClip(u, good))]]
  BY <1>1, <1>2, Zenon DEF OfClip
<1>4. /\ DOMAIN kept' = DOMAIN kept
      /\ \A u \in DOMAIN kept :
           /\ OfClip(u, good) = {} => kept'[u] = kept[u]
           /\ OfClip(u, good) # {} =>
                /\ kept'[u].last = Scan!Max(OfClip(u, good))
                /\ kept'[u].first = IF OfClip(u, clips) = {} /\ u \notin known
                                    THEN Scan!Min(OfClip(u, good)) ELSE kept[u].first
  BY <1>3
<1>5. /\ records' = {} /\ hits = {} /\ hits' = {}
      /\ pc = "read" /\ pc' = (IF more THEN "fetch" ELSE "conclude")
      /\ UNCHANGED <<request, umid, known, rows, indexed, moved, disk, stayed, cursor, fetched, seen,
                     total, more, lossy, listed, verified, extras, orphans, unmade, errors, descent,
                     consumed>>
  BY DEF Scan!Assemble, Scan!asked, Scan!index, Scan!store, Scan!paging, Scan!verdict
<1>6. QED
  BY <1>1, <1>4, <1>5 DEF AssembleDoes

\* A step of the pass keeps the types.
LEMMA ScanTypedKept ==
  ASSUME ScanHolds, [Scan!Next]_(Scan!vars)
  PROVE  ScanTyped'
<1>0. ScanTyped
  BY DEF ScanHolds
<1> USE DEF Scan!asked, Scan!index, Scan!store, Scan!paging, Scan!work, Scan!built, Scan!verdict
<1>1. CASE Scan!RefusePage
  BY <1>0, <1>1 DEF ScanTyped, Scan!RefusePage, Scan!Raise
<1>2. CASE Scan!NoRoot
  BY <1>0, <1>2 DEF ScanTyped, Scan!NoRoot, Scan!Raise
<1>3. CASE Scan!Begin
  BY <1>0, <1>3 DEF ScanTyped, Scan!Begin
<1>4. CASE Scan!Prefetch
  <2>1. PICK got \in SUBSET Scan!NextPage :
          /\ fetched' = fetched \cup got
          /\ total' = IF cursor = 0 THEN Cardinality(rows) ELSE total
          /\ lossy' \in BOOLEAN
          /\ \/ UNCHANGED cursor
             \/ Scan!NextPage # {} /\ cursor' = Scan!Max(Scan!NextPage)
          /\ UNCHANGED <<unmade, descent, consumed>>
    BY <1>0, <1>4, PrefetchDoes
  <2>2. Scan!NextPage \in SUBSET Files /\ Cardinality(rows) \in Nat
    BY <1>0, <1>4, PrefetchDoes, PageCounts DEF ScanTyped
  <2>3. cursor' \in Nat
    <3>1. Scan!NextPage # {} => Scan!Max(Scan!NextPage) \in Nat
      BY <2>2, LastOfPage, ScanConstants
    <3>2. QED
      BY <1>0, <2>1, <3>1 DEF ScanTyped
  <2>4. UNCHANGED <<request, umid, known, rows, indexed, moved, disk, stayed, seen, more, hits,
                    listed, verified, records, matched, extras, orphans, clips, kept, wrong>>
    BY <1>4 DEF Scan!Prefetch
  <2>5. QED
    BY <1>0, <2>1, <2>2, <2>3, <2>4 DEF ScanTyped
<1>5. CASE Scan!FetchPage
  <2> DEFINE all == Scan!Selected(rows)
             page == Scan!FirstOf({f \in all : Scan!Rank(f, all) >= cursor})
  <2>1. PICK got \in SUBSET page :
          /\ hits' = IF Scan!Counting THEN {} ELSE got
          /\ lossy' \in BOOLEAN /\ more' \in BOOLEAN
          /\ total' = Cardinality(all) /\ seen' = seen + Cardinality(got)
    BY <1>0, <1>5, FetchPageDoes
  <2>2. all \in SUBSET Files /\ page \in SUBSET Files
    BY <1>0, <1>5, FetchPageDoes
  <2> HIDE DEF all, page
  <2>3. Cardinality(all) \in Nat /\ Cardinality(got) \in Nat
    BY <2>1, <2>2, PageCounts
  <2>4. /\ UNCHANGED <<request, umid, known, rows, indexed, moved, disk, stayed, fetched, listed,
                       verified, records, matched, extras, orphans, clips, kept, wrong, unmade,
                       descent, consumed>>
        /\ cursor' = cursor + PageSize
    BY <1>5 DEF Scan!FetchPage
  <2>5. hits' \subseteq Files
    BY <2>1, <2>2
  <2>6. cursor' \in Nat /\ seen' \in Nat /\ total' \in Nat
    BY <1>0, <2>1, <2>3, <2>4, ScanConstants DEF ScanTyped
  <2>7. lossy' \in BOOLEAN /\ more' \in BOOLEAN
    BY <2>1
  <2>8. QED
    BY <1>0, <2>4, <2>5, <2>6, <2>7 DEF ScanTyped
<1>6. CASE Scan!FetchBucket
  <2>1. Scan!Selected(fetched) \subseteq Files /\ Scan!Cardinality(Scan!Selected(fetched)) \in Nat
    <3>1. Scan!Selected(fetched) \subseteq Files
      BY <1>0 DEF ScanTyped, Scan!Selected
    <3>2. QED
      BY <3>1, PageCounts
  <2>2. QED
    BY <1>0, <1>6, <2>1 DEF ScanTyped, Scan!FetchBucket
<1>7. CASE Scan!QueryFails
  BY <1>0, <1>7 DEF ScanTyped, Scan!QueryFails, Scan!Raise
<1>8. ASSUME NEW f \in Files, Scan!Read(f)
      PROVE  ScanTyped'
  <2>1. listed' \in [Scan!Homes -> Scan!Listing]
    BY <1>0, <1>8, ListingsTyped DEF Scan!Read, Scan!Homes
  <2>2. /\ UNCHANGED <<request, umid, known, rows, indexed, moved, disk, stayed, cursor, fetched,
                       seen, total, more, lossy, matched, clips, kept, unmade, descent, consumed>>
        /\ hits' \subseteq hits /\ verified' \subseteq verified \cup {f}
        /\ extras' \subseteq extras \cup {f} /\ orphans' \subseteq orphans \cup {f}
        /\ records' \subseteq records \cup {f} /\ wrong' \subseteq wrong \cup {f}
    BY <1>8 DEF Scan!Read
  <2>3. QED
    BY <1>0, <1>8, <2>1, <2>2 DEF ScanTyped
<1>9. ASSUME NEW f \in Files, Scan!ReadBreaks(f)
      PROVE  ScanTyped'
  BY <1>0, <1>9 DEF ScanTyped, Scan!ReadBreaks
<1>10. CASE Scan!Assemble
  <2>1. PICK good \in SUBSET records : AssembleDoes(good)
    BY <1>0, <1>10, AssembleKeeps
  <2>2. \A u \in DOMAIN kept : /\ kept'[u].first \in Files \cup {0}
                               /\ OfClip(u, good) # {} => kept'[u].last \in Files
    <3>1. ASSUME NEW u \in DOMAIN kept, OfClip(u, good) # {}
          PROVE  Scan!Min(OfClip(u, good)) \in Files /\ Scan!Max(OfClip(u, good)) \in Files
      <4>1. OfClip(u, good) \in SUBSET Files
        BY <1>0 DEF OfClip, ScanTyped
      <4>2. QED
        BY <3>1, <4>1, FirstOfClip, LastOfPage
    <3>2. QED
      BY <1>0, <2>1, <3>1 DEF AssembleDoes, ScanTyped
  <2>3. \A f \in clips' : kept'[umid[f]].last \in Files
    <3>1. ASSUME NEW f \in clips'
          PROVE  kept'[umid[f]].last \in Files
      <4>1. f \in clips \/ f \in good
        BY <2>1, <3>1 DEF AssembleDoes
      <4>2. f \in Files /\ umid[f] \in DOMAIN kept
        BY <1>0, <4>1 DEF ScanTyped
      <4>3. CASE OfClip(umid[f], good) # {}
        BY <2>2, <4>2, <4>3
      <4>4. CASE OfClip(umid[f], good) = {}
        <5>1. f \notin good
          BY <4>2, <4>4 DEF OfClip
        <5>2. kept'[umid[f]] = kept[umid[f]] /\ f \in clips
          BY <2>1, <4>1, <4>2, <4>4, <5>1 DEF AssembleDoes
        <5>3. QED
          BY <1>0, <5>2 DEF ScanTyped
      <4>5. QED
        BY <4>3, <4>4
    <3>2. QED
      BY <3>1
  <2>4. QED
    BY <1>0, <2>1, <2>2, <2>3 DEF ScanTyped, AssembleDoes
<1>11. CASE Scan!NotWritten
  <2>1. Scan!Unmade \subseteq Scan!Homes
    BY <1>0 DEF ScanTyped, Scan!Unmade, Scan!Homes
  <2>2. QED
    BY <1>0, <1>11, <2>1 DEF ScanTyped, Scan!NotWritten
<1>12. CASE Scan!Authorize
  <2>1. Scan!Unmade \subseteq Scan!Homes
    BY <1>0 DEF ScanTyped, Scan!Unmade, Scan!Homes
  <2>2. Scan!Children \subseteq Scan!Homes \cup UNION {Subpaths[p] : p \in Providers}
    <3>1. \A f \in clips : kept[umid[f]].first # 0 => kept[umid[f]].first \in Files
      BY <1>0 DEF ScanTyped
    <3>2. Scan!ClipHomes \subseteq Scan!Homes
      BY <3>1 DEF Scan!ClipHomes, Scan!Homes
    <3>3. {Home[kept[umid[f]].last] : f \in clips} \subseteq Scan!Homes
      BY <1>0 DEF ScanTyped, Scan!Homes
    <3>4. UNION {Subpaths[p] : p \in matched} \subseteq UNION {Subpaths[p] : p \in Providers}
      BY <1>0 DEF ScanTyped
    <3>5. QED
      BY <3>2, <3>3, <3>4 DEF Scan!Children
  <2>3. QED
    BY <1>0, <1>12, <2>1, <2>2 DEF ScanTyped, Scan!Authorize
<1>13. CASE Scan!Withhold
  <2>1. Scan!Unmade \subseteq Scan!Homes
    BY <1>0 DEF ScanTyped, Scan!Unmade, Scan!Homes
  <2>2. QED
    BY <1>0, <1>13, <2>1 DEF ScanTyped, Scan!Withhold
<1>14. ASSUME NEW f \in Files, Scan!IndexMoves(f)
       PROVE  ScanTyped'
  BY <1>0, <1>14 DEF ScanTyped, Scan!IndexMoves
<1>15. ASSUME NEW f \in Files, Scan!DiskMoves(f)
       PROVE  ScanTyped'
  BY <1>0, <1>15 DEF ScanTyped, Scan!DiskMoves
<1>16. CASE UNCHANGED Scan!vars
  BY <1>0, <1>16 DEF ScanTyped, Scan!vars
<1>17. QED
  BY <1>1, <1>2, <1>3, <1>4, <1>5, <1>6, <1>7, <1>8, <1>9, <1>10, <1>11, <1>12, <1>13,
     <1>14,
     <1>15, <1>16 DEF Scan!Next

\* The pass starts with its types.
LEMMA ScanStartsTyped ==
  ASSUME Scan!Init
  PROVE  ScanTyped
<1>1. request \in Scan!Requests /\ request.first \in Nat
  BY ScanConstants DEF Scan!Init, Scan!Requests
<1>2. listed \in [Scan!Homes -> Scan!Listing]
  <2>1. [state |-> "unlisted", names |-> {}] \in Scan!Listing
    BY DEF Scan!Listing
  <2>2. QED
    BY <2>1 DEF Scan!Init
<1>3. /\ DOMAIN kept = {umid[f] : f \in Files}
      /\ \A u \in DOMAIN kept : kept[u].first \in Files \cup {0}
  BY DEF Scan!Init
<1>4. QED
  BY <1>1, <1>2, <1>3 DEF Scan!Init, ScanTyped

\* What a role says of a file, and of what was listed beside it.
LEMMA RoleSays ==
  ASSUME NEW f, NEW names
  PROVE  /\ Scan!Role(f, names) \in {"clip", "extra", "orphan"}
         /\ Scan!Role(f, names) # "clip" => ~(Number[f] =< 1)
         /\ Scan!Role(f, names) = "clip" =>
              \/ ~Scan!Grouping(f) \/ Number[f] =< 1
              \/ Scan!Siblings(f, names) = {}
BY DEF Scan!Role

\* What is left alone while a hit is looked at.
ReadLeaves ==
  UNCHANGED <<request, umid, known, rows, indexed, moved, disk, stayed, cursor, fetched, seen,
              total, more, lossy, pc, matched, clips, kept, unmade, errors, descent, consumed>>

\* A hit that was looked at is in one place, and found if it is there.
LEMMA ReadDoes ==
  ASSUME ScanTyped, NEW f \in Files, Scan!Read(f) \/ Scan!ReadBreaks(f)
  PROVE  /\ ReadLeaves /\ pc = "read"
         /\ f \in hits /\ hits' = hits \ {f}
         /\ verified \subseteq verified' /\ (f \in disk => f \in verified')
         /\ Scan!List(Home[f]) \/ UNCHANGED listed
         /\ \/ /\ extras' = extras \cup {f} /\ UNCHANGED <<orphans, records, wrong>>
               /\ ~(Number[f] =< 1)
            \/ /\ orphans' = orphans \cup {f} /\ UNCHANGED <<extras, records, wrong>>
               /\ ~(Number[f] =< 1)
            \/ /\ records' = records \cup {f} /\ UNCHANGED <<extras, orphans, wrong>>
               /\ Scan!Role(f, listed'[Home[f]].names) = "clip"
               /\ Scan!List(Home[f])
            \/ wrong' = wrong \cup {f} /\ UNCHANGED <<extras, orphans, records>>
<1>1. hits # {} /\ f = Scan!Min(hits) => f \in hits
  BY FirstOfClip DEF ScanTyped
<1>2. CASE Scan!Read(f)
  <2> DEFINE role == IF Scan!Exists(f) THEN Scan!Role(f, listed'[Home[f]].names) ELSE "ghost"
             known_as == role = "clip" /\ Scan!Identified(f)
  <2>1. /\ ReadLeaves /\ pc = "read" /\ hits # {} /\ f = Scan!Min(hits) /\ hits' = hits \ {f}
        /\ Scan!List(Home[f])
        /\ verified' = IF Scan!Exists(f) THEN verified \cup {f} ELSE verified
    BY <1>2 DEF Scan!Read, ReadLeaves, Scan!asked, Scan!index, Scan!store, Scan!paging,
                Scan!built, Scan!verdict
  <2>2. /\ extras' = IF role = "extra" THEN extras \cup {f} ELSE extras
        /\ orphans' = IF role = "orphan" THEN orphans \cup {f} ELSE orphans
        /\ records' = IF known_as THEN records \cup {f} ELSE records
        /\ wrong' = IF role = "ghost" \/ (role = "clip" /\ ~known_as)
                    THEN wrong \cup {f} ELSE wrong
    BY <1>2 DEF Scan!Read
  <2>3. f \in disk => Scan!Exists(f)
    <3>1. disk' = disk
      BY <2>1 DEF ReadLeaves
    <3>2. QED
      BY <3>1 DEF Scan!Exists
  <2>4. /\ role \in {"ghost", "clip", "extra", "orphan"}
        /\ role \in {"extra", "orphan"} => ~(Number[f] =< 1)
        /\ role = "clip" => Scan!Role(f, listed'[Home[f]].names) = "clip"
    BY RoleSays
  <2>5. \/ /\ extras' = extras \cup {f} /\ UNCHANGED <<orphans, records, wrong>>
           /\ ~(Number[f] =< 1)
        \/ /\ orphans' = orphans \cup {f} /\ UNCHANGED <<extras, records, wrong>>
           /\ ~(Number[f] =< 1)
        \/ /\ records' = records \cup {f} /\ UNCHANGED <<extras, orphans, wrong>>
           /\ Scan!Role(f, listed'[Home[f]].names) = "clip"
        \/ wrong' = wrong \cup {f} /\ UNCHANGED <<extras, orphans, records>>
    <3> HIDE DEF role
    <3>1. QED
      BY <2>2, <2>4
  <2>6. QED
    <3> HIDE DEF role, known_as
    <3>1. QED
      BY <1>1, <2>1, <2>3, <2>5
<1>3. CASE Scan!ReadBreaks(f)
  BY <1>1, <1>3
     DEF Scan!ReadBreaks, ReadLeaves, Scan!asked, Scan!index, Scan!store, Scan!paging,
         Scan!built, Scan!verdict
<1>4. QED
  BY <1>2, <1>3

\* The steps that end the pass early leave what it has alone.
LEMMA RaisesDo ==
  ASSUME \/ Scan!RefusePage \/ Scan!NoRoot \/ Scan!QueryFails
  PROVE  /\ pc' = "done" /\ pc \in {"start", "prefetch", "fetch"}
         /\ UNCHANGED <<hits, records, clips, extras, orphans, wrong, request, umid, known, rows,
                        indexed, moved, disk, stayed, cursor, fetched, seen, total, more, lossy, listed, verified, matched, kept, unmade,
                        descent, consumed>>
         /\ errors' \cap {"refused", "no root", "query"} # {}
<1> USE DEF Scan!asked, Scan!index, Scan!store, Scan!paging, Scan!work, Scan!built, Scan!Raise
<1>1. CASE Scan!RefusePage
  BY <1>1 DEF Scan!RefusePage
<1>2. CASE Scan!NoRoot
  BY <1>2 DEF Scan!NoRoot
<1>3. CASE Scan!QueryFails
  BY <1>3 DEF Scan!QueryFails
<1>4. QED
  BY <1>1, <1>2, <1>3

\* The pass goes from phase to phase.
LEMMA PhasesKept ==
  ASSUME ScanHolds, [Scan!Next]_(Scan!vars)
  PROVE  ScanPhases'
<1>0. ScanTyped /\ ScanPhases
  BY DEF ScanHolds
<1> USE DEF Scan!asked, Scan!index, Scan!store, Scan!paging, Scan!work, Scan!built, Scan!verdict
<1>1. CASE Scan!RefusePage \/ Scan!NoRoot \/ Scan!QueryFails
  <2>1. /\ pc' = "done" /\ pc \in {"start", "prefetch", "fetch"}
        /\ UNCHANGED <<hits, records, request, more, clips>>
    BY <1>1, RaisesDo
  <2>2. QED
    BY <1>0, <2>1 DEF ScanPhases, ByIndex
<1>2. CASE Scan!Begin
  <2>1. request.discovery \in {"legacy", "index"}
    BY <1>0 DEF ScanTyped, Scan!Requests
  <2>2. QED
    BY <1>0, <1>2, <2>1 DEF ScanPhases, Looked, ByIndex, Scan!Begin
<1>3. CASE Scan!Prefetch
  <2>1. /\ pc = "prefetch" /\ pc' \in {"prefetch", "done", "fetch"}
        /\ UNCHANGED descent
    BY <1>0, <1>3, PrefetchDoes DEF Scan!Prefetch
  <2>2. UNCHANGED <<request, hits, more, records, clips, extras, orphans, wrong>>
    BY <1>3 DEF Scan!Prefetch
  <2>3. QED
    BY <1>0, <2>1, <2>2 DEF ScanPhases, Looked, ByIndex
<1>4. CASE Scan!FetchPage
  BY <1>0, <1>4 DEF ScanPhases, ByIndex, Scan!FetchPage
<1>5. CASE Scan!FetchBucket
  BY <1>0, <1>5 DEF ScanPhases, ByIndex, Scan!FetchBucket
<1>6. ASSUME NEW f \in Files, Scan!Read(f) \/ Scan!ReadBreaks(f)
      PROVE  ScanPhases'
  BY <1>0, <1>6, ReadDoes DEF ScanPhases, ByIndex, ReadLeaves
<1>7. CASE Scan!Assemble
  <2>1. PICK good \in SUBSET records : AssembleDoes(good)
    BY <1>0, <1>7, AssembleKeeps
  <2>2. QED
    BY <1>0, <2>1 DEF ScanPhases, ByIndex, AssembleDoes
<1>8. CASE Scan!NotWritten
  BY <1>0, <1>8 DEF ScanPhases, ByIndex, Scan!NotWritten
<1>9. CASE Scan!Authorize
  BY <1>0, <1>9 DEF ScanPhases, ByIndex, Scan!Authorize
<1>10. CASE Scan!Withhold
  BY <1>0, <1>10 DEF ScanPhases, ByIndex, Scan!Withhold
<1>11. ASSUME NEW f \in Files, Scan!IndexMoves(f) \/ Scan!DiskMoves(f)
       PROVE  ScanPhases'
  BY <1>0, <1>11 DEF ScanPhases, Looked, ByIndex, Scan!IndexMoves, Scan!DiskMoves
<1>12. CASE UNCHANGED Scan!vars
  BY <1>0, <1>12 DEF ScanPhases, Looked, ByIndex, Scan!vars
<1>13. QED
  BY <1>1, <1>2, <1>3, <1>4, <1>5, <1>6, <1>7, <1>8, <1>9, <1>10, <1>11, <1>12 DEF Scan!Next

\* A directory's listing holds what has stayed in it, and is taken once.
LEMMA ListingsKept ==
  ASSUME ScanHolds, NEW d \in Scan!Homes, Scan!List(d), UNCHANGED stayed
  PROVE  /\ \A e \in Scan!Homes :
              /\ listed'[e].state # "read" => listed'[e].names = {}
              /\ listed'[e].state = "read" => {g \in stayed : Home[g] = e} \subseteq listed'[e].names
         /\ listed'[d].state \in {"read", "failed"}
         /\ \A e \in Scan!Homes : listed[e].state # "unlisted" => listed'[e] = listed[e]
<1>1. /\ listed \in [Scan!Homes -> Scan!Listing] /\ stayed \subseteq disk
      /\ \A e \in Scan!Homes :
           /\ listed[e].state # "read" => listed[e].names = {}
           /\ listed[e].state = "read" => {g \in stayed : Home[g] = e} \subseteq listed[e].names
  BY DEF ScanHolds, ScanTyped, ScanListings
<1>2. CASE UNCHANGED listed /\ listed[d].state # "unlisted"
  <2>1. listed[d].state \in {"unlisted", "read", "failed"}
    BY <1>1 DEF Scan!Listing
  <2>2. QED
    BY <1>1, <1>2, <2>1
<1>3. ASSUME NEW new, listed' = [listed EXCEPT ![d] = new], listed[d].state = "unlisted",
             \/ new = [state |-> "read", names |-> {g \in disk : Home[g] = d}]
             \/ new = [state |-> "failed", names |-> {}]
      PROVE  /\ \A e \in Scan!Homes :
                  /\ listed'[e].state # "read" => listed'[e].names = {}
                  /\ listed'[e].state = "read" =>
                       {g \in stayed : Home[g] = e} \subseteq listed'[e].names
             /\ listed'[d].state \in {"read", "failed"}
             /\ \A e \in Scan!Homes : listed[e].state # "unlisted" => listed'[e] = listed[e]
  <2>1. listed'[d] = new /\ \A e \in Scan!Homes : e # d => listed'[e] = listed[e]
    BY <1>1, <1>3
  <2>2. /\ new.state \in {"read", "failed"}
        /\ new.state # "read" => new.names = {}
        /\ new.state = "read" => new.names = {g \in disk : Home[g] = d}
    BY <1>3
  <2>3. new.state = "read" => {g \in stayed : Home[g] = d} \subseteq new.names
    BY <1>1, <2>2
  <2>4. QED
    BY <1>1, <1>3, <2>1, <2>2, <2>3
<1>4. QED
  BY <1>1, <1>2, <1>3 DEF Scan!List

\* A file is a clip beside nothing that its listing held.
LEMMA ScanListingsKept ==
  ASSUME ScanHolds, [Scan!Next]_(Scan!vars)
  PROVE  ScanListings'
<1>0. ScanTyped /\ ScanPhases /\ ScanListings
  BY DEF ScanHolds
<1>a. ASSUME UNCHANGED <<listed, records, clips, extras, orphans, wrong, verified>>,
             stayed' \subseteq stayed
      PROVE  ScanListings'
  BY <1>0, <1>a DEF ScanListings, Looked
<1> USE DEF Scan!asked, Scan!index, Scan!store, Scan!paging, Scan!work, Scan!built, Scan!verdict
<1>1. CASE Scan!RefusePage \/ Scan!NoRoot \/ Scan!QueryFails
  BY <1>1, <1>a, RaisesDo
<1>2. CASE Scan!Begin
  BY <1>2, <1>a DEF Scan!Begin
<1>3. CASE Scan!Prefetch
  BY <1>3, <1>a DEF Scan!Prefetch
<1>4. CASE Scan!FetchPage
  BY <1>4, <1>a DEF Scan!FetchPage
<1>5. CASE Scan!FetchBucket
  BY <1>5, <1>a DEF Scan!FetchBucket
<1>6. ASSUME NEW f \in Files, Scan!Read(f) \/ Scan!ReadBreaks(f)
      PROVE  ScanListings'
  <2> DEFINE Alone(g, dirs) ==
               \/ ~Scan!Grouping(g) \/ Number[g] =< 1
               \/ dirs[Home[g]].state = "failed"
               \/ /\ dirs[Home[g]].state = "read"
                  /\ Scan!Siblings(g, dirs[Home[g]].names) = {}
  <2>1. Home[f] \in Scan!Homes /\ \A g \in Files : Home[g] \in Scan!Homes
    BY DEF Scan!Homes
  <2>2. /\ ReadLeaves /\ f \in hits /\ verified \subseteq verified' /\ (f \in disk => f \in verified')
        /\ Scan!List(Home[f]) \/ UNCHANGED listed
    BY <1>0, <1>6, ReadDoes
  <2>3. /\ records' \cup clips' \cup extras' \cup orphans' \cup wrong' \subseteq Looked \cup {f}
        /\ \A g \in extras' \cup orphans' : ~(Number[g] =< 1)
    <3>1. \A g \in extras \cup orphans : ~(Number[g] =< 1)
      BY <1>0 DEF ScanListings
    <3>2. QED
      BY <1>0, <1>6, <3>1, ReadDoes DEF Looked, ReadLeaves
  <2>4. /\ \A d \in Scan!Homes :
             /\ listed'[d].state # "read" => listed'[d].names = {}
             /\ listed'[d].state = "read" => {g \in stayed' : Home[g] = d} \subseteq listed'[d].names
        /\ \A d \in Scan!Homes : listed[d].state # "unlisted" => listed'[d] = listed[d]
    <3>1. UNCHANGED stayed
      BY <2>2 DEF ReadLeaves
    <3>2. CASE Scan!List(Home[f])
      BY <2>1, <3>1, <3>2, ListingsKept
    <3>3. CASE UNCHANGED listed
      BY <1>0, <3>1, <3>3 DEF ScanListings
    <3>4. QED
      BY <2>2, <3>2, <3>3
  <2>5. \A g \in records \cup clips : Alone(g, listed')
    <3>1. ASSUME NEW g \in records \cup clips
          PROVE  Alone(g, listed')
      <4>1. Alone(g, listed) /\ Home[g] \in Scan!Homes
        BY <1>0, <2>1 DEF ScanListings, ScanTyped
      <4>2. listed[Home[g]].state # "unlisted" => listed'[Home[g]] = listed[Home[g]]
        BY <2>4, <4>1
      <4>3. QED
        BY <4>1, <4>2
    <3>2. QED
      BY <3>1
  <2>6. records' \cup clips' \subseteq records \cup clips \cup {f}
    BY <1>0, <1>6, ReadDoes DEF ReadLeaves
  <2>7. f \in records' \ records => Alone(f, listed')
    <3>1. SUFFICES ASSUME f \in records' \ records
                   PROVE  Alone(f, listed')
      OBVIOUS
    <3>2. Scan!Role(f, listed'[Home[f]].names) = "clip" /\ Scan!List(Home[f])
      BY <1>0, <1>6, <3>1, ReadDoes
    <3>3. listed'[Home[f]].state \in {"read", "failed"}
      <4>1. UNCHANGED stayed
        BY <2>2 DEF ReadLeaves
      <4>2. QED
        BY <2>1, <3>2, <4>1, ListingsKept
    <3>4. QED
      BY <3>2, <3>3, RoleSays
  <2>8. \A g \in records' \cup clips' : Alone(g, listed')
    <3>1. UNCHANGED clips
      BY <2>2 DEF ReadLeaves
    <3> HIDE DEF Alone
    <3>2. QED
      BY <2>5, <2>6, <2>7, <3>1
  <2>9. stayed' \cap Looked' \subseteq verified'
    <3>1. stayed' = stayed /\ disk' = disk /\ stayed \subseteq disk
      BY <1>0, <2>2 DEF ReadLeaves, ScanTyped
    <3>2. stayed \cap Looked \subseteq verified
      BY <1>0 DEF ScanListings
    <3>3. Looked' \subseteq Looked \cup {f}
      BY <2>3 DEF Looked
    <3>4. QED
      BY <2>2, <3>1, <3>2, <3>3
  <2>10. QED
    BY <2>3, <2>4, <2>8, <2>9 DEF ScanListings
<1>7. CASE Scan!Assemble
  <2>1. PICK good \in SUBSET records : AssembleDoes(good)
    BY <1>0, <1>7, AssembleKeeps
  <2>2. UNCHANGED <<listed, extras, orphans, verified, stayed>>
    BY <2>1 DEF AssembleDoes
  <2>3. records' \cup clips' \subseteq records \cup clips /\ Looked' \subseteq Looked
    BY <2>1 DEF AssembleDoes, Looked
  <2>4. QED
    BY <1>0, <2>2, <2>3 DEF ScanListings
<1>8. CASE Scan!NotWritten
  <2>1. /\ UNCHANGED <<listed, extras, orphans, verified, stayed, records, wrong>>
        /\ clips' = {}
    BY <1>8 DEF Scan!NotWritten
  <2>2. Looked' \subseteq Looked
    BY <2>1 DEF Looked
  <2>3. QED
    BY <1>0, <2>1, <2>2 DEF ScanListings
<1>9. CASE Scan!Authorize
  BY <1>9, <1>a DEF Scan!Authorize
<1>10. CASE Scan!Withhold
  BY <1>10, <1>a DEF Scan!Withhold
<1>11. ASSUME NEW f \in Files, Scan!IndexMoves(f) \/ Scan!DiskMoves(f)
       PROVE  ScanListings'
  BY <1>11, <1>a DEF Scan!IndexMoves, Scan!DiskMoves
<1>12. CASE UNCHANGED Scan!vars
  BY <1>12, <1>a DEF Scan!vars
<1>13. QED
  BY <1>1, <1>2, <1>3, <1>4, <1>5, <1>6, <1>7, <1>8, <1>9, <1>10, <1>11, <1>12 DEF Scan!Next

\* A pass that is complete was so before.
LEMMA PassGoesOn ==
  ASSUME ScanHolds, [Scan!Next]_(Scan!vars)
  PROVE  /\ UNCHANGED <<request, umid, known>>
         /\ (moved => moved') /\ (lossy => lossy')
         /\ (ByIndex' <=> ByIndex) /\ (Complete' => Complete)
         /\ (Scan!Skipped => Scan!Skipped')
<1>0. ScanTyped
  BY DEF ScanHolds
<1>1. UNCHANGED <<request, umid, known>> /\ (moved => moved') /\ (lossy => lossy')
  <2> USE DEF Scan!asked, Scan!index, Scan!store, Scan!paging, Scan!work, Scan!built, Scan!verdict
  <2>1. CASE Scan!RefusePage \/ Scan!NoRoot \/ Scan!QueryFails
    <3>1. UNCHANGED <<request, umid, known, moved, lossy>>
      BY <2>1, RaisesDo
    <3>2. QED
      BY <3>1
  <2>2. CASE Scan!Begin
    BY <2>2 DEF Scan!Begin
  <2>3. CASE Scan!Prefetch
    <3>1. lossy => lossy'
      BY <1>0, <2>3, PrefetchDoes
    <3>2. QED
      BY <2>3, <3>1 DEF Scan!Prefetch
  <2>4. CASE Scan!FetchPage
    <3>1. lossy => lossy'
      BY <1>0, <2>4, FetchPageDoes
    <3>2. QED
      BY <2>4, <3>1 DEF Scan!FetchPage
  <2>5. CASE Scan!FetchBucket
    BY <2>5 DEF Scan!FetchBucket
  <2>6. ASSUME NEW f \in Files, Scan!Read(f) \/ Scan!ReadBreaks(f)
        PROVE  UNCHANGED <<request, umid, known, moved, lossy>>
    BY <1>0, <2>6, ReadDoes DEF ReadLeaves
  <2>7. CASE Scan!Assemble
    BY <1>0, <2>7, AssembleKeeps DEF AssembleDoes
  <2>8. CASE Scan!NotWritten \/ Scan!Authorize \/ Scan!Withhold
    BY <2>8 DEF Scan!NotWritten, Scan!Authorize, Scan!Withhold
  <2>9. ASSUME NEW f \in Files, Scan!IndexMoves(f) \/ Scan!DiskMoves(f)
        PROVE  UNCHANGED <<request, umid, known, lossy>> /\ (moved => moved')
    <3>1. UNCHANGED <<request, umid, known, lossy>>
      BY <2>9 DEF Scan!IndexMoves, Scan!DiskMoves
    <3>2. \/ moved' = (moved \/ more \/ pc = "prefetch") /\ moved \in BOOLEAN
          \/ UNCHANGED moved
      BY <1>0, <2>9 DEF Scan!IndexMoves, Scan!DiskMoves, ScanTyped
    <3>3. QED
      BY <3>1, <3>2
  <2>10. CASE UNCHANGED Scan!vars
    BY <2>10 DEF Scan!vars
  <2>11. QED
    BY <2>1, <2>2, <2>3, <2>4, <2>5, <2>6, <2>7, <2>8, <2>9, <2>10 DEF Scan!Next
<1>2. QED
  BY <1>1 DEF ByIndex, Complete, Scan!Skipped, Scan!MayBeComplete

\* The index is asked for all of it.
LEMMA PrefetchKeeps ==
  ASSUME ScanHolds, Scan!Prefetch
  PROVE  PrefetchSound' /\ BucketSound'
<1> DEFINE ahead == {f \in rows : f > cursor}
           page == Scan!NextPage
<1>0. ScanTyped /\ ScanPhases /\ PrefetchSound /\ pc = "prefetch" /\ ByIndex
  BY DEF ScanHolds, ScanPhases, ScanDiscovery, Scan!Prefetch
<1>1. /\ UNCHANGED <<request, rows, indexed, moved>>
      /\ rows \subseteq Files /\ indexed \subseteq rows /\ cursor \in Nat
  BY <1>0 DEF Scan!Prefetch, Scan!asked, Scan!index, ScanTyped
<1>2. page = Scan!FirstOf(ahead) /\ ahead \in SUBSET Files
  BY <1>1 DEF Scan!NextPage
<1>3. /\ page \subseteq ahead /\ Cardinality(page) =< PageSize
      /\ \A f \in ahead : \A g \in page : f =< g => f \in page
      /\ Cardinality(page) < PageSize => page = ahead
  <2> HIDE DEF page, ahead
  <2>1. QED
    BY <1>2, PageIsFirst
<1>4. PICK got \in SUBSET page :
        /\ fetched' = fetched \cup got
        /\ total' = IF cursor = 0 THEN Cardinality(rows) ELSE total
        /\ lossy' \in BOOLEAN /\ (lossy' <=> lossy \/ got # page)
        /\ \/ /\ UNCHANGED <<pc, errors, unmade, descent, consumed>>
              /\ page # {} /\ cursor' = Scan!Max(page)
           \/ /\ UNCHANGED <<cursor, unmade, descent, consumed>>
              /\ pc' = "done" /\ "short index" \in errors'
           \/ /\ UNCHANGED <<cursor, errors, unmade, descent, consumed>> /\ pc' = "fetch"
              /\ ~(Cardinality(fetched') < total')
              /\ got = page => Cardinality(got) # PageSize
  BY <1>0, PrefetchDoes
<1>5. /\ ~lossy' => ~lossy /\ got = page /\ \A f \in indexed : f =< cursor => f \in fetched
      /\ ~moved' => /\ ~moved /\ fetched' \subseteq rows
                    /\ total' = Cardinality(rows)
  <2>1. ~lossy' => ~lossy /\ got = page
    BY <1>4
  <2>2. ~moved' => ~moved
    BY <1>1
  <2>3. ~moved => fetched \subseteq rows /\ (cursor # 0 => total = Cardinality(rows))
    BY <1>0 DEF PrefetchSound
  <2>4. page \subseteq rows
    BY <1>3
  <2>5. ~moved => fetched' \subseteq rows /\ total' = Cardinality(rows)
    <3> HIDE DEF page
    <3>1. QED
      BY <1>4, <2>3, <2>4
  <2>6. ~lossy => \A f \in indexed : f =< cursor => f \in fetched
    BY <1>0 DEF PrefetchSound
  <2>7. QED
    BY <2>1, <2>2, <2>5, <2>6
<1>6. \A f \in indexed : f =< cursor \/ f \in ahead
  <2>1. \A f \in indexed : f \in Nat /\ f \in rows
    BY <1>1, ScanConstants
  <2>2. QED
    BY <1>1, <2>1
<1> HIDE DEF page, ahead
<1>7. CASE pc' = "prefetch"
  <2>1. page # {} /\ cursor' = Scan!Max(page)
    BY <1>0, <1>4, <1>7
  <2>2. Scan!Max(page) \in page /\ cursor' \in Nat
    <3>1. page \in SUBSET Files
      BY <1>2, <1>3
    <3>2. QED
      BY <2>1, <3>1, LastOfPage, ScanConstants
  <2>3. ASSUME ~lossy', NEW f \in indexed', f =< cursor'
        PROVE  f \in fetched'
    <3>1. f \in indexed /\ got = page
      BY <1>1, <1>5, <2>3
    <3>2. CASE f =< cursor
      BY <1>4, <1>5, <2>3, <3>1, <3>2
    <3>3. CASE f \in ahead
      <4>1. f \in page
        BY <1>3, <2>1, <2>2, <2>3, <3>3
      <4>2. QED
        BY <1>4, <3>1, <4>1
    <3>4. QED
      BY <1>6, <3>1, <3>2, <3>3
  <2>4. ~moved' => fetched' \subseteq rows' /\ total' = Cardinality(rows')
    BY <1>1, <1>5
  <2>5. QED
    BY <1>7, <2>3, <2>4 DEF PrefetchSound, BucketSound
<1>8. CASE pc' = "done"
  BY <1>8 DEF PrefetchSound, BucketSound
<1>9. CASE pc' = "fetch"
  <2>1. /\ ~(Cardinality(fetched') < total')
        /\ got = page => Cardinality(got) # PageSize
    BY <1>0, <1>4, <1>9
  <2>2. SUFFICES ASSUME ~Scan!Skipped'
                 PROVE  indexed' \subseteq fetched'
    BY <1>9 DEF PrefetchSound, BucketSound
  <2>3. ~moved' \/ ~lossy'
    BY <2>2 DEF Scan!Skipped
  <2>4. CASE ~lossy'
    <3>1. got = page /\ Cardinality(page) # PageSize
      BY <1>5, <2>1, <2>4
    <3>2. page = ahead
      <4>1. page \in SUBSET Files
        BY <1>2, <1>3
      <4>2. Cardinality(page) \in Nat
        BY <4>1, PageCounts
      <4>3. QED
        BY <1>3, <3>1, <4>2, ScanConstants
    <3>3. QED
      BY <1>1, <1>4, <1>5, <1>6, <2>4, <3>1, <3>2
  <2>5. CASE ~moved'
    <3>1. fetched' \subseteq rows /\ ~(Cardinality(fetched') < Cardinality(rows))
      BY <1>5, <2>1, <2>5
    <3>2. IsFiniteSet(rows) /\ Cardinality(rows) \in Nat /\ Cardinality(fetched') \in Nat
      BY <1>1, <3>1, PageCounts
    <3>3. fetched' = rows
      <4>1. Cardinality(fetched') =< Cardinality(rows)
        BY <3>1, <3>2, FS_Subset
      <4>2. Cardinality(fetched') = Cardinality(rows)
        BY <3>1, <3>2, <4>1
      <4>3. QED
        BY <3>1, <3>2, <4>2, FS_Subset
    <3>4. QED
      BY <1>1, <3>3
  <2>6. QED
    BY <2>3, <2>4, <2>5
<1>10. QED
  BY <1>0, <1>4, <1>7, <1>8, <1>9

\* A page of the query counts its hits, which come behind all others.
LEMMA PageKeeps ==
  ASSUME ScanHolds, Scan!FetchPage
  PROVE  PagesSound' /\ ScanKept'
<1> DEFINE all == Scan!Selected(rows)
           page == Scan!FirstOf({f \in all : Scan!Rank(f, all) >= cursor})
<1>0. /\ ScanTyped /\ ScanPhases /\ PagesSound /\ ScanKept
      /\ pc = "fetch" /\ request.discovery = "legacy" /\ ~ByIndex
  BY DEF ScanHolds, ScanDiscovery, Scan!FetchPage, ByIndex
<1>1. /\ UNCHANGED <<request, umid, known, rows, indexed, moved, records, clips, extras, orphans,
                     wrong, kept>>
      /\ pc' = "read" /\ cursor' = cursor + PageSize
      /\ cursor \in Nat /\ indexed \subseteq rows /\ hits = {} /\ records = {}
      /\ clips \subseteq Files /\ seen \in Nat /\ Looked \subseteq Files
  BY <1>0
     DEF Scan!FetchPage, Scan!asked, Scan!index, Scan!work, Scan!built, ScanTyped,
         ScanPhases,
         Looked
<1>2. SUFFICES ASSUME Complete'
               PROVE  PagesSound' /\ ScanKept'
  BY DEF PagesSound, ScanKept
<1>3. Complete /\ ~moved /\ request.ask = "all"
  <2>1. ~moved' /\ request'.ask = "all"
    BY <1>0, <1>1, <1>2 DEF Complete, Scan!Skipped, Scan!MayBeComplete
  <2>2. QED
    BY <1>1, <2>1 DEF Complete, Scan!Skipped, Scan!MayBeComplete
<1>4. all \in SUBSET Files /\ page \in SUBSET Files
  BY <1>0, FetchPageDoes
<1>5. PICK got \in SUBSET page :
        /\ hits' = got
        /\ total' = Cardinality(all) /\ seen' = seen + Cardinality(got)
        /\ more' \in BOOLEAN
  BY <1>0, <1>3, FetchPageDoes DEF Scan!Counting
<1>6. Looked \subseteq all /\ \A f \in Looked : Scan!Rank(f, all) < cursor
  <2>1. CASE more
    <3>1. Looked \subseteq Behind
      BY <1>0, <1>1, <1>3, <2>1 DEF PagesSound
    <3>2. QED
      BY <3>1 DEF Behind
  <2>2. CASE ~more
    BY <1>0, <2>2 DEF ScanPhases
  <2>3. QED
    BY <2>1, <2>2
<1>7. seen =< Cardinality(Looked)
  <2>1. seen =< Cardinality(hits \cup Looked)
    BY <1>0, <1>3 DEF PagesSound
  <2>2. hits \cup Looked = Looked
    BY <1>1
  <2>3. QED
    BY <2>1, <2>2
<1> HIDE DEF all, page
<1>8. \A f \in got : /\ f \in all /\ Scan!Rank(f, all) >= cursor
                     /\ Scan!Rank(f, all) < cursor + PageSize
                     /\ \A g \in all : Scan!Rank(g, all) < cursor => g < f
  BY <1>1, <1>4, <1>5, PageMoves DEF page
<1>9. got \subseteq all /\ \A f \in Looked : \A g \in got : f < g
  BY <1>6, <1>8
<1>10. got \cap Looked = {}
  <2>1. \A f \in Looked : f \in Nat
    BY <1>1, ScanConstants
  <2>2. QED
    BY <1>9, <2>1
<1>11. /\ IsFiniteSet(got) /\ IsFiniteSet(Looked) /\ IsFiniteSet(all)
       /\ Cardinality(got) \in Nat /\ Cardinality(Looked) \in Nat /\ Cardinality(all) \in Nat
       /\ IsFiniteSet(got \cup Looked) /\ Cardinality(got \cup Looked) \in Nat
  <2>1. got \in SUBSET Files /\ Looked \in SUBSET Files /\ got \cup Looked \in SUBSET Files
    BY <1>1, <1>4, <1>5
  <2>2. QED
    BY <1>4, <2>1, PageCounts
<1>12. Cardinality(got \cup Looked) = Cardinality(got) + Cardinality(Looked)
  <2>1. Cardinality(got \cup Looked) =
          Cardinality(got) + Cardinality(Looked) - Cardinality(got \cap Looked)
    BY <1>11, FS_Union
  <2>2. Cardinality(got \cap Looked) = 0
    BY <1>10, FS_EmptySet
  <2>3. QED
    BY <1>11, <2>1, <2>2
<1>13. seen' =< Cardinality(got \cup Looked)
  BY <1>1, <1>5, <1>7, <1>11, <1>12
<1>14. hits' \cup Looked' = got \cup Looked
  BY <1>1, <1>5 DEF Looked
<1>15. got \cup Looked \subseteq Behind'
  <2>1. Behind' = {f \in all : Scan!Rank(f, all) < cursor + PageSize}
    BY <1>1 DEF Behind, all
  <2>2. \A f \in Looked : Scan!Rank(f, all) \in Nat /\ Scan!Rank(f, all) < cursor + PageSize
    <3>1. ASSUME NEW f \in Looked
          PROVE  Scan!Rank(f, all) \in Nat /\ Scan!Rank(f, all) < cursor + PageSize
      <4>1. Scan!Rank(f, all) \in Nat
        BY <1>4, RankIsNat
      <4>2. QED
        BY <1>1, <1>6, <4>1, ScanConstants
    <3>2. QED
      BY <3>1
  <2>3. QED
    BY <1>6, <1>8, <2>1, <2>2
<1>16. seen' >= total' => Scan!Selected(indexed)' \subseteq got \cup Looked
  <2>1. SUFFICES ASSUME seen' >= total'
                 PROVE  Scan!Selected(indexed)' \subseteq got \cup Looked
    OBVIOUS
  <2>2. got \cup Looked \subseteq all
    BY <1>6, <1>9
  <2>3. Cardinality(got \cup Looked) =< Cardinality(all)
    BY <1>11, <2>2, FS_Subset
  <2>4. Cardinality(got \cup Looked) = Cardinality(all)
    BY <1>1, <1>5, <1>11, <1>13, <2>1, <2>3
  <2>5. got \cup Looked = all
    BY <1>11, <2>2, <2>4, FS_Subset
  <2>6. Scan!Selected(indexed)' \subseteq all
    BY <1>1 DEF Scan!Selected, all
  <2>7. QED
    BY <2>5, <2>6
<1>17. PagesSound'
  BY <1>0, <1>1, <1>13, <1>14, <1>15, <1>16 DEF PagesSound, ByIndex
<1>18. ScanKept'
  <2>1. \A f \in clips : f \in Looked
    BY DEF Looked
  <2>2. \A f \in clips' : \A g \in hits' \cup records' : f < g
    BY <1>1, <1>5, <1>9, <2>1
  <2>3. \A f \in clips : Remembers(f, kept[umid[f]])
    BY <1>0, <1>3 DEF ScanKept
  <2>4. \A f \in clips' : Remembers(f, kept[umid[f]])'
    BY <1>1, <2>3 DEF Remembers
  <2>5. QED
    BY <2>2, <2>4 DEF ScanKept
<1>19. QED
  BY <1>17, <1>18

\* The share of the prefetched index is the folder's.
LEMMA BucketKeeps ==
  ASSUME ScanHolds, Scan!FetchBucket
  PROVE  PagesSound' /\ ScanKept'
<1>0. /\ ScanTyped /\ ScanPhases /\ BucketSound /\ pc = "fetch" /\ ByIndex
      /\ request.discovery # "legacy"
  BY DEF ScanHolds, ScanDiscovery, Scan!FetchBucket, ByIndex
<1>1. /\ UNCHANGED <<request, indexed, fetched, moved, lossy, records, clips, extras, orphans, wrong>>
      /\ indexed \subseteq rows /\ clips = {}
      /\ hits' = IF Scan!Counting THEN {} ELSE Scan!Selected(fetched)
  BY <1>0
     DEF Scan!FetchBucket, Scan!asked, Scan!index, Scan!work, Scan!built, ScanTyped,
         ScanPhases
<1>2. SUFFICES ASSUME Complete'
               PROVE  PagesSound' /\ ScanKept'
  BY DEF PagesSound, ScanKept
<1>3. ~Scan!Skipped /\ request.ask = "all"
  BY <1>1, <1>2 DEF Complete, Scan!Skipped, Scan!MayBeComplete
<1>4. hits' = Scan!Selected(fetched) /\ indexed \subseteq fetched
  BY <1>0, <1>1, <1>3 DEF BucketSound, Scan!Counting
<1>5. Scan!Selected(indexed)' \subseteq hits'
  BY <1>1, <1>4 DEF Scan!Selected
<1>6. QED
  BY <1>0, <1>1, <1>5 DEF PagesSound, ScanKept, ByIndex

\* Building the clips of a page loses no file of it, and each clip remembers
\* its own.
LEMMA AssemblyKeeps ==
  ASSUME ScanHolds, NEW good \in SUBSET records, AssembleDoes(good)
  PROVE  PagesSound' /\ ScanKept'
<1>0. /\ ScanTyped /\ ScanPhases /\ PagesSound /\ ScanKept
  BY DEF ScanHolds, ScanDiscovery
<1>1. hits' \cup Looked' = hits \cup Looked
  BY DEF AssembleDoes, Looked
<1>2. /\ UNCHANGED <<request, umid, known, rows, indexed, moved, lossy, cursor, seen, total, more>>
      /\ pc = "read" /\ pc' = (IF more THEN "fetch" ELSE "conclude")
  BY DEF AssembleDoes
<1>3. (Complete' <=> Complete) /\ (ByIndex' <=> ByIndex) /\ Behind' = Behind
  BY <1>2 DEF Complete, ByIndex, Behind, Scan!Skipped, Scan!MayBeComplete
<1>4. PagesSound'
  <2>1. Scan!Selected(indexed)' = Scan!Selected(indexed)
    BY <1>2 DEF Scan!Selected
  <2>2. QED
    BY <1>0, <1>1, <1>2, <1>3, <2>1 DEF PagesSound
<1>5. ScanKept'
  <2>1. SUFFICES ASSUME Complete, NEW f \in clips'
                 PROVE  Remembers(f, kept[umid[f]])'
    BY <1>3 DEF ScanKept, AssembleDoes
  <2> DEFINE u == umid[f]
             own == OfClip(u, good)
             old == OfClip(u, clips)
  <2>2. /\ \A g \in clips : \A h \in records : g < h
        /\ \A g \in clips : Remembers(g, kept[umid[g]])
    BY <1>0, <1>2, <2>1 DEF ScanKept
  <2>3. /\ f \in clips \cup good /\ clips' = clips \cup good /\ umid' = umid /\ known' = known
        /\ clips \cup good \subseteq Files /\ u \in DOMAIN kept
    BY <1>0, <2>1 DEF AssembleDoes, ScanTyped
  <2>4. CASE own = {}
    <3>1. f \in clips /\ kept'[u] = kept[u]
      BY <2>3, <2>4 DEF OfClip, AssembleDoes
    <3>2. QED
      BY <2>2, <2>3, <3>1 DEF Remembers
  <2>5. CASE own # {}
    <3>1. own \in SUBSET Files /\ \A g \in own : g \in good /\ umid[g] = u
      BY <2>3 DEF OfClip
    <3>2. /\ Scan!Max(own) \in own /\ \A g \in own : g =< Scan!Max(own)
          /\ Scan!Min(own) \in own /\ \A g \in own : Scan!Min(own) =< g
      BY <2>5, <3>1, FirstOfClip, LastOfPage
    <3>3. /\ kept'[u].last = Scan!Max(own)
          /\ kept'[u].first = IF old = {} /\ u \notin known THEN Scan!Min(own) ELSE kept[u].first
      BY <2>3, <2>5 DEF AssembleDoes
    <3>4. \A g \in clips \cup good : g \in Nat
      BY <2>3, ScanConstants
    <3>5. f \in own \/ (f \in clips /\ f \in old)
      BY <2>3 DEF OfClip
    <3> HIDE DEF own, old, u
    <3>6. f =< kept'[u].last
      <4>1. CASE f \in own
        BY <3>2, <3>3, <4>1
      <4>2. CASE f \in clips
        <5>1. f < Scan!Max(own)
          BY <2>2, <3>1, <3>2, <4>2
        <5>2. Scan!Max(own) \in Nat /\ f \in Nat
          BY <3>1, <3>2, <3>4, <4>2
        <5>3. QED
          BY <3>3, <5>1, <5>2
      <4>3. QED
        BY <3>5, <4>1, <4>2
    <3>7. ASSUME u \notin known
          PROVE  /\ kept'[u].first \in clips \cup good /\ umid[kept'[u].first] = u
                 /\ kept'[u].first =< f
      <4>1. CASE old = {}
        BY <3>1, <3>2, <3>3, <3>5, <3>7, <4>1
      <4>2. CASE old # {}
        <5>1. PICK e \in clips : umid[e] = u
          BY <4>2 DEF old, OfClip
        <5>2. kept'[u].first = kept[u].first
          BY <3>3, <4>2
        <5>3. kept[u].first \in clips /\ umid[kept[u].first] = u
          BY <2>2, <3>7, <5>1 DEF Remembers
        <5>4. CASE f \in clips
          <6>1. kept[u].first =< f
            BY <2>2, <3>7, <5>4 DEF Remembers, u
          <6>2. QED
            BY <5>2, <5>3, <6>1
        <5>5. CASE f \in own
          <6>1. kept[u].first < f
            BY <2>2, <3>1, <5>3, <5>5
          <6>2. kept[u].first \in Nat /\ f \in Nat
            BY <3>1, <3>4, <5>3, <5>5
          <6>3. QED
            BY <5>2, <5>3, <6>1, <6>2
        <5>6. QED
          BY <3>5, <5>4, <5>5
      <4>3. QED
        BY <4>1, <4>2
    <3>8. kept'[u].last \in clips \cup good /\ umid[kept'[u].last] = u
      BY <3>1, <3>2, <3>3
    <3>9. QED
      BY <2>3, <3>6, <3>7, <3>8 DEF Remembers, u
  <2>6. QED
    BY <2>4, <2>5
<1>6. QED
  BY <1>4, <1>5

\* Discovery leaves nothing out without saying so, and clips are built in order.
LEMMA DiscoveryKept ==
  ASSUME ScanHolds, [Scan!Next]_(Scan!vars)
  PROVE  ScanDiscovery' /\ ScanKept'
<1>0. /\ ScanTyped /\ ScanPhases /\ PrefetchSound /\ BucketSound /\ PagesSound /\ ScanKept
      /\ UNCHANGED <<request, umid, known>>
      /\ (moved => moved') /\ (lossy => lossy') /\ (ByIndex' <=> ByIndex)
      /\ (Complete' => Complete) /\ (Scan!Skipped => Scan!Skipped')
  BY PassGoesOn DEF ScanHolds, ScanDiscovery
<1>d. ASSUME pc' = "done"
      PROVE  ScanDiscovery' /\ ScanKept'
  BY <1>d DEF ScanDiscovery, PrefetchSound, BucketSound, PagesSound, ScanKept
<1>k. ASSUME UNCHANGED <<kept, clips>>, pc # "done",
             hits' \cup records' \subseteq hits \cup records
      PROVE  ScanKept'
  BY <1>0, <1>k DEF ScanKept, Remembers
<1>s. ASSUME UNCHANGED <<rows, cursor, fetched, seen, total, more, pc>>, indexed' \subseteq indexed,
             hits' \cup Looked' = hits \cup Looked
      PROVE  ScanDiscovery'
  <2>1. Behind' = Behind
    BY <1>s DEF Behind
  <2>2. Scan!Selected(indexed)' \subseteq Scan!Selected(indexed)
    BY <1>s DEF Scan!Selected
  <2>3. PrefetchSound' /\ BucketSound'
    BY <1>0, <1>s DEF PrefetchSound, BucketSound
  <2>4. PagesSound'
    BY <1>0, <1>s, <2>1, <2>2 DEF PagesSound
  <2>5. QED
    BY <2>3, <2>4 DEF ScanDiscovery
<1> USE DEF Scan!asked, Scan!index, Scan!store, Scan!paging, Scan!work, Scan!built, Scan!verdict
<1>1. CASE Scan!RefusePage \/ Scan!NoRoot \/ Scan!QueryFails
  BY <1>1, <1>d, RaisesDo
<1>2. CASE Scan!Begin
  <2>1. /\ UNCHANGED <<rows, indexed, cursor, fetched, seen, total, more, hits, records, clips, extras,
                       orphans, wrong, kept>>
        /\ pc = "start" /\ pc' = (IF ByIndex THEN "prefetch" ELSE "fetch")
        /\ ~ByIndex \/ request.ask # "page"
    BY <1>2 DEF Scan!Begin, ByIndex
  <2>2. ~more /\ cursor = request.first /\ fetched = {} /\ indexed \subseteq Files
    BY <1>0, <2>1 DEF ScanPhases, ScanTyped
  <2>3. Looked' = Looked
    BY <2>1 DEF Looked
  <2>4. ByIndex => cursor = 0
    BY <1>0, <2>1, <2>2 DEF ScanTyped, Scan!Requests, ByIndex
  <2>5. \A f \in indexed : ~(f =< 0)
    BY <2>2, ScanConstants
  <2>6. PrefetchSound'
    BY <2>1, <2>2, <2>4, <2>5 DEF PrefetchSound
  <2>7. BucketSound'
    BY <1>0, <2>1 DEF BucketSound
  <2>8. PagesSound'
    BY <1>0, <2>1, <2>2, <2>3 DEF PagesSound
  <2>9. ScanKept'
    BY <1>k, <2>1
  <2>10. QED
    BY <2>6, <2>7, <2>8, <2>9 DEF ScanDiscovery
<1>3. CASE Scan!Prefetch
  <2>1. PrefetchSound' /\ BucketSound'
    BY <1>3, PrefetchKeeps
  <2>2. /\ UNCHANGED <<hits, records, clips, kept>> /\ pc = "prefetch" /\ ByIndex
        /\ pc' \in {"prefetch", "done", "fetch"}
    BY <1>0, <1>3, PrefetchDoes DEF Scan!Prefetch, ScanPhases
  <2>3. PagesSound'
    BY <1>0, <2>2 DEF PagesSound
  <2>4. ScanKept'
    BY <1>k, <2>2
  <2>5. QED
    BY <2>1, <2>3, <2>4 DEF ScanDiscovery
<1>4. CASE Scan!FetchPage
  <2>1. pc' = "read"
    BY <1>4 DEF Scan!FetchPage
  <2>2. QED
    BY <1>4, <2>1, PageKeeps DEF ScanDiscovery, PrefetchSound, BucketSound
<1>5. CASE Scan!FetchBucket
  <2>1. pc' = "read"
    BY <1>5 DEF Scan!FetchBucket
  <2>2. QED
    BY <1>5, <2>1, BucketKeeps DEF ScanDiscovery, PrefetchSound, BucketSound
<1>6. ASSUME NEW f \in Files, Scan!Read(f) \/ Scan!ReadBreaks(f)
      PROVE  ScanDiscovery' /\ ScanKept'
  <2>1. ReadLeaves /\ pc = "read" /\ f \in hits /\ hits' = hits \ {f}
    BY <1>0, <1>6, ReadDoes
  <2>2. /\ hits' \cup Looked' = hits \cup Looked
        /\ hits' \cup records' \subseteq hits \cup records
    BY <1>0, <1>6, ReadDoes DEF Looked, ReadLeaves
  <2>3. ScanDiscovery'
    BY <1>s, <2>1, <2>2 DEF ReadLeaves
  <2>4. ScanKept'
    BY <1>k, <2>1, <2>2 DEF ReadLeaves
  <2>5. QED
    BY <2>3, <2>4
<1>7. CASE Scan!Assemble
  <2>1. PICK good \in SUBSET records : AssembleDoes(good)
    BY <1>0, <1>7, AssembleKeeps
  <2>2. PagesSound' /\ ScanKept'
    BY <2>1, AssemblyKeeps
  <2>3. pc' \in {"fetch", "conclude"} /\ (pc' = "fetch" => more)
    BY <2>1 DEF AssembleDoes
  <2>4. PrefetchSound' /\ BucketSound'
    BY <1>0, <2>3 DEF PrefetchSound, BucketSound, ScanPhases
  <2>5. QED
    BY <2>2, <2>4 DEF ScanDiscovery
<1>8. CASE Scan!NotWritten
  BY <1>8, <1>d DEF Scan!NotWritten
<1>9. CASE Scan!Authorize
  BY <1>9, <1>d DEF Scan!Authorize
<1>10. CASE Scan!Withhold
  BY <1>10, <1>d DEF Scan!Withhold
<1>11. ASSUME NEW f \in Files, Scan!IndexMoves(f)
       PROVE  ScanDiscovery' /\ ScanKept'
  <2>1. /\ UNCHANGED <<cursor, fetched, seen, total, more, lossy, pc, hits, records, clips, extras,
                       orphans, wrong, kept>>
        /\ indexed' \subseteq indexed /\ moved' = (moved \/ more \/ pc = "prefetch")
        /\ pc # "done"
    BY <1>11 DEF Scan!IndexMoves
  <2>2. Looked' = Looked
    BY <2>1 DEF Looked
  <2>3. Scan!Selected(indexed)' \subseteq Scan!Selected(indexed)
    BY <2>1 DEF Scan!Selected
  <2>4. PrefetchSound'
    <3>1. pc = "prefetch" => moved'
      BY <2>1
    <3>2. QED
      BY <1>0, <2>1, <3>1 DEF PrefetchSound
  <2>5. BucketSound'
    BY <1>0, <2>1 DEF BucketSound
  <2>6. PagesSound'
    <3>1. more => moved'
      BY <2>1
    <3>2. Complete' /\ ~ByIndex => ~more
      BY <1>0, <3>1 DEF Complete, ByIndex, Scan!Skipped, ScanTyped, Scan!Requests
    <3>3. QED
      BY <1>0, <2>1, <2>2, <2>3, <3>2 DEF PagesSound
  <2>7. ScanKept'
    BY <1>k, <2>1
  <2>8. QED
    BY <2>4, <2>5, <2>6, <2>7 DEF ScanDiscovery
<1>12. ASSUME NEW f \in Files, Scan!DiskMoves(f)
       PROVE  ScanDiscovery' /\ ScanKept'
  <2>1. /\ UNCHANGED <<rows, indexed, cursor, fetched, seen, total, more, pc, hits, records, clips,
                       extras, orphans, wrong, kept>>
        /\ pc # "done"
    BY <1>12 DEF Scan!DiskMoves
  <2>2. hits' \cup Looked' = hits \cup Looked
    BY <2>1 DEF Looked
  <2>3. QED
    BY <1>k, <1>s, <2>1, <2>2
<1>13. CASE UNCHANGED Scan!vars
  <2>1. UNCHANGED <<rows, indexed, cursor, fetched, seen, total, more, pc, hits, records, clips,
                    extras, orphans, wrong, kept>>
    BY <1>13 DEF Scan!vars
  <2>2. hits' \cup Looked' = hits \cup Looked
    BY <2>1 DEF Looked
  <2>3. QED
    BY <1>d, <1>k, <1>s, <2>1, <2>2
<1>14. QED
  BY <1>1, <1>2, <1>3, <1>4, <1>5, <1>6, <1>7, <1>8, <1>9, <1>10, <1>11, <1>12, <1>13
     DEF Scan!Next

\* A pass that has seen as many hits as there are has concluded on every file
\* that index and disk held all the time.
LEMMA SteadyIsLookedAt ==
  ASSUME ScanHolds, pc = "conclude", Complete, Scan!Whole, NEW f \in Scan!Steady
  PROVE  /\ f \in clips \cup extras \cup orphans \cup wrong
         /\ f \in verified /\ f \in Files
<1>1. /\ ScanTyped /\ ScanPhases /\ PagesSound /\ stayed \cap Looked \subseteq verified
  BY DEF ScanHolds, ScanDiscovery, ScanListings
<1>2. hits = {} /\ records = {} /\ ~more
  BY <1>1 DEF ScanPhases
<1>3. f \in indexed /\ f \in stayed /\ f \in Scan!Selected(Files)
  BY DEF Scan!Steady
<1>4. f \in Scan!Selected(indexed) /\ f \in Files
  BY <1>3 DEF Scan!Selected
<1>5. Scan!Selected(indexed) \subseteq hits \cup Looked
  BY <1>1, <1>2 DEF PagesSound, Scan!Whole
<1>6. f \in Looked
  BY <1>2, <1>4, <1>5
<1>7. QED
  BY <1>1, <1>2, <1>3, <1>4, <1>6 DEF Looked

\* Where there is no clip, a file that was not made one is a doubt.
LEMMA NoClipIsDoubt ==
  ASSUME Scan!MayBeComplete, clips = {}, verified # {},
         NEW f, f \in extras \cup orphans \cup wrong
  PROVE  Scan!Doubt
<1>1. CASE f \in wrong
  BY <1>1 DEF Scan!Doubt
<1>2. CASE f \in orphans
  BY <1>2 DEF Scan!Doubt, Scan!Reports
<1>3. CASE f \in extras
  <2>1. Scan!ClipHomes = {}
    BY DEF Scan!ClipHomes
  <2>2. Home[f] \in Scan!Unmade
    BY <1>3, <2>1 DEF Scan!Unmade
  <2>3. QED
    BY <2>2 DEF Scan!Doubt
<1>4. QED
  BY <1>1, <1>2, <1>3

\* A clip remembers where each of its files lies, but for those overwritten.
LEMMA ClipRemembers ==
  ASSUME ScanHolds, pc = "conclude", Complete, NEW f \in clips, ~Scan!Overwritten(f)
  PROVE  Home[f] \in Scan!Children \cup {Here}
<1> DEFINE k == kept[umid[f]]
<1>1. ScanTyped /\ f \in Files /\ clips \subseteq Files /\ Remembers(f, k)
  BY DEF ScanHolds, ScanTyped, ScanKept
<1>2. \A g \in clips : g \in Nat /\ g # 0
  BY <1>1, ScanConstants
<1> HIDE DEF k
<1>3. CASE k.last = f
  <2>1. Home[f] \in {Home[kept[umid[g]].last] : g \in clips}
    BY <1>3 DEF k
  <2>2. QED
    BY <2>1 DEF Scan!Children
<1>4. CASE k.last # f
  <2>1. k.last \in clips /\ k.last > f /\ umid[k.last] = umid[f]
    BY <1>1, <1>2, <1>4 DEF Remembers
  <2>2. umid[f] \notin known /\ ~\E e \in clips : e < f /\ umid[e] = umid[f]
    BY <2>1 DEF Scan!Overwritten
  <2>3. k.first \in clips /\ umid[k.first] = umid[f] /\ k.first =< f
    BY <1>1, <2>2 DEF Remembers
  <2>4. k.first = f
    BY <1>2, <2>2, <2>3
  <2>5. f \in {g \in clips : kept[umid[g]].first # 0}
    BY <1>2, <2>4 DEF k
  <2>6. Home[f] \in Scan!ClipHomes
    BY <2>4, <2>5 DEF Scan!ClipHomes, k
  <2>7. QED
    BY <2>6 DEF Scan!Children
<1>5. QED
  BY <1>3, <1>4

\* What the verdict reads, it leaves alone.
VerdictLeaves ==
  UNCHANGED <<request, umid, known, rows, indexed, moved, disk, stayed, lossy, listed, verified,
              records, matched, extras, orphans, clips, kept, wrong>>

LEMMA VerdictReads ==
  ASSUME VerdictLeaves
  PROVE  /\ Scan!Steady' = Scan!Steady /\ (Scan!Skipped' <=> Scan!Skipped)
         /\ Scan!ClipHomes' = Scan!ClipHomes /\ (Scan!MayBeComplete' <=> Scan!MayBeComplete)
         /\ \A f : Scan!Overwritten(f)' <=> Scan!Overwritten(f)
         /\ \A f : Scan!Sheltered(f)' <=> Scan!Sheltered(f)
BY DEF VerdictLeaves, Scan!Steady, Scan!Skipped, Scan!Overwritten, Scan!ClipHomes,
       Scan!MayBeComplete, Scan!Sheltered

\* The walk is sent below only around what the clips consumed.
LEMMA DescentIsSound ==
  ASSUME ScanHolds, Scan!Authorize
  PROVE  Scan!DescentSound'
<1>1. /\ VerdictLeaves /\ consumed' = Scan!Children
      /\ pc = "conclude" /\ Scan!MayBeComplete /\ Scan!Whole /\ ~Scan!Doubt
  BY DEF Scan!Authorize, VerdictLeaves, Scan!asked, Scan!index, Scan!store, Scan!paging,
         Scan!work, Scan!built
<1>2. /\ Scan!Steady' = Scan!Steady /\ (Scan!Skipped' <=> Scan!Skipped)
      /\ \A f : Scan!Overwritten(f)' <=> Scan!Overwritten(f)
  BY <1>1, VerdictReads
<1>3. ASSUME ~Scan!Skipped, NEW f \in Scan!Steady
      PROVE  \/ Home[f] \in Scan!Children \cup {Here}
             \/ clips # {} /\ f \in wrong \cup extras \cup orphans
             \/ Scan!Overwritten(f)
  <2>1. Complete
    BY <1>1, <1>3 DEF Complete
  <2>2. f \in clips \cup extras \cup orphans \cup wrong /\ f \in verified
    BY <1>1, <2>1, SteadyIsLookedAt
  <2>3. CASE f \in clips
    BY <1>1, <2>1, <2>3, ClipRemembers
  <2>4. CASE f \in extras \cup orphans \cup wrong
    <3>1. clips # {}
      BY <1>1, <2>2, <2>4, NoClipIsDoubt
    <3>2. QED
      BY <2>4, <3>1
  <2>5. QED
    BY <2>2, <2>3, <2>4
<1>4. QED
  <2>1. SUFFICES ASSUME ~Scan!Skipped', NEW f \in Scan!Steady'
                 PROVE  \/ Home[f] \in consumed' \cup {Here}
                        \/ clips' # {} /\ f \in wrong' \cup extras' \cup orphans'
                        \/ Scan!Overwritten(f)'
    BY DEF Scan!DescentSound
  <2>2. QED
    BY <1>1, <1>2, <1>3, <2>1 DEF VerdictLeaves

\* A pass over the whole folder that ends without an error of its own has
\* something to say of every file.
LEMMA EndsAloud ==
  ASSUME ScanHolds, Scan!Authorize \/ Scan!Withhold
  PROVE  Scan!NothingSilent'
<1>1. /\ VerdictLeaves /\ pc = "conclude"
      /\ unmade' = Scan!Unmade /\ errors \cup Scan!Reports \subseteq errors'
      /\ Scan!MayBeComplete => Scan!Whole \/ "short" \in errors'
  BY DEF Scan!Authorize, Scan!Withhold, VerdictLeaves, Scan!asked, Scan!index, Scan!store,
         Scan!paging, Scan!work, Scan!built
<1>2. /\ Scan!Steady' = Scan!Steady /\ (Scan!Skipped' <=> Scan!Skipped)
      /\ Scan!ClipHomes' = Scan!ClipHomes /\ (Scan!MayBeComplete' <=> Scan!MayBeComplete)
  BY <1>1, VerdictReads
<1>3. SUFFICES ASSUME Scan!MayBeComplete, ~Scan!Skipped, "short" \notin errors',
                      NEW f \in Scan!Steady
               PROVE  \/ f \in clips \cup wrong
                      \/ f \in orphans /\ "orphans" \in errors'
                      \/ f \in extras /\ \/ Scan!Anchor(f) \cap (clips \cup wrong) # {}
                                         \/ Home[f] \in unmade'
                                         \/ /\ Scan!Anchor(f) \cap Scan!Steady = {}
                                            /\ Home[f] \in Scan!ClipHomes
  <2>1. UNCHANGED <<clips, wrong, orphans, extras>>
    BY <1>1 DEF VerdictLeaves
  <2>2. QED
    BY <1>2, <1>3, <2>1 DEF Scan!NothingSilent, Scan!Sheltered
<1>4. Complete /\ Scan!Whole
  BY <1>1, <1>3 DEF Complete
<1>5. \A g \in Scan!Steady : g \in clips \cup extras \cup orphans \cup wrong
  BY <1>1, <1>4, SteadyIsLookedAt
<1>6. CASE f \in orphans
  BY <1>1, <1>6 DEF Scan!Reports
<1>7. CASE f \in extras
  <2>1. Home[f] \in unmade' \/ Home[f] \in Scan!ClipHomes
    BY <1>1, <1>3, <1>7 DEF Scan!Unmade
  <2>2. ASSUME NEW g \in Scan!Anchor(f), g \in Scan!Steady
        PROVE  g \in clips \cup wrong
    <3>1. ~(Number[g] =< 1) => FALSE
      BY DEF Scan!Anchor
    <3>2. \A h \in extras \cup orphans : ~(Number[h] =< 1)
      BY DEF ScanHolds, ScanListings
    <3>3. QED
      BY <1>5, <2>2, <3>1, <3>2
  <2>3. QED
    BY <1>7, <2>1, <2>2
<1>8. QED
  BY <1>3, <1>5, <1>6, <1>7

\* What the pass ends with.
ScanEnds == pc = "done" => Scan!DescentSound /\ Scan!NothingSilent

\* A step of the pass ends it with what it promises.
LEMMA EndsKept ==
  ASSUME ScanHolds, ScanEnds, [Scan!Next]_(Scan!vars)
  PROVE  ScanEnds'
<1>0. ScanTyped /\ ScanPhases
  BY DEF ScanHolds
<1>a. ASSUME pc # "done", UNCHANGED descent,
             errors' \cap {"refused", "no root", "short index", "query", "persist", "short"} # {}
      PROVE  ScanEnds'
  <2>1. ~descent'
    BY <1>0, <1>a DEF ScanPhases
  <2>2. QED
    BY <1>a, <2>1 DEF ScanEnds, Scan!DescentSound, Scan!NothingSilent
<1>b. ASSUME pc' # "done"
      PROVE  ScanEnds'
  BY <1>b DEF ScanEnds
<1>1. CASE Scan!RefusePage \/ Scan!NoRoot \/ Scan!QueryFails
  BY <1>1, <1>a, RaisesDo
<1>2. CASE Scan!Begin
  BY <1>2, <1>b DEF Scan!Begin
<1>3. CASE Scan!Prefetch
  <2>1. pc = "prefetch" /\ (pc' # "done" \/ (UNCHANGED descent /\ "short index" \in errors'))
    BY <1>0, <1>3, PrefetchDoes DEF Scan!Prefetch
  <2>2. QED
    BY <1>a, <1>b, <2>1
<1>4. CASE Scan!FetchPage
  BY <1>4, <1>b DEF Scan!FetchPage
<1>5. CASE Scan!FetchBucket
  BY <1>5, <1>b DEF Scan!FetchBucket
<1>6. ASSUME NEW f \in Files, Scan!Read(f) \/ Scan!ReadBreaks(f)
      PROVE  ScanEnds'
  <2>1. pc' # "done"
    BY <1>0, <1>6, ReadDoes DEF ReadLeaves
  <2>2. QED
    BY <1>b, <2>1
<1>7. CASE Scan!Assemble
  <2>1. pc' # "done"
    BY <1>7 DEF Scan!Assemble
  <2>2. QED
    BY <1>b, <2>1
<1>8. CASE Scan!NotWritten
  BY <1>8, <1>a DEF Scan!NotWritten
<1>9. CASE Scan!Authorize
  BY <1>9, DescentIsSound, EndsAloud DEF ScanEnds
<1>10. CASE Scan!Withhold
  <2>1. ~descent'
    BY <1>0, <1>10 DEF ScanPhases, Scan!Withhold
  <2>2. QED
    BY <1>10, <2>1, EndsAloud DEF ScanEnds, Scan!DescentSound
<1>11. ASSUME NEW f \in Files, Scan!IndexMoves(f) \/ Scan!DiskMoves(f)
       PROVE  ScanEnds'
  BY <1>11, <1>b DEF Scan!IndexMoves, Scan!DiskMoves
<1>12. CASE UNCHANGED Scan!vars
  <2>1. VerdictLeaves /\ UNCHANGED <<pc, errors, unmade, descent, consumed>>
    BY <1>12 DEF VerdictLeaves, Scan!vars, Scan!asked, Scan!index, Scan!store, Scan!paging,
                 Scan!work, Scan!built, Scan!verdict
  <2>2. /\ Scan!DescentSound => Scan!DescentSound'
        /\ Scan!NothingSilent => Scan!NothingSilent'
    <3>1. UNCHANGED <<clips, wrong, extras, orphans, pc, errors, unmade, descent, consumed>>
      BY <2>1 DEF VerdictLeaves
    <3>2. Scan!DescentSound => Scan!DescentSound'
      <4>1. /\ Scan!Steady' = Scan!Steady /\ (Scan!Skipped' <=> Scan!Skipped)
            /\ \A f : Scan!Overwritten(f)' <=> Scan!Overwritten(f)
        BY <2>1, VerdictReads
      <4>2. SUFFICES ASSUME Scan!DescentSound, descent', ~Scan!Skipped', NEW f \in Scan!Steady'
                     PROVE  \/ Home[f] \in consumed' \cup {Here}
                            \/ clips' # {} /\ f \in wrong' \cup extras' \cup orphans'
                            \/ Scan!Overwritten(f)'
        BY DEF Scan!DescentSound
      <4>3. QED
        BY <3>1, <4>1, <4>2 DEF Scan!DescentSound
    <3>3. Scan!NothingSilent => Scan!NothingSilent'
      BY <2>1, <3>1, VerdictReads DEF Scan!NothingSilent
    <3>4. QED
      BY <3>2, <3>3
  <2>3. QED
    BY <2>1, <2>2 DEF ScanEnds
<1>13. QED
  BY <1>1, <1>2, <1>3, <1>4, <1>5, <1>6, <1>7, <1>8, <1>9, <1>10, <1>11, <1>12 DEF Scan!Next

\* The pass starts with all of it.
LEMMA ScanStarts ==
  ASSUME Scan!Init
  PROVE  ScanHolds /\ ScanEnds
<1>1. ScanTyped
  BY ScanStartsTyped
<1>2. Looked = {} /\ hits = {} /\ records = {} /\ clips = {}
  BY DEF Scan!Init, Looked
<1>3. ScanPhases
  BY <1>2 DEF Scan!Init, ScanPhases
<1>4. ScanListings
  BY <1>2 DEF Scan!Init, ScanListings
<1>5. ScanDiscovery
  <2>1. seen = 0 /\ Cardinality(hits \cup Looked) = 0
    <3>1. hits \cup Looked = {}
      BY <1>2
    <3>2. QED
      BY <3>1, FS_EmptySet DEF Scan!Init
  <2>2. QED
    BY <2>1 DEF Scan!Init, ScanDiscovery, PrefetchSound, BucketSound, PagesSound
<1>6. ScanKept
  BY <1>2 DEF ScanKept
<1>7. QED
  BY <1>1, <1>3, <1>4, <1>5, <1>6 DEF Scan!Init, ScanHolds, ScanEnds

\* While the scan is the subject, all of it holds.
LEMMA ScanAlways == Spec => [](subject = "scan" => ScanHolds /\ ScanEnds)
<1>1. Init => (subject = "scan" => ScanHolds /\ ScanEnds)
  BY SubjectStarts, ScanStarts
<1>2. ScanHolds /\ ScanEnds /\ [Scan!Next]_(Scan!vars) => ScanHolds' /\ ScanEnds'
  <2>1. SUFFICES ASSUME ScanHolds, ScanEnds, [Scan!Next]_(Scan!vars)
                 PROVE  ScanHolds' /\ ScanEnds'
    OBVIOUS
  <2>2. ScanTyped' /\ ScanPhases' /\ ScanListings' /\ ScanDiscovery' /\ ScanKept'
    BY <2>1, ScanTypedKept, PhasesKept, ScanListingsKept, DiscoveryKept
  <2>3. ScanEnds'
    BY <2>1, EndsKept
  <2>4. QED
    BY <2>2, <2>3 DEF ScanHolds
<1>3. (subject = "scan" => ScanHolds /\ ScanEnds) /\ [Next]_vars =>
        (subject = "scan" => ScanHolds /\ ScanEnds)'
  BY <1>2, SubjectSteps
<1>4. QED
  BY <1>1, <1>3, PTL DEF Spec

\* No segment becomes a clip beside its anchor (segment_role, ListingCache).
THEOREM AnchorsTakeTheirSegments == Spec => []SegmentsTogether
<1>1. (subject = "scan" => ScanHolds /\ ScanEnds) => SegmentsTogether
  <2>1. SUFFICES ASSUME ScanHolds, NEW f \in clips, Scan!Grouping(f), ~(Number[f] =< 1),
                        listed[Home[f]].state # "failed", NEW g \in Scan!Anchor(f), g \in stayed
                 PROVE  FALSE
    BY DEF SegmentsTogether, Scan!SegmentsTogether
  <2>2. f \in Files /\ Home[f] \in Scan!Homes
    BY <2>1 DEF ScanHolds, ScanTyped, Scan!Homes
  <2>3. /\ listed[Home[f]].state = "read"
        /\ Scan!Siblings(f, listed[Home[f]].names) = {}
        /\ {h \in stayed : Home[h] = Home[f]} \subseteq listed[Home[f]].names
    BY <2>1, <2>2 DEF ScanHolds, ScanListings
  <2>4. Home[g] = Home[f] /\ Take[g] = Take[f] /\ Number[g] = 1 /\ g # f
    BY <2>1 DEF Scan!Anchor
  <2>5. g \in listed[Home[f]].names
    BY <2>1, <2>3, <2>4
  <2>6. QED
    BY <2>3, <2>4, <2>5 DEF Scan!Siblings
<1>2. QED
  BY <1>1, ScanAlways, PTL

\* The tree walk is never sent into a child whose files became clips of the
\* folder above it (Folder._scan_pass and its consumed sub-directories).
THEOREM TheWalkStaysOut == Spec => []DescentSound
<1>1. (subject = "scan" => ScanHolds /\ ScanEnds) => DescentSound
  <2>1. SUFFICES ASSUME ScanHolds, ScanEnds
                 PROVE  Scan!DescentSound
    BY DEF DescentSound
  <2>2. pc # "done" => ~descent
    BY <2>1 DEF ScanHolds, ScanPhases
  <2>3. QED
    BY <2>1, <2>2 DEF ScanEnds, Scan!DescentSound
<1>2. QED
  BY <1>1, ScanAlways, PTL

\* A file that index and disk held all the time becomes a clip, stays with its
\* anchor's, or is reported (Folder._scan_pass).
THEOREM NoMediumIsSilent == Spec => []NothingSilent
<1>1. (subject = "scan" => ScanHolds /\ ScanEnds) => NothingSilent
  BY DEF NothingSilent, ScanEnds, Scan!NothingSilent
<1>2. QED
  BY <1>1, ScanAlways, PTL

-----------------------------------------------------------------------------
(* The types.                                                              *)

\* A step of the scan is a mishap or none.
LEMMA MishapsCounted ==
  ASSUME [Scan!Next]_(Scan!vars)
  PROVE  UNCHANGED mishaps \/ Scan!Mishap
<1>2. CASE UNCHANGED Scan!vars
  BY <1>2 DEF Scan!vars
<1>3. CASE Scan!RefusePage \/ Scan!NoRoot \/ Scan!Begin
  BY <1>3 DEF Scan!RefusePage, Scan!NoRoot, Scan!Begin
<1>4. CASE Scan!Prefetch
  BY <1>4 DEF Scan!Prefetch, Scan!Delivered, Scan!Most
<1>5. CASE Scan!FetchPage
  BY <1>5 DEF Scan!FetchPage, Scan!Delivered, Scan!Most
<1>6. CASE Scan!FetchBucket \/ Scan!QueryFails
  BY <1>6 DEF Scan!FetchBucket, Scan!QueryFails
<1>7. CASE \E f \in Files : Scan!Read(f) \/ Scan!ReadBreaks(f)
  BY <1>7 DEF Scan!Read, Scan!ReadBreaks, Scan!List
<1>8. CASE Scan!Assemble
  BY <1>8 DEF Scan!Assemble, Scan!Most
<1>9. CASE Scan!NotWritten \/ Scan!Authorize \/ Scan!Withhold
  BY <1>9 DEF Scan!NotWritten, Scan!Authorize, Scan!Withhold
<1>10. CASE \E f \in Files : Scan!IndexMoves(f) \/ Scan!DiskMoves(f)
  BY <1>10 DEF Scan!IndexMoves, Scan!DiskMoves
<1>11. QED
  BY <1>2, <1>3, <1>4, <1>5, <1>6, <1>7, <1>8, <1>9, <1>10 DEF Scan!Next

\* The scan counts its mishaps and stops at the bound.
LEMMA ScanMishapsBounded ==
  ASSUME mishaps \in 0 .. MaxMishaps, [Scan!Next]_(Scan!vars)
  PROVE  mishaps' \in 0 .. MaxMishaps
BY MishapsCounted, DocumentConstants DEF Scan!Mishap

\* While the scan is the subject, it does.
LEMMA ScanMishapsAlways == Spec => [](subject = "scan" => mishaps \in 0 .. MaxMishaps)
<1>1. Init => (subject = "scan" => mishaps \in 0 .. MaxMishaps)
  BY SubjectStarts, DocumentConstants DEF Scan!Init
<1>2. (subject = "scan" => mishaps \in 0 .. MaxMishaps) /\ [Next]_vars =>
        (subject = "scan" => mishaps \in 0 .. MaxMishaps)'
  BY SubjectSteps, ScanMishapsBounded
<1>3. QED
  BY <1>1, <1>2, PTL DEF Spec

\* The state of every part keeps to its shape (Folder._scan_pass,
\* evaluate_tree, Relocator.run, migrate_wrapped_items, buildShapeDocument).
THEOREM PartsTyped == Spec => []TypeOK
<1>1. ScanHolds /\ mishaps \in 0 .. MaxMishaps => Scan!TypeOK
  BY DEF ScanHolds, ScanTyped, ScanPhases, Scan!TypeOK
<1>2. GateKept => Gate!TypeOK
  BY DEF GateKept, GateTyped, GateRunning, Gate!TypeOK
<1>3. MoveKept => Move!TypeOK
  BY DEF MoveKept
<1>4. BatchKept => Batch!TypeOK
  <2>1. SUFFICES ASSUME BatchKept
                 PROVE  Batch!TypeOK
    OBVIOUS
  <2>2. BatchTyped /\ inARow + Cardinality(queue) =< Cardinality(BatchRows)
    BY <2>1 DEF BatchKept
  <2>3. Cardinality(queue) \in Nat /\ Cardinality(BatchRows) \in Nat
    BY <2>2, RowsCounted DEF BatchTyped
  <2>4. inARow =< Batch!Cardinality(BatchRows)
    BY <2>2, <2>3, SameCount DEF BatchTyped
  <2>5. ended =< Batch!EnoughRuns /\ mishaps =< BatchMishaps
    BY <2>1 DEF BatchKept
  <2>6. QED
    BY <2>2, <2>4, <2>5 DEF BatchTyped, Batch!TypeOK
<1>5. DocumentKept => Document!TypeOK
  BY DEF DocumentKept, DocumentTyped, DocumentRunning, Document!TypeOK
<1>6. /\ subject = "scan" => ScanHolds /\ mishaps \in 0 .. MaxMishaps
      /\ subject = "gate" => GateKept
      /\ subject = "move" => MoveKept
      /\ subject = "batch" => BatchKept
      /\ subject = "document" => DocumentKept
      /\ subject \in {"scan", "gate", "move", "batch", "document"}
      => TypeOK
  BY <1>1, <1>2, <1>3, <1>4, <1>5 DEF TypeOK
<1>7. Spec => [](subject \in {"scan", "gate", "move", "batch", "document"})
  <2>1. Init => subject \in {"scan", "gate", "move", "batch", "document"}
    BY DEF Init
  <2>2. subject \in {"scan", "gate", "move", "batch", "document"} /\ [Next]_vars =>
          (subject \in {"scan", "gate", "move", "batch", "document"})'
    BY SubjectSteps
  <2>3. QED
    BY <2>1, <2>2, PTL DEF Spec
<1>8. QED
  BY <1>6, <1>7, ScanAlways, ScanMishapsAlways, GateAlways, MoveAlways,
     BatchAlways, DocumentAlways, PTL

-----------------------------------------------------------------------------
(* The end of a pass: every step leaves less to do (Scan!Nearer).          *)

\* While the cursor stays, so does what is ahead.
LEMMA AheadStays ==
  ASSUME UNCHANGED <<request, cursor>>
  PROVE  Scan!Ahead' = Scan!Ahead
BY DEF Scan!Ahead

\* Where there is a hit behind the cursor, a cursor past it leaves less ahead.
LEMMA AheadShrinks ==
  ASSUME cursor \in Nat, cursor' \in Nat, cursor =< cursor', UNCHANGED request
  PROVE  /\ Scan!Ahead' \subseteq Scan!Ahead
         /\ \A n \in Scan!Ahead : n =< cursor' => Scan!Ahead' # Scan!Ahead
<1>1. CASE request.discovery = "index"
  <2>1. /\ Scan!Ahead = {f \in Files : f > cursor}
        /\ Scan!Ahead' = {f \in Files : f > cursor'}
    BY <1>1 DEF Scan!Ahead
  <2>2. \A f \in Files : f \in Nat
    BY ScanConstants
  <2> QED
    BY <2>1, <2>2
<1>2. CASE request.discovery # "index"
  <2>1. /\ Scan!Ahead = {n \in 1 .. Cardinality(Files) : n > cursor}
        /\ Scan!Ahead' = {n \in 1 .. Cardinality(Files) : n > cursor'}
    BY <1>2, SameCount DEF Scan!Ahead
  <2> QED
    BY <2>1
<1> QED
  BY <1>1, <1>2

\* A page of the prefetch is not full, or there is less behind its last hit.
LEMMA PrefetchIsNearer ==
  ASSUME ScanHolds, Scan!Prefetch
  PROVE  \/ Scan!Ahead' \subseteq Scan!Ahead /\ Scan!Ahead' # Scan!Ahead
         \/ Scan!Ahead' = Scan!Ahead /\ Scan!Phase' < Scan!Phase
<1>0. /\ ScanTyped /\ ScanPhases /\ pc = "prefetch" /\ request.discovery = "index"
      /\ cursor \in Nat /\ ~more
  BY DEF ScanHolds, ScanPhases, ScanTyped, ByIndex, Scan!Prefetch
<1>1. UNCHANGED <<request, more>>
  BY DEF Scan!Prefetch, Scan!asked
<1>2. CASE Scan!NextPage # {} /\ cursor' = Scan!Max(Scan!NextPage)
  <2>1. Scan!NextPage \in SUBSET Files
    BY <1>0, PrefetchDoes
  <2>2. cursor' \in Scan!NextPage
    BY <1>2, <2>1, LastOfPage
  <2>3. cursor' \in Files /\ cursor' > cursor /\ cursor' \in Nat
    BY <2>1, <2>2, ScanConstants DEF Scan!NextPage, Scan!FirstOf
  <2>4. cursor' \in Scan!Ahead
    BY <1>0, <2>3 DEF Scan!Ahead
  <2> QED
    BY <1>0, <1>1, <2>3, <2>4, AheadShrinks
<1>3. CASE UNCHANGED cursor /\ pc' \in {"fetch", "done"}
  <2>1. Scan!Phase = 5 /\ Scan!Phase' \in {3, 0}
    BY <1>0, <1>1, <1>3 DEF Scan!Phase
  <2> QED
    BY <1>1, <1>3, <2>1, AheadStays
<1> QED
  BY <1>0, <1>2, <1>3, PrefetchDoes

\* A page of the query is the last, or one of its hits ranks before the next.
LEMMA PageIsNearer ==
  ASSUME ScanHolds, Scan!FetchPage
  PROVE  \/ Scan!Ahead' \subseteq Scan!Ahead /\ Scan!Ahead' # Scan!Ahead
         \/ Scan!Ahead' = Scan!Ahead /\ Scan!Phase' < Scan!Phase
<1> DEFINE all == Scan!Selected(rows)
           page == Scan!FirstOf({f \in all : Scan!Rank(f, all) >= cursor})
<1>0. /\ ScanTyped /\ pc = "fetch" /\ request.discovery = "legacy"
      /\ pc' = "read" /\ cursor' = cursor + PageSize /\ cursor \in Nat
      /\ UNCHANGED request
  BY DEF ScanHolds, ScanTyped, Scan!FetchPage, Scan!asked
<1>1. cursor' \in Nat /\ cursor < cursor' /\ PageSize \in Nat \ {0}
  BY <1>0, ScanConstants
<1>2. Scan!Ahead' \subseteq Scan!Ahead
  BY <1>0, <1>1, AheadShrinks
<1>3. all \in SUBSET Files /\ page \in SUBSET Files
  BY <1>0, FetchPageDoes
<1>4. PICK got \in SUBSET page :
        more' \in BOOLEAN /\ (more' <=> request.ask # "page" /\ Cardinality(got) = PageSize)
  BY <1>0, FetchPageDoes
<1>5. CASE more'
  <2>1. Cardinality(got) = PageSize
    BY <1>4, <1>5
  <2>2. got # {}
    BY <1>1, <2>1, FS_EmptySet
  <2>3. PICK f \in page : TRUE
    <3> HIDE DEF page
    <3> QED
      BY <2>2
  <2>4. f \in all /\ Scan!Rank(f, all) >= cursor
    <3> HIDE DEF all
    <3> QED
      BY DEF page, Scan!FirstOf
  <2>5. Scan!Rank(f, all) < Cardinality(Files)
    <3> HIDE DEF all
    <3>1. Before(f, all) \subseteq Files \ {f}
      <4>1. ASSUME NEW h \in all, h < f
            PROVE  h \in Files \ {f}
        <5>1. h \in Files /\ h \in Nat
          BY <1>3, ScanConstants
        <5> QED
          BY <4>1, <5>1
      <4> QED
        BY <4>1 DEF Before
    <3>2. IsFiniteSet(Files) /\ f \in Files
      BY <1>3, <2>4, ScanConstants
    <3>3. IsFiniteSet(Files \ {f}) /\ Cardinality(Files \ {f}) = Cardinality(Files) - 1
      BY <3>2, FS_RemoveElement
    <3>4. Cardinality(Before(f, all)) =< Cardinality(Files \ {f})
      BY <3>1, <3>3, FS_Subset
    <3>5. Cardinality(Before(f, all)) \in Nat /\ Cardinality(Files) \in Nat
      BY <1>3, <3>2, BeforeIsFinite, FS_CardinalityType
    <3> HIDE DEF Before
    <3>6. Scan!Rank(f, all) = Cardinality(Before(f, all))
      BY RankCounts
    <3> QED
      BY <3>3, <3>4, <3>5, <3>6
  <2>6. cursor < Cardinality(Files) /\ Cardinality(Files) \in Nat
    <3> HIDE DEF all
    <3>1. Scan!Rank(f, all) \in Nat
      BY <1>3, RankIsNat
    <3>2. Cardinality(Files) \in Nat
      BY ScanConstants, FS_CardinalityType
    <3> QED
      BY <1>0, <2>4, <2>5, <3>1, <3>2
  <2>7. cursor + 1 \in Scan!Ahead
    BY <1>0, <2>6, SameCount DEF Scan!Ahead
  <2>8. cursor + 1 =< cursor'
    BY <1>0, <1>1
  <2> QED
    BY <1>0, <1>1, <1>2, <2>7, <2>8, AheadShrinks
<1>6. CASE ~more'
  <2>1. Scan!Phase = 3 /\ Scan!Phase' = 2
    BY <1>0, <1>6 DEF Scan!Phase
  <2> QED
    BY <1>2, <2>1
<1> QED
  BY <1>5, <1>6

\* Each of the other steps goes to a later phase, takes a hit, or is a mishap.
LEMMA EachIsNearer ==
  ASSUME ScanHolds, mishaps \in 0 .. MaxMishaps, mishaps' \in 0 .. MaxMishaps,
         UNCHANGED mishaps \/ Scan!Mishap, Scan!Next
  PROVE  Scan!Nearer
<1>0. ScanTyped /\ ScanPhases
  BY DEF ScanHolds
<1>a. mishaps' = mishaps \/ mishaps' > mishaps
  BY DocumentConstants DEF Scan!Mishap
<1>b. SUFFICES ASSUME mishaps' = mishaps
               PROVE  \/ Scan!Ahead' \subseteq Scan!Ahead /\ Scan!Ahead' # Scan!Ahead
                      \/ Scan!Ahead' = Scan!Ahead /\ Scan!Phase' < Scan!Phase
                      \/ /\ Scan!Ahead' = Scan!Ahead /\ Scan!Phase' = Scan!Phase
                         /\ hits' \subseteq hits /\ hits' # hits
  BY <1>a DEF Scan!Nearer
<1>c. ~Scan!Mishap
  BY <1>b, DocumentConstants DEF Scan!Mishap
<1>1. CASE Scan!RefusePage \/ Scan!NoRoot \/ Scan!QueryFails
  <2>1. /\ pc' = "done" /\ pc \in {"start", "prefetch", "fetch"}
        /\ UNCHANGED <<request, cursor>>
    BY <1>1, RaisesDo
  <2>2. Scan!Phase' = 0 /\ Scan!Phase \in {6, 5, 3}
    BY <2>1 DEF Scan!Phase
  <2> QED
    BY <2>1, <2>2, AheadStays
<1>2. CASE Scan!Begin
  <2>1. pc = "start" /\ pc' \in {"prefetch", "fetch"} /\ UNCHANGED <<request, cursor>>
    BY <1>2 DEF Scan!Begin, Scan!asked, Scan!paging
  <2>2. Scan!Phase = 6 /\ Scan!Phase' \in {5, 3}
    BY <2>1 DEF Scan!Phase
  <2> QED
    BY <2>1, <2>2, AheadStays
<1>3. CASE Scan!Prefetch
  BY <1>3, PrefetchIsNearer
<1>4. CASE Scan!FetchPage
  BY <1>4, PageIsNearer
<1>5. CASE Scan!FetchBucket
  <2>1. pc = "fetch" /\ pc' = "read" /\ UNCHANGED <<request, cursor, more>> /\ ~more
    BY <1>0, <1>5 DEF Scan!FetchBucket, Scan!asked, ScanPhases, ByIndex
  <2>2. Scan!Phase = 3 /\ Scan!Phase' = 2
    BY <2>1 DEF Scan!Phase
  <2> QED
    BY <2>1, <2>2, AheadStays
<1>6. ASSUME NEW f \in Files, Scan!Read(f) \/ Scan!ReadBreaks(f)
      PROVE  /\ Scan!Ahead' = Scan!Ahead /\ Scan!Phase' = Scan!Phase
             /\ hits' \subseteq hits /\ hits' # hits
  <2>1. UNCHANGED <<request, cursor, more, pc>> /\ f \in hits /\ hits' = hits \ {f}
    BY <1>0, <1>6, ReadDoes DEF ReadLeaves
  <2>2. Scan!Phase' = Scan!Phase
    BY <2>1 DEF Scan!Phase
  <2> QED
    BY <2>1, <2>2, AheadStays
<1>7. CASE Scan!Assemble
  <2>1. PICK good \in SUBSET records : AssembleDoes(good)
    BY <1>0, <1>7, AssembleKeeps
  <2>2. /\ pc = "read" /\ pc' = (IF more THEN "fetch" ELSE "conclude")
        /\ UNCHANGED <<request, cursor, more>>
    BY <2>1 DEF AssembleDoes
  <2>3. Scan!Phase' < Scan!Phase
    <3>1. CASE more
      <4>1. Scan!Phase = 4 /\ Scan!Phase' = 3
        BY <2>2, <3>1 DEF Scan!Phase
      <4> QED
        BY <4>1
    <3>2. CASE ~more
      <4>1. Scan!Phase = 2 /\ Scan!Phase' = 1
        BY <2>2, <3>2 DEF Scan!Phase
      <4> QED
        BY <4>1
    <3> QED
      BY <3>1, <3>2
  <2> QED
    BY <2>2, <2>3, AheadStays
<1>8. CASE Scan!NotWritten \/ Scan!Authorize \/ Scan!Withhold
  <2>1. pc = "conclude" /\ pc' = "done" /\ UNCHANGED <<request, cursor>>
    BY <1>8 DEF Scan!NotWritten, Scan!Authorize, Scan!Withhold, Scan!asked, Scan!paging
  <2>2. Scan!Phase = 1 /\ Scan!Phase' = 0
    BY <2>1 DEF Scan!Phase
  <2> QED
    BY <2>1, <2>2, AheadStays
<1>9. CASE \E f \in Files : Scan!IndexMoves(f) \/ Scan!DiskMoves(f)
  BY <1>9, <1>c DEF Scan!IndexMoves, Scan!DiskMoves
<1> QED
  BY <1>1, <1>2, <1>3, <1>4, <1>5, <1>6, <1>7, <1>8, <1>9 DEF Scan!Next

\* A scan ends whatever it meets: every step leaves it less to do, so the pages
\* cannot repeat (fetch_index_hits, Folder._scan_pass).
THEOREM EveryScanDwindles == Spec => ScanDwindles
<1>1. /\ subject = "scan" => ScanHolds /\ ScanEnds
      /\ subject = "scan" => mishaps \in 0 .. MaxMishaps
      /\ [Next]_vars
      => [subject = "scan" => Scan!Nearer]_vars
  <2>1. SUFFICES ASSUME ScanHolds, mishaps \in 0 .. MaxMishaps, subject = "scan", Next
                 PROVE  Scan!Nearer
    OBVIOUS
  <2>2. Scan!Next
    BY <2>1 DEF Next
  <2>3. mishaps' \in 0 .. MaxMishaps
    BY <2>1, <2>2, ScanMishapsBounded
  <2>4. UNCHANGED mishaps \/ Scan!Mishap
    BY <2>2, MishapsCounted
  <2> QED
    BY <2>1, <2>2, <2>3, <2>4, EachIsNearer
<1> QED
  BY <1>1, ScanAlways, ScanMishapsAlways, PTL DEF Spec, ScanDwindles
=============================================================================
