------------------------- MODULE ChartShortIDProofs --------------------------
(* The chart getter with its cache and a repository's index, and the           *)
(* generators of short ids.                                                    *)
EXTENDS ChartGetter, ShortID, Arithmetic

(* More time for the provers: a long module keeps their results waiting.       *)
USE SMTT(20), ZenonT(20)

-----------------------------------------------------------------------------
(* helm/getter: the index of a repository, whose first match is the newest,  *)
(* and the disk cache, which serves only what was asked for.                 *)

-----------------------------------------------------------------------------
(* The operations on an index *)

\* The least of the positions that a search of Get looks for.
LEMMA MinIsLeast ==
  ASSUME NEW I \in SUBSET Nat, I # {}
  PROVE  Min(I) \in I /\ \A j \in I : Min(I) <= j
BY LeastNatural, Zenon DEF Min

\* Sorting keeps a sequence of entries of S one.
LEMMA SortKeepsEntries ==
  ASSUME NEW S, NEW vs \in Seq(S), NEW ws \in SortEntries(vs)
  PROVE  /\ ws \in Seq(S)
         /\ \A i, j \in 1..Len(ws) : i < j => ~Ahead(ws[j], ws[i])
<1>1. PICK p \in Bijection(DOMAIN vs, DOMAIN vs) : ws = [i \in DOMAIN vs |-> vs[p[i]]]
  BY DEF SortEntries, Rearranged
<1>2. p \in [1..Len(vs) -> 1..Len(vs)]
  BY DEF Bijection, Injection
<1>3. ws \in [1..Len(vs) -> S] /\ Len(vs) \in Nat
  BY <1>1, <1>2
<1>4. ws \in Seq(S)
  BY <1>3 DEF Seq
<1>5. DOMAIN ws = 1..Len(ws)
  BY <1>4
<1> QED BY <1>4, <1>5 DEF SortEntries

\* Get finds in an index without empty entries a release of the text asked for,
\* or the first one that the version admits; or there is none.
LEMMA GetFinds ==
  ASSUME NEW S, NEW vs \in Seq(S), NEW version, \A i \in 1..Len(vs) : vs[i].kind # "nil"
  PROVE  \/ /\ IndexGet(vs, version) = <<>>
            /\ ~version.valid \/ \A i \in 1..Len(vs) : ~Admits(version, vs[i])
         \/ \E i \in 1..Len(vs) :
              /\ IndexGet(vs, version) = <<vs[i]>>
              /\ \/ vs[i].text = version.text
                 \/ /\ Admits(version, vs[i])
                    /\ \A j \in 1..Len(vs) : Admits(version, vs[j]) => i <= j
<1> DEFINE E == {i \in 1..Len(vs) : vs[i].kind = "nil" \/ vs[i].text = version.text}
           A == {i \in 1..Len(vs) : vs[i].kind = "nil" \/ Admits(version, vs[i])}
           exact == IF version.text = "" THEN 0 ELSE IF E # {} THEN Min(E) ELSE 0
           first == IF A # {} THEN Min(A) ELSE 0
<1>1. IndexGet(vs, version) =
        IF ~version.valid \/ exact + first = 0 THEN <<>>
        ELSE IF exact # 0 THEN <<vs[exact]>> ELSE <<vs[first]>>
  BY Zenon DEF IndexGet, FirstAt
<1>2. E \in SUBSET Nat /\ A \in SUBSET Nat /\ 0 \notin A
  OBVIOUS
<1>3. exact # 0 => exact \in E
  BY <1>2, MinIsLeast, Zenon
<1>4. first # 0 => first \in A /\ \A j \in A : first <= j
  BY <1>2, MinIsLeast, Zenon
<1>5. first = 0 => A = {}
  <2> HIDE DEF A
  <2> QED BY <1>2, MinIsLeast
<1> HIDE DEF exact, first
<1>6. exact \in Nat /\ first \in Nat
  <2> HIDE DEF E, A
  <2>1. exact # 0 => exact \in Nat
    BY <1>2, <1>3, Zenon
  <2>2. first # 0 => first \in Nat
    BY <1>2, <1>4, Zenon
  <2> QED BY <2>1, <2>2
<1>7. CASE ~version.valid \/ exact + first = 0
  <2>1. IndexGet(vs, version) = <<>>
    BY <1>1, <1>7
  <2>2. ~version.valid \/ A = {}
    BY <1>5, <1>6, <1>7
  <2> QED BY <2>1, <2>2
<1>8. CASE ~(~version.valid \/ exact + first = 0) /\ exact # 0
  <2>1. IndexGet(vs, version) = <<vs[exact]>>
    BY <1>1, <1>8
  <2>2. exact \in 1..Len(vs) /\ vs[exact].text = version.text
    BY <1>3, <1>8
  <2> QED BY <2>1, <2>2
<1>9. CASE ~(~version.valid \/ exact + first = 0) /\ exact = 0
  <2>1. IndexGet(vs, version) = <<vs[first]>>
    BY <1>1, <1>9
  <2>2. first # 0
    BY <1>6, <1>9
  <2>3. first \in 1..Len(vs) /\ Admits(version, vs[first])
    BY <1>4, <2>2
  <2>4. \A j \in 1..Len(vs) : Admits(version, vs[j]) => first <= j
    BY <1>4, <2>2
  <2> QED BY <2>1, <2>3, <2>4
<1> QED BY <1>7, <1>8, <1>9

\* Merge takes over entries of the other index, one after the other.
LEMMA MergeKeepsEntries ==
  ASSUME NEW S, NEW vs \in Seq(S), NEW others \in Seq(S)
  PROVE  Merge(vs, others) \in Seq(S)
<1> DEFINE m == Len(others)
           Added(k, s) == IF Has(s, Exactly(others[k])) THEN s ELSE Append(s, others[k])
           F == [x \in (1..m) \X Seq(S) |-> Added(x[1], x[2])]
           merged == CHOOSE g : g = [k \in 0..m |-> IF k = 0 THEN vs ELSE Added(k, g[k - 1])]
<1>1. m \in Nat
  OBVIOUS
<1>2. \A k \in 1..m, s \in Seq(S) : Added(k, s) \in Seq(S)
  <2> SUFFICES ASSUME NEW k \in 1..m, NEW s \in Seq(S) PROVE Added(k, s) \in Seq(S)
    OBVIOUS
  <2>1. others[k] \in S
    OBVIOUS
  <2>2. Append(s, others[k]) \in Seq(S)
    BY <2>1
  <2> QED BY <2>2
<1> HIDE DEF Added
<1>3. F \in [(1..m) \X Seq(S) -> Seq(S)]
  BY <1>2
<1>4. PICK g : IsOrbit(g, Seq(S), vs, m, F)
  <2>1. F \in Steppers(m, Seq(S))
    BY <1>3 DEF Steppers
  <2> HIDE DEF m, F
  <2> QED BY <1>1, <2>1, Orbit
<1>5. \A k \in 1..m : g[k - 1] \in Seq(S)
  BY <1>1, <1>4 DEF IsOrbit
<1>6. \A k \in 1..m : g[k] = Added(k, g[k - 1])
  BY <1>4, <1>5, Zenon DEF IsOrbit
<1>7. g = [k \in 0..m |-> IF k = 0 THEN vs ELSE Added(k, g[k - 1])]
  <2> HIDE DEF m
  <2> QED BY <1>1, <1>4, <1>6 DEF IsOrbit
<1>8. merged = [k \in 0..m |-> IF k = 0 THEN vs ELSE Added(k, merged[k - 1])]
  BY <1>7, Zenon
<1>9. Merge(vs, others) = merged[m]
  BY DEF Merge, Added
<1> HIDE DEF merged, m
<1> DEFINE T == {n \in Nat : n <= m => merged[n] \in Seq(S)}
<1>10. 0 \in T
  BY <1>1, <1>8
<1>11. \A n \in T : n + 1 \in T
  <2> SUFFICES ASSUME NEW n \in T, n + 1 <= m PROVE merged[n + 1] \in Seq(S)
    OBVIOUS
  <2>1. n \in Nat /\ n + 1 \in 1..m /\ (n + 1) - 1 = n /\ merged[n] \in Seq(S)
    BY <1>1
  <2>2. merged[n + 1] = Added(n + 1, merged[n])
    BY <1>1, <1>8, <2>1
  <2> QED BY <1>2, <2>1, <2>2
<1>12. T = Nat
  <2> HIDE DEF T
  <2>1. T \in SUBSET Nat
    BY DEF T
  <2> QED BY Zenon, <1>10, <1>11, <2>1, NatSetInduction
<1>13. m \in T
  BY <1>1, <1>12
<1> QED BY <1>1, <1>9, <1>13

-----------------------------------------------------------------------------
(* The index: an index that counts as sorted is. *)

IndexInv ==
  /\ index \in Seq(Entries)
  /\ sorted => \A i, j \in 1..Len(index) : i < j => ~Ahead(index[j], index[i])

\* Loading, adding, merging and sorting keep IndexInv: only a sorted index counts as sorted.
LEMMA IndexInvStep == IndexInv /\ [IndexNext]_indexVars => IndexInv'
<1> SUFFICES ASSUME IndexInv, [IndexNext]_indexVars PROVE IndexInv'
  OBVIOUS
<1> USE IndexAssumption
<1>1. CASE Sorted
  BY <1>1, SortKeepsEntries DEF IndexInv, Sorted
<1>2. ASSUME NEW f \in Indexes, IndexLoaded(f) PROVE IndexInv'
  <2>1. f \in Seq(Entries)
    OBVIOUS
  <2> QED BY Zenon, <1>2, <2>1, SortKeepsEntries DEF IndexInv, IndexLoaded, Load
<1>3. ASSUME NEW f \in Indexes, Merged(f) PROVE IndexInv'
  <2>1. f \in Seq(Entries)
    OBVIOUS
  <2> QED BY <1>3, <2>1, MergeKeepsEntries DEF IndexInv, Merged
<1>4. ASSUME NEW f \in Indexes, NEW i \in DOMAIN f, MustAdd(f[i]) PROVE IndexInv'
  <2>1. f \in Seq(Entries)
    OBVIOUS
  <2>2. f[i] \in Entries
    BY <2>1
  <2> QED BY <1>4, <2>2 DEF IndexInv, MustAdd
<1>5. CASE UNCHANGED indexVars
  BY <1>5 DEF IndexInv, indexVars
<1> QED BY <1>1, <1>2, <1>3, <1>4, <1>5 DEF IndexNext

\* In a sorted index the first match is the newest (index.go:162).
LEMMA IndexInvSuffices == IndexInv => FirstIsNewest
<1> SUFFICES ASSUME IndexInv, sorted, NoNil(index), NEW version \in Asked
             PROVE  LET found == IndexGet(index, version)
                    IN CASE found = <<>> -> ~version.valid \/ Matching(index, version) = {}
                         [] found # <<>> -> \/ version.text = found[1].text
                                            \/ /\ found[1] \in Matching(index, version)
                                               /\ \A r \in Matching(index, version) : ~Newer(r, found[1])
  BY Zenon DEF FirstIsNewest
<1> DEFINE found == IndexGet(index, version)
<1>1. index \in Seq(Entries) /\ DOMAIN index = 1..Len(index)
  BY DEF IndexInv
<1>2. \A i \in 1..Len(index) : index[i].kind # "nil" /\ index[i].rank \in Nat
  BY <1>1, IndexAssumption DEF NoNil
<1>3. Matching(index, version) = {r \in {index[i] : i \in 1..Len(index)} : Admits(version, r)}
  BY <1>1 DEF Matching, Range
<1>4. CASE found = <<>> /\ (~version.valid \/ \A i \in 1..Len(index) : ~Admits(version, index[i]))
  BY <1>3, <1>4
<1>5. ASSUME NEW i \in 1..Len(index), found = <<index[i]>>,
             \/ index[i].text = version.text
             \/ /\ Admits(version, index[i])
                /\ \A j \in 1..Len(index) : Admits(version, index[j]) => i <= j
      PROVE  \/ version.text = found[1].text
             \/ /\ found[1] \in Matching(index, version)
                /\ \A r \in Matching(index, version) : ~Newer(r, found[1])
  <2>1. found[1] = index[i]
    BY <1>5
  <2>2. CASE index[i].text = version.text
    BY <2>1, <2>2
  <2>3. CASE /\ Admits(version, index[i])
             /\ \A j \in 1..Len(index) : Admits(version, index[j]) => i <= j
    <3>1. index[i] \in Matching(index, version)
      BY <1>3, <2>3
    <3>2. ASSUME NEW j \in 1..Len(index), Admits(version, index[j]) PROVE ~Newer(index[j], index[i])
      <4>1. i <= j /\ i \in Nat /\ j \in Nat
        BY <2>3, <3>2
      <4>2. index[i].kind = "semver" /\ index[j].kind = "semver"
        BY <2>3, <3>2 DEF Admits
      <4>3. CASE i = j
        BY <1>2, <4>3 DEF Newer
      <4>4. CASE i < j
        <5>1. ~Ahead(index[j], index[i])
          BY <4>4 DEF IndexInv
        <5> QED BY <1>2, <4>2, <5>1 DEF Ahead, Less, Newer
      <4> QED BY <4>1, <4>3, <4>4
    <3> QED BY <1>3, <2>1, <3>1, <3>2
  <2> QED BY <1>5, <2>2, <2>3
<1>6. \A i \in 1..Len(index) : <<index[i]>> # <<>>
  OBVIOUS
<1> HIDE DEF found
<1>7. \/ found = <<>> /\ (~version.valid \/ \A i \in 1..Len(index) : ~Admits(version, index[i]))
      \/ \E i \in 1..Len(index) :
           /\ found = <<index[i]>>
           /\ \/ index[i].text = version.text
              \/ /\ Admits(version, index[i])
                 /\ \A j \in 1..Len(index) : Admits(version, index[j]) => i <= j
  BY <1>1, <1>2, GetFinds DEF found
<1> QED BY <1>4, <1>5, <1>6, <1>7, Zenon DEF found

(* However an index was loaded, added to and merged, once it is sorted the    *)
(* first entry that Get finds is the newest that the version admits           *)
(* (index.go:117-122, 162), for every set of index files and versions.        *)
THEOREM FirstMatchIsNewest == IndexSpec => []FirstIsNewest
<1>1. IndexInit => IndexInv
  BY DEF IndexInit, IndexInv
<1> QED BY <1>1, IndexInvStep, IndexInvSuffices, PTL DEF IndexSpec

-----------------------------------------------------------------------------
(* The getter: what is on the way to the cache satisfies the query it is for. *)

\* Every getter chooses a release that satisfies the query: the tag of that text
\* or a stable one, an entry that Get of the index finds, the archive of the URI.
LEMMA ChosenSatisfies ==
  ASSUME NEW q \in Queries, NEW releases \in Seq(Releases), NEW chosen \in Chosen(q, releases), chosen # <<>>
  PROVE  \E r : chosen = <<r>> /\ Satisfies(q, r)
<1>1. DOMAIN releases = 1..Len(releases) /\ Range(releases) \subseteq Releases
  BY DEF Range
<1>2. CASE q.scheme = "oci"
  <2>1. chosen \in Tag(releases, q.version)
    BY <1>2 DEF Chosen
  <2>2. CASE q.version.text \in {"", "latest"}
    <3>1. PICK r \in Stable(releases) : chosen = <<r>>
      BY <2>1, <2>2, Zenon DEF Tag, findBestSemverMatch, OneOf
    <3>2. r \in Releases /\ r.kind = "semver" /\ ~r.pre
      BY <1>1 DEF Stable
    <3>3. r.rank \in q.version.ranks
      BY <1>2, <2>2, <3>2, GetterAssumption, Zenon
    <3>4. Satisfies(q, r)
      BY <1>2, <3>2, <3>3 DEF Satisfies, Admits
    <3> QED BY <3>1, <3>4
  <2>3. CASE q.version.text \notin {"", "latest"}
    <3>1. PICK r : r.text = q.version.text /\ chosen = <<r>>
      BY <2>1, <2>3, Zenon DEF Tag, OneOf
    <3>2. Satisfies(q, r)
      BY <1>2, <3>1 DEF Satisfies
    <3> QED BY <3>1, <3>2
  <2> QED BY <2>2, <2>3, Zenon
<1>3. CASE q.scheme = "http"
  <2>1. PICK vs \in SortEntries(releases) : chosen = IndexGet(vs, q.version)
    BY <1>3 DEF Chosen, Load
  <2>2. vs \in Seq(Releases)
    BY <2>1, SortKeepsEntries
  <2>3. \A i \in 1..Len(vs) : vs[i].kind # "nil"
    <3>1. \A i \in 1..Len(vs) : vs[i] \in Releases
      BY <2>2
    <3> QED BY <3>1, GetterAssumption, Zenon
  <2>4. PICK i \in 1..Len(vs) : /\ IndexGet(vs, q.version) = <<vs[i]>>
                                /\ vs[i].text = q.version.text \/ Admits(q.version, vs[i])
    <3> DEFINE version == q.version
    <3> HIDE DEF version
    <3>1. \/ IndexGet(vs, version) = <<>>
          \/ \E i \in 1..Len(vs) : /\ IndexGet(vs, version) = <<vs[i]>>
                                   /\ vs[i].text = version.text \/ Admits(version, vs[i])
      BY <2>2, <2>3, GetFinds
    <3> QED BY <2>1, <3>1 DEF version
  <2>5. Satisfies(q, vs[i])
    BY <1>3, <2>4 DEF Satisfies
  <2> QED BY <2>1, <2>4, <2>5
<1>4. CASE q.scheme = "tgz"
  <2> DEFINE r == [text |-> q.uri, kind |-> "semver", rank |-> 0, pre |-> FALSE, over |-> FALSE]
  <2>1. chosen = <<r>>
    BY <1>4 DEF Chosen
  <2>2. Satisfies(q, r)
    BY <1>4 DEF Satisfies
  <2> HIDE DEF r
  <2> QED BY <2>1, <2>2
<1>5. CASE q.scheme \notin {"oci", "http", "tgz"}
  BY <1>5 DEF Chosen
<1> QED BY <1>2, <1>3, <1>4, <1>5

FitsQuery(q, body) == \E r : Satisfies(q, r) /\ body = Fetched(q, r)
IsFile(f) == f = [exists |-> f.exists, body |-> f.body, whole |-> f.whole, age |-> f.age]
IsCall(k) == k = [pc |-> k.pc, query |-> k.query, release |-> k.release]

FileInv ==
  /\ files = [n \in Names |-> files[n]] /\ \A n \in Names : IsFile(files[n])
  /\ \A q \in Queries :
       LET f == files[Name(q)] IN f.exists => f.whole /\ FitsQuery(q, f.body)
CallInv(k) ==
  /\ IsCall(k) /\ (k.pc # "idle" => k.query \in Queries)
  /\ k.pc \in {"fetch", "store"} => \E r : k.release = <<r>> /\ Satisfies(k.query, r)
SetInv ==
  /\ IsFile(writing)
  /\ \A c \in Callers : call[c].pc = "copy" => lock = c /\ FitsQuery(call[c].query, writing.body)
FetchInv ==
  /\ published \in Seq(Releases) /\ call = [c \in Callers |-> call[c]]
  /\ \A c \in Callers : CallInv(call[c])
  /\ SetInv /\ FileInv

\* What a caller opens is whole and satisfies its query, as every file under a final name is.
LEMMA FetchInvSuffices == FetchInv => ServedAsRequested
<1> SUFFICES ASSUME FetchInv, NEW q \in Queries, files[Name(q)].exists
             PROVE  LET file == files[Name(q)]
                    IN /\ file.whole /\ file.body.repo = q.repo /\ Satisfies(q, file.body.release)
                       /\ file.body.cut => file.body.release.over
  BY DEF ServedAsRequested
<1> DEFINE file == files[Name(q)]
<1>1. file.whole /\ FitsQuery(q, file.body)
  BY Zenon DEF FetchInv, FileInv
<1>2. PICK r : Satisfies(q, r) /\ file.body = Fetched(q, r)
  BY <1>1 DEF FitsQuery
<1>3. file.body.repo = q.repo /\ file.body.release = r /\ file.body.cut = Truncated(q, r)
  BY <1>2 DEF Fetched
<1>4. file.body.cut => file.body.release.over
  BY <1>3, Zenon DEF Truncated
<1> QED BY <1>1, <1>2, <1>3, <1>4

\* A call whose step, and perhaps release, is replaced.
LEMMA CallUpdates ==
  ASSUME NEW k, IsCall(k), NEW pc, NEW release
  PROVE  /\ [k EXCEPT !.pc = pc] = [pc |-> pc, query |-> k.query, release |-> k.release]
         /\ [k EXCEPT !.pc = pc, !.release = release] = [pc |-> pc, query |-> k.query, release |-> release]
<1> DEFINE p == k.pc
           q == k.query
           r == k.release
<1>1. k = [pc |-> p, query |-> q, release |-> r]
  BY DEF IsCall
<1> HIDE DEF p, q, r
<1>2. k.query = q /\ k.release = r
  BY <1>1
<1>3. [k EXCEPT !.pc = pc] = [pc |-> pc, query |-> q, release |-> r]
  BY <1>1
<1>4. [k EXCEPT !.pc = pc, !.release = release] = [pc |-> pc, query |-> q, release |-> release]
  <2>1. [k EXCEPT !.pc = pc, !.release = release] = [[k EXCEPT !.pc = pc] EXCEPT !.release = release]
    OBVIOUS
  <2> DEFINE l == [pc |-> pc, query |-> q, release |-> r]
  <2>2. [l EXCEPT !.release = release] = [pc |-> pc, query |-> q, release |-> release]
    OBVIOUS
  <2> QED BY <1>3, <2>1, <2>2, Zenon
<1> QED BY <1>2, <1>3, <1>4

\* A file that becomes whole or older keeps the rest.
LEMMA FileUpdates ==
  ASSUME NEW f, IsFile(f), NEW whole, NEW age
  PROVE  /\ IsFile([f EXCEPT !.whole = whole]) /\ [f EXCEPT !.whole = whole].body = f.body
         /\ IsFile([f EXCEPT !.age = age])
         /\ [f EXCEPT !.age = age].exists = f.exists /\ [f EXCEPT !.age = age].whole = f.whole
         /\ [f EXCEPT !.age = age].body = f.body
<1> DEFINE e == f.exists
           b == f.body
           w == f.whole
           a == f.age
<1>1. f = [exists |-> e, body |-> b, whole |-> w, age |-> a]
  BY DEF IsFile
<1> HIDE DEF e, b, w, a
<1>2. f.exists = e /\ f.body = b /\ f.whole = w
  BY <1>1
<1>3. [f EXCEPT !.whole = whole] = [exists |-> e, body |-> b, whole |-> whole, age |-> a]
  BY <1>1
<1>4. [f EXCEPT !.age = age] = [exists |-> e, body |-> b, whole |-> w, age |-> age]
  BY <1>1
<1>5. \A x, y, z, t : LET g == [exists |-> x, body |-> y, whole |-> z, age |-> t]
                    IN IsFile(g) /\ g.exists = x /\ g.body = y /\ g.whole = z
  BY DEF IsFile
<1> QED BY <1>2, <1>3, <1>4, <1>5

\* A step of one call that leaves the cache alone.
LEMMA CallAlone ==
  ASSUME FetchInv, NEW c \in Callers, NEW k, CallInv(k), k.pc # "copy",
         call' = [call EXCEPT ![c] = k], UNCHANGED <<cacheVars, published>>
  PROVE  FetchInv'
<1>1. files' = files /\ writing' = writing /\ lock' = lock /\ published' = published
  BY DEF cacheVars, diskVars, setVars
<1>2. call' = [d \in Callers |-> call'[d]]
  BY DEF FetchInv
<1>3. call'[c] = k /\ \A d \in Callers \ {c} : call'[d] = call[d]
  BY DEF FetchInv
<1>4. \A d \in Callers : CallInv(call'[d])
  BY <1>3 DEF FetchInv
<1>5. SetInv'
  BY <1>1, <1>3 DEF FetchInv, SetInv
<1>6. FileInv'
  BY <1>1, Zenon DEF FetchInv, FileInv
<1> QED BY <1>1, <1>2, <1>4, <1>5, <1>6 DEF FetchInv

\* A call that has not begun satisfies everything said of calls.
LEMMA IdleFits == CallInv(Idle) /\ Idle.pc = "idle"
BY DEF CallInv, IsCall, Idle

\* Get looks its query up in the cache (getter.go:23-39).
LEMMA GetStep ==
  ASSUME FetchInv, NEW c \in Callers, NEW q \in Queries, Get(c, q)
  PROVE  FetchInv'
<1>1. CASE UNCHANGED call
  BY Zenon, <1>1 DEF Get, FetchInv, SetInv, FileInv, cacheVars, diskVars, setVars
<1>2. CASE call' = [call EXCEPT ![c] = [pc |-> "resolve", query |-> q, release |-> <<>>]]
  <2> DEFINE k == [pc |-> "resolve", query |-> q, release |-> <<>>]
  <2>1. CallInv(k) /\ k.pc # "copy"
    BY DEF CallInv, IsCall
  <2> HIDE DEF k
  <2>2. call' = [call EXCEPT ![c] = k]
    BY <1>2 DEF k
  <2> QED BY <2>1, <2>2, CallAlone, Zenon DEF Get
<1> QED BY <1>1, <1>2 DEF Get

\* A call returns.
LEMMA ReturnStep ==
  ASSUME FetchInv, NEW c \in Callers, Return(c), UNCHANGED cacheVars
  PROVE  FetchInv'
<1> DEFINE k == Idle
<1>1. CallInv(k) /\ k.pc # "copy"
  BY IdleFits
<1>2. call' = [call EXCEPT ![c] = k] /\ UNCHANGED <<cacheVars, published>>
  BY DEF Return
<1> HIDE DEF k
<1> QED BY <1>1, <1>2, CallAlone, Zenon

\* The release that a getter chooses satisfies the query (http.go:22-68, oci.go:62-122).
LEMMA ResolveStep ==
  ASSUME FetchInv, NEW c \in Callers, Resolve(c)
  PROVE  FetchInv'
<1>1. CASE Return(c)
  BY <1>1, ReturnStep DEF Resolve
<1>2. ASSUME NEW chosen \in Chosen(call[c].query, published) \ {<<>>},
             call' = [call EXCEPT ![c].pc = "fetch", ![c].release = chosen], UNCHANGED published
      PROVE  FetchInv'
  <2> DEFINE k == [pc |-> "fetch", query |-> call[c].query, release |-> chosen]
  <2>1. IsCall(call[c]) /\ call[c].query \in Queries /\ published \in Seq(Releases)
    BY Zenon DEF FetchInv, CallInv, Resolve
  <2>2. \E r : chosen = <<r>> /\ Satisfies(call[c].query, r)
    BY <1>2, <2>1, ChosenSatisfies
  <2>3. CallInv(k) /\ k.pc # "copy"
    BY <2>1, <2>2 DEF CallInv, IsCall
  <2>4. call' = [call EXCEPT ![c] = k]
    <3>1. call' = [call EXCEPT ![c] = [call[c] EXCEPT !.pc = "fetch", !.release = chosen]]
      BY <1>2, Zenon
    <3> QED BY <2>1, <3>1, CallUpdates, Zenon
  <2> HIDE DEF k
  <2> QED BY <1>2, <2>3, <2>4, CallAlone, Zenon DEF Resolve
<1> QED BY <1>1, <1>2 DEF Resolve

\* A fetch keeps the chosen release.
LEMMA FetchStep ==
  ASSUME FetchInv, NEW c \in Callers, Fetch(c)
  PROVE  FetchInv'
<1>1. CASE Return(c)
  BY <1>1, ReturnStep DEF Fetch
<1>2. CASE Goto(c, "store")
  <2> DEFINE k == [pc |-> "store", query |-> call[c].query, release |-> call[c].release]
  <2>1. CallInv(call[c]) /\ call[c].pc = "fetch"
    BY DEF FetchInv, Fetch
  <2>2. CallInv(k) /\ k.pc # "copy"
    BY <2>1 DEF CallInv, IsCall
  <2>3. call' = [call EXCEPT ![c] = k]
    <3>1. call' = [call EXCEPT ![c] = [call[c] EXCEPT !.pc = "store"]]
      BY <1>2 DEF Goto
    <3> QED BY <2>1, <3>1, CallUpdates, Zenon DEF CallInv
  <2> HIDE DEF k
  <2> QED BY <1>2, <2>2, <2>3, CallAlone, Zenon DEF Fetch, Goto
<1> QED BY <1>1, <1>2 DEF Fetch

\* The archive that was stored is opened again (getter.go:70-78).
LEMMA ReopenStep ==
  ASSUME FetchInv, NEW c \in Callers, Reopen(c)
  PROVE  FetchInv'
BY ReturnStep DEF Reopen

\* The steps of Set: at most one call is in it, and holds the lock.
LEMMA StoreStep ==
  ASSUME FetchInv, NEW c \in Callers, Store(c)
  PROVE  FetchInv'
<1>1. CASE SetRefused /\ Return(c)
  BY <1>1, ReturnStep DEF SetRefused
<1>2. CASE SetBegin(c, Fetched(call[c].query, call[c].release[1])) /\ Goto(c, "copy")
  <2> DEFINE q == call[c].query
             w == [exists |-> TRUE, body |-> Fetched(q, call[c].release[1]), whole |-> FALSE, age |-> 0]
             k == [pc |-> "copy", query |-> q, release |-> call[c].release]
  <2>1. CallInv(call[c]) /\ call[c].pc = "store"
    BY DEF FetchInv, Store
  <2>2. PICK r : call[c].release = <<r>> /\ Satisfies(q, r)
    BY <2>1 DEF CallInv
  <2>3. FitsQuery(q, Fetched(q, call[c].release[1]))
    <3>1. call[c].release[1] = r
      BY <2>2
    <3> QED BY <2>2, <3>1 DEF FitsQuery
  <2>4. CallInv(k) /\ k.pc = "copy" /\ k.query = q
    BY <2>1 DEF CallInv, IsCall
  <2>5. call' = [call EXCEPT ![c] = k]
    <3>1. call' = [call EXCEPT ![c] = [call[c] EXCEPT !.pc = "copy"]]
      BY <1>2 DEF Goto
    <3> QED BY <2>1, <3>1, CallUpdates, Zenon DEF CallInv
  <2>6. lock = Nobody /\ lock' = c /\ writing' = w /\ files' = files /\ published' = published
    BY <1>2 DEF SetBegin, Goto, diskVars
  <2>7. IsFile(w) /\ FitsQuery(q, w.body)
    BY <2>3 DEF IsFile
  <2> HIDE DEF k, w, q
  <2>8. call' = [d \in Callers |-> call'[d]] /\ call'[c] = k /\ \A d \in Callers \ {c} : call'[d] = call[d]
    BY <2>5 DEF FetchInv
  <2>9. \A d \in Callers : CallInv(call'[d])
    BY <2>4, <2>8 DEF FetchInv
  <2>10. \A d \in Callers \ {c} : call'[d].pc # "copy"
    BY <2>6, <2>8, DiskAssumption DEF FetchInv, SetInv
  <2>11. SetInv'
    BY <2>4, <2>6, <2>7, <2>8, <2>10 DEF SetInv
  <2>12. FileInv'
    BY <2>6, Zenon DEF FetchInv, FileInv
  <2> QED BY <2>6, <2>8, <2>9, <2>11, <2>12 DEF FetchInv
<1> QED BY <1>1, <1>2 DEF Store

\* Set renames a complete copy of the release that was fetched, under the lock (cache.go:128-142).
LEMMA CopyStep ==
  ASSUME FetchInv, NEW c \in Callers, Copy(c)
  PROVE  FetchInv'
<1>1. /\ CallInv(call[c]) /\ call[c].pc = "copy" /\ call[c].query \in Queries
      /\ lock = c /\ FitsQuery(call[c].query, writing.body) /\ IsFile(writing)
  BY DEF FetchInv, SetInv, CallInv, Copy
<1>2. \A d \in Callers \ {c} : call[d].pc # "copy"
  BY <1>1 DEF FetchInv, SetInv
<1>3. CASE SetCopied(c) /\ UNCHANGED getterVars
  <2> DEFINE w == [writing EXCEPT !.whole = TRUE]
  <2>1. writing' = w /\ lock' = lock /\ files' = files /\ call' = call /\ published' = published
    BY <1>3 DEF SetCopied, diskVars, getterVars
  <2>2. IsFile(w) /\ w.body = writing.body
    BY <1>1, FileUpdates, Zenon
  <2> HIDE DEF w
  <2>3. SetInv'
    BY <2>1, <2>2 DEF FetchInv, SetInv
  <2>4. FileInv'
    BY Zenon, <2>1 DEF FetchInv, FileInv
  <2> QED BY <2>1, <2>3, <2>4 DEF FetchInv
<1>4. ASSUME NEW k, CallInv(k), k.pc # "copy", call' = [call EXCEPT ![c] = k],
             published' = published, writing' = Absent, FileInv'
      PROVE  FetchInv'
  <2>1. call' = [d \in Callers |-> call'[d]] /\ call'[c] = k /\ \A d \in Callers \ {c} : call'[d] = call[d]
    BY <1>4 DEF FetchInv
  <2>2. \A d \in Callers : CallInv(call'[d]) /\ call'[d].pc # "copy"
    BY <1>2, <1>4, <2>1 DEF FetchInv
  <2>3. IsFile(Absent)
    BY DEF IsFile, Absent
  <2>4. SetInv'
    BY <1>4, <2>2, <2>3 DEF SetInv
  <2> QED BY <1>4, <2>1, <2>2, <2>4 DEF FetchInv
<1>5. CASE SetFails(c) /\ Return(c)
  <2> DEFINE k == Idle
  <2>1. CallInv(k) /\ k.pc # "copy"
    BY IdleFits
  <2>2. /\ call' = [call EXCEPT ![c] = k]
        /\ published' = published /\ writing' = Absent /\ files' = files
    BY <1>5 DEF SetFails, Return, diskVars
  <2>3. FileInv'
    BY Zenon, <2>2 DEF FetchInv, FileInv
  <2> HIDE DEF k
  <2> QED BY <1>4, <2>1, <2>2, <2>3, Zenon
<1>6. CASE SetRenamed(c, Name(call[c].query)) /\ Goto(c, "reopen")
  <2> DEFINE q == call[c].query
             k == [pc |-> "reopen", query |-> q, release |-> call[c].release]
  <2>1. CallInv(k) /\ k.pc # "copy"
    BY <1>1 DEF CallInv, IsCall
  <2>2. call' = [call EXCEPT ![c] = k]
    <3>1. call' = [call EXCEPT ![c] = [call[c] EXCEPT !.pc = "reopen"]]
      BY <1>6 DEF Goto
    <3> QED BY <1>1, <3>1, CallUpdates, Zenon DEF CallInv
  <2>3. /\ published' = published /\ writing' = Absent
        /\ writing.whole /\ files' = [files EXCEPT ![Name(q)] = writing]
    BY <1>6 DEF SetRenamed, Goto
  <2> HIDE DEF k
  <2>4. FileInv'
    <3> DEFINE n == Name(q)
    <3>1. n \in Names /\ \A p \in Queries : Name(p) = n => p = q
      BY <1>1, GetterAssumption, Zenon
    <3>2. FitsQuery(q, writing.body)
      BY <1>1
    <3> HIDE DEF n, q
    <3>3. files' = [m \in Names |-> files'[m]] /\ files'[n] = writing
      BY <2>3, <3>1 DEF FetchInv, FileInv, n
    <3>4. \A m \in Names : m # n => files'[m] = files[m]
      BY <2>3, <3>1 DEF FetchInv, FileInv, n
    <3>5. \A m \in Names : IsFile(files'[m])
      BY <1>1, <3>3, <3>4 DEF FetchInv, FileInv
    <3>6. ASSUME NEW p \in Queries, files'[Name(p)].exists
          PROVE  files'[Name(p)].whole /\ FitsQuery(p, files'[Name(p)].body)
      <4>1. CASE Name(p) = n
        BY <2>3, <3>1, <3>2, <3>3, <4>1
      <4>2. CASE Name(p) # n
        <5>1. Name(p) \in Names
          BY GetterAssumption, Zenon
        <5>2. files'[Name(p)] = files[Name(p)]
          BY <3>4, <4>2, <5>1
        <5> QED BY Zenon, <3>6, <5>2 DEF FetchInv, FileInv
      <4> QED BY <4>1, <4>2
    <3> QED BY <3>3, <3>5, <3>6 DEF FileInv
  <2> QED BY <1>4, <2>1, <2>2, <2>3, <2>4, Zenon
<1> QED BY <1>3, <1>5, <1>6 DEF Copy

\* A step of the cache that leaves the calls alone and changes no file but by
\* ageing or removing it.
LEMMA CacheAlone ==
  ASSUME FetchInv, UNCHANGED <<published, call, lock>>,
         files' = [n \in Names |-> files'[n]],
         \A n \in Names : \/ IsFile(files'[n]) /\ ~files'[n].exists
                          \/ /\ IsFile(files'[n]) /\ files'[n].exists = files[n].exists
                             /\ files'[n].whole = files[n].whole /\ files'[n].body = files[n].body,
         IsFile(writing'), writing'.body = writing.body
  PROVE  FetchInv'
<1>1. SetInv'
  BY DEF FetchInv, SetInv
<1>2. \A q \in Queries : Name(q) \in Names
  BY GetterAssumption, Zenon
<1>3. FileInv'
  BY <1>2, Zenon DEF FetchInv, FileInv
<1> QED BY <1>1, <1>3 DEF FetchInv

\* Clear, Stop, the cleanup and time only remove files or make them older.
LEMMA CacheStep ==
  ASSUME FetchInv, Tick \/ Clear \/ Stop \/ Clean, UNCHANGED getterVars
  PROVE  FetchInv'
<1>1. published' = published /\ call' = call
  BY DEF getterVars
<1>2. /\ files = [n \in Names |-> files[n]] /\ \A n \in Names : IsFile(files[n])
      /\ IsFile(writing)
  BY DEF FetchInv, FileInv, SetInv
<1>3. IsFile(Absent) /\ Absent.exists = FALSE
  BY DEF IsFile, Absent
<1>4. CASE Tick
  <2> DEFINE older(age) == IF Expired(age) THEN age ELSE age + 1
             aged(f) == IF f.whole THEN [f EXCEPT !.age = older(f.age)] ELSE f
  <2>1. files' = [n \in Names |-> aged(files[n])] /\ writing' = aged(writing) /\ lock' = lock
    BY <1>4 DEF Tick
  <2>2. ASSUME NEW f, IsFile(f)
        PROVE  /\ IsFile(aged(f)) /\ aged(f).exists = f.exists
               /\ aged(f).whole = f.whole /\ aged(f).body = f.body
    <3> HIDE DEF older
    <3> QED BY <2>2, FileUpdates, Zenon
  <2> HIDE DEF aged
  <2>3. files' = [n \in Names |-> files'[n]] /\ \A n \in Names : files'[n] = aged(files[n])
    BY <2>1
  <2>4. \A n \in Names : /\ IsFile(files'[n]) /\ files'[n].exists = files[n].exists
                         /\ files'[n].whole = files[n].whole /\ files'[n].body = files[n].body
    BY <1>2, <2>2, <2>3
  <2>5. IsFile(writing') /\ writing'.body = writing.body
    BY <1>2, <2>1, <2>2
  <2> QED BY <1>1, <2>1, <2>3, <2>4, <2>5, CacheAlone
<1>5. CASE Clear
  <2>1. PICK kept \in SUBSET Names : files' = [n \in Names |-> IF n \in kept THEN files[n] ELSE Absent]
    BY <1>5 DEF Clear
  <2>2. lock' = lock /\ writing' = writing
    BY <1>5 DEF Clear, setVars
  <2> HIDE DEF Absent
  <2>3. files' = [n \in Names |-> files'[n]]
    BY <2>1
  <2>4. \A n \in Names : files'[n] = files[n] \/ files'[n] = Absent
    BY <2>1
  <2> QED BY <1>1, <1>2, <1>3, <2>2, <2>3, <2>4, CacheAlone
<1>6. CASE CleanRemove /\ doomed # Leftover
  <2>1. files' = [files EXCEPT ![doomed] = Absent] /\ lock' = lock /\ writing' = writing
    BY <1>6 DEF CleanRemove, setVars
  <2> HIDE DEF Absent
  <2>2. files' = [n \in Names |-> files'[n]]
    BY <1>2, <2>1
  <2>3. \A n \in Names : files'[n] = files[n] \/ files'[n] = Absent
    BY <1>2, <2>1
  <2> QED BY <1>1, <1>2, <1>3, <2>1, <2>2, <2>3, CacheAlone
<1>7. CASE UNCHANGED files /\ UNCHANGED setVars
  <2>1. files' = files /\ lock' = lock /\ writing' = writing
    BY <1>7 DEF setVars
  <2> QED BY <1>1, <1>2, <2>1, CacheAlone
<1>8. CASE Stop \/ CleanScan \/ CleanVisit \/ CleanDone \/ CleanEnds \/ (CleanRemove /\ doomed = Leftover)
  BY <1>7, <1>8 DEF Stop, CleanScan, CleanVisit, CleanDone, CleanEnds, CleanRemove, diskVars
<1> QED BY <1>4, <1>5, <1>6, <1>8 DEF Clean

\* A release that comes out changes no file and no call.
LEMMA PublishStep ==
  ASSUME FetchInv, NEW r \in Coming, Publish(r)
  PROVE  FetchInv'
<1>1. files' = files /\ writing' = writing /\ lock' = lock /\ call' = call
  BY DEF Publish, cacheVars, diskVars, setVars
<1>2. published' \in Seq(Releases)
  BY DEF Publish, FetchInv, Releases
<1> QED BY <1>1, <1>2, Zenon DEF FetchInv, SetInv, FileInv

\* The process dies: what was being written is lost, the archives stay.
LEMMA CrashStep ==
  ASSUME FetchInv, Crash, call' = [c \in Callers |-> Idle], UNCHANGED published
  PROVE  FetchInv'
<1>1. files' = files /\ writing' = Absent
  BY DEF Crash
<1> DEFINE k == Idle
<1>2. CallInv(k) /\ k.pc # "copy"
  BY IdleFits
<1>3. call' = [c \in Callers |-> k]
  OBVIOUS
<1> HIDE DEF k
<1>4. call' = [c \in Callers |-> call'[c]] /\ \A c \in Callers : call'[c] = k
  BY <1>3
<1>5. SetInv'
  BY <1>1, <1>2, <1>4 DEF SetInv, IsFile, Absent
<1>6. FileInv'
  BY <1>1, Zenon DEF FetchInv, FileInv
<1> QED BY <1>2, <1>4, <1>5, <1>6 DEF FetchInv

(* Every archive that the disk cache can open is complete and a release of    *)
(* the chart asked for that the version admits, through failed copies,        *)
(* concurrent writers, the cleanup and crashes at any point (cache.go:105),   *)
(* for any number of callers, queries, releases and restarts.                 *)
THEOREM ServesWhatWasAsked == FetchSpec => []ServedAsRequested
<1>1. FetchInit => FetchInv
  <2> SUFFICES ASSUME FetchInit PROVE FetchInv
    OBVIOUS
  <2>1. published \in Seq(Releases)
    BY GetterAssumption, Zenon DEF FetchInit
  <2> DEFINE k == Idle
  <2>2. CallInv(k) /\ k.pc # "copy"
    BY IdleFits
  <2>3. call = [c \in Callers |-> k]
    BY DEF FetchInit
  <2> HIDE DEF k
  <2>4. call = [c \in Callers |-> call[c]] /\ \A c \in Callers : call[c] = k
    BY <2>3
  <2>5. IsFile(Absent) /\ ~Absent.exists
    BY DEF IsFile, Absent
  <2>6. files = [n \in Names |-> Absent] /\ writing = Absent
    BY DEF FetchInit, DiskInit
  <2> HIDE DEF Absent
  <2>7. SetInv
    BY <2>2, <2>4, <2>5, <2>6 DEF SetInv
  <2>8. FileInv
    BY <2>5, <2>6, GetterAssumption, Zenon DEF FileInv
  <2> QED BY <2>1, <2>2, <2>4, <2>7, <2>8 DEF FetchInv
<1>2. FetchInv /\ [FetchNext]_fetchVars => FetchInv'
  <2> SUFFICES ASSUME FetchInv, [FetchNext]_fetchVars PROVE FetchInv'
    OBVIOUS
  <2>1. ASSUME NEW c \in Callers, Step(c) PROVE FetchInv'
    BY <2>1, ResolveStep, FetchStep, StoreStep, CopyStep, ReopenStep DEF Step
  <2>2. ASSUME NEW c \in Callers, NEW q \in Queries, Get(c, q) PROVE FetchInv'
    BY <2>2, GetStep
  <2>3. CASE UNCHANGED fetchVars
    BY <2>3, Zenon DEF fetchVars, getterVars, cacheVars, diskVars, setVars, FetchInv, SetInv, FileInv
  <2> QED BY <2>1, <2>2, <2>3, PublishStep, CacheStep, CrashStep DEF FetchNext
<1> QED BY <1>1, <1>2, FetchInvSuffices, PTL DEF FetchSpec

-----------------------------------------------------------------------------
(* Ids are unique, for every alphabet, every number of symbols and of bits, and  *)
(* however many goroutines and generators of different workers there are.        *)

-----------------------------------------------------------------------------
(* The shuffled alphabet *)

Letters == {ABC[i] : i \in 1..Len(ABC)}
Unrepeated(s) == \A i, j \in 1..Len(s) : s[i] = s[j] => i = j
Shuffles == [seed : Nat, source : Seq(Letters), abc : Seq(Letters)]

\* After k rounds the letters are split into k drawn ones and the others.
Halfway(r, k) ==
  /\ r \in Shuffles /\ Len(r.source) = Len(ABC) - k /\ Len(r.abc) = k
  /\ Unrepeated(r.source) /\ Unrepeated(r.abc)
  /\ \A i \in 1..Len(r.abc), j \in 1..Len(r.source) : r.abc[i] # r.source[j]

\* There are letters, and different ones.
LEMMA Alphabet == ABC \in Seq(Letters) /\ Unrepeated(ABC) /\ Len(ABC) \in Nat
<1>1. DOMAIN ABC = 1..Len(ABC)
  BY ShortidAssumption
<1>2. Letters = {ABC[i] : i \in DOMAIN ABC}
  BY <1>1 DEF Letters
<1>3. ABC \in Seq(Letters)
  BY <1>2, ShortidAssumption
<1> HIDE DEF Letters
<1> QED
  BY <1>3, ShortidAssumption DEF Unrepeated

\* Taking a letter out leaves the others.
LEMMA WithoutProperties ==
  ASSUME NEW s \in Seq(Letters), Unrepeated(s), NEW i \in 1..Len(s)
  PROVE  /\ Without(s, i) \in Seq(Letters) /\ Len(Without(s, i)) = Len(s) - 1 /\ Unrepeated(Without(s, i))
         /\ \A j \in 1..(Len(s) - 1) : \E k \in 1..Len(s) : k # i /\ Without(s, i)[j] = s[k]
<1> DEFINE n == Len(s)
           u == Without(s, i)
<1>1. n \in Nat /\ i \in 1..n /\ \A j \in 1..n : s[j] \in Letters
  OBVIOUS
<1>2. u = [j \in 1..(n - 1) |-> IF j < i THEN s[j] ELSE s[j + 1]]
  BY DEF Without
<1> HIDE DEF u, n
<1>3. n - 1 \in Nat /\ \A j \in 1..(n - 1) : u[j] \in Letters
  BY <1>1, <1>2
<1>4. u \in Seq(Letters) /\ Len(u) = n - 1
  BY <1>2, <1>3
<1>5. \A j \in 1..(n - 1) : u[j] = s[IF j < i THEN j ELSE j + 1]
  BY <1>2
<1>6. \A j \in 1..(n - 1) : \E k \in 1..n : k # i /\ u[j] = s[k]
  <2> TAKE j \in 1..(n - 1)
  <2> DEFINE a == IF j < i THEN j ELSE j + 1
  <2>1. a \in 1..n /\ a # i /\ u[j] = s[a]
    BY <1>1, <1>5
  <2> HIDE DEF a
  <2> QED
    BY <2>1
<1>7. Unrepeated(u)
  <2> SUFFICES ASSUME NEW j \in 1..(n - 1), NEW k \in 1..(n - 1), u[j] = u[k] PROVE j = k
    BY <1>4 DEF Unrepeated
  <2> DEFINE a == IF j < i THEN j ELSE j + 1
             b == IF k < i THEN k ELSE k + 1
  <2>1. a \in 1..n /\ b \in 1..n /\ s[a] = s[b]
    BY <1>1, <1>5
  <2>2. a = b
    <3> HIDE DEF a, b
    <3> QED
      BY <2>1 DEF Unrepeated, n
  <2> QED
    BY <1>1, <2>2
<1> QED
  BY <1>4, <1>6, <1>7 DEF u, n

\* The seeds are remainders.
LEMMA SeedValues ==
  Modulus \in Nat /\ Modulus >= 1 /\ \A s \in Nat : NextSeed(s) \in Nat /\ NextSeed(s) < Modulus
<1>1. Modulus \in Nat /\ Modulus >= 1
  BY SMT DEF Modulus
<1>2. ASSUME NEW s \in Nat PROVE s * 9301 + 49297 \in Nat
  BY SMT
<1>3. ASSUME NEW s \in Nat PROVE NextSeed(s) \in Nat /\ NextSeed(s) < Modulus
  <2> DEFINE v == s * 9301 + 49297
  <2>1. v \in Nat /\ NextSeed(s) = v % Modulus
    BY <1>2, SMT DEF NextSeed
  <2> HIDE DEF v
  <2> QED
    BY <1>1, <2>1, Division
<1> QED
  BY <1>1, <1>3

\* A round draws one of the letters that are left.
LEMMA DrawnProperties ==
  ASSUME NEW k \in Nat, k < Len(ABC), NEW r, Halfway(r, k)
  PROVE  Halfway(Drawn(r), k + 1)
<1> DEFINE next == NextSeed(r.seed)
           n == Len(r.source)
           i == IF n = 1 THEN 1 ELSE 1 + (next * n) \div Modulus
           c == r.source[i]
           src == Without(r.source, i)
           out == Append(r.abc, c)
           d == [seed |-> next, source |-> src, abc |-> out]
<1>1. r.seed \in Nat /\ r.source \in Seq(Letters) /\ r.abc \in Seq(Letters) /\ n \in Nat /\ n >= 1
  BY Alphabet DEF Halfway, Shuffles
<1>2. next \in Nat /\ next < Modulus /\ Modulus \in Nat /\ Modulus >= 1
  BY <1>1, SeedValues, Zenon
<1> HIDE DEF next
<1>3. i \in 1..n
  <2>1. next * n \in Nat /\ next * n < Modulus * n
    <3> HIDE DEF n
    <3>1. (next + 1) * n <= Modulus * n
      BY <1>1, <1>2, ProductMonotone
    <3>2. (next + 1) * n = next * n + n /\ next * n \in Nat
      BY <1>1, <1>2
    <3> QED
      BY <1>1, <1>2, <3>1, <3>2
  <2>2. (next * n) \div Modulus < n /\ (next * n) \div Modulus \in Nat
    <3> DEFINE v == next * n
    <3> HIDE DEF v, n
    <3>1. v \in Nat /\ v < Modulus * n
      BY <2>1 DEF v
    <3>2. v \div Modulus < n /\ v \div Modulus \in Nat
      BY <1>1, <1>2, <3>1, QuotientBelow, Division
    <3> QED
      BY <3>2 DEF v
  <2> QED
    BY <1>1, <2>2
<1>4. d = Drawn(r)
  BY DEF Drawn, next
<1> HIDE DEF i, n
<1>5. /\ src \in Seq(Letters) /\ Len(src) = n - 1 /\ Unrepeated(src)
      /\ \A j \in 1..(n - 1) : \E m \in 1..n : m # i /\ src[j] = r.source[m]
  <2>1. Unrepeated(r.source) /\ i \in 1..Len(r.source) /\ r.source \in Seq(Letters)
    BY <1>1, <1>3 DEF Halfway, n
  <2> QED
    BY <2>1, WithoutProperties, Zenon DEF n
<1>6. c \in Letters
  BY <1>1, <1>3 DEF n
<1> HIDE DEF src
<1>7. out \in Seq(Letters) /\ Len(out) = k + 1 /\ out[k + 1] = c /\ \A j \in 1..k : out[j] = r.abc[j]
  BY <1>1, <1>6 DEF Halfway
<1>8. \A j \in 1..(n - 1) : src[j] # c
  BY <1>3, <1>5 DEF Halfway, Unrepeated, n
<1>9. \A j \in 1..k : r.abc[j] # c
  BY <1>3 DEF Halfway, n
<1> HIDE DEF out, c
<1>10. Unrepeated(out)
  <2> SUFFICES ASSUME NEW a \in 1..(k + 1), NEW b \in 1..(k + 1), out[a] = out[b] PROVE a = b
    BY <1>7 DEF Unrepeated
  <2>1. CASE a = k + 1 \/ b = k + 1
    BY <1>7, <1>9, <2>1
  <2>2. CASE a # k + 1 /\ b # k + 1
    <3>1. a \in 1..k /\ b \in 1..k
      BY <2>2
    <3> QED
      BY <1>7, <3>1 DEF Halfway, Unrepeated
  <2> QED
    BY <2>1, <2>2
<1>11. \A a \in 1..(k + 1), b \in 1..(n - 1) : out[a] # src[b]
  <2> TAKE a \in 1..(k + 1), b \in 1..(n - 1)
  <2>1. CASE a = k + 1
    BY Zenon, <1>7, <1>8, <2>1
  <2>2. CASE a # k + 1
    <3>1. a \in 1..k /\ out[a] = r.abc[a]
      BY <1>7, <2>2
    <3>2. PICK m \in 1..n : src[b] = r.source[m]
      BY Zenon, <1>5
    <3> QED
      BY <3>1, <3>2 DEF Halfway, n
  <2> QED
    BY <2>1, <2>2
<1>12. d.source = src /\ d.abc = out /\ d.seed = next /\ d \in Shuffles
  BY <1>2, <1>5, <1>7 DEF Shuffles
<1> HIDE DEF d
<1>13. n - 1 = Len(ABC) - (k + 1)
  BY Alphabet DEF Halfway, n
<1>14. Halfway(d, k + 1)
  BY <1>5, <1>7, <1>10, <1>11, <1>12, <1>13 DEF Halfway
<1> QED
  BY <1>4, <1>14

\* The rounds can be played one after another.
LEMMA ShuffleRecursion ==
  /\ shuffle[0] = [seed |-> Seed, source |-> ABC, abc |-> <<>>]
  /\ \A k \in 1..Len(ABC) : shuffle[k] = Drawn(shuffle[k - 1])
<1> DEFINE N == Len(ABC)
           start == [seed |-> Seed, source |-> ABC, abc |-> <<>>]
           ShuffleStep(r) == IF Drawn(r) \in Shuffles THEN Drawn(r) ELSE r
           F == [a \in (1..N) \X Shuffles |-> ShuffleStep(a[2])]
           P(f) == f = [k \in 0..N |-> IF k = 0 THEN start ELSE Drawn(f[k - 1])]
<1>1. N \in Nat /\ start \in Shuffles /\ Halfway(start, 0)
  <2>1. Seed \in Nat
    BY ShortidAssumption
  <2>2. <<>> \in Seq(Letters) /\ Len(<<>>) = 0
    OBVIOUS
  <2>3. start.source = ABC /\ start.abc = <<>> /\ start.seed = Seed
    OBVIOUS
  <2>4. start \in Shuffles
    BY <2>1, <2>2, Alphabet DEF Shuffles
  <2> QED
    BY <2>2, <2>3, <2>4, Alphabet DEF Halfway, Unrepeated
<1>2. \A r \in Shuffles : ShuffleStep(r) \in Shuffles
  OBVIOUS
<1>3. F \in Steppers(N, Shuffles) /\ \A k \in 1..N, r \in Shuffles : F[<<k, r>>] = ShuffleStep(r)
  <2> HIDE DEF ShuffleStep, N
  <2> QED
    BY <1>2 DEF Steppers
<1> HIDE DEF F, start, N
<1>4. PICK g : IsOrbit(g, Shuffles, start, N, F)
  BY <1>1, <1>3, Orbit
<1>5. g \in [0..N -> Shuffles] /\ g[0] = start /\ \A k \in 1..N : g[k] = ShuffleStep(g[k - 1])
  <2>1. g \in [0..N -> Shuffles] /\ g[0] = start /\ \A k \in 1..N : g[k] = F[<<k, g[k - 1]>>]
    BY <1>4 DEF IsOrbit
  <2>2. \A k \in 1..N : k - 1 \in 0..N
    BY <1>1
  <2> HIDE DEF ShuffleStep
  <2> QED
    BY <1>3, <2>1, <2>2, Zenon
<1> DEFINE T == {n \in Nat : n <= N => Halfway(g[n], n)}
<1>6. 0 \in T
  BY <1>1, <1>5
<1>7. ASSUME NEW n \in Nat, n + 1 <= N, Halfway(g[n], n)
      PROVE  g[n + 1] = Drawn(g[n]) /\ Halfway(g[n + 1], n + 1)
  <2>1. Halfway(Drawn(g[n]), n + 1) /\ n + 1 \in 1..N /\ (n + 1) - 1 = n
    BY <1>1, <1>7, DrawnProperties DEF N
  <2>2. Drawn(g[n]) \in Shuffles
    BY <2>1 DEF Halfway
  <2>3. g[n + 1] = ShuffleStep(g[n])
    <3> HIDE DEF ShuffleStep
    <3> QED
      BY <1>5, <2>1
  <2> QED
    BY <2>1, <2>2, <2>3
<1>8. T = Nat
  <2>1. T \in SUBSET Nat /\ \A n \in T : n + 1 \in T
    BY <1>1, <1>7
  <2> HIDE DEF T
  <2> QED
    BY <1>6, <2>1, NatSetInduction
<1>9. \A k \in 0..N : g[k] = IF k = 0 THEN start ELSE Drawn(g[k - 1])
  <2> TAKE k \in 0..N
  <2>1. CASE k # 0
    <3> DEFINE n == k - 1
    <3>1. n \in Nat /\ n + 1 = k /\ n + 1 <= N /\ n <= N
      BY <1>1, <2>1
    <3>2. Halfway(g[n], n)
      BY <1>8, <3>1
    <3>3. g[n + 1] = Drawn(g[n])
      BY <1>7, <3>1, <3>2
    <3> QED
      BY <2>1, <3>1, <3>3
  <2> QED
    BY <1>5, <2>1
<1>10. P(g)
  BY <1>5, <1>9
<1>11. shuffle = CHOOSE f : P(f)
  BY DEF shuffle, N, start
<1>12. P(shuffle)
  <2> HIDE DEF P
  <2> QED
    BY <1>10, <1>11
<1>13. \A k \in 0..N : shuffle[k] = IF k = 0 THEN start ELSE Drawn(shuffle[k - 1])
  BY <1>12, Zenon
<1>14. 0 \in 0..N /\ \A k \in 1..N : k \in 0..N /\ k # 0
  BY <1>1
<1> QED
  BY <1>13, <1>14 DEF N, start

\* The alphabet is shuffled: all letters are there, once each.
LEMMA AlphabetIsShuffled == abc \in Seq(Letters) /\ Len(abc) = Len(ABC) /\ Unrepeated(abc)
<1> DEFINE N == Len(ABC)
           start == [seed |-> Seed, source |-> ABC, abc |-> <<>>]
           T == {n \in Nat : n <= N => Halfway(shuffle[n], n)}
<1>1. N \in Nat /\ Halfway(start, 0)
  <2>1. Seed \in Nat
    BY ShortidAssumption
  <2>2. <<>> \in Seq(Letters) /\ Len(<<>>) = 0
    OBVIOUS
  <2>3. start.source = ABC /\ start.abc = <<>> /\ start.seed = Seed
    OBVIOUS
  <2>4. start \in Shuffles
    BY <2>1, <2>2, Alphabet DEF Shuffles
  <2> QED
    BY <2>2, <2>3, <2>4, Alphabet DEF Halfway, Unrepeated
<1>2. 0 \in T
  BY <1>1, ShuffleRecursion
<1>3. ASSUME NEW n \in T PROVE n + 1 \in T
  <2> SUFFICES ASSUME n + 1 <= N PROVE Halfway(shuffle[n + 1], n + 1)
    OBVIOUS
  <2>1. n \in Nat /\ n < N /\ n + 1 \in 1..N /\ (n + 1) - 1 = n /\ Halfway(shuffle[n], n)
    BY <1>1
  <2>2. shuffle[n + 1] = Drawn(shuffle[n])
    BY <2>1, ShuffleRecursion
  <2> QED
    BY <2>1, <2>2, DrawnProperties
<1>4. T = Nat
  <2>1. T \in SUBSET Nat
    OBVIOUS
  <2> HIDE DEF T
  <2> QED
    BY <1>2, <1>3, <2>1, NatSetInduction
<1>5. Halfway(shuffle[N], N)
  BY <1>1, <1>4
<1> QED
  BY <1>5 DEF Halfway, abc, Shuffles

-----------------------------------------------------------------------------
(* The encoding *)

\* log2 is the number of the highest bit.
LEMMA Log2Values ==
  ASSUME NEW v \in Nat, v >= 1
  PROVE  log2(v) \in 0..v /\ Shift[log2(v)] <= v /\ v < Shift[log2(v) + 1]
<1> DEFINE T == {k \in Nat : v < Shift[k + 1]}
           P(k) == Shift[k] <= v /\ v < Shift[k + 1]
<1>1. v \in T
  <2>1. Shift[v + 1] = 2 * Shift[v] /\ Shift[v] \in Nat /\ v < Shift[v]
    BY ShiftRecursion, ShiftValues
  <2> QED
    BY <2>1
<1>2. PICK k \in T : \A j \in T : k <= j
  <2>1. T \in SUBSET Nat /\ T # {}
    BY <1>1
  <2> HIDE DEF T
  <2> QED
    BY <2>1, LeastNatural
<1>3. k \in Nat /\ v < Shift[k + 1] /\ k \in 0..v
  BY <1>1, <1>2
<1>4. Shift[k] <= v
  <2>1. CASE k = 0
    BY <2>1, ShiftRecursion
  <2>2. CASE k # 0
    <3>1. k - 1 \in Nat /\ (k - 1) + 1 = k /\ k - 1 \notin T
      BY <1>2, <1>3, <2>2
    <3>2. ~(v < Shift[k]) /\ Shift[k] \in Nat
      BY <1>3, <3>1, ShiftValues
    <3> QED
      BY <3>2
  <2> QED
    BY <2>1, <2>2
<1>5. log2(v) = CHOOSE j \in 0..v : P(j)
  BY DEF log2
<1>6. P(k)
  BY <1>3, <1>4
<1>7. (CHOOSE j \in 0..v : P(j)) \in 0..v /\ P(CHOOSE j \in 0..v : P(j))
  <2> HIDE DEF P
  <2> QED
    BY <1>3, <1>6
<1> QED
  BY <1>5, <1>7

\* What takes at most n symbols has at most n groups of bits.
LEMMA SizeBounds ==
  ASSUME NEW v \in Nat, NEW d \in Nat, d >= 1, NEW n \in Nat, Size(v, d) <= n
  PROVE  v < Shift[d * n]
<1>1. CASE v = 0
  <2>1. d * n \in Nat
    OBVIOUS
  <2> QED
    BY <1>1, <2>1, ShiftValues
<1>2. CASE v >= 1
  <2> DEFINE k == log2(v)
             q == k \div d
             r == k % d
  <2>1. k \in Nat /\ v < Shift[k + 1]
    BY <1>2, Log2Values
  <2>2. Size(v, d) = q + 1
    BY <1>2 DEF Size
  <2> HIDE DEF k
  <2>3. q \in Nat /\ r \in Nat /\ r < d /\ k = q * d + r
    BY <2>1, Division
  <2> HIDE DEF q, r
  <2>4. (q + 1) * d <= n * d /\ (q + 1) * d = q * d + d /\ n * d = d * n /\ d * n \in Nat /\ q * d \in Nat
    BY <2>2, <2>3, ProductMonotone
  <2>5. k + 1 <= d * n
    BY <2>3, <2>4
  <2>6. Shift[k + 1] <= Shift[d * n] /\ Shift[k + 1] \in Nat /\ Shift[d * n] \in Nat
    BY <2>1, <2>4, <2>5, ShiftGrows, ShiftValues
  <2> QED
    BY <2>1, <2>6
<1> QED
  BY <1>1, <1>2

\* A number has at least one symbol.
LEMMA SizeValues == ASSUME NEW v \in Nat, NEW d \in Nat, d >= 1 PROVE Size(v, d) \in Nat /\ Size(v, d) >= 1
<1>1. CASE v >= 1
  <2> DEFINE k == log2(v)
  <2>1. k \in Nat
    BY <1>1, Log2Values
  <2>2. Size(v, d) = (k \div d) + 1
    BY <1>1 DEF Size
  <2> HIDE DEF k
  <2>3. k \div d \in Nat
    BY <2>1, Division
  <2> QED
    BY <2>2, <2>3
<1>2. CASE ~(v >= 1)
  BY <1>2 DEF Size
<1> QED
  BY <1>1, <1>2

\* A group of bits is the number of a letter.
LEMMA GroupValues ==
  ASSUME NEW x \in Nat, NEW d \in Nat, NEW i \in Nat PROVE Group(x, d, i) \in Nat /\ Group(x, d, i) < Shift[d]
<1> DEFINE a == Shift[d * i]
           b == Shift[d]
<1>1. a \in Nat /\ a >= 1 /\ b \in Nat /\ b >= 1
  <2>1. d * i \in Nat
    OBVIOUS
  <2> QED
    BY <2>1, ShiftValues
<1> HIDE DEF a, b
<1>2. x \div a \in Nat
  BY <1>1, Division
<1>3. (x \div a) % b \in Nat /\ (x \div a) % b < b
  BY <1>1, <1>2, Division
<1> QED
  BY <1>3 DEF Group, a, b

\* The symbols are letters.
LEMMA EncodeValues ==
  ASSUME NEW v \in Nat, NEW n \in Nat, NEW d \in Nat, Shift[d] <= Len(ABC)
  PROVE  Encode(v, n, d) \in Seq(Letters) /\ Len(Encode(v, n, d)) = n
<1>1. ASSUME NEW i \in 1..n PROVE abc[1 + Group(v, d, i - 1)] \in Letters
  <2>1. i - 1 \in Nat
    OBVIOUS
  <2>2. Group(v, d, i - 1) \in Nat /\ Group(v, d, i - 1) < Shift[d]
    BY <2>1, GroupValues, Zenon
  <2>3. Shift[d] \in Nat /\ abc \in Seq(Letters) /\ Len(abc) = Len(ABC) /\ Len(ABC) \in Nat
    BY Alphabet, AlphabetIsShuffled, ShiftValues
  <2>4. 1 + Group(v, d, i - 1) \in 1..Len(abc)
    BY <2>2, <2>3
  <2> QED
    BY <2>3, <2>4
<1> QED
  BY <1>1 DEF Encode

SameCode(v, w, n, d) == \A i \in 1..n : Encode(v, n, d)[i] = Encode(w, n, d)[i]

\* The symbols tell the values apart.
LEMMA EncodeInjective ==
  ASSUME NEW v \in Nat, NEW w \in Nat, NEW n \in Nat, NEW d \in Nat, Shift[d] <= Len(ABC),
         v < Shift[d * n], w < Shift[d * n],
         SameCode(v, w, n, d)
  PROVE  v = w
<1>2. ASSUME NEW i \in 0 .. n - 1 PROVE Group(v, d, i) = Group(w, d, i)
  <2> DEFINE a == 1 + Group(v, d, i)
             b == 1 + Group(w, d, i)
  <2>1. i \in Nat /\ i + 1 \in 1..n /\ (i + 1) - 1 = i
    OBVIOUS
  <2>2. abc[a] = abc[b]
    <3>1. \A x : Encode(x, n, d)[i + 1] = abc[1 + Group(x, d, (i + 1) - 1)]
      BY <2>1 DEF Encode
    <3>2. Encode(v, n, d)[i + 1] = abc[a] /\ Encode(w, n, d)[i + 1] = abc[b]
      BY <2>1, <3>1
    <3> QED
      BY <2>1, <3>2 DEF SameCode
  <2>3. a \in 1..Len(abc) /\ b \in 1..Len(abc)
    <3>1. Group(v, d, i) \in Nat /\ Group(w, d, i) \in Nat /\ Group(v, d, i) < Shift[d] /\ Group(w, d, i) < Shift[d]
      BY <2>1, GroupValues, Zenon
    <3>2. Shift[d] \in Nat /\ Len(abc) = Len(ABC) /\ Len(ABC) \in Nat
      BY Alphabet, AlphabetIsShuffled, ShiftValues
    <3> QED
      BY <3>1, <3>2
  <2>4. a = b
    <3> HIDE DEF a, b
    <3> QED
      BY <2>2, <2>3, AlphabetIsShuffled DEF Unrepeated
  <2>5. Group(v, d, i) \in Nat /\ Group(w, d, i) \in Nat
    BY <2>1, GroupValues, Zenon
  <2> QED
    BY <2>4, <2>5
<1> QED
  BY <1>2, GroupsDetermine

-----------------------------------------------------------------------------
(* Ids *)

\* The number of symbols of the count.
CountSize(at) == IF at.count > 0 THEN Size(at.count, CountDigits) ELSE 0
Moments == [ms : Nat, count : Nat]

\* The symbols of two sequences, one after the other.
LEMMA Concatenated ==
  ASSUME NEW s \in Seq(Letters), NEW t \in Seq(Letters)
  PROVE  /\ s \o t \in Seq(Letters) /\ Len(s \o t) = Len(s) + Len(t)
         /\ \A i \in 1..Len(s) : (s \o t)[i] = s[i]
         /\ \A i \in 1..Len(t) : (s \o t)[Len(s) + i] = t[i]
OBVIOUS

\* Arithmetic of the lengths.
LEMMA AddedSame ==
  ASSUME NEW m \in Nat, NEW i \in Nat, NEW j \in Nat, m + 1 + i = m + 1 + j
  PROVE  i = j
OBVIOUS

LEMMA NotZero ==
  ASSUME NEW n \in Nat, n # 0
  PROVE  n > 0
OBVIOUS

\* Time, worker and count each have their place in an id.
LEMMA IdParts ==
  ASSUME NEW g \in Generators, NEW at \in Moments
  PROVE  /\ CountSize(at) \in Nat /\ (CountSize(at) = 0 <=> at.count = 0)
         /\ Id(g, at) \in Seq(Letters) /\ Len(Id(g, at)) = MsSymbols + 1 + CountSize(at)
         /\ \A i \in 1..MsSymbols : Id(g, at)[i] = Encode(at.ms, MsSymbols, Digits)[i]
         /\ Id(g, at)[MsSymbols + 1] = Encode(Worker[g], 1, Digits)[1]
         /\ at.count > 0 => \A i \in 1..CountSize(at) :
              Id(g, at)[MsSymbols + 1 + i] = Encode(at.count, CountSize(at), CountDigits)[i]
<1> DEFINE a == Encode(at.ms, MsSymbols, Digits)
           b == Encode(Worker[g], 1, Digits)
           c == IF at.count > 0 THEN Encode(at.count, Size(at.count, CountDigits), CountDigits) ELSE <<>>
           M == MsSymbols
           S == CountSize(at)
<1>1. /\ M \in Nat /\ Digits \in Nat /\ Digits >= 1 /\ CountDigits \in Nat /\ CountDigits >= 1
      /\ at.ms \in Nat /\ at.count \in Nat /\ Worker[g] \in Nat
      /\ Shift[Digits] <= Len(ABC) /\ Shift[CountDigits] <= Len(ABC)
  <2>1. Shift[Digits] \in Nat /\ Shift[CountDigits] \in Nat /\ Len(ABC) \in Nat
    BY Zenon, ShortidAssumption, ShiftValues, Alphabet
  <2> QED
    BY <2>1, ShortidAssumption DEF Moments
<1>2. a \in Seq(Letters) /\ Len(a) = M /\ b \in Seq(Letters) /\ Len(b) = 1
  BY <1>1, EncodeValues, Zenon
<1>3. /\ S \in Nat /\ (S = 0 <=> at.count = 0) /\ c \in Seq(Letters) /\ Len(c) = S
      /\ at.count > 0 => c = Encode(at.count, S, CountDigits)
  <2>1. CASE at.count > 0
    <3>1. Size(at.count, CountDigits) \in Nat /\ Size(at.count, CountDigits) >= 1
      BY <1>1, SizeValues, Zenon
    <3>2. S = Size(at.count, CountDigits) /\ c = Encode(at.count, Size(at.count, CountDigits), CountDigits)
      BY <2>1 DEF CountSize
    <3> DEFINE v == at.count
               z == Size(at.count, CountDigits)
    <3>3. v \in Nat /\ z \in Nat
      BY <1>1, <3>1
    <3> HIDE DEF v, z
    <3>4. Encode(v, z, CountDigits) \in Seq(Letters) /\ Len(Encode(v, z, CountDigits)) = z
      BY <1>1, <3>3, EncodeValues, Zenon
    <3>5. S = z /\ c = Encode(v, z, CountDigits)
      BY <3>2 DEF v, z
    <3> HIDE DEF S, c
    <3>6. v # 0 /\ z # 0
      BY <1>1, <2>1, <3>1 DEF v, z
    <3> QED
      BY <3>3, <3>4, <3>5, <3>6 DEF v
  <2>2. CASE ~(at.count > 0)
    <3>1. S = 0 /\ c = <<>>
      BY <2>2 DEF CountSize
    <3> HIDE DEF S, c
    <3> QED
      BY <1>1, <2>2, <3>1
  <2> QED
    BY <2>1, <2>2
<1>4. Id(g, at) = (a \o b) \o c
  BY DEF Id
<1> HIDE DEF a, b, c, M, S
<1>5. a \o b \in Seq(Letters) /\ Len(a \o b) = M + 1 /\ (a \o b)[M + 1] = b[1] /\ \A i \in 1..M : (a \o b)[i] = a[i]
  <2>1. 1 \in 1..Len(b)
    BY <1>2
  <2>2. /\ a \o b \in Seq(Letters) /\ Len(a \o b) = Len(a) + Len(b)
        /\ \A i \in 1..Len(a) : (a \o b)[i] = a[i]
        /\ \A i \in 1..Len(b) : (a \o b)[Len(a) + i] = b[i]
    BY <1>2, Concatenated, Zenon
  <2>3. (a \o b)[Len(a) + 1] = b[1]
    BY <2>1, <2>2, Zenon
  <2> QED
    BY <1>2, <2>2, <2>3
<1> DEFINE ab == a \o b
<1> HIDE DEF ab
<1>6. ab \in Seq(Letters) /\ Len(ab) = M + 1 /\ ab[M + 1] = b[1] /\ \A i \in 1..M : ab[i] = a[i]
  BY <1>5, Zenon DEF ab
<1>7. /\ ab \o c \in Seq(Letters) /\ Len(ab \o c) = M + 1 + S
      /\ \A i \in 1..(M + 1) : (ab \o c)[i] = ab[i]
      /\ \A i \in 1..S : (ab \o c)[M + 1 + i] = c[i]
  <2>1. /\ ab \o c \in Seq(Letters) /\ Len(ab \o c) = Len(ab) + Len(c)
        /\ \A i \in 1..Len(ab) : (ab \o c)[i] = ab[i]
        /\ \A i \in 1..Len(c) : (ab \o c)[Len(ab) + i] = c[i]
    BY <1>3, <1>6, Concatenated, Zenon
  <2> QED
    BY <1>3, <1>6, <2>1, Zenon
<1>8. Id(g, at) = ab \o c
  BY <1>4 DEF ab
<1>9. \A i \in 1..M : i \in 1..(M + 1)
  BY <1>1
<1>10. M + 1 \in 1..(M + 1)
  BY <1>1
<1>11. /\ \A i \in 1..M : Id(g, at)[i] = a[i]
       /\ Id(g, at)[M + 1] = b[1]
       /\ \A i \in 1..S : Id(g, at)[M + 1 + i] = c[i]
  BY <1>6, <1>7, <1>8, <1>9, <1>10, Zenon
<1> QED
  BY <1>3, <1>7, <1>8, <1>11, Zenon DEF a, b, M, S

\* Two ids that are the same were made by one generator, at one moment.
LEMMA IdInjective ==
  ASSUME NEW g \in Generators, NEW h \in Generators, NEW x \in Moments, NEW y \in Moments,
         Fits(x.ms, MsSymbols, Digits), Fits(y.ms, MsSymbols, Digits), Id(g, x) = Id(h, y)
  PROVE  g = h /\ x = y
<1>1. /\ MsSymbols \in Nat /\ Digits \in Nat /\ Digits >= 1 /\ CountDigits \in Nat /\ CountDigits >= 1
      /\ x.ms \in Nat /\ x.count \in Nat /\ y.ms \in Nat /\ y.count \in Nat
      /\ Worker[g] \in Nat /\ Worker[h] \in Nat /\ Worker[g] < Shift[Digits] /\ Worker[h] < Shift[Digits]
      /\ Shift[Digits] <= Len(ABC) /\ Shift[CountDigits] <= Len(ABC)
  <2>1. Shift[Digits] \in Nat /\ Shift[CountDigits] \in Nat /\ Len(ABC) \in Nat
    BY ShortidAssumption, ShiftValues, Alphabet
  <2>2. x.ms \in Nat /\ x.count \in Nat /\ y.ms \in Nat /\ y.count \in Nat
    BY DEF Moments
  <2>3. Worker[g] \in 0 .. Shift[Digits] - 1 /\ Worker[h] \in 0 .. Shift[Digits] - 1
    BY ShortidAssumption
  <2>4. /\ MsSymbols \in Nat /\ Digits \in Nat /\ Digits >= 1 /\ CountDigits \in Nat /\ CountDigits >= 1
        /\ Shift[Digits] <= Len(ABC) /\ Shift[CountDigits] <= Len(ABC)
    BY <2>1, ShortidAssumption
  <2> QED
    BY <2>1, <2>2, <2>3, <2>4
<1>2. x.ms = y.ms
  <2>1. x.ms < Shift[Digits * MsSymbols] /\ y.ms < Shift[Digits * MsSymbols]
    BY Zenon, <1>1, SizeBounds DEF Fits
  <2>2. SameCode(x.ms, y.ms, MsSymbols, Digits)
    <3>1. \A i \in 1..MsSymbols : Id(g, x)[i] = Encode(x.ms, MsSymbols, Digits)[i]
      BY IdParts, Zenon
    <3>2. \A i \in 1..MsSymbols : Id(h, y)[i] = Encode(y.ms, MsSymbols, Digits)[i]
      BY IdParts, Zenon
    <3> QED
      BY <3>1, <3>2, Zenon DEF SameCode
  <2> QED
    BY <1>1, <2>1, <2>2, EncodeInjective, Zenon
<1>3. g = h
  <2> DEFINE one == 1
  <2>1. Digits * one = Digits /\ one \in Nat
    BY <1>1
  <2>2. SameCode(Worker[g], Worker[h], one, Digits)
    <3>1. Id(g, x)[MsSymbols + 1] = Encode(Worker[g], 1, Digits)[1]
      BY IdParts, Zenon
    <3>2. Id(h, y)[MsSymbols + 1] = Encode(Worker[h], 1, Digits)[1]
      BY IdParts, Zenon
    <3>3. \A i \in 1..one : i = 1
      OBVIOUS
    <3> QED
      BY <3>1, <3>2, <3>3, Zenon DEF SameCode
  <2> HIDE DEF one
  <2>3. Worker[g] = Worker[h]
    BY <1>1, <2>1, <2>2, EncodeInjective
  <2> QED
    BY <2>3, ShortidAssumption
<1>4. x.count = y.count
  <2> DEFINE s == CountSize(x)
  <2>1. CountSize(x) = CountSize(y)
    <3>1. Len(Id(g, x)) = MsSymbols + 1 + CountSize(x) /\ Len(Id(h, y)) = MsSymbols + 1 + CountSize(y)
          /\ CountSize(x) \in Nat /\ CountSize(y) \in Nat
      BY Zenon, IdParts
    <3>2. MsSymbols + 1 + CountSize(x) = MsSymbols + 1 + CountSize(y)
      BY <3>1, Zenon
    <3> QED
      BY <1>1, <3>1, <3>2, AddedSame, Zenon
  <2>2. s \in Nat /\ (s = 0 <=> x.count = 0) /\ (s = 0 <=> y.count = 0)
    BY <2>1, IdParts, Zenon
  <2>3. CASE s = 0
    BY <2>2, <2>3
  <2>4. CASE s # 0
    <3>1. x.count > 0 /\ y.count > 0
      BY <1>1, <2>2, <2>4, NotZero, Zenon
    <3>2. SameCode(x.count, y.count, s, CountDigits)
      <4>1. \A i \in 1..s : Id(g, x)[MsSymbols + 1 + i] = Encode(x.count, s, CountDigits)[i]
        BY <3>1, IdParts, Zenon
      <4>2. \A i \in 1..s : Id(h, y)[MsSymbols + 1 + i] = Encode(y.count, s, CountDigits)[i]
        <5>1. \A i \in 1..CountSize(y) : Id(h, y)[MsSymbols + 1 + i] = Encode(y.count, CountSize(y), CountDigits)[i]
          BY <3>1, IdParts, Zenon
        <5> QED
          BY <2>1, <5>1
      <4> QED
        BY Zenon, <4>1, <4>2 DEF SameCode
    <3>3. Size(x.count, CountDigits) = s /\ Size(y.count, CountDigits) = s
      BY <2>1, <3>1 DEF CountSize
    <3> HIDE DEF s
    <3>4. x.count < Shift[CountDigits * s] /\ y.count < Shift[CountDigits * s]
      BY <1>1, <2>2, <3>3, SizeBounds
    <3> QED
      BY Zenon, <1>1, <2>2, <3>2, <3>4, EncodeInjective
  <2> QED
    BY <2>3, <2>4
<1> QED
  BY <1>2, <1>3, <1>4 DEF Moments

-----------------------------------------------------------------------------
(* No id is repeated *)

\* Moment x is not after moment y.
Upto(x, y) == x.ms < y.ms \/ (x.ms = y.ms /\ x.count <= y.count)

\* While the clock is not set back, no generator is ahead of it, but for the 0 it starts with.
OnTime == ~steppedBack => \A g \in Generators : generator[g].ms <= clock \/ (clock < 0 /\ generator[g].ms <= 0)
Origin(g, at) ==
  /\ witness = Id(g, at) /\ Fits(at.ms, MsSymbols, Digits)
  /\ ~steppedBack => at.ms <= clock /\ Upto(at, generator[g])
Issued == witness = <<>> \/ \E g \in Generators, at \in Moments : Origin(g, at)

UniqueInv == ShortidTypeOK /\ OnTime /\ Issued /\ IdsAreUnique

\* At the start no id has been returned.
LEMMA UniqueInit == ShortidInit => UniqueInv
<1> SUFFICES ASSUME ShortidInit PROVE UniqueInv
  OBVIOUS
<1>1. MaxMs \in Nat /\ MaxCount \in Nat /\ First \in Generators
  BY ShortidAssumption
<1>2. clock \in -1..MaxMs /\ (clock = 0 \/ clock < 0) /\ default \in Generators
  BY <1>1 DEF ShortidInit
<1>3. generator \in [Generators -> [ms : -1..MaxMs, count : 0..MaxCount]] /\ \A g \in Generators : generator[g].ms = 0
  BY <1>1 DEF ShortidInit
<1>4. using \in [Goroutines -> {<<>>} \cup {<<g>> : g \in Generators}]
  BY DEF ShortidInit
<1>5. ShortidTypeOK
  BY <1>2, <1>3, <1>4, Zenon DEF ShortidInit, ShortidTypeOK
<1>6. OnTime
  BY <1>2, <1>3 DEF OnTime
<1> QED
  BY <1>5, <1>6, Zenon DEF UniqueInv, Issued, IdsAreUnique, ShortidInit

\* The moment of the next id is the time of the clock.
LEMMA NextMoment ==
  ASSUME UniqueInv, NEW g \in Generators, getMsAndCounter(g).count <= MaxCount
  PROVE  LET at == getMsAndCounter(g) IN
         /\ at \in [ms : -1..MaxMs, count : 0..MaxCount] /\ at.ms = clock
         /\ clock = generator[g].ms => at.count = generator[g].count + 1
<1>1. clock \in -1..MaxMs /\ generator[g] \in [ms : -1..MaxMs, count : 0..MaxCount] /\ MaxCount \in Nat
  BY ShortidAssumption DEF UniqueInv, ShortidTypeOK
<1>2. generator[g].count \in 0..MaxCount
  BY <1>1
<1>3. CASE clock = generator[g].ms
  <2> DEFINE n == generator[g].count + 1
  <2>1. getMsAndCounter(g) = [ms |-> clock, count |-> n]
    BY <1>3 DEF getMsAndCounter
  <2>2. n \in Nat
    BY <1>1, <1>2
  <2> HIDE DEF n
  <2>3. n \in 0..MaxCount
    BY <1>1, <2>1, <2>2
  <2> QED
    BY <1>1, <2>1, <2>3 DEF n
<1>4. CASE clock # generator[g].ms
  <2> DEFINE n == 0
  <2>1. getMsAndCounter(g) = [ms |-> clock, count |-> n] /\ n \in 0..MaxCount
    BY <1>1, <1>4 DEF getMsAndCounter
  <2> HIDE DEF n
  <2> QED
    BY <1>1, <1>4, <2>1
<1> QED
  BY <1>3, <1>4

\* It comes after all earlier ones of this generator.
LEMMA LaterMoment ==
  ASSUME UniqueInv, ~steppedBack, NEW g \in Generators, getMsAndCounter(g).count <= MaxCount,
         NEW at \in Moments, at.ms <= clock, Upto(at, generator[g])
  PROVE  Upto(at, getMsAndCounter(g)) /\ at # getMsAndCounter(g)
<1> DEFINE b == getMsAndCounter(g)
           c == generator[g]
<1>1. /\ b.ms \in Int /\ b.count \in Nat /\ b.ms = clock /\ (clock = c.ms => b.count = c.count + 1)
      /\ c.ms \in Int /\ c.count \in Nat /\ at.ms \in Nat /\ at.count \in Nat /\ clock \in Int
  <2>1. /\ b \in [ms : -1..MaxMs, count : 0..MaxCount] /\ b.ms = clock
        /\ clock = c.ms => b.count = c.count + 1
    BY NextMoment, Zenon
  <2>2. c \in [ms : -1..MaxMs, count : 0..MaxCount] /\ clock \in -1..MaxMs
    BY Zenon DEF UniqueInv, ShortidTypeOK
  <2>3. at.ms \in Nat /\ at.count \in Nat
    BY DEF Moments
  <2>4. MaxMs \in Nat /\ MaxCount \in Nat
    BY ShortidAssumption
  <2> HIDE DEF b, c
  <2> QED
    BY <2>1, <2>2, <2>3, <2>4
<1>2. c.ms <= clock
  BY <1>1 DEF UniqueInv, OnTime
<1> HIDE DEF b, c
<1>3. Upto(at, c)
  BY DEF c
<1>4. Upto(at, b) /\ (at.ms # b.ms \/ at.count # b.count)
  BY <1>1, <1>2, <1>3 DEF Upto
<1> QED
  BY Zenon, <1>4 DEF b

\* A new id: it is the witness of none of the earlier ones.
LEMMA GenerateStep == ASSUME UniqueInv, NEW r \in Goroutines, Generate(r) PROVE UniqueInv'
<1>g. PICK g : g = using[r][1]
  OBVIOUS
<1>a. PICK at : at = getMsAndCounter(g)
  OBVIOUS
<1>1. using[r] # <<>> /\ at.count <= MaxCount /\ generator' = [generator EXCEPT ![g] = at]
  BY <1>g, <1>a DEF Generate
<1>2. using' = [using EXCEPT ![r] = <<>>] /\ UNCHANGED <<clock, steppedBack, default>>
  BY DEF Generate
<1>3. \/ UNCHANGED <<witness, repeated>>
      \/ /\ Fits(at.ms, MsSymbols, Digits) /\ witness' \in {witness, Id(g, at)}
         /\ repeated' = (repeated \/ Id(g, at) = witness)
  BY <1>g, <1>a, Zenon DEF Generate
<1>4. g \in Generators
  <2>1. using[r] \in {<<>>} \cup {<<h>> : h \in Generators}
    BY DEF UniqueInv, ShortidTypeOK
  <2>2. PICK h \in Generators : using[r] = <<h>>
    BY Zenon, <1>1, <2>1
  <2> QED
    BY <1>g, <2>2
<1>5. ASSUME ~steppedBack, NEW m \in Moments, m.ms <= clock, Upto(m, generator[g]) PROVE Upto(m, at) /\ m # at
  BY Zenon, <1>1, <1>4, <1>5, <1>a, LaterMoment
<1>6. at \in [ms : -1..MaxMs, count : 0..MaxCount] /\ at.ms = clock
  BY Zenon, <1>1, <1>4, <1>a, NextMoment
<1>7. /\ generator' \in [Generators -> [ms : -1..MaxMs, count : 0..MaxCount]]
      /\ generator'[g] = at /\ \A h \in Generators : h # g => generator'[h] = generator[h]
  BY <1>1, <1>4, <1>6 DEF UniqueInv, ShortidTypeOK
<1>8. using' \in [Goroutines -> {<<>>} \cup {<<h>> : h \in Generators}]
  BY <1>2 DEF UniqueInv, ShortidTypeOK
<1>9. OnTime'
  <2> SUFFICES ASSUME ~steppedBack, NEW h \in Generators PROVE generator'[h].ms <= clock \/ (clock < 0 /\ generator'[h].ms <= 0)
    BY <1>2 DEF OnTime
  <2>1. clock \in Int
    BY DEF UniqueInv, ShortidTypeOK
  <2>2. CASE h = g
    BY <1>6, <1>7, <2>1, <2>2
  <2>3. CASE h # g
    BY <1>7, <2>3 DEF UniqueInv, OnTime
  <2> QED
    BY <2>2, <2>3
<1>10. Fits(at.ms, MsSymbols, Digits) => at \in Moments
  BY <1>6, ShortidAssumption DEF Fits, Moments
<1>11. witness' = witness => Issued'
  <2> SUFFICES ASSUME witness' = witness, NEW h \in Generators, NEW m \in Moments, Origin(h, m)
               PROVE  Origin(h, m)'
    BY DEF UniqueInv, Issued
  <2>1. ~steppedBack => m.ms <= clock /\ Upto(m, generator[h])
    BY DEF Origin
  <2>2. ~steppedBack => Upto(m, generator'[h])
    <3>1. CASE h = g
      BY <1>5, <1>7, <2>1, <3>1
    <3>2. CASE h # g
      BY <1>7, <2>1, <3>2
    <3> QED
      BY Zenon, <3>1, <3>2
  <2>3. witness' = Id(h, m) /\ Fits(m.ms, MsSymbols, Digits)
    BY DEF Origin
  <2> QED
    BY <1>2, <2>1, <2>2, <2>3, Zenon DEF Origin, Upto
<1>12. Fits(at.ms, MsSymbols, Digits) /\ witness' = Id(g, at) => Issued'
  <2> SUFFICES ASSUME Fits(at.ms, MsSymbols, Digits), witness' = Id(g, at) PROVE Origin(g, at)'
    BY <1>4, <1>10 DEF Issued
  <2>1. at.ms <= clock /\ Upto(at, at)
    <3>1. at.ms \in Int /\ at.count \in Int
      BY <1>6
    <3> QED
      BY <1>6, <3>1 DEF Upto
  <2> QED
    BY <1>2, <1>7, <2>1, Zenon DEF Origin, Upto
<1>13. Issued'
  BY <1>3, <1>11, <1>12
<1>14. Fits(at.ms, MsSymbols, Digits) => Id(g, at) # <<>> /\ Len(Id(g, at)) > MsSymbols
  <2> SUFFICES ASSUME Fits(at.ms, MsSymbols, Digits) PROVE Id(g, at) # <<>> /\ Len(Id(g, at)) > MsSymbols
    BY Zenon
  <2>1. Len(Id(g, at)) = MsSymbols + 1 + CountSize(at) /\ CountSize(at) \in Nat /\ MsSymbols \in Nat
    BY Zenon, <1>4, <1>10, IdParts, ShortidAssumption
  <2>2. Len(<<>>) = 0
    OBVIOUS
  <2> QED
    BY <2>1, <2>2
<1>15. ~steppedBack /\ Fits(at.ms, MsSymbols, Digits) => Id(g, at) # witness
  <2> SUFFICES ASSUME ~steppedBack, Fits(at.ms, MsSymbols, Digits), Id(g, at) = witness PROVE FALSE
    OBVIOUS
  <2>1. PICK h \in Generators, m \in Moments : Origin(h, m)
    BY <1>14 DEF UniqueInv, Issued
  <2>2. Id(g, at) = Id(h, m) /\ Fits(m.ms, MsSymbols, Digits) /\ m.ms <= clock /\ Upto(m, generator[h])
    BY <2>1 DEF Origin
  <2>3. g = h /\ at = m
    BY <1>4, <1>10, <2>2, IdInjective
  <2> QED
    BY Zenon, <1>5, <2>2, <2>3
<1>16. repeated' \in BOOLEAN /\ IdsAreUnique'
  <2>1. CASE UNCHANGED <<witness, repeated>>
    BY <1>2, <2>1, Zenon DEF UniqueInv, ShortidTypeOK, IdsAreUnique
  <2>2. CASE ~UNCHANGED <<witness, repeated>>
    BY <1>2, <1>3, <1>15, <2>2, Zenon DEF UniqueInv, ShortidTypeOK, IdsAreUnique
  <2> QED
    BY <2>1, <2>2
<1>17. witness' = <<>> \/ Len(witness') > MsSymbols
  BY <1>3, <1>14 DEF UniqueInv, ShortidTypeOK
<1>18. ShortidTypeOK'
  BY <1>2, <1>7, <1>8, <1>16, <1>17, Zenon DEF UniqueInv, ShortidTypeOK
<1> QED
  BY <1>9, <1>13, <1>16, <1>18, Zenon DEF UniqueInv

\* The other steps return no id.
LEMMA OtherSteps ==
  ASSUME UniqueInv, UNCHANGED <<generator, witness, repeated>>, ShortidTypeOK',
         UNCHANGED <<clock, steppedBack>> \/ \E ms \in -1..MaxMs : ClockMoves(ms)
  PROVE  UniqueInv'
<1>1. clock \in Int /\ clock' \in Int /\ (~steppedBack' => ~steppedBack /\ clock <= clock')
  <2>1. CASE UNCHANGED <<clock, steppedBack>>
    BY <2>1 DEF UniqueInv, ShortidTypeOK
  <2>2. ASSUME NEW ms \in -1..MaxMs, ClockMoves(ms) PROVE clock' \in Int /\ (~steppedBack' => ~steppedBack /\ clock <= clock')
    <3>1. clock' = ms /\ (~steppedBack' => ~steppedBack /\ ~(ms < clock))
      BY <2>2, Zenon DEF ClockMoves
    <3> QED
      BY <3>1 DEF UniqueInv, ShortidTypeOK
  <2>3. clock \in Int
    BY DEF UniqueInv, ShortidTypeOK
  <2> QED
    BY <2>1, <2>2, <2>3
<1>2. OnTime'
  <2> SUFFICES ASSUME ~steppedBack', NEW g \in Generators PROVE generator[g].ms <= clock' \/ (clock' < 0 /\ generator[g].ms <= 0)
    BY DEF OnTime
  <2>1. generator[g].ms <= clock \/ (clock < 0 /\ generator[g].ms <= 0)
    BY <1>1 DEF UniqueInv, OnTime
  <2>2. generator[g].ms \in Int /\ clock' >= -1
    BY DEF UniqueInv, ShortidTypeOK
  <2> QED
    BY <1>1, <2>1, <2>2
<1>3. Issued'
  <2> SUFFICES ASSUME NEW h \in Generators, NEW m \in Moments, Origin(h, m) PROVE Origin(h, m)'
    BY DEF UniqueInv, Issued
  <2>1. ~steppedBack' => m.ms <= clock'
    BY <1>1 DEF Origin, Moments
  <2> QED
    BY <1>1, <2>1, Zenon DEF Origin, Upto
<1>4. IdsAreUnique'
  BY <1>1 DEF UniqueInv, IdsAreUnique
<1> QED
  BY <1>2, <1>3, <1>4, Zenon DEF UniqueInv

\* Every step keeps UniqueInv: a new id is made later than those before it, or by another worker.
LEMMA UniqueStep == UniqueInv /\ [ShortidNext]_shortidVars => UniqueInv'
<1> SUFFICES ASSUME UniqueInv, [ShortidNext]_shortidVars PROVE UniqueInv'
  OBVIOUS
<1>1. ASSUME NEW r \in Goroutines, LoadDefault(r) PROVE UniqueInv'
  <2>1. using' \in [Goroutines -> {<<>>} \cup {<<g>> : g \in Generators}]
    <3> DEFINE d == <<default>>
    <3>1. d \in {<<>>} \cup {<<g>> : g \in Generators} /\ using' = [using EXCEPT ![r] = d]
      BY <1>1 DEF LoadDefault, UniqueInv, ShortidTypeOK
    <3> HIDE DEF d
    <3> QED
      BY <3>1 DEF UniqueInv, ShortidTypeOK
  <2>2. ShortidTypeOK'
    BY <1>1, <2>1, Zenon DEF LoadDefault, UniqueInv, ShortidTypeOK
  <2> QED
    BY Zenon, <1>1, <2>2, OtherSteps DEF LoadDefault
<1>2. ASSUME NEW g \in Generators, SetDefault(g) PROVE UniqueInv'
  <2>1. ShortidTypeOK'
    BY <1>2, Zenon DEF SetDefault, UniqueInv, ShortidTypeOK
  <2> QED
    BY <1>2, <2>1, OtherSteps DEF SetDefault
<1>3. ASSUME NEW ms \in -1..MaxMs, ClockMoves(ms) PROVE UniqueInv'
  <2>1. steppedBack' \in BOOLEAN
    BY <1>3 DEF ClockMoves
  <2>2. ShortidTypeOK'
    BY <1>3, <2>1, Zenon DEF ClockMoves, UniqueInv, ShortidTypeOK
  <2>3. \E m \in -1..MaxMs : ClockMoves(m)
    BY <1>3
  <2> QED
    BY <1>3, <2>2, <2>3, OtherSteps DEF ClockMoves
<1>4. CASE UNCHANGED shortidVars
  <2>1. ShortidTypeOK'
    BY <1>4, Zenon DEF shortidVars, UniqueInv, ShortidTypeOK
  <2> QED
    BY <1>4, <2>1, OtherSteps DEF shortidVars
<1> QED
  BY <1>1, <1>2, <1>3, <1>4, GenerateStep, Zenon DEF ShortidNext

\* No id is returned twice while the clock is not set back, for every number of
\* symbols and of bits, every alphabet and every set of generators of different workers.
THEOREM NoIdIsRepeated == ShortidSpec => []IdsAreUnique
<1>1. UniqueInv => IdsAreUnique
  BY DEF UniqueInv
<1> QED
  BY <1>1, UniqueInit, UniqueStep, PTL DEF ShortidSpec
=============================================================================
