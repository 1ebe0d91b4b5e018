----------------------------- MODULE ChartIndex ------------------------------
(* helm/getter/repo: the index of a chart repository, for one chart. An      *)
(* entry is a release [text, kind, rank, pre]: kind is "semver", "junk" for  *)
(* a version that does not parse, or "nil" for an empty entry; releases of   *)
(* one rank are equal to semver, and their versions have three numbers. A    *)
(* version asked for is [text, valid, pre, ranks]: whether it parses as a    *)
(* constraint, names a prerelease, and the ranks it admits.                  *)
EXTENDS Naturals, Sequences, FiniteSetsExt

CONSTANTS
  Indexes,      \* index files, as sequences of entries
  Asked,        \* versions asked for
  MaxEntryCount \* bound on the entries

Entries == UNION {Range(f) : f \in Indexes}

ASSUME IndexAssumption ==
  /\ Indexes \subseteq Seq(Entries) /\ MaxEntryCount \in Nat
  /\ \A r \in Entries : r.rank \in Nat

VARIABLES index, sorted

indexVars == <<index, sorted>>

-----------------------------------------------------------------------------
(* The operations *)

Less(a, b) ==
  /\ a.kind # "nil"
  /\ b.kind = "nil" \/ a.kind = "junk" \/ (b.kind = "semver" /\ a.rank < b.rank)

\* Less counts of two versions that do not parse each one as the smaller.
Ahead(a, b) == Less(b, a) /\ ~Less(a, b)
Rearranged(vs) == {[i \in DOMAIN vs |-> vs[p[i]]] : p \in Bijection(DOMAIN vs, DOMAIN vs)}

\* Mutant: the order is not reversed.
SortAscending(vs) == {ws \in Rearranged(vs) : \A i, j \in DOMAIN ws : i < j => ~Ahead(ws[i], ws[j])}

\* What sort.Sort, which is not stable, may make of the entries: no entry is in
\* front of one that is ahead of it.
SortEntries(vs) == {ws \in Rearranged(vs) : \A i, j \in DOMAIN ws : i < j => ~Ahead(ws[j], ws[i])}
Load(vs) == SortEntries(vs)

\* A constraint without a prerelease admits none.
Admits(version, r) == r.kind = "semver" /\ (r.pre => version.pre) /\ r.rank \in version.ranks

FirstAt(places) == IF places = {} THEN 0 ELSE Min(places)

\* The release, or none for an error. A nil entry ends the search, since Get
\* reads through it and panics: the entry itself is the result then.
IndexGet(vs, version) ==
  LET exact == IF version.text = "" THEN 0
               ELSE FirstAt({i \in 1..Len(vs) : vs[i].kind = "nil" \/ vs[i].text = version.text})
      first == FirstAt({i \in 1..Len(vs) : vs[i].kind = "nil" \/ Admits(version, vs[i])})
  IN IF ~version.valid \/ exact + first = 0 THEN <<>>
     ELSE IF exact # 0 THEN <<vs[exact]>> ELSE <<vs[first]>>
Has(vs, version) == IndexGet(vs, version) # <<>>

\* The version of an entry, asked for: semver compares without the build
\* metadata, and what does not parse is no constraint.
Exactly(r) == [text |-> r.text, valid |-> r.kind = "semver", pre |-> r.pre, ranks |-> {r.rank}]

Merge(vs, others) ==
  LET merged[k \in 0..Len(others)] ==
        IF k = 0 THEN vs
        ELSE IF Has(merged[k - 1], Exactly(others[k])) THEN merged[k - 1] ELSE Append(merged[k - 1], others[k])
  IN merged[Len(others)]

\* A result that is one of S, or an error.
OneOf(S) == IF S = {} THEN {<<>>} ELSE {<<r>> : r \in S}
Stable(tags) == {r \in Range(tags) : r.kind = "semver" /\ ~r.pre}

\* Mutant: the other end of the sorted versions.
findWorstSemverMatch(tags) == OneOf({r \in Stable(tags) : \A t \in Stable(tags) : ~(t.rank < r.rank)})

\* The tags of an OCI repository: the last of the sorted stable ones.
findBestSemverMatch(tags) == OneOf({r \in Stable(tags) : \A t \in Stable(tags) : ~(r.rank < t.rank)})

-----------------------------------------------------------------------------
(* An index that is loaded and added to *)

NoNil(vs) == \A i \in DOMAIN vs : vs[i].kind # "nil"

IndexInit == index = <<>> /\ sorted = TRUE

IndexLoaded(f) == index' \in Load(f) /\ sorted' = TRUE
MustAdd(cr) ==
  /\ Len(index) < MaxEntryCount
  /\ index' = Append(index, cr) /\ sorted' = FALSE
\* Without empty entries, on which Get panics.
Merged(f) ==
  /\ Len(index) + Len(f) <= MaxEntryCount /\ NoNil(index \o f)
  /\ index' = Merge(index, f) /\ sorted' = FALSE
Sorted == index # <<>> /\ index' \in SortEntries(index) /\ sorted' = TRUE

IndexNext ==
  \/ Sorted
  \/ \E f \in Indexes : IndexLoaded(f) \/ Merged(f) \/ \E i \in DOMAIN f : MustAdd(f[i])

IndexSpec == IndexInit /\ [][IndexNext]_indexVars

-----------------------------------------------------------------------------
Newer(a, b) == a.rank > b.rank
Matching(vs, version) == {r \in Range(vs) : Admits(version, r)}

(* Once an index is loaded or sorted, Get finds the newest release that the   *)
(* version asked for admits, or the one of exactly that text, whatever was    *)
(* added and merged before and although versions that do not parse are among  *)
(* the entries: the first match is the newest (index.go:117-122, 162). An     *)
(* empty entry is excepted: Load keeps it, in front, and Get panics.          *)
FirstIsNewest ==
  sorted /\ NoNil(index) => \A version \in Asked :
    LET found == IndexGet(index, version)
    IN CASE found = <<>> -> ~version.valid \/ Matching(index, version) = {}
         [] found # <<>> -> \/ version.text = found[1].text
                            \/ /\ found[1] \in Matching(index, version)
                               /\ \A r \in Matching(index, version) : ~Newer(r, found[1])
=============================================================================
