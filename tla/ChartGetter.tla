---------------------------- MODULE ChartGetter ------------------------------
(***************************************************************************)
(* helm/getter.Get over a DiskCache: the cache first, then the getter of   *)
(* the URI's form, which chooses a release and downloads it, then Set and a *)
(* second Get so that the caller reads the stored file. The registry or    *)
(* repository is external: charts are released while calls are under way.  *)
(***************************************************************************)
EXTENDS DiskCache, ChartIndex

CONSTANTS
  Queries,   \* [uri, repo, version, scheme]
  Released,  \* the releases of every chart at first, in the order of the index
  Coming     \* releases still to come

VARIABLES
  published,   \* the releases of every chart
  call

getterVars == <<published, call>>
fetchVars == <<cacheVars, getterVars>>

\* The registry URI with the chart name: cacheKey, then with the version the file name.
cacheKey(q) == <<q.uri, q.repo>>
Name(q) == <<cacheKey(q), q.version.text>>

\* A URI has one form and a version's text one meaning. No version, or "latest",
\* admits every stable release.
Releases == Range(Released) \cup Coming
ASSUME GetterAssumption ==
  /\ Released \in Seq(Releases) /\ \A r \in Releases : r.kind # "nil"
  /\ \A q \in Queries : Name(q) \in Names
  /\ \A p, q \in Queries : Name(p) = Name(q) => p = q
  /\ \A q \in Queries : q.scheme = "oci" /\ q.version.text \in {"", "latest"} =>
       \A r \in Releases : r.kind = "semver" => r.rank \in q.version.ranks

\* The tag of a registry, found for a version that is missing or "latest".
Tag(tags, version) ==
  IF version.text \in {"", "latest"} THEN findBestSemverMatch(tags)
  ELSE OneOf({r \in Range(tags) : r.text = version.text})

\* The release that a getter may choose, or none; a .tgz URI names its own.
Chosen(q, releases) ==
  CASE q.scheme = "oci" -> Tag(releases, q.version)
    [] q.scheme = "http" -> {IndexGet(vs, q.version) : vs \in Load(releases)}
    [] q.scheme = "tgz" -> {<<[text |-> q.uri, kind |-> "semver", rank |-> 0, pre |-> FALSE, over |-> FALSE]>>}
    [] OTHER -> {<<>>}

\* What a getter reads of it: fetch stops at MaxResponseSize, an OCI layer is streamed.
Truncated(q, r) == r.over /\ q.scheme # "oci"
Fetched(q, r) == [repo |-> q.repo, release |-> r, cut |-> Truncated(q, r)]

\* What a call returned is not kept.
Idle == [pc |-> "idle", query |-> CHOOSE q \in Queries : TRUE, release |-> <<>>]

FetchInit == DiskInit /\ published = Released /\ call = [c \in Callers |-> Idle]

Publish(r) ==
  /\ r \in Coming \ Range(published)
  /\ published' = Append(published, r)
  /\ UNCHANGED <<cacheVars, call>>

Goto(c, pc) == call' = [call EXCEPT ![c].pc = pc] /\ UNCHANGED published
Return(c) == call' = [call EXCEPT ![c] = Idle] /\ UNCHANGED published

\* The cache first: a hit ends the call at once.
Get(c, q) ==
  /\ call[c].pc = "idle"
  /\ \/ Hit(Name(q)) /\ UNCHANGED call
     \/ Miss(Name(q)) /\ call' = [call EXCEPT ![c] = [pc |-> "resolve", query |-> q, release |-> <<>>]]
  /\ UNCHANGED <<cacheVars, published>>

\* The index or the tags are read and a release is chosen, or there is none,
\* or no getter for the URI, or the request fails.
Resolve(c) ==
  /\ call[c].pc = "resolve"
  /\ \/ /\ \E chosen \in Chosen(call[c].query, published) \ {<<>>} :
            call' = [call EXCEPT ![c].pc = "fetch", ![c].release = chosen]
        /\ UNCHANGED published
     \/ Return(c)
  /\ UNCHANGED cacheVars

\* The archive is downloaded, or that fails.
Fetch(c) ==
  /\ call[c].pc = "fetch"
  /\ Goto(c, "store") \/ Return(c)
  /\ UNCHANGED cacheVars

Store(c) ==
  /\ call[c].pc = "store"
  /\ \/ SetBegin(c, Fetched(call[c].query, call[c].release[1])) /\ Goto(c, "copy")
     \/ SetRefused /\ Return(c)

Copy(c) ==
  /\ call[c].pc = "copy"
  /\ \/ SetCopied(c) /\ UNCHANGED getterVars
     \/ SetRenamed(c, Name(call[c].query)) /\ Goto(c, "reopen")
     \/ SetFails(c) /\ Return(c)

Reopen(c) ==
  /\ call[c].pc = "reopen"
  /\ \/ Hit(Name(call[c].query)) /\ Return(c)
     \/ Miss(Name(call[c].query)) /\ Return(c)
  /\ UNCHANGED cacheVars

Step(c) == Resolve(c) \/ Fetch(c) \/ Store(c) \/ Copy(c) \/ Reopen(c)

FetchNext ==
  \/ \E c \in Callers : Step(c) \/ \E q \in Queries : Get(c, q)
  \/ \E r \in Coming : Publish(r)
  \/ (Tick \/ Clear \/ Stop \/ Clean) /\ UNCHANGED getterVars
  \/ Crash /\ call' = [c \in Callers |-> Idle] /\ UNCHANGED published

FetchSpec == FetchInit /\ [][FetchNext]_fetchVars

\* repoGetter passes no timeout on: only its caller's context ends such a download.
MayHang(c) == call[c].pc \in {"resolve", "fetch"} /\ call[c].query.scheme = "http"

-----------------------------------------------------------------------------
Fresh(n) == files[n].exists /\ ~Expired(files[n].age)
Satisfies(q, r) ==
  IF q.scheme = "tgz" THEN r.text = q.uri ELSE r.text = q.version.text \/ Admits(q.version, r)

(* Every archive that Get can open is complete and is a release of the chart *)
(* asked for that its version admits, through failed copies, concurrent     *)
(* writers, the cleanup and crashes at any point ("atomic writes (write to  *)
(* temp -> rename)", cache.go:105; "distinct cache entries",                *)
(* getter.go:83-85). The exception is the code's: fetch cuts a larger       *)
(* archive without an error.                                                *)
ServedAsRequested ==
  \A q \in Queries :
    LET file == files[Name(q)]
    IN file.exists =>
         /\ file.whole /\ file.body.repo = q.repo /\ Satisfies(q, file.body.release)
         /\ file.body.cut => file.body.release.over

(* A version that moves ("", "latest" or a range) is cached under its own   *)
(* text, and a call may store a release that was overtaken while it was     *)
(* downloaded; once no more releases come, only the newest one is served in *)
(* the end, whether or not the cleanup was stopped. A .tgz URI chooses none. *)
MovingVersionFollows ==
  \A q \in {p \in Queries : p.scheme # "tgz"} : <>[](Fresh(Name(q)) =>
    \A r \in Range(published) : Admits(q.version, r) => ~Newer(r, files[Name(q)].body.release))

(* What a crash in the middle of Set leaves in the directory is removed in  *)
(* the end, unless the cleanup is stopped (cache.go:192-219).               *)
LeftoversRemoved == []<>(temps = {} \/ stopped)

(* Every call of getter.Get returns, or is one that waits for a repository  *)
(* without a timeout: such a wait holds no lock, no path of Set keeps it,   *)
(* and so one hung download stops nobody else.                              *)
GetReturns == \A c \in Callers : []<>(call[c].pc = "idle" \/ MayHang(c))
=============================================================================
