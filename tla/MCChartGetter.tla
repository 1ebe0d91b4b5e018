--------------------------- MODULE MCChartGetter -----------------------------
(* The getter with its cache, and a repository's index by itself.           *)
EXTENDS ChartGetter

VARIABLE part

chartVars == <<part, fetchVars, indexVars>>

-----------------------------------------------------------------------------
MCRelease(text, rank, pre) == [text |-> text, kind |-> "semver", rank |-> rank, pre |-> pre, over |-> FALSE]
MCJunk == [MCRelease("junk", 0, FALSE) EXCEPT !.kind = "junk"]
MCNil == [MCRelease("", 0, FALSE) EXCEPT !.kind = "nil"]
MCFirst == MCRelease("1.0.0", 1, FALSE)
MCEntries == {MCFirst, MCRelease("1.0.0+b", 1, FALSE), MCRelease("1.1.0", 2, FALSE),
              MCRelease("2.0.0-rc", 3, TRUE), MCJunk, MCNil}
MCIndexes == {<<e, f>> : e, f \in MCEntries}
MCAny == [text |-> "", valid |-> TRUE, pre |-> FALSE, ranks |-> 1 .. 3]
MCLatest == [MCAny EXCEPT !.text = "latest", !.valid = FALSE]
MCAsked == {MCAny, MCLatest, [MCAny EXCEPT !.text = "^1", !.ranks = {1, 2}]}
             \cup {Exactly(e) : e \in MCEntries \ {MCNil}}

\* A chart of a repository and one of an OCI registry, whose first release is
\* too large for fetch.
MCReleased == <<[MCFirst EXCEPT !.over = TRUE], MCJunk, MCRelease("2.0.0-rc", 3, TRUE)>>
MCComing == {MCRelease("1.1.0", 2, FALSE)}
MCRepository == [uri |-> "repository", repo |-> "a", version |-> MCAny, scheme |-> "http"]
MCRegistry == [uri |-> "registry", repo |-> "b", version |-> MCLatest, scheme |-> "oci"]
MCArchive == [uri |-> "archive", repo |-> "", version |-> MCAny, scheme |-> "tgz"]
MCQueries == {MCRepository, MCRegistry, MCArchive}
MCNames == {Name(q) : q \in MCQueries}
MCBodies == {Fetched(q, r) : q \in MCQueries, r \in Range(MCReleased) \cup MCComing}
              \cup {Fetched(MCArchive, MCRelease("archive", 0, FALSE))}

-----------------------------------------------------------------------------
\* Charts are fetched from the repository, from the registry or by a URI of an
\* archive; or from the first two, and then nothing is released and the process
\* does not crash.
Init == part \in {"http", "oci", "tgz", "both", "index"} /\ FetchInit /\ IndexInit

Scope ==
  /\ part = "both" => UNCHANGED <<crashes, published>>
  /\ \A c \in Callers : call'[c].pc # "idle" =>
       call'[c].query.scheme \in (IF part = "both" THEN {"http", "oci"} ELSE {part})
Fetching(A) == part # "index" /\ UNCHANGED <<part, indexVars>> /\ A /\ Scope
Next == Fetching(FetchNext) \/ (part = "index" /\ UNCHANGED <<part, fetchVars>> /\ IndexNext)

(* Callers run on, but for a download that may hang; the lock is handed to  *)
(* whoever waits for it, which a Go RWMutex guarantees; the cleanup's       *)
(* ticker and the clock go on.                                              *)
Fairness ==
  /\ \A c \in Callers : SF_chartVars(Fetching(~MayHang(c) /\ Step(c)))
  /\ WF_chartVars(Fetching(Tick /\ UNCHANGED getterVars))
  /\ SF_chartVars(Fetching(Clean /\ UNCHANGED getterVars))

Spec == Init /\ [][Next]_chartVars /\ Fairness
=============================================================================
