----------------------------- MODULE DiskCache -------------------------------
(***************************************************************************)
(* helm/getter/cache.DiskCache: a directory of chart archives that outlives *)
(* the process. Get, Set and Clear run under a lock; Set copies to a       *)
(* temporary file and renames it; the cleanup goroutine scans the directory *)
(* and reads modification times without the lock and takes it only to      *)
(* remove a file. Ages of files stop growing once they have expired.       *)
(***************************************************************************)
EXTENDS Naturals, FiniteSets

CONSTANTS
  Callers,    \* goroutines that use the cache
  Names,      \* file names: what key makes of a uri and a version
  Bodies,     \* archives
  TTL,        \* files older than this have expired
  MaxCrashes  \* bound on restarts of the process

VARIABLES
  files,               \* the archives in the directory
  temps,               \* ages of temporary files that a crash has left in it
  lock,                \* the caller that is inside Set
  writing,             \* its temporary file
  cleaner, entries, doomed,  \* cleanup: where it is, the entries to visit, the one to remove
  stopped, crashes

diskVars == <<files, temps>>
setVars == <<lock, writing>>
cleanVars == <<cleaner, entries, doomed>>
cacheVars == <<diskVars, setVars, cleanVars, stopped, crashes>>

Nobody == "nobody"

ASSUME DiskAssumption == TTL \in Nat /\ MaxCrashes \in Nat /\ Nobody \notin Callers

Leftover == <<"tmp">>   \* a temporary file as a directory entry
NoEntry == <<>>
NoBody == <<>>
Absent == [exists |-> FALSE, body |-> NoBody, whole |-> FALSE, age |-> 0]
Expired(age) == age > TTL

File == [exists : BOOLEAN, body : Bodies \cup {NoBody}, whole : BOOLEAN, age : 0..(TTL + 1)]

DiskTypeOK ==
  /\ files \in [Names -> File] /\ temps \subseteq 0..(TTL + 1)
  /\ lock \in Callers \cup {Nobody} /\ writing \in File
  /\ writing.exists => lock # Nobody
  /\ cleaner \in {"wait", "visit", "remove", "ended"}
  /\ entries \subseteq Names \cup {Leftover} /\ doomed \in Names \cup {Leftover, NoEntry}
  /\ stopped \in BOOLEAN /\ crashes \in 0..MaxCrashes

\* NewDiskCache opens whatever directory it finds and starts the cleanup.
DiskInit ==
  /\ files = [n \in Names |-> Absent] /\ temps = {}
  /\ lock = Nobody /\ writing = Absent
  /\ cleaner = "wait" /\ entries = {} /\ doomed = NoEntry
  /\ stopped = FALSE /\ crashes = 0

Tick ==
  LET older(age) == IF Expired(age) THEN age ELSE age + 1
      aged(f) == IF f.whole THEN [f EXCEPT !.age = older(@)] ELSE f IN
  /\ files' = [n \in Names |-> aged(files[n])]
  /\ writing' = aged(writing)
  /\ temps' = {older(t) : t \in temps}
  /\ UNCHANGED <<lock, cleanVars, stopped, crashes>>

-----------------------------------------------------------------------------
\* Get, atomic under the read lock: hit or miss.
Hit(n) == lock = Nobody /\ files[n].exists /\ ~Expired(files[n].age)
Miss(n) == lock = Nobody /\ (~files[n].exists \/ Expired(files[n].age))

\* Set takes the lock and creates its temporary file.
SetBegin(c, body) ==
  /\ lock = Nobody /\ lock' = c
  /\ writing' = [exists |-> TRUE, body |-> body, whole |-> FALSE, age |-> 0]
  /\ UNCHANGED <<diskVars, cleanVars, stopped, crashes>>

\* No temporary file can be created, as when Clear could not make the directory again.
SetRefused == lock = Nobody /\ UNCHANGED cacheVars

\* The source has been copied; the modification time stays what it is from here on.
SetCopied(c) ==
  /\ lock = c /\ writing.exists /\ ~writing.whole
  /\ writing' = [writing EXCEPT !.whole = TRUE]
  /\ UNCHANGED <<diskVars, lock, cleanVars, stopped, crashes>>

\* Mutant: an error returns without the deferred unlock.
SetFailsLocked(c) ==
  /\ lock = c
  /\ writing' = Absent /\ lock' = lock
  /\ UNCHANGED <<diskVars, cleanVars, stopped, crashes>>

\* The copy, the flush or the rename fails: the deferred functions remove the temporary file.
SetFails(c) ==
  /\ lock = c
  /\ writing' = Absent /\ lock' = Nobody
  /\ UNCHANGED <<diskVars, cleanVars, stopped, crashes>>

\* Mutant: the file is renamed before its contents are complete.
SetRenamedEarly(c, n) ==
  /\ lock = c /\ writing.exists
  /\ files' = [files EXCEPT ![n] = writing]
  /\ writing' = Absent /\ lock' = Nobody
  /\ UNCHANGED <<temps, cleanVars, stopped, crashes>>

SetRenamed(c, n) ==
  /\ lock = c /\ writing.whole
  /\ files' = [files EXCEPT ![n] = writing]
  /\ writing' = Absent /\ lock' = Nobody
  /\ UNCHANGED <<temps, cleanVars, stopped, crashes>>

\* RemoveAll may fail half way, and then some files stay.
Clear ==
  /\ lock = Nobody
  /\ \E kept \in SUBSET Names : files' = [n \in Names |-> IF n \in kept THEN files[n] ELSE Absent]
  /\ temps' \in SUBSET temps
  /\ UNCHANGED <<setVars, cleanVars, stopped, crashes>>

Stop == stopped' = TRUE /\ UNCHANGED <<diskVars, setVars, cleanVars, crashes>>

-----------------------------------------------------------------------------
(* The cleanup goroutine.                                                   *)

\* The ticker fires: the directory is read.
CleanScan ==
  /\ cleaner = "wait"
  /\ entries' = {n \in Names : files[n].exists} \cup (IF temps = {} THEN {} ELSE {Leftover})
  /\ cleaner' = "visit"
  /\ UNCHANGED <<diskVars, setVars, doomed, stopped, crashes>>

ExpiredEntry(e) ==
  IF e = Leftover THEN \E t \in temps : Expired(t) ELSE files[e].exists /\ Expired(files[e].age)

\* Mutant: temporary files are passed over.
CleanVisitArchives ==
  /\ cleaner = "visit" /\ entries # {}
  /\ \E e \in entries :
       /\ entries' = entries \ {e}
       /\ IF e # Leftover /\ ExpiredEntry(e)
          THEN cleaner' = "remove" /\ doomed' = e ELSE UNCHANGED <<cleaner, doomed>>
  /\ UNCHANGED <<diskVars, setVars, stopped, crashes>>

\* One entry's information is read, without the lock.
CleanVisit ==
  /\ cleaner = "visit" /\ entries # {}
  /\ \E e \in entries :
       /\ entries' = entries \ {e}
       /\ IF ExpiredEntry(e) THEN cleaner' = "remove" /\ doomed' = e ELSE UNCHANGED <<cleaner, doomed>>
  /\ UNCHANGED <<diskVars, setVars, stopped, crashes>>

\* Under the lock the file is removed by its name, whatever it holds by now. The temporary
\* files count as one entry here: they only get older.
CleanRemove ==
  /\ cleaner = "remove" /\ lock = Nobody
  /\ IF doomed = Leftover
     THEN temps' = {t \in temps : ~Expired(t)} /\ UNCHANGED files
     ELSE files' = [files EXCEPT ![doomed] = Absent] /\ UNCHANGED temps
  /\ cleaner' = "visit" /\ doomed' = NoEntry
  /\ UNCHANGED <<setVars, entries, stopped, crashes>>

CleanDone ==
  /\ cleaner = "visit" /\ entries = {}
  /\ cleaner' = "wait"
  /\ UNCHANGED <<diskVars, setVars, entries, doomed, stopped, crashes>>

CleanEnds ==
  /\ cleaner = "wait" /\ stopped
  /\ cleaner' = "ended"
  /\ UNCHANGED <<diskVars, setVars, entries, doomed, stopped, crashes>>

\* The process dies and is started again on the same directory.
Crash ==
  /\ crashes < MaxCrashes /\ crashes' = crashes + 1
  /\ temps' = IF writing.exists THEN temps \cup {0} ELSE temps
  /\ lock' = Nobody /\ writing' = Absent
  /\ cleaner' = "wait" /\ entries' = {} /\ doomed' = NoEntry /\ stopped' = FALSE
  /\ UNCHANGED files

Clean == CleanScan \/ CleanVisit \/ CleanRemove \/ CleanDone \/ CleanEnds
=============================================================================
