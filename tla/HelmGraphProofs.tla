--------------------------- MODULE HelmGraphProofs ---------------------------
(* The Helm client with its discovery cache, and the dependency graph.         *)
EXTENDS HelmClient, DepGraph, FiniteSetTheorems, Arithmetic

(* More time for the provers: a long module keeps their results waiting.       *)
USE SMTT(20), ZenonT(20)

-----------------------------------------------------------------------------
(* The shared REST mapper, for any number of callers, kinds and charts.       *)

Caches == [filled : BOOLEAN, kinds : SUBSET Kinds]
HelmCalls == [pc : {"idle", "load", "render", "validate", "build", "failed"},
          op : {"Install", "Upgrade"}, chart : Charts \cup {NoChart},
          attempt : 1..2, todo : SUBSET Kinds, gap : BOOLEAN,
          result : {"none", "ok", "noMatch", "unretried", "load", "duplicate", "notFound"}]

\* What the caches hold covers the kinds: no miss is possible for them.
Covers(S) == (memory.filled => S \subseteq memory.kinds) /\ (delegate.filled => S \subseteq delegate.kinds)

\* An Install that will not be tried again.
Final(c) == call[c].op = "Install" /\ (call[c].attempt = 2 \/ ~cached)

\* While a call has seen no gap its kinds are served, and after the Reset of its
\* retry every cache that anybody fills covers them.
Seen(c) ==
  /\ call[c].todo \subseteq call[c].chart.kinds
  /\ call[c].pc # "idle" /\ ~call[c].gap => call[c].chart.kinds \subseteq served
  /\ call[c].pc # "idle" /\ ~call[c].gap /\ Final(c) /\ cached => Covers(call[c].chart.kinds)
  /\ call[c].pc = "failed" /\ Final(c) /\ call[c].result = "noMatch" => call[c].gap
  /\ call[c].pc = "idle" /\ call[c].op = "Install" /\ call[c].result = "noMatch" => call[c].gap

\* A kind that is cached and no longer served has an event on its way.
Announced ==
  cached /\ informer =>
    \/ memory.kinds \cup delegate.kinds \subseteq served
    \/ \E i \in DOMAIN events : events[i] \in {"add", "spec", "delete"}

ClientInv == TypeOK /\ Announced /\ \A c \in Callers : Seen(c)

-----------------------------------------------------------------------------
(* The types, in the form in which the steps below use them. *)
LEMMA Types ==
  TypeOK <=> /\ defined \subseteq Kinds /\ served \subseteq defined /\ changes \in 0..MaxChanges
             /\ events \in Seq({"add", "spec", "status", "delete"})
             /\ informer \in BOOLEAN /\ cached \in BOOLEAN
             /\ memory \in Caches /\ delegate \in Caches /\ call \in [Callers -> HelmCalls]
BY DEF TypeOK, Caches, HelmCalls

(* A new client has filled no cache and begun no call. *)
LEMMA ClientInvInit == Init => ClientInv
<1> SUFFICES ASSUME Init PROVE ClientInv
  OBVIOUS
<1>1. memory \in Caches /\ delegate \in Caches /\ memory.kinds = {} /\ delegate.kinds = {}
  BY DEF Init, InitClient, Unfilled, Caches
<1>2. call \in [Callers -> HelmCalls]
  BY DEF Init, Idle, HelmCalls
<1>3. TypeOK
  BY <1>1, <1>2, Types, ClientAssumption DEF Init, InitClient
<1>4. Announced
  BY <1>1 DEF Announced
<1>5. \A c \in Callers : Seen(c)
  BY DEF Init, Idle, Seen
<1> QED
  BY <1>3, <1>4, <1>5 DEF ClientInv

(* The API server changes: a call whose kinds are affected has seen a gap, and *)
(* a withdrawal is announced.                                                  *)
LEMMA ServerKeeps ==
  ASSUME ClientInv, NEW k \in Kinds, Define(k) \/ Establish(k) \/ Withdraw(k) PROVE ClientInv'
<1>0. /\ defined \subseteq Kinds /\ served \subseteq defined /\ changes \in 0..MaxChanges
      /\ events \in Seq({"add", "spec", "status", "delete"})
      /\ informer \in BOOLEAN /\ cached \in BOOLEAN
      /\ memory \in Caches /\ delegate \in Caches /\ call \in [Callers -> HelmCalls]
  BY Types DEF ClientInv
<1>1. PICK event \in {"add", "spec", "status", "delete"} :
        /\ Changed(event)
        /\ served \subseteq served' \/ event \in {"spec", "delete"}
  BY <1>0 DEF Define, Establish, Withdraw
<1>2. defined' \subseteq Kinds /\ served' \subseteq defined'
  BY <1>0 DEF Define, Establish, Withdraw
<1>3. /\ changes' \in 0..MaxChanges
      /\ events' = (IF informer THEN Append(events, event) ELSE events)
      /\ call' = Witnessed
      /\ UNCHANGED <<informer, cached, memory, delegate>>
  BY <1>0, <1>1, ClientAssumption DEF Changed, mapperVars
<1>4. events' \in Seq({"add", "spec", "status", "delete"})
  BY <1>0, <1>3
<1>5. ASSUME NEW c \in Callers
      PROVE  /\ call'[c] \in HelmCalls
             /\ call'[c].pc = call[c].pc /\ call'[c].op = call[c].op /\ call'[c].chart = call[c].chart
             /\ call'[c].attempt = call[c].attempt /\ call'[c].todo = call[c].todo
             /\ call'[c].result = call[c].result
             /\ call[c].gap => call'[c].gap
             /\ call[c].pc # "idle" /\ ~call'[c].gap => ~call[c].gap /\ call[c].chart.kinds \subseteq served'
  <2>1. call[c] \in HelmCalls
    BY <1>0
  <2>2. CASE call[c].pc = "idle"
    BY <1>3, <2>1, <2>2 DEF Witnessed
  <2>3. CASE call[c].pc # "idle"
    <3>1. call'[c] = [call[c] EXCEPT !.gap = call[c].gap \/ ~(call[c].chart.kinds \subseteq served')]
      BY <1>3, <2>3 DEF Witnessed
    <3> QED
      BY Zenon, <2>1, <3>1 DEF HelmCalls
  <2> QED
    BY <2>2, <2>3
<1>6. call' \in [Callers -> HelmCalls]
  BY <1>3, <1>5 DEF Witnessed
<1>7. TypeOK'
  BY <1>0, <1>2, <1>3, <1>4, <1>6, Types DEF TypeOK, Caches, HelmCalls
<1>8. Announced'
  <2> SUFFICES ASSUME cached, informer
      PROVE  \/ memory.kinds \cup delegate.kinds \subseteq served'
             \/ \E i \in DOMAIN events' : events'[i] \in {"add", "spec", "delete"}
    BY <1>3 DEF Announced
  <2>1. events' = Append(events, event)
    BY <1>3
  <2>2. CASE event \in {"spec", "delete"}
    <3>1. Len(events) + 1 \in DOMAIN events' /\ events'[Len(events) + 1] = event
      BY <1>0, <2>1
    <3> QED
      BY <2>2, <3>1
  <2>3. CASE served \subseteq served'
    <3>1. CASE \E i \in DOMAIN events : events[i] \in {"add", "spec", "delete"}
      BY <1>0, <2>1, <3>1
    <3>2. CASE memory.kinds \cup delegate.kinds \subseteq served
      BY <2>3, <3>2
    <3> QED
      BY <3>1, <3>2 DEF ClientInv, Announced
  <2> QED
    BY <1>1, <2>2, <2>3
<1>9. ASSUME NEW c \in Callers PROVE Seen(c)'
  BY <1>3, <1>5 DEF ClientInv, Seen, Final, Covers
<1> QED
  BY <1>7, <1>8, <1>9 DEF ClientInv

(* The informer: after an event that matters both caches are empty. *)
LEMMA InformerKeeps == ASSUME ClientInv, Deliver \/ Close PROVE ClientInv'
<1>0. /\ events \in Seq({"add", "spec", "status", "delete"}) /\ cached \in BOOLEAN
      /\ memory \in Caches /\ delegate \in Caches
  BY Types DEF ClientInv
<1>1. CASE Close
  <2>1. /\ informer' = FALSE /\ events' = <<>>
        /\ UNCHANGED <<defined, served, changes, cached, memory, delegate, call>>
    BY <1>1 DEF Close, serverVars, mapperVars
  <2>2. <<>> \in Seq({"add", "spec", "status", "delete"})
    OBVIOUS
  <2>3. TypeOK' /\ Announced'
    BY Zenon, <2>1, <2>2 DEF ClientInv, TypeOK, Announced
  <2> QED
    BY <2>1, <2>3 DEF ClientInv, Seen, Final, Covers
<1>2. CASE Deliver
  <2>1. /\ events # <<>> /\ events' = Tail(events) /\ Handled(Head(events))
        /\ UNCHANGED <<defined, served, changes, informer, cached, call>>
    BY <1>2 DEF Deliver, serverVars
  <2>2. events' \in Seq({"add", "spec", "status", "delete"})
    BY <1>0, <2>1
  <2>3. CASE Head(events) \in {"add", "spec", "delete"}
    <3>1. memory' = Unfilled /\ delegate' = Unfilled
      BY <2>1, <2>3 DEF Handled, Reset
    <3>2. /\ memory' \in Caches /\ delegate' \in Caches /\ memory'.kinds = {} /\ delegate'.kinds = {}
          /\ memory'.filled = FALSE /\ delegate'.filled = FALSE
      BY <3>1 DEF Unfilled, Caches
    <3>3. TypeOK' /\ Announced'
      BY <2>1, <2>2, <3>2 DEF ClientInv, TypeOK, Announced, Caches
    <3> QED
      BY <2>1, <3>2, <3>3 DEF ClientInv, Seen, Final, Covers
  <2>4. CASE Head(events) \notin {"add", "spec", "delete"}
    <3>1. UNCHANGED <<memory, delegate>>
      BY <2>1, <2>4 DEF Handled, mapperVars
    <3>2. ASSUME NEW i \in DOMAIN events, events[i] \in {"add", "spec", "delete"}
          PROVE  i - 1 \in DOMAIN events' /\ events'[i - 1] = events[i]
      <4>1. i \in 1..Len(events) /\ i # 1
        BY <1>0, <2>1, <2>4, <3>2
      <4> QED
        BY <1>0, <2>1, <4>1
    <3>3. TypeOK' /\ Announced'
      BY Zenon, <2>1, <2>2, <3>1, <3>2 DEF ClientInv, TypeOK, Announced
    <3> QED
      BY <2>1, <3>1, <3>3 DEF ClientInv, Seen, Final, Covers
  <2> QED
    BY <2>3, <2>4
<1> QED
  BY <1>1, <1>2

(* A step of one call keeps what holds of the others, if what it does to the  *)
(* caches still covers kinds that are served.                                 *)
LEMMA CallKeeps ==
  ASSUME ClientInv, NEW c \in Callers, call' \in [Callers -> HelmCalls],
         \A q \in Callers \ {c} : call'[q] = call[q],
         UNCHANGED <<serverVars, events, informer, cached>>,
         memory' \in Caches, delegate' \in Caches,
         memory.kinds \cup delegate.kinds \subseteq served => memory'.kinds \cup delegate'.kinds \subseteq served,
         \A S \in SUBSET served : Covers(S) => Covers(S)',
         Seen(c)'
  PROVE  ClientInv'
<1>1. UNCHANGED <<defined, served, changes, events, informer, cached>>
  BY DEF serverVars
<1>2. TypeOK'
  BY <1>1 DEF ClientInv, TypeOK, Caches, HelmCalls
<1>3. Announced'
  BY <1>1 DEF ClientInv, Announced
<1>4. ASSUME NEW q \in Callers \ {c} PROVE Seen(q)'
  <2>1. Seen(q) /\ call'[q] = call[q] /\ (Final(q)' <=> Final(q))
    BY <1>1, <1>4 DEF ClientInv, Final
  <2>2. call[q].pc # "idle" /\ ~call[q].gap /\ Final(q) /\ cached => Covers(call[q].chart.kinds)'
    BY <1>1, <2>1 DEF Seen, Covers
  <2> QED
    BY <1>1, <2>1, <2>2 DEF Seen, Covers
<1> QED
  BY <1>2, <1>3, <1>4 DEF ClientInv

(* The deferred mapper fills its caches from what is served or from each      *)
(* other: they go on covering what they covered, and for that a mapping hits. *)
LEMMA MappingKeeps ==
  ASSUME ClientInv, NEW k \in Kinds, Mapping(k)
  PROVE  /\ memory' \in Caches /\ delegate' \in Caches
         /\ memory.kinds \cup delegate.kinds \subseteq served
              => memory'.kinds \cup delegate'.kinds \subseteq served
         /\ served' = served => \A S \in SUBSET served : Covers(S) => Covers(S)' /\ (k \in S => Hit(k))
<1>1. served \subseteq Kinds /\ memory \in Caches /\ delegate \in Caches
  BY Types DEF ClientInv
<1>2. /\ Filled(served) \in Caches /\ Filled(served).kinds = served /\ Filled(served).filled = TRUE
  BY <1>1 DEF Filled, Caches
<1>3. /\ Read \in Caches /\ Read.kinds = (IF memory.filled THEN memory.kinds ELSE served)
      /\ Read.filled = TRUE
  BY <1>1, <1>2 DEF Read, Caches
<1>4. /\ Built \in Caches /\ Built.kinds = (IF delegate.filled THEN delegate.kinds ELSE Read.kinds)
      /\ Built.filled = TRUE
  BY <1>1, <1>3 DEF Built, Filled, Caches
<1>5. /\ memory' = IF Refresh(k) THEN Filled(served) ELSE IF delegate.filled THEN memory ELSE Read
      /\ delegate' = IF Refresh(k) THEN Filled(served) ELSE Built
  BY DEF Mapping
<1>6. memory' \in Caches /\ delegate' \in Caches
  BY <1>1, <1>2, <1>3, <1>4, <1>5
<1>7. memory.kinds \cup delegate.kinds \subseteq served => memory'.kinds \cup delegate'.kinds \subseteq served
  BY <1>2, <1>3, <1>4, <1>5
<1>8. ASSUME NEW S \in SUBSET served, Covers(S) PROVE Covers(S)' /\ (k \in S => Hit(k))
  <2>1. S \subseteq Read.kinds /\ S \subseteq Built.kinds
    BY <1>3, <1>4, <1>8 DEF Covers
  <2>2. k \in S => Hit(k)
    BY <2>1 DEF Hit
  <2>3. Covers(S)'
    BY <1>2, <1>5, <1>8, <2>1 DEF Covers
  <2> QED
    BY <2>2, <2>3
<1> QED
  BY <1>6, <1>7, <1>8

(* The steps of a call that touch no cache. *)
LEMMA QuietStepKeeps ==
  ASSUME ClientInv, NEW c \in Callers, UNCHANGED <<serverVars, events, informer, cached, mapperVars>>,
         call' \in [Callers -> HelmCalls], \A q \in Callers \ {c} : call'[q] = call[q], Seen(c)'
  PROVE  ClientInv'
<1>1. memory' = memory /\ delegate' = delegate /\ memory \in Caches /\ delegate \in Caches
  BY Types DEF ClientInv, mapperVars
<1>2. \A S \in SUBSET served : Covers(S) => Covers(S)'
  BY <1>1 DEF Covers
<1> QED
  BY <1>1, <1>2, CallKeeps

(* A call begins, is loaded, passes the duplicate check, is applied or        *)
(* returns.                                                                   *)
LEMMA BeginKeeps ==
  ASSUME ClientInv, NEW c \in Callers, NEW h \in Charts, Install(c, h) \/ Upgrade(c, h) PROVE ClientInv'
<1>1. PICK op \in {"Install", "Upgrade"} : Begin(c, op, h)
  BY DEF Install, Upgrade
<1>2. call \in [Callers -> HelmCalls]
  BY Types DEF ClientInv
<1>3. h.kinds \subseteq Kinds
  BY ClientAssumption
<1> DEFINE lacks == ~(h.kinds \subseteq served)
<1>0. PICK gap \in BOOLEAN : gap = lacks
  BY Zenon
<1> DEFINE n == [Idle EXCEPT !.pc = "load", !.op = op, !.chart = h, !.gap = lacks]
<1>4. call' = [call EXCEPT ![c] = n] /\ UNCHANGED <<serverVars, events, informer, cached, mapperVars>>
  BY <1>1 DEF Begin
<1>5. n \in HelmCalls /\ n.attempt = 1 /\ n.pc = "load" /\ n.todo = {} /\ n.chart = h /\ n.gap = gap
  <2>1. Idle \in HelmCalls /\ Idle.attempt = 1 /\ Idle.todo = {}
    BY DEF Idle, HelmCalls
  <2>2. lacks \in BOOLEAN /\ lacks = gap
    BY <1>0
  <2> HIDE DEF lacks
  <2>3. n \in HelmCalls
    BY ZenonT(60), <2>1, <2>2 DEF HelmCalls
  <2> QED
    BY Zenon, <2>1, <2>2 DEF HelmCalls
<1> HIDE DEF n
<1>6. /\ call' \in [Callers -> HelmCalls] /\ call'[c] = n
      /\ \A q \in Callers \ {c} : call'[q] = call[q]
  BY <1>2, <1>4, <1>5
<1>7. Seen(c)'
  <2>1. cached' = cached /\ served' = served /\ call'[c].attempt = 1 /\ call'[c].pc = "load"
        /\ call'[c].todo = {} /\ call'[c].chart = h /\ call'[c].gap = gap
    BY <1>4, <1>5, <1>6 DEF serverVars
  <2>2. ~gap => h.kinds \subseteq served
    BY Zenon, <1>0
  <2> QED
    BY <2>1, <2>2 DEF Seen, Final
<1> QED
  BY <1>4, <1>6, <1>7, QuietStepKeeps

(* An error ends an attempt and leaves the rest of the call as it was. *)
LEMMA FailedOne ==
  ASSUME ClientInv, NEW c \in Callers,
         NEW err \in {"noMatch", "unretried", "load", "duplicate", "notFound"}, Failed(c, err)
  PROVE  /\ call' \in [Callers -> HelmCalls] /\ \A q \in Callers \ {c} : call'[q] = call[q]
         /\ call'[c].pc = "failed" /\ call'[c].todo = {} /\ call'[c].result = err
         /\ call'[c].op = call[c].op /\ call'[c].chart = call[c].chart
         /\ call'[c].attempt = call[c].attempt /\ call'[c].gap = call[c].gap
<1>1. call \in [Callers -> HelmCalls]
  BY Types DEF ClientInv
<1>2. call' = [call EXCEPT ![c].pc = "failed", ![c].todo = {}, ![c].result = err]
  BY DEF Failed
<1> DEFINE n == [call[c] EXCEPT !.pc = "failed", !.todo = {}, !.result = err]
<1>3. call' = [call EXCEPT ![c] = n]
  BY Zenon, <1>1, <1>2
<1>4. /\ n \in HelmCalls /\ n.pc = "failed" /\ n.todo = {} /\ n.result = err
      /\ n.op = call[c].op /\ n.chart = call[c].chart /\ n.attempt = call[c].attempt /\ n.gap = call[c].gap
  <2>1. call[c] \in HelmCalls /\ err \in {"none", "ok", "noMatch", "unretried", "load", "duplicate", "notFound"}
    BY <1>1
  <2>2. n \in HelmCalls
    BY ZenonT(60), <2>1 DEF HelmCalls
  <2>3. n.pc = "failed" /\ n.todo = {} /\ n.result = err
    BY <2>1 DEF HelmCalls
  <2>4. n.op = call[c].op /\ n.chart = call[c].chart /\ n.attempt = call[c].attempt /\ n.gap = call[c].gap
    BY <2>1 DEF HelmCalls
  <2> QED
    BY <2>2, <2>3, <2>4
<1> HIDE DEF n
<1> QED
  BY <1>1, <1>3, <1>4

(* An error other than a miss says nothing of the caches. *)
LEMMA FailedKeeps ==
  ASSUME ClientInv, NEW c \in Callers, call[c].pc # "idle",
         NEW err \in {"noMatch", "unretried", "load", "duplicate", "notFound"}, Failed(c, err),
         err = "noMatch" /\ Final(c) => call[c].gap,
         UNCHANGED <<serverVars, events, informer, cached>>,
         memory' \in Caches, delegate' \in Caches,
         memory.kinds \cup delegate.kinds \subseteq served => memory'.kinds \cup delegate'.kinds \subseteq served,
         \A S \in SUBSET served : Covers(S) => Covers(S)'
  PROVE  ClientInv'
<1>1. /\ call' \in [Callers -> HelmCalls] /\ \A q \in Callers \ {c} : call'[q] = call[q]
      /\ call'[c].pc = "failed" /\ call'[c].todo = {} /\ call'[c].result = err
      /\ call'[c].op = call[c].op /\ call'[c].chart = call[c].chart
      /\ call'[c].attempt = call[c].attempt /\ call'[c].gap = call[c].gap
  BY FailedOne
<1>2. Seen(c) /\ served' = served /\ cached' = cached
  BY SMTT(60) DEF ClientInv, serverVars
<1>3. ~call[c].gap /\ Final(c) /\ cached => Covers(call[c].chart.kinds)'
  BY Zenon, <1>1, <1>2 DEF Seen, Covers
<1>4. Seen(c)'
  BY <1>1, <1>2, <1>3 DEF Seen, Final, Covers
<1> QED
  BY <1>1, <1>4, CallKeeps

(* Loading, the duplicate check, applying and returning touch no cache. *)
LEMMA QuietKeeps ==
  ASSUME ClientInv, NEW c \in Callers, Load(c) \/ Validated(c) \/ Apply(c) \/ ReturnError(c) PROVE ClientInv'
<1>0. /\ call \in [Callers -> HelmCalls] /\ Seen(c) /\ cached \in BOOLEAN
      /\ memory \in Caches /\ delegate \in Caches
  BY Types DEF ClientInv
<1>1. /\ UNCHANGED <<serverVars, events, informer, cached, mapperVars>>
      /\ call[c].pc # "idle" /\ cached' = cached /\ served' = served
      /\ memory' = memory /\ delegate' = delegate
  BY SMTT(60) DEF Load, Validated, Apply, ReturnError, serverVars, mapperVars
<1>2. ASSUME NEW err \in {"unretried", "load", "duplicate", "notFound"}, Failed(c, err) PROVE ClientInv'
  <2>1. \A S \in SUBSET served : Covers(S) => Covers(S)'
    BY <1>1 DEF Covers
  <2> QED
    BY <1>0, <1>1, <1>2, <2>1, FailedKeeps
<1>3. ASSUME NEW pc \in {"render", "build"}, NEW todo \in SUBSET Kinds, todo \subseteq call[c].chart.kinds,
             call' = [call EXCEPT ![c].pc = pc, ![c].todo = todo]
      PROVE  ClientInv'
  <2>1. /\ call' \in [Callers -> HelmCalls] /\ \A q \in Callers \ {c} : call'[q] = call[q]
        /\ call'[c].pc = pc /\ call'[c].todo = todo /\ call'[c].op = call[c].op
        /\ call'[c].chart = call[c].chart /\ call'[c].attempt = call[c].attempt /\ call'[c].gap = call[c].gap
    <3> DEFINE n == [call[c] EXCEPT !.pc = pc, !.todo = todo]
    <3>1. call' = [call EXCEPT ![c] = n]
      BY Zenon, <1>0, <1>3
    <3>2. /\ n \in HelmCalls /\ n.pc = pc /\ n.todo = todo /\ n.op = call[c].op /\ n.chart = call[c].chart
          /\ n.attempt = call[c].attempt /\ n.gap = call[c].gap
      BY ZenonT(60), <1>0, <1>3 DEF HelmCalls
    <3> HIDE DEF n
    <3> QED
      BY <1>0, <3>1, <3>2
  <2>2. Seen(c)'
    BY <1>0, <1>1, <1>3, <2>1 DEF Seen, Final, Covers
  <2> QED
    BY <1>1, <2>1, <2>2, QuietStepKeeps
<1>4. CASE Load(c)
  <2>1. CASE call' = [call EXCEPT ![c].pc = "render"]
    <3>1. call' = [call EXCEPT ![c].pc = "render", ![c].todo = call[c].todo]
      BY ZenonT(60), <1>0, <2>1 DEF HelmCalls
    <3> QED
      BY Zenon, <1>0, <1>3, <3>1 DEF Seen, HelmCalls
  <2> QED
    BY <1>2, <1>4, <2>1 DEF Load
<1>5. CASE Validated(c)
  <2>1. call[c].chart.kinds \in SUBSET Kinds
    BY <1>0, ClientAssumption DEF HelmCalls, NoChart
  <2> QED
    BY <1>2, <1>3, <1>5, <2>1 DEF Validated
<1>6. ASSUME NEW result \in {"ok", "noMatch", "unretried", "load", "duplicate", "notFound", "none"},
             result = "noMatch" /\ call[c].op = "Install" => call[c].gap, Return(c, result)
      PROVE  ClientInv'
  <2> DEFINE gap == call[c].gap /\ result = "noMatch"
             n == [Idle EXCEPT !.op = call[c].op, !.result = result, !.gap = gap]
  <2>1. Idle \in HelmCalls /\ Idle.pc = "idle" /\ Idle.todo = {}
    BY SMTT(60) DEF Idle, HelmCalls
  <2>2. gap \in BOOLEAN /\ (result = "noMatch" /\ call[c].op = "Install" => gap)
    BY <1>6
  <2>3. call' = [call EXCEPT ![c] = n]
    BY <1>6 DEF Return
  <2> HIDE DEF gap
  <2>4. n \in HelmCalls /\ n.pc = "idle" /\ n.todo = {} /\ n.op = call[c].op /\ n.result = result /\ n.gap = gap
    BY ZenonT(60), <1>0, <2>1, <2>2 DEF HelmCalls
  <2> HIDE DEF n
  <2>5. call' \in [Callers -> HelmCalls] /\ call'[c] = n /\ \A q \in Callers \ {c} : call'[q] = call[q]
    BY <1>0, <2>3, <2>4
  <2>6. Seen(c)'
    BY <2>2, <2>4, <2>5 DEF Seen
  <2> QED
    BY <1>1, <2>5, <2>6, QuietStepKeeps
<1>7. CASE Apply(c)
  BY <1>2, <1>6, <1>7 DEF Apply
<1>8. CASE ReturnError(c)
  <2>1. call[c].result = "noMatch" /\ call[c].op = "Install" => call[c].gap
    BY <1>0, <1>8 DEF ReturnError, Retryable, isRESTMappingMiss, Seen, Final, HelmCalls
  <2>2. call[c].result \in {"ok", "noMatch", "unretried", "load", "duplicate", "notFound", "none"}
    BY <1>0 DEF HelmCalls
  <2> QED
    BY <1>6, <1>8, <2>1, <2>2 DEF ReturnError
<1> QED
  BY <1>4, <1>5, <1>7, <1>8

(* Render reads discovery again: what is served covers what is served. *)
LEMMA RenderKeeps == ASSUME ClientInv, NEW c \in Callers, Render(c) PROVE ClientInv'
<1>0. /\ call \in [Callers -> HelmCalls] /\ Seen(c) /\ cached \in BOOLEAN
      /\ memory \in Caches /\ delegate \in Caches /\ served \subseteq Kinds
  BY Types DEF ClientInv
<1>1. /\ call[c].pc = "render" /\ UNCHANGED <<serverVars, events, informer, cached>>
      /\ call' = [call EXCEPT ![c].pc = "validate", ![c].todo = call[c].chart.kinds]
      /\ served' = served /\ cached' = cached /\ delegate' = delegate
      /\ memory' = memory \/ memory' = Filled(served)
  BY DEF Render, serverVars, mapperVars
<1>2. Filled(served) \in Caches /\ Filled(served).kinds = served
  BY <1>0 DEF Filled, Caches
<1>3. /\ memory' \in Caches /\ delegate' \in Caches
      /\ memory.kinds \cup delegate.kinds \subseteq served => memory'.kinds \cup delegate'.kinds \subseteq served
  BY <1>0, <1>1, <1>2
<1>4. \A S \in SUBSET served : Covers(S) => Covers(S)'
  BY <1>1, <1>2 DEF Covers
<1> DEFINE n == [call[c] EXCEPT !.pc = "validate", !.todo = call[c].chart.kinds]
<1>5. call' = [call EXCEPT ![c] = n]
  BY Zenon, <1>0, <1>1
<1>6. /\ n \in HelmCalls /\ n.pc = "validate" /\ n.todo = call[c].chart.kinds /\ n.op = call[c].op
      /\ n.chart = call[c].chart /\ n.attempt = call[c].attempt /\ n.gap = call[c].gap
  <2>1. call[c].chart.kinds \in SUBSET Kinds
    BY <1>0, ClientAssumption DEF HelmCalls, NoChart
  <2> QED
    BY ZenonT(60), <1>0, <2>1 DEF HelmCalls
<1> HIDE DEF n
<1>7. /\ call' \in [Callers -> HelmCalls] /\ call'[c] = n
      /\ \A q \in Callers \ {c} : call'[q] = call[q]
  BY <1>0, <1>5, <1>6
<1>8. ~call[c].gap /\ Final(c) /\ cached => Covers(call[c].chart.kinds)'
  BY <1>0, <1>1, <1>4, <1>6, <1>7 DEF Seen, Covers
<1>9. Seen(c)'
  BY <1>0, <1>1, <1>6, <1>7, <1>8 DEF Seen, Final, Covers
<1> QED
  BY <1>1, <1>3, <1>4, <1>7, <1>9, CallKeeps

(* One kind is mapped: an Install in its last attempt that misses it has seen *)
(* a gap.                                                                     *)
LEMMA MapKeeps == ASSUME ClientInv, NEW c \in Callers, Map(c) PROVE ClientInv'
<1>0. /\ call \in [Callers -> HelmCalls] /\ Seen(c) /\ cached \in BOOLEAN
      /\ memory \in Caches /\ delegate \in Caches
  BY Types DEF ClientInv
<1>1. PICK k \in call[c].todo :
        /\ IF cached THEN Mapping(k) ELSE UNCHANGED mapperVars
        /\ IF (IF cached THEN Hit(k) ELSE k \in served)
           THEN call' = [call EXCEPT ![c].todo = @ \ {k}]
           ELSE Failed(c, "noMatch")
  BY DEF Map
<1>2. /\ call[c].pc \in {"validate", "build"} /\ UNCHANGED <<serverVars, events, informer, cached>>
      /\ served' = served /\ cached' = cached
  BY DEF Map, serverVars
<1>3. k \in Kinds /\ k \in call[c].chart.kinds
  BY <1>0 DEF HelmCalls, Seen
<1>4. /\ memory' \in Caches /\ delegate' \in Caches
      /\ memory.kinds \cup delegate.kinds \subseteq served => memory'.kinds \cup delegate'.kinds \subseteq served
      /\ \A S \in SUBSET served : Covers(S) => Covers(S)' /\ (cached /\ k \in S => Hit(k))
  <2>1. CASE cached
    BY <1>1, <1>2, <1>3, <2>1, MappingKeeps
  <2>2. CASE ~cached
    <3>1. memory' = memory /\ delegate' = delegate
      BY <1>1, <2>2 DEF mapperVars
    <3> QED
      BY <1>0, <2>2, <3>1 DEF Covers
  <2> QED
    BY <2>1, <2>2
<1>5. CASE call' = [call EXCEPT ![c].todo = @ \ {k}]
  <2> DEFINE n == [call[c] EXCEPT !.todo = call[c].todo \ {k}]
  <2>1. call' = [call EXCEPT ![c] = n]
    BY <1>0, <1>5
  <2>2. /\ n \in HelmCalls /\ n.pc = call[c].pc /\ n.todo = call[c].todo \ {k} /\ n.op = call[c].op
        /\ n.chart = call[c].chart /\ n.attempt = call[c].attempt /\ n.gap = call[c].gap
    BY <1>0 DEF HelmCalls
  <2> HIDE DEF n
  <2>3. /\ call' \in [Callers -> HelmCalls] /\ call'[c] = n
        /\ \A q \in Callers \ {c} : call'[q] = call[q]
    BY Zenon, <1>0, <2>1, <2>2
  <2>4. ~call[c].gap /\ Final(c) /\ cached => Covers(call[c].chart.kinds)'
    BY Zenon, <1>0, <1>2, <1>4, <2>2, <2>3 DEF Seen, Covers
  <2>5. Seen(c)'
    <3>1. /\ call'[c].pc \notin {"failed", "idle"} /\ call'[c].chart = call[c].chart
          /\ call'[c].gap = call[c].gap /\ call'[c].todo \subseteq call[c].todo
          /\ Final(c)' <=> Final(c)
      BY <1>2, <2>2, <2>3 DEF Final
    <3>2. /\ call[c].pc # "idle" /\ call[c].todo \subseteq call[c].chart.kinds
          /\ ~call[c].gap => call[c].chart.kinds \subseteq served
      BY <1>0, <1>2, Zenon DEF Seen
    <3>3. call'[c].todo \subseteq call'[c].chart.kinds
      BY <3>1, <3>2
    <3>4. ~call'[c].gap => call'[c].chart.kinds \subseteq served'
      BY <1>2, <3>1, <3>2, Zenon
    <3>5. ~call'[c].gap /\ Final(c)' /\ cached' => Covers(call[c].chart.kinds)'
      BY <1>2, <2>4, <3>1
    <3> QED
      BY <3>1, <3>3, <3>4, <3>5, Zenon DEF Seen
  <2> QED
    BY <1>2, <1>4, <2>3, <2>5, CallKeeps
<1>6. CASE ~(IF cached THEN Hit(k) ELSE k \in served)
  <2>1. Failed(c, "noMatch")
    BY <1>1, <1>6
  <2>2. Final(c) => call[c].gap
    <3> SUFFICES ASSUME Final(c), ~call[c].gap PROVE FALSE
      BY <1>0 DEF HelmCalls
    <3>1. call[c].chart.kinds \in SUBSET served /\ (cached => Covers(call[c].chart.kinds))
      BY <1>0, <1>2 DEF Seen
    <3>2. CASE cached
      BY <1>3, <1>4, <1>6, <3>1, <3>2
    <3>3. CASE ~cached
      BY SMTT(60), <1>3, <1>6, <3>1, <3>3
    <3> QED
      BY <3>2, <3>3
  <2> QED
    BY <1>2, <1>4, <2>1, <2>2, FailedKeeps
<1> QED
  BY <1>1, <1>5, <1>6

(* The retry begins with empty caches. *)
LEMMA RetryKeeps == ASSUME ClientInv, NEW c \in Callers, Retry(c) PROVE ClientInv'
<1>0. call \in [Callers -> HelmCalls] /\ Seen(c) /\ memory \in Caches /\ delegate \in Caches
  BY Types DEF ClientInv
<1>1. /\ call[c].attempt = 1 /\ memory' = Unfilled /\ delegate' = Unfilled /\ Again(c)
      /\ UNCHANGED <<serverVars, events, informer, cached>> /\ served' = served /\ cached' = cached
  BY DEF Retry, Retryable, Reset, serverVars
<1>2. /\ memory' \in Caches /\ delegate' \in Caches /\ memory'.kinds = {} /\ delegate'.kinds = {}
      /\ memory'.filled = FALSE /\ delegate'.filled = FALSE
  BY <1>1 DEF Unfilled, Caches
<1>3. \A S : Covers(S)'
  BY <1>2 DEF Covers
<1> DEFINE lacks == ~(call[c].chart.kinds \subseteq served)
<1>4. call' = [call EXCEPT ![c].pc = "load", ![c].attempt = 2, ![c].result = "none", ![c].gap = lacks]
  BY <1>0, <1>1 DEF Again
<1>5. lacks \in BOOLEAN /\ (~lacks => call[c].chart.kinds \subseteq served)
  OBVIOUS
<1> HIDE DEF lacks
<1> DEFINE n == [call[c] EXCEPT !.pc = "load", !.attempt = 2, !.result = "none", !.gap = lacks]
<1>6. call' = [call EXCEPT ![c] = n]
  BY Zenon, <1>0, <1>4
<1>7. n \in HelmCalls
  <2> DEFINE m == [call[c] EXCEPT !.pc = "load", !.attempt = 2]
  <2>1. call[c] \in HelmCalls /\ 2 \in 1..2
    BY <1>0
  <2>2. m \in HelmCalls
    BY Zenon, <2>1 DEF HelmCalls
  <2>3. n = [m EXCEPT !.result = "none", !.gap = lacks]
    BY <2>1 DEF HelmCalls
  <2> HIDE DEF m, n
  <2> QED
    BY Zenon, <1>5, <2>2, <2>3 DEF HelmCalls
<1>8. n.pc = "load" /\ n.todo = call[c].todo /\ n.chart = call[c].chart /\ n.gap = lacks
  BY <1>0, <1>5 DEF HelmCalls
<1> HIDE DEF n
<1>9. /\ call' \in [Callers -> HelmCalls] /\ call'[c] = n
      /\ \A q \in Callers \ {c} : call'[q] = call[q]
  BY Zenon, <1>0, <1>6, <1>7
<1>10. Seen(c)'
  BY <1>0, <1>1, <1>2, <1>5, <1>8, <1>9 DEF Seen, Covers
<1> QED
  BY <1>1, <1>2, <1>3, <1>9, <1>10, CallKeeps

(* Every step of the client, the informer and the API server. *)
LEMMA ClientInvNext == ClientInv /\ [Next]_vars => ClientInv'
<1> SUFFICES ASSUME ClientInv, [Next]_vars PROVE ClientInv'
  OBVIOUS
<1>1. CASE \E k \in Kinds : Define(k) \/ Establish(k) \/ Withdraw(k)
  BY <1>1, ServerKeeps
<1>2. CASE Deliver \/ Close
  BY <1>2, InformerKeeps
<1>3. ASSUME NEW c \in Callers, Step(c) PROVE ClientInv'
  BY <1>3, QuietKeeps, RenderKeeps, MapKeeps, RetryKeeps DEF Step
<1>4. ASSUME NEW c \in Callers, NEW h \in Charts, Install(c, h) \/ Upgrade(c, h) PROVE ClientInv'
  BY Zenon, <1>4, BeginKeeps
<1>5. CASE UNCHANGED vars
  BY <1>5 DEF vars, serverVars, mapperVars, ClientInv, TypeOK, Announced, Seen, Final, Covers
<1> QED
  BY <1>1, <1>2, <1>3, <1>4, <1>5 DEF Next

-----------------------------------------------------------------------------
(* An Install that reports an unknown kind has met a real absence: the Reset  *)
(* before its retry (client.go:204-214) is enough, whatever other callers and *)
(* the informer do to the mapper they share.                                  *)
THEOREM MissesAreReal == Spec => []MissIsReal
<1>1. ClientInv => MissIsReal
  BY DEF ClientInv, MissIsReal, Seen
<1> QED
  BY ClientInvInit, ClientInvNext, <1>1, PTL DEF Spec

(* Once the informer has handled its events the shared mapper resolves no     *)
(* kind that is gone (crdinformer.go:64-81).                                  *)
THEOREM NothingGoneIsMapped == Spec => []GoneIsUnmapped
<1>1. ClientInv => GoneIsUnmapped
  BY DEF ClientInv, GoneIsUnmapped, Announced
<1> QED
  BY ClientInvInit, ClientInvNext, <1>1, PTL DEF Spec

-----------------------------------------------------------------------------
(* The dependency graph stays free of cycles, its two maps stay each other's inverse, and the *)
(* layers of the sort are a topological order, for every set of nodes.                        *)

\* An edge that is added is the only change (addNodeToNodeset).
LEMMA AddAt ==
  ASSUME NEW dm, NEW key, NEW node, NEW k
  PROVE  At(addNodeToNodeset(dm, key, node), k) =
           IF k = key THEN At(dm, key) \cup {node} ELSE At(dm, k)
BY DEF At, addNodeToNodeset

\* Adding an edge between nodes to a depmap gives a depmap.
LEMMA AddIsDepmap ==
  ASSUME NEW dm, IsDepmap(dm), NEW key \in Nodes, NEW node \in Nodes
  PROVE  IsDepmap(addNodeToNodeset(dm, key, node))
<1>1. PICK K \in SUBSET Nodes : dm \in [K -> SUBSET Nodes]
  BY DEF IsDepmap
<1>2. K \cup {key} \in SUBSET Nodes
  OBVIOUS
<1>3. addNodeToNodeset(dm, key, node) \in [K \cup {key} -> SUBSET Nodes]
  BY <1>1 DEF addNodeToNodeset, At
<1> QED
  BY <1>2, <1>3 DEF IsDepmap

\* Edges lead to nodes.
LEMMA AtIsNodes ==
  ASSUME NEW dm, IsDepmap(dm), NEW k
  PROVE  At(dm, k) \in SUBSET Nodes
BY DEF IsDepmap, At

\* What can be reached includes the direct edges and is closed.
LEMMA ReachableClosed ==
  ASSUME NEW dm, IsDepmap(dm), NEW r
  PROVE  /\ Reachable(dm, r) \in SUBSET Nodes
         /\ At(dm, r) \subseteq Reachable(dm, r)
         /\ Closed(dm, Reachable(dm, r))
<1>1. Reachable(dm, r) \in SUBSET Nodes
  BY DEF Reachable
<1>2. At(dm, r) \subseteq Reachable(dm, r)
  BY AtIsNodes DEF Reachable
<1>3. ASSUME NEW n \in Reachable(dm, r), NEW m \in At(dm, n)
      PROVE  m \in Reachable(dm, r)
  <2>1. m \in Nodes
    BY AtIsNodes
  <2>2. ASSUME NEW S \in SUBSET Nodes, At(dm, r) \subseteq S, Closed(dm, S)
        PROVE  m \in S
    BY <2>2 DEF Reachable, Closed
  <2> QED
    BY <2>1, <2>2 DEF Reachable
<1> QED
  BY <1>1, <1>2, <1>3 DEF Closed

\* Nothing else can be reached.
LEMMA ReachableLeast ==
  ASSUME NEW dm, NEW r, NEW S \in SUBSET Nodes, At(dm, r) \subseteq S, Closed(dm, S)
  PROVE  Reachable(dm, r) \subseteq S
BY DEF Reachable

\* Reachability is transitive.
LEMMA ReachableTransitive ==
  ASSUME NEW dm, IsDepmap(dm), NEW p, NEW n \in Reachable(dm, p)
  PROVE  Reachable(dm, n) \subseteq Reachable(dm, p)
<1>1. At(dm, n) \subseteq Reachable(dm, p)
  BY ReachableClosed DEF Closed
<1> QED
  BY <1>1, ReachableClosed, ReachableLeast

\* A new edge from child to parent closes no cycle when parent does not reach child.
LEMMA NewEdgeClosesNoCycle ==
  ASSUME NEW dm, IsDepmap(dm), NEW child \in Nodes, NEW parent \in Nodes,
         child # parent, child \notin Reachable(dm, parent),
         NEW n \in Nodes, n \notin Reachable(dm, n)
  PROVE  n \notin Reachable(addNodeToNodeset(dm, child, parent), n)
<1> DEFINE dm2 == addNodeToNodeset(dm, child, parent)
           R(r) == Reachable(dm, r)
           Behind == IF child \in R(n) \cup {n} THEN R(parent) \cup {parent} ELSE {}
           S == R(n) \cup Behind
<1>1. \A r : R(r) \in SUBSET Nodes /\ At(dm, r) \subseteq R(r) /\ Closed(dm, R(r))
  BY ReachableClosed
<1>2. \A k : At(dm2, k) = IF k = child THEN At(dm, child) \cup {parent} ELSE At(dm, k)
  BY AddAt
<1>3. S \in SUBSET Nodes
  BY <1>1
<1>4. At(dm2, n) \subseteq S
  BY <1>1, <1>2
<1>5. Closed(dm2, S)
  <2> SUFFICES ASSUME NEW k \in S PROVE At(dm2, k) \subseteq S
    BY DEF Closed
  <2>1. At(dm, k) \subseteq S
    BY <1>1 DEF Closed
  <2>2. CASE k = child
    <3>1. child \in R(n)
      BY <2>2
    <3> QED
      BY <3>1, <2>1, <2>2, <1>2
  <2> QED
    BY <2>1, <2>2, <1>2
<1>6. n \notin S
  <2>1. CASE child \notin R(n) \cup {n}
    BY <2>1
  <2>2. CASE child \in R(n) \cup {n}
    <3>1. n # parent
      BY <2>2
    <3>2. n \notin R(parent)
      <4> SUFFICES ASSUME n \in R(parent) PROVE FALSE
        OBVIOUS
      <4>1. R(n) \subseteq R(parent)
        BY ReachableTransitive
      <4> QED
        BY <4>1, <2>2
    <3> QED
      BY <3>1, <3>2
  <2> QED
    BY <2>1, <2>2
<1> QED
  BY <1>3, <1>4, <1>5, <1>6, ReachableLeast
-----------------------------------------------------------------------------
(* Removing a node.                                                                           *)

\* A map without a key, or with smaller sets, is still a depmap.
LEMMA ShrinkIsDepmap ==
  ASSUME NEW dm, IsDepmap(dm), NEW keys, NEW node
  PROVE  /\ IsDepmap(Delete(dm, node))
         /\ IsDepmap(removeFromDepmap(dm, keys, node))
<1>1. PICK K \in SUBSET Nodes : dm \in [K -> SUBSET Nodes]
  BY DEF IsDepmap
<1> DEFINE K2 == {k \in K : ~(k \in keys /\ IsSingle(dm[k]))}
<1>2. K \ {node} \in SUBSET Nodes /\ Delete(dm, node) \in [K \ {node} -> SUBSET Nodes]
  BY <1>1 DEF Delete
<1>3. K2 \in SUBSET Nodes /\ removeFromDepmap(dm, keys, node) \in [K2 -> SUBSET Nodes]
  BY <1>1 DEF removeFromDepmap
<1> QED
  BY <1>2, <1>3 DEF IsDepmap

\* When the entries of keys hold the node, removeFromDepmap takes out the node and no other
\* element, and leaves no empty entry.
LEMMA RemoveFromAt ==
  ASSUME NEW dm, NEW keys, NEW node,
         \A k \in keys : node \in At(dm, k),
         \A k \in DOMAIN dm : dm[k] # {}
  PROVE  /\ \A k : At(removeFromDepmap(dm, keys, node), k) =
                     IF k \in keys THEN At(dm, k) \ {node} ELSE At(dm, k)
         /\ \A k \in DOMAIN removeFromDepmap(dm, keys, node) :
              removeFromDepmap(dm, keys, node)[k] # {} /\ k \in DOMAIN dm
<1> DEFINE D == {k \in DOMAIN dm : ~(k \in keys /\ IsSingle(dm[k]))}
           new == removeFromDepmap(dm, keys, node)
<1>1. DOMAIN new = D /\ \A k \in D : new[k] = IF k \in keys THEN dm[k] \ {node} ELSE dm[k]
  BY DEF removeFromDepmap
<1>2. \A k \in keys : k \in DOMAIN dm /\ node \in dm[k] /\ At(dm, k) = dm[k]
  BY DEF At
<1>3. ASSUME NEW k, k \in keys, k \notin D
      PROVE  At(dm, k) \ {node} = {}
  BY <1>2, <1>3 DEF IsSingle
<1>4. ASSUME NEW k, k \in keys, k \in D
      PROVE  dm[k] \ {node} # {}
  BY <1>2, <1>4 DEF IsSingle
<1>5. ASSUME NEW k
      PROVE  At(new, k) = IF k \in keys THEN At(dm, k) \ {node} ELSE At(dm, k)
  <2>1. CASE k \in D
    BY <1>1, <2>1 DEF At
  <2>2. CASE k \notin D /\ k \in keys
    BY <1>1, <1>3, <2>2 DEF At
  <2>3. CASE k \notin D /\ k \notin keys
    BY <1>1, <2>3 DEF At
  <2> QED
    BY <2>1, <2>2, <2>3
<1> QED
  BY <1>1, <1>4, <1>5

\* Deleting a key removes its entry.
LEMMA DeleteAt ==
  ASSUME NEW dm, NEW key
  PROVE  /\ \A k : At(Delete(dm, key), k) = IF k = key THEN {} ELSE At(dm, k)
         /\ \A k \in DOMAIN Delete(dm, key) : Delete(dm, key)[k] = dm[k] /\ k \in DOMAIN dm /\ k # key
BY DEF Delete, At

\* A node leaves the graph with all its edges and no others, and the maps stay inverse.
LEMMA RemoveProperties ==
  ASSUME NEW g, IsGraph(g), MirroredIn(g), NEW n \in Nodes
  PROVE  /\ IsGraph(remove(g, n)) /\ MirroredIn(remove(g, n))
         /\ remove(g, n).nodes = g.nodes \ {n}
         /\ \A k \in Nodes : At(remove(g, n).dependencies, k) =
                               IF k = n THEN {} ELSE At(g.dependencies, k) \ {n}
<1> DEFINE d1 == removeFromDepmap(g.dependencies, At(g.dependents, n), n)
           t1 == Delete(g.dependents, n)
           d2 == Delete(d1, n)
           t2 == removeFromDepmap(t1, At(d1, n), n)
<1>1. /\ remove(g, n).nodes = g.nodes \ {n}
      /\ remove(g, n).dependencies = d2
      /\ remove(g, n).dependents = t2
      /\ remove(g, n) = [nodes |-> g.nodes \ {n}, dependencies |-> d2, dependents |-> t2]
  BY DEF remove
<1>2. IsDepmap(d1) /\ IsDepmap(t1) /\ IsDepmap(d2) /\ IsDepmap(t2)
  BY ShrinkIsDepmap DEF IsGraph
<1>3. IsGraph(remove(g, n))
  <2> HIDE DEF d1, t1, d2, t2
  <2> QED
    BY <1>1, <1>2 DEF IsGraph
<1>4. /\ \A k : At(g.dependencies, k) \in SUBSET Nodes /\ At(g.dependents, k) \in SUBSET Nodes
      /\ \A k, m \in Nodes : m \in At(g.dependencies, k) <=> k \in At(g.dependents, m)
      /\ \A k \in DOMAIN g.dependencies : g.dependencies[k] # {} /\ k \in g.nodes
      /\ \A m \in DOMAIN g.dependents : g.dependents[m] # {} /\ m \in g.nodes
  BY AtIsNodes DEF IsGraph, MirroredIn
<1>5. \A k \in At(g.dependents, n) : n \in At(g.dependencies, k)
  BY <1>4
<1>6. /\ \A k : At(d1, k) = IF k \in At(g.dependents, n) THEN At(g.dependencies, k) \ {n}
                            ELSE At(g.dependencies, k)
      /\ \A k \in DOMAIN d1 : d1[k] # {} /\ k \in DOMAIN g.dependencies
  <2>1. \A k \in DOMAIN g.dependencies : g.dependencies[k] # {}
    BY <1>4
  <2> QED
    BY <1>5, <2>1, RemoveFromAt, Zenon
<1>7. \A k \in Nodes : At(d1, k) = At(g.dependencies, k) \ {n}
  BY Zenon, <1>4, <1>6
<1>8. /\ \A k : At(d2, k) = IF k = n THEN {} ELSE At(d1, k)
      /\ \A k \in DOMAIN d2 : d2[k] = d1[k] /\ k \in DOMAIN d1 /\ k # n
  BY Zenon, DeleteAt
<1>9. /\ \A k : At(t1, k) = IF k = n THEN {} ELSE At(g.dependents, k)
      /\ \A k \in DOMAIN t1 : t1[k] = g.dependents[k] /\ k \in DOMAIN g.dependents /\ k # n
  BY DeleteAt
<1>10. \A k \in At(d1, n) : n \in At(t1, k)
  BY <1>4, <1>7, <1>9
<1>11. /\ \A k : At(t2, k) = IF k \in At(d1, n) THEN At(t1, k) \ {n} ELSE At(t1, k)
       /\ \A k \in DOMAIN t2 : t2[k] # {} /\ k \in DOMAIN t1
  <2>1. \A k \in DOMAIN t1 : t1[k] # {}
    BY <1>4, <1>9
  <2> HIDE DEF t1, d1
  <2> QED
    BY <1>10, <2>1, RemoveFromAt
<1>12. \A k \in Nodes : At(t2, k) = IF k = n THEN {} ELSE At(g.dependents, k) \ {n}
  <2> HIDE DEF t1, d1, t2
  <2> QED
    BY <1>4, <1>7, <1>9, <1>11
<1>13. \A k \in Nodes : At(d2, k) = IF k = n THEN {} ELSE At(g.dependencies, k) \ {n}
  <2> HIDE DEF d1, d2
  <2> QED
    BY Zenon, <1>7, <1>8
<1>14. MirroredIn(remove(g, n))
  <2> HIDE DEF t1, d1, t2, d2
  <2>1. \A k, m \in Nodes : m \in At(d2, k) <=> k \in At(t2, m)
    BY <1>4, <1>12, <1>13
  <2>2. \A k \in DOMAIN d2 : d2[k] # {} /\ k \in g.nodes \ {n}
    BY <1>4, <1>6, <1>8
  <2>3. \A k \in DOMAIN t2 : t2[k] # {} /\ k \in g.nodes \ {n}
    BY <1>4, <1>9, <1>11
  <2> QED
    BY Zenon, <1>1, <2>1, <2>2, <2>3 DEF MirroredIn
<1> HIDE DEF d1, t1, d2, t2
<1> QED
  BY Zenon, <1>1, <1>3, <1>13, <1>14
-----------------------------------------------------------------------------
(* The graph.                                                                                 *)

Sound == GraphTypeOK /\ Mirrored /\ Acyclic

\* An empty graph is a mirrored graph without cycles.
LEMMA NewIsSound == IsGraph(New) /\ MirroredIn(New)
<1>1. IsDepmap(NoEdges) /\ DOMAIN NoEdges = {}
  <2>1. NoEdges \in [{} -> SUBSET Nodes] /\ {} \in SUBSET Nodes
    BY DEF NoEdges
  <2> QED
    BY <2>1 DEF IsDepmap, NoEdges
<1>2. \A k : At(NoEdges, k) = {}
  BY <1>1 DEF At
<1>3. IsGraph(New)
  BY <1>1 DEF IsGraph, New
<1>4. MirroredIn(New)
  BY <1>1, <1>2 DEF MirroredIn, New
<1> QED
  BY <1>3, <1>4

\* In a mirrored graph what the search from a node discovers is what the node reaches.
LEMMA DepsIsReachable ==
  ASSUME NEW g, IsGraph(g), MirroredIn(g), NEW n
  PROVE  deps(g, n) = Reachable(g.dependencies, n)
<1>1. CASE n \in g.nodes
  BY <1>1 DEF deps, buildTransitive
<1>2. CASE n \notin g.nodes
  <2>1. At(g.dependencies, n) = {}
    BY <1>2 DEF MirroredIn, At
  <2>2. Closed(g.dependencies, {})
    BY DEF Closed
  <2>3. Reachable(g.dependencies, n) \subseteq {}
    BY <2>1, <2>2, ReachableLeast
  <2> QED
    BY <1>2, <2>3 DEF deps, buildTransitive
<1> QED
  BY <1>1, <1>2

\* DependOn keeps the maps inverse and adds no cycle.
LEMMA DependOnIsSound ==
  ASSUME Sound, NEW child \in Nodes, NEW parent \in Nodes, DependOn(child, parent)
  PROVE  Sound'
<1> DEFINE d == graph.dependencies
           t == graph.dependents
           d2 == addNodeToNodeset(d, child, parent)
           t2 == addNodeToNodeset(t, parent, child)
           N2 == graph.nodes \cup {parent, child}
<1>1. /\ graph' = [nodes |-> N2, dependencies |-> d2, dependents |-> t2]
      /\ UNCHANGED <<shrinking, leaves, layers, sort>>
      /\ child # parent /\ ~dependsOn(graph, parent, child)
  BY DEF DependOn, MayDependOn
<1>2. /\ IsGraph(graph) /\ MirroredIn(graph) /\ graph.nodes \in SUBSET Nodes
      /\ IsDepmap(d) /\ IsDepmap(t)
  BY DEF Sound, GraphTypeOK, Mirrored, IsGraph
<1>3. IsDepmap(d2) /\ IsDepmap(t2)
  BY <1>2, AddIsDepmap
<1>4. graph'.nodes = N2 /\ graph'.dependencies = d2 /\ graph'.dependents = t2
  BY <1>1
<1>5. GraphTypeOK'
  <2> HIDE DEF d2, t2
  <2> QED
    BY <1>1, <1>2, <1>3, <1>4 DEF Sound, GraphTypeOK, IsGraph
<1>6. /\ \A k : At(d2, k) = IF k = child THEN At(d, child) \cup {parent} ELSE At(d, k)
      /\ \A k : At(t2, k) = IF k = parent THEN At(t, parent) \cup {child} ELSE At(t, k)
  <2>1. \A k : At(d2, k) = IF k = child THEN At(d, child) \cup {parent} ELSE At(d, k)
    BY DEF At, addNodeToNodeset
  <2>2. \A k : At(t2, k) = IF k = parent THEN At(t, parent) \cup {child} ELSE At(t, k)
    BY DEF At, addNodeToNodeset
  <2> QED
    BY <2>1, <2>2
<1>7. MirroredIn(graph')
  <2>1. \A n, m \in Nodes : m \in At(d2, n) <=> n \in At(t2, m)
    BY <1>2, <1>6 DEF MirroredIn
  <2>2. \A n \in DOMAIN d2 : d2[n] # {} /\ n \in N2
    BY <1>2 DEF MirroredIn, addNodeToNodeset
  <2>3. \A m \in DOMAIN t2 : t2[m] # {} /\ m \in N2
    BY Zenon, <1>2 DEF MirroredIn, addNodeToNodeset
  <2> HIDE DEF d2, t2, N2
  <2> QED
    BY Zenon, <1>4, <2>1, <2>2, <2>3 DEF MirroredIn
<1>8. Mirrored'
  BY <1>1, <1>7 DEF Sound, Mirrored, MirroredIn
<1>9. Acyclic'
  <2> SUFFICES ASSUME NEW n \in N2 PROVE n \notin deps(graph', n)
    BY Zenon, <1>4 DEF Acyclic, dependsOn
  <2>1. child \notin Reachable(d, parent)
    BY <1>1, <1>2, DepsIsReachable DEF dependsOn
  <2>2. n \in Nodes
    BY <1>2
  <2>3. n \notin Reachable(d, n)
    <3>1. CASE n \in graph.nodes
      BY <3>1, <1>2, DepsIsReachable DEF Sound, Acyclic, dependsOn
    <3>2. CASE n \notin graph.nodes
      BY Zenon, <3>2, <1>2, DepsIsReachable DEF deps, buildTransitive
    <3> QED
      BY <3>1, <3>2
  <2>4. n \notin Reachable(d2, n)
    BY Zenon, <1>1, <1>2, <2>1, <2>2, <2>3, NewEdgeClosesNoCycle
  <2>5. deps(graph', n) = Reachable(d2, n)
    BY <1>4, <2>2 DEF deps, buildTransitive
  <2> QED
    BY <2>4, <2>5
<1> QED
  BY <1>5, <1>8, <1>9 DEF Sound
\* Every step keeps the graph and its shrinking copy sound.
LEMMA SoundStep == Sound /\ [GraphNext]_graphVars => Sound'
<1> SUFFICES ASSUME Sound, [GraphNext]_graphVars PROVE Sound'
  OBVIOUS
<1> USE DEF Sound
<1>1. ASSUME NEW child \in Nodes, NEW parent \in Nodes, DependOn(child, parent)
      PROVE  Sound'
  BY <1>1, DependOnIsSound
<1>2. CASE TopoSorted
  BY <1>2 DEF TopoSorted, GraphTypeOK, Mirrored, Acyclic
<1>3. CASE Look
  <2>1. Leaves(shrinking) \in SUBSET Nodes
    BY DEF Leaves, GraphTypeOK, IsGraph
  <2>2. GraphTypeOK'
    BY <1>3, <2>1 DEF Look, GraphTypeOK
  <2> QED
    BY <1>3, <2>2 DEF Look, Mirrored, Acyclic
<1>4. CASE Sorted
  BY <1>4, NewIsSound DEF Sorted, GraphTypeOK, Mirrored, Acyclic
<1>5. ASSUME NEW n \in Nodes, RemoveLeaf(n)
      PROVE  Sound'
  <2>1. IsGraph(shrinking') /\ MirroredIn(shrinking')
    BY <1>5, RemoveProperties DEF RemoveLeaf, GraphTypeOK, Mirrored
  <2> QED
    BY <1>5, <2>1 DEF RemoveLeaf, GraphTypeOK, Mirrored, Acyclic
<1>6. CASE UNCHANGED graphVars
  BY <1>6 DEF graphVars, GraphTypeOK, Mirrored, Acyclic
<1> QED
  BY <1>1, <1>2, <1>3, <1>4, <1>5, <1>6 DEF GraphNext

\* A new graph is sound.
LEMMA InitIsSound == GraphInit => Sound
BY NewIsSound DEF GraphInit, Sound, GraphTypeOK, Mirrored, Acyclic, New

\* The graph and its copies are always sound.
THEOREM GraphIsSound == GraphSpec => []Sound
<1> QED
  BY InitIsSound, SoundStep, PTL DEF GraphSpec

\* DependOn never builds a cycle, whatever is asked of it in whatever order.
THEOREM StaysAcyclic == GraphSpec => []Acyclic
<1>1. Sound => Acyclic
  BY DEF Sound
<1> QED
  BY <1>1, GraphIsSound, PTL

\* dependencies and dependents stay each other's inverse, in the graph and in the copy that
\* TopoSortedLayers takes apart: what removeFromDepmap says of a single element is true.
THEOREM StaysMirrored == GraphSpec => []Mirrored
<1>1. Sound => Mirrored
  BY DEF Sound
<1> QED
  BY <1>1, GraphIsSound, PTL

-----------------------------------------------------------------------------
(* The sort. The copy has the nodes that are in no layer yet, and those of the current layer  *)
(* that are still to be removed; of the edges it has exactly those between its nodes.         *)

Placed(n) == \E i \in 1..Len(layers) : n \in layers[i]

Shrunk ==
  /\ sort = "no" => layers = <<>>
  /\ sort # "remove" => leaves = {}
  /\ sort \in {"look", "remove"} =>
       /\ \A n \in leaves : Placed(n)
       /\ \A n \in Nodes : n \in shrinking.nodes <=> n \in graph.nodes /\ (Placed(n) => n \in leaves)
       /\ \A n \in shrinking.nodes :
            At(shrinking.dependencies, n) = At(graph.dependencies, n) \cap shrinking.nodes

SortInv == Sound /\ Shrunk /\ DependenciesFirst

\* A leaf of the copy depends on nodes of earlier layers only.
LEMMA LeafHasItsDependencies ==
  ASSUME Sound, Shrunk, sort = "look",
         NEW n \in Leaves(shrinking), NEW m \in At(graph.dependencies, n)
  PROVE  Placed(m)
<1>1. /\ n \in shrinking.nodes /\ At(shrinking.dependencies, n) = {} /\ n \in Nodes
  BY DEF Leaves, At, Sound, GraphTypeOK, IsGraph
<1>2. m \in Nodes
  BY AtIsNodes DEF Sound, GraphTypeOK, IsGraph
<1>3. n \in At(graph.dependents, m)
  BY <1>1, <1>2 DEF Sound, Mirrored, MirroredIn
<1>4. m \in graph.nodes
  BY <1>3 DEF Sound, Mirrored, MirroredIn, At
<1>5. m \notin shrinking.nodes
  BY <1>1 DEF Shrunk
<1> QED
  BY <1>2, <1>4, <1>5 DEF Shrunk
\* Every step keeps the copy in line with the graph, and the layers in order.
LEMMA SortStep == SortInv /\ [GraphNext]_graphVars => Shrunk' /\ DependenciesFirst'
<1> SUFFICES ASSUME SortInv, [GraphNext]_graphVars PROVE Shrunk' /\ DependenciesFirst'
  OBVIOUS
<1>t. Sound /\ Shrunk /\ DependenciesFirst /\ layers \in Seq(SUBSET Nodes) /\ leaves \in SUBSET Nodes
      /\ shrinking.nodes \in SUBSET Nodes /\ graph.nodes \in SUBSET Nodes
  BY Zenon DEF SortInv, Sound, GraphTypeOK, IsGraph
<1>1. ASSUME NEW child \in Nodes, NEW parent \in Nodes, DependOn(child, parent)
      PROVE  Shrunk' /\ DependenciesFirst'
  BY <1>t, <1>1 DEF DependOn, Shrunk, DependenciesFirst
<1>2. CASE TopoSorted
  <2>1. /\ sort = "no" /\ layers = <<>> /\ leaves = {}
        /\ shrinking' = graph /\ sort' = "look" /\ UNCHANGED <<graph, leaves, layers>>
    BY <1>t, <1>2 DEF TopoSorted, Shrunk
  <2>2. \A n : ~Placed(n)'
    BY <2>1 DEF Placed
  <2>3. \A n \in graph.nodes : At(graph.dependencies, n) \subseteq graph.nodes
    <3> SUFFICES ASSUME NEW n \in graph.nodes, NEW m \in At(graph.dependencies, n)
                 PROVE  m \in graph.nodes
      OBVIOUS
    <3>1. m \in Nodes /\ n \in Nodes
      BY AtIsNodes, <1>t DEF Sound, GraphTypeOK, IsGraph
    <3>2. n \in At(graph.dependents, m)
      BY Zenon, <1>t, <3>1 DEF Sound, Mirrored, MirroredIn
    <3> QED
      BY <1>t, <3>2 DEF Sound, Mirrored, MirroredIn, At
  <2>4. Shrunk'
    BY <1>t, <2>1, <2>2, <2>3 DEF Shrunk
  <2> QED
    BY <2>1, <2>4 DEF DependenciesFirst
<1>3. CASE Look
  <2> DEFINE L == Leaves(shrinking)
  <2>1. CASE L = {}
    BY <1>t, <1>3, <2>1 DEF Look, Shrunk, DependenciesFirst
  <2>2. CASE L # {}
    <3>1. /\ sort = "look" /\ leaves = {} /\ leaves' = L /\ sort' = "remove"
          /\ layers' = Append(layers, L) /\ UNCHANGED <<graph, shrinking>>
      BY <1>t, <1>3, <2>2 DEF Look, Shrunk
    <3>2. L \subseteq shrinking.nodes
      BY DEF Leaves
    <3>3. /\ Len(layers') = Len(layers) + 1 /\ layers'[Len(layers) + 1] = L
          /\ \A i \in 1..Len(layers) : layers'[i] = layers[i]
          /\ Len(layers) \in Nat
      <4> HIDE DEF L
      <4>1. L \in SUBSET Nodes
        BY <3>2, <1>t
      <4> QED
        BY <1>t, <3>1, <4>1
    <3>4. \A n : Placed(n)' <=> Placed(n) \/ n \in L
      <4> HIDE DEF L
      <4> QED
        BY <3>3 DEF Placed
    <3>5. Shrunk'
      <4> HIDE DEF L
      <4> QED
        BY <1>t, <3>1, <3>2, <3>4 DEF Shrunk
    <3>6. DependenciesFirst'
      <4> SUFFICES ASSUME NEW i \in 1..(Len(layers) + 1), NEW n \in layers'[i],
                          NEW m \in At(graph.dependencies, n)
                   PROVE  \E j \in 1..(i - 1) : m \in layers'[j]
        BY <3>1, <3>3 DEF DependenciesFirst
      <4>1. CASE i \in 1..Len(layers)
        <5>1. PICK j \in 1..(i - 1) : m \in layers[j]
          BY <1>t, <3>3, <4>1 DEF DependenciesFirst
        <5> QED
          BY <3>3, <4>1, <5>1
      <4>2. CASE i = Len(layers) + 1
        <5>1. n \in L
          BY <3>3, <4>2
        <5>2. Placed(m)
          BY <1>t, <3>1, <5>1, LeafHasItsDependencies
        <5>3. PICK j \in 1..Len(layers) : m \in layers[j]
          BY <5>2 DEF Placed
        <5> HIDE DEF L
        <5> QED
          BY <3>3, <4>2, <5>3
      <4> QED
        BY <4>1, <4>2, <3>3
    <3> QED
      BY <3>5, <3>6
  <2> QED
    BY Zenon, <2>1, <2>2
<1>4. CASE Sorted
  BY <1>t, <1>4 DEF Sorted, Shrunk, DependenciesFirst
<1>5. ASSUME NEW n \in Nodes, RemoveLeaf(n)
      PROVE  Shrunk' /\ DependenciesFirst'
  <2>1. /\ sort = "remove" /\ n \in leaves /\ shrinking' = remove(shrinking, n)
        /\ leaves' = leaves \ {n} /\ sort' = (IF leaves = {n} THEN "look" ELSE "remove")
        /\ UNCHANGED <<graph, layers>>
    BY <1>5 DEF RemoveLeaf
  <2>2. \A k : Placed(k)' <=> Placed(k)
    BY <2>1 DEF Placed
  <2>3. /\ shrinking'.nodes = shrinking.nodes \ {n}
        /\ \A k \in Nodes : At(shrinking'.dependencies, k) =
             IF k = n THEN {} ELSE At(shrinking.dependencies, k) \ {n}
    <3>1. IsGraph(shrinking) /\ MirroredIn(shrinking)
      BY <1>t DEF Sound, GraphTypeOK, Mirrored
    <3>2. /\ remove(shrinking, n).nodes = shrinking.nodes \ {n}
          /\ \A k \in Nodes : At(remove(shrinking, n).dependencies, k) =
               IF k = n THEN {} ELSE At(shrinking.dependencies, k) \ {n}
      BY Zenon, <3>1, RemoveProperties
    <3> QED
      BY <3>2, <2>1
  <2>4. Shrunk'
    <3>1. /\ \A k \in leaves : Placed(k)
          /\ \A k \in Nodes : k \in shrinking.nodes <=> k \in graph.nodes /\ (Placed(k) => k \in leaves)
          /\ \A k \in shrinking.nodes :
               At(shrinking.dependencies, k) = At(graph.dependencies, k) \cap shrinking.nodes
      BY <1>t, <2>1 DEF Shrunk
    <3>2. (sort' = "no" => layers' = <<>>) /\ (sort' # "remove" => leaves' = {})
      BY <2>1
    <3>3. \A k \in leaves' : Placed(k)'
      BY Zenon, <2>1, <2>2, <3>1
    <3>4. \A k \in Nodes : k \in shrinking'.nodes <=> k \in graph'.nodes /\ (Placed(k)' => k \in leaves')
      BY Zenon, <2>1, <2>2, <2>3, <3>1
    <3>5. \A k \in shrinking'.nodes :
            At(shrinking'.dependencies, k) = At(graph'.dependencies, k) \cap shrinking'.nodes
      <4> SUFFICES ASSUME NEW k \in shrinking'.nodes
                   PROVE  At(shrinking'.dependencies, k) = At(graph.dependencies, k) \cap shrinking'.nodes
        BY <2>1
      <4>1. k \in shrinking.nodes /\ k # n /\ k \in Nodes
        BY <1>t, <2>3
      <4>2. At(shrinking'.dependencies, k) = At(shrinking.dependencies, k) \ {n}
        BY Zenon, <2>3, <4>1
      <4> QED
        BY <2>3, <3>1, <4>1, <4>2
    <3> QED
      BY Zenon, <3>2, <3>3, <3>4, <3>5 DEF Shrunk
  <2>5. DependenciesFirst'
    BY <1>t, <2>1 DEF DependenciesFirst
  <2> QED
    BY <2>4, <2>5
<1>6. CASE UNCHANGED graphVars
  BY Zenon, <1>t, <1>6 DEF graphVars, Shrunk, DependenciesFirst, Placed
<1> QED
  BY <1>1, <1>2, <1>3, <1>4, <1>5, <1>6 DEF GraphNext

\* The layers of TopoSortedLayers are a topological order at every moment: each node comes
\* after everything it depends on.
THEOREM OrderIsTopological == GraphSpec => []DependenciesFirst
<1>1. GraphInit => SortInv
  BY InitIsSound DEF GraphInit, SortInv, Shrunk, DependenciesFirst
<1>2. SortInv /\ [GraphNext]_graphVars => SortInv'
  BY SoundStep, SortStep DEF SortInv
<1>3. SortInv => DependenciesFirst
  BY DEF SortInv
<1> QED
  BY <1>1, <1>2, <1>3, PTL DEF GraphSpec

-----------------------------------------------------------------------------
(* The sort lists every node: a graph without cycles has a leaf, since of the *)
(* finitely many nodes one reaches the fewest.                                *)

\* The copy of an acyclic graph runs out of leaves only when it is empty.
LEMMA LeafRemains ==
  ASSUME Sound, Shrunk, sort = "look", Leaves(shrinking) = {}
  PROVE  shrinking.nodes = {}
<1> SUFFICES ASSUME shrinking.nodes # {} PROVE FALSE
  OBVIOUS
<1> DEFINE dm == graph.dependencies
           R == {Reachable(dm, n) : n \in shrinking.nodes}
<1>1. IsDepmap(dm) /\ shrinking.nodes \in SUBSET Nodes /\ shrinking.nodes \subseteq graph.nodes
  BY DEF Sound, GraphTypeOK, IsGraph, Shrunk
<1>2. \A n \in shrinking.nodes : n \notin Reachable(dm, n)
  BY <1>1 DEF Sound, Acyclic, dependsOn, deps, buildTransitive
<1>3. ASSUME NEW n \in shrinking.nodes PROVE \E m \in shrinking.nodes : m \in At(dm, n)
  <2>1. n \in DOMAIN shrinking.dependencies
    BY DEF Leaves
  <2>2. At(shrinking.dependencies, n) # {}
    BY <2>1 DEF Sound, Mirrored, MirroredIn, At
  <2>3. At(shrinking.dependencies, n) = At(dm, n) \cap shrinking.nodes
    BY DEF Shrunk
  <2> QED BY <2>2, <2>3
<1>4. R \subseteq FiniteSubsetsOf(Nodes) /\ R # {}
  <2>1. \A n \in shrinking.nodes : Reachable(dm, n) \in SUBSET Nodes
    BY DEF Reachable
  <2>2. FiniteSubsetsOf(Nodes) = SUBSET Nodes
    BY NodesAssumption, FS_FiniteSubsetsOfFinite
  <2> QED BY <2>1, <2>2
<1>5. PICK r \in R : \A s \in R : ~(<<s, r>> \in StrictSubsetOrdering(Nodes))
  <2> HIDE DEF R
  <2> QED BY <1>4, FS_StrictSubsetOrderingWellFounded, WFMin
<1>6. PICK n \in shrinking.nodes : r = Reachable(dm, n)
  BY <1>5
<1>7. PICK m \in shrinking.nodes : m \in At(dm, n)
  BY <1>3
<1>8. m \in Reachable(dm, n)
  BY Zenon, <1>1, <1>7, ReachableClosed
<1>9. Reachable(dm, m) \subseteq Reachable(dm, n) /\ m \notin Reachable(dm, m)
  BY <1>1, <1>2, <1>8, ReachableTransitive
<1>10. Reachable(dm, m) \in SUBSET Nodes /\ Reachable(dm, n) \in SUBSET Nodes
  BY DEF Reachable
<1>11. <<Reachable(dm, m), Reachable(dm, n)>> \in StrictSubsetOrdering(Nodes)
  BY <1>8, <1>9, <1>10 DEF StrictSubsetOrdering
<1> QED BY <1>5, <1>6, <1>11

\* Layers are disjoint and hold nodes of the graph, all of them in the end.
Partial ==
  /\ \A i, j \in 1..Len(layers) : \A n \in layers[i] : n \in layers[j] => i = j
  /\ \A i \in 1..Len(layers) : layers[i] \subseteq graph.nodes
  /\ sort = "done" => \A n \in graph.nodes : Placed(n)

\* A round of the sort adds a layer of nodes that are in no other (deps.go:85-95).
LEMMA PartialStep == SortInv /\ Partial /\ [GraphNext]_graphVars => Partial'
<1> SUFFICES ASSUME SortInv, Partial, [GraphNext]_graphVars PROVE Partial'
  OBVIOUS
<1>t. Sound /\ Shrunk /\ layers \in Seq(SUBSET Nodes)
      /\ shrinking.nodes \in SUBSET Nodes /\ graph.nodes \in SUBSET Nodes
  BY DEF SortInv, Sound, GraphTypeOK, IsGraph
<1>1. CASE layers' = <<>> /\ sort' # "done"
  BY <1>1 DEF Partial
<1>2. CASE UNCHANGED <<graph, layers>> /\ (sort' = "done" => sort = "done")
  BY <1>2 DEF Partial, Placed
<1>3. CASE \E child, parent \in Nodes : DependOn(child, parent)
  <2>1. layers' = <<>> /\ sort' # "done"
    BY <1>t, <1>3 DEF DependOn, Shrunk
  <2> QED BY Zenon, <1>1, <2>1
<1>4. CASE Look /\ Leaves(shrinking) = {}
  <2>1. sort = "look" /\ layers' = layers /\ graph' = graph /\ leaves = {}
    BY <1>t, <1>4 DEF Look, Shrunk
  <2>2. shrinking.nodes = {}
    BY <1>t, <1>4, <2>1, LeafRemains
  <2>3. \A n \in graph.nodes : Placed(n)
    BY <1>t, <2>1, <2>2 DEF Shrunk
  <2> QED BY <2>1, <2>3 DEF Partial, Placed
<1>5. CASE Look /\ Leaves(shrinking) # {}
  <2> DEFINE L == Leaves(shrinking)
  <2>1. /\ sort = "look" /\ leaves = {} /\ sort' = "remove"
        /\ layers' = Append(layers, L) /\ graph' = graph
    BY <1>t, <1>5 DEF Look, Shrunk
  <2>2. L \subseteq shrinking.nodes
    BY DEF Leaves
  <2> HIDE DEF L
  <2>3. /\ Len(layers') = Len(layers) + 1 /\ layers'[Len(layers) + 1] = L
        /\ \A i \in 1..Len(layers) : layers'[i] = layers[i]
        /\ Len(layers) \in Nat
    BY <1>t, <2>1, <2>2
  <2>4. L \subseteq graph.nodes /\ \A n \in L : ~Placed(n)
    BY <1>t, <2>1, <2>2 DEF Shrunk
  <2>5. \A i \in 1..Len(layers) : \A n \in layers[i] : n \notin L
    BY <2>4 DEF Placed
  <2>6. \A i, j \in 1..Len(layers') : \A n \in layers'[i] : n \in layers'[j] => i = j
    BY <2>3, <2>5 DEF Partial
  <2>7. \A i \in 1..Len(layers') : layers'[i] \subseteq graph'.nodes
    BY <2>1, <2>3, <2>4 DEF Partial
  <2> QED BY <2>1, <2>6, <2>7 DEF Partial
<1>6. CASE TopoSorted
  BY <1>2, <1>6 DEF TopoSorted
<1>7. CASE Sorted
  BY <1>1, <1>7 DEF Sorted
<1>8. ASSUME NEW n \in Nodes, RemoveLeaf(n) PROVE Partial'
  BY <1>2, <1>8 DEF RemoveLeaf
<1>9. CASE UNCHANGED graphVars
  BY <1>2, <1>9 DEF graphVars
<1> QED BY <1>3, <1>4, <1>5, <1>6, <1>7, <1>8, <1>9 DEF GraphNext

\* A finished sort has placed every node.
LEMMA PartialSuffices == Partial => EveryNodeSorted
<1> SUFFICES ASSUME Partial, sort = "done", NEW n \in Nodes
             PROVE  Cardinality({i \in 1..Len(layers) : n \in layers[i]}) = IF n \in graph.nodes THEN 1 ELSE 0
  BY DEF EveryNodeSorted
<1> DEFINE I == {i \in 1..Len(layers) : n \in layers[i]}
<1>1. CASE n \in graph.nodes
  <2>1. PICK i \in 1..Len(layers) : n \in layers[i]
    BY <1>1 DEF Partial, Placed
  <2>2. I = {i}
    BY <2>1 DEF Partial
  <2>3. Cardinality(I) = 1
    BY <2>2, FS_Singleton, Zenon
  <2> QED BY <1>1, <2>3
<1>2. CASE n \notin graph.nodes
  <2>1. I = {}
    BY <1>2 DEF Partial
  <2>2. Cardinality(I) = 0
    BY <2>1, FS_EmptySet
  <2> QED BY <1>2, <2>2
<1> QED BY <1>1, <1>2

\* TopoSortedLayers lists every node of the graph exactly once, after everything it depends
\* on, for every finite set of nodes: the copy without its leaves never gets stuck.
THEOREM SortsTheWholeGraph == GraphSpec => []SortIsTopological
<1>1. GraphInit => SortInv /\ Partial
  BY InitIsSound DEF GraphInit, SortInv, Shrunk, DependenciesFirst, Partial
<1>2. SortInv /\ Partial /\ [GraphNext]_graphVars => SortInv' /\ Partial'
  BY SoundStep, SortStep, PartialStep DEF SortInv
<1>3. SortInv /\ Partial => SortIsTopological
  BY PartialSuffices DEF SortInv, SortIsTopological
<1> QED BY <1>1, <1>2, <1>3, PTL DEF GraphSpec

-----------------------------------------------------------------------------
(* The search of buildTransitive: what it has found is reachable, what it has *)
(* gone through is closed, and a round that finds nothing new ends it.        *)

Searched(dm, root, s, k) ==
  /\ s \in [out : SUBSET Nodes, next : SUBSET Nodes]
  /\ s.out \subseteq Reachable(dm, root) /\ s.next \subseteq Reachable(dm, root) \cup {root}
  /\ \A n \in (s.out \cup {root}) \ s.next : At(dm, n) \subseteq s.out
  /\ s.next = {} \/ Cardinality(s.out) >= k

Layer(dm, s) ==
  LET new == (UNION {At(dm, n) : n \in s.next}) \ s.out
  IN  [out |-> s.out \cup new, next |-> new]

\* A round of the search finds at least one more node, or is the last.
LEMMA LayerIsSearched ==
  ASSUME NEW dm, IsDepmap(dm), NEW root \in Nodes, NEW k \in Nat, NEW s, Searched(dm, root, s, k)
  PROVE  Searched(dm, root, Layer(dm, s), k + 1)
<1> DEFINE new == (UNION {At(dm, n) : n \in s.next}) \ s.out
           t == [out |-> s.out \cup new, next |-> new]
           R == Reachable(dm, root)
<1>1. /\ s.out \in SUBSET Nodes /\ s.next \in SUBSET Nodes
      /\ s.out \subseteq R /\ s.next \subseteq R \cup {root}
      /\ \A n \in (s.out \cup {root}) \ s.next : At(dm, n) \subseteq s.out
  BY DEF Searched
<1>2. R \in SUBSET Nodes /\ At(dm, root) \subseteq R /\ \A n \in R : At(dm, n) \subseteq R
  BY ReachableClosed DEF Closed
<1>3. new \subseteq R
  <2> HIDE DEF R
  <2> QED BY Zenon, <1>1, <1>2
<1>4. Layer(dm, s) = t /\ t.out = s.out \cup new /\ t.next = new
  BY DEF Layer
<1> HIDE DEF R, t
<1>5. \A n \in s.next : At(dm, n) \subseteq s.out \cup new
  OBVIOUS
<1>6. new # {} => s.next # {}
  OBVIOUS
<1>7. \A n \in new : n \notin s.out
  OBVIOUS
<1> USE DEF t
<1> HIDE DEF new
<1>8. t \in [out : SUBSET Nodes, next : SUBSET Nodes]
  BY Zenon, <1>1, <1>2, <1>3
<1> HIDE DEF t
<1>9. t.out \subseteq R /\ t.next \subseteq R \cup {root}
  BY Zenon, <1>1, <1>3, <1>4
<1>10. \A n \in (t.out \cup {root}) \ t.next : At(dm, n) \subseteq t.out
  BY Zenon, <1>1, <1>4, <1>5
<1>11. ASSUME t.next # {} PROVE Cardinality(t.out) >= k + 1
  <2>1. Cardinality(s.out) >= k
    BY Zenon, <1>4, <1>6, <1>11 DEF Searched
  <2>2. IsFiniteSet(t.out) /\ s.out \in SUBSET t.out
    <3>1. t.out \in SUBSET Nodes
      BY <1>1, <1>2, <1>3, <1>4
    <3> QED BY Zenon, <1>4, <3>1, NodesAssumption, FS_Subset
  <2>3. s.out # t.out
    BY <1>4, <1>7, <1>11
  <2>4. IsFiniteSet(s.out) /\ Cardinality(s.out) <= Cardinality(t.out) /\ Cardinality(s.out) # Cardinality(t.out)
    BY Zenon, <2>2, <2>3, FS_Subset
  <2>5. Cardinality(s.out) \in Nat /\ Cardinality(t.out) \in Nat
    BY Zenon, <2>2, <2>4, FS_CardinalityType
  <2> QED BY <2>1, <2>4, <2>5
<1> QED BY <1>4, <1>8, <1>9, <1>10, <1>11 DEF Searched, R

\* After as many rounds as there are nodes the search has found what is reachable.
LEMMA SearchedEnough ==
  ASSUME NEW dm, IsDepmap(dm), NEW root \in Nodes, NEW s, Searched(dm, root, s, Cardinality(Nodes))
  PROVE  s.out = Reachable(dm, root)
<1>1. s.out \in SUBSET Nodes /\ s.out \subseteq Reachable(dm, root) /\ Reachable(dm, root) \subseteq Nodes
  BY Zenon, ReachableClosed DEF Searched
<1>2. CASE s.next = {}
  <2>1. At(dm, root) \subseteq s.out /\ Closed(dm, s.out)
    BY <1>2 DEF Searched, Closed
  <2> QED BY <1>1, <2>1, ReachableLeast
<1>3. CASE s.next # {}
  <2>1. Cardinality(s.out) >= Cardinality(Nodes)
    BY Zenon, <1>3 DEF Searched
  <2>2. /\ IsFiniteSet(s.out) /\ Cardinality(s.out) <= Cardinality(Nodes)
        /\ Cardinality(Nodes) = Cardinality(s.out) => Nodes = s.out
    BY Zenon, <1>1, NodesAssumption, FS_Subset
  <2>3. Cardinality(s.out) \in Nat /\ Cardinality(Nodes) \in Nat
    BY <2>2, NodesAssumption, FS_CardinalityType
  <2>4. Nodes = s.out
    BY <2>1, <2>2, <2>3
  <2> QED BY <1>1, <2>4
<1> QED BY <1>2, <1>3

\* The layered search of the code finds exactly what is reachable (deps.go:153-181).
LEMMA SearchIsReachable ==
  ASSUME NEW dm, IsDepmap(dm), NEW root \in Nodes
  PROVE  Search(dm, root) = Reachable(dm, root)
<1> DEFINE m == Cardinality(Nodes)
           S == [out : SUBSET Nodes, next : SUBSET Nodes]
           s0 == [out |-> {}, next |-> {root}]
           F == [x \in (1..m) \X S |-> Layer(dm, x[2])]
           found == CHOOSE g : g = [k \in 0..m |-> IF k = 0 THEN s0 ELSE Layer(dm, g[k - 1])]
<1>1. m \in Nat
  BY NodesAssumption, FS_CardinalityType
<1>2. s0 \in S /\ s0.out = {} /\ s0.next = {root}
  OBVIOUS
<1>3. \A s \in S : Layer(dm, s) \in S
  <2> SUFFICES ASSUME NEW s \in S PROVE Layer(dm, s) \in S
    OBVIOUS
  <2>1. \A n \in s.next : At(dm, n) \in SUBSET Nodes
    BY AtIsNodes
  <2> QED BY <2>1 DEF Layer
<1>4. Search(dm, root) = found[m].out
  BY DEF Search, Layer
<1> HIDE DEF s0
<1>5. F \in Steppers(m, S)
  BY Zenon, <1>3 DEF Steppers
<1>6. PICK g : IsOrbit(g, S, s0, m, F)
  <2> HIDE DEF m, S, F
  <2> QED BY <1>1, <1>2, <1>5, Orbit
<1>7. g \in [0..m -> S] /\ g[0] = s0 /\ \A k \in 1..m : g[k] = F[<<k, g[k - 1]>>]
  BY <1>6, Zenon DEF IsOrbit
<1> HIDE DEF S, m
<1>8. \A k \in 1..m : k - 1 \in 0..m /\ g[k - 1] \in S
  BY <1>1, <1>7
<1>9. \A k \in 1..m : g[k] = Layer(dm, g[k - 1])
  BY <1>7, <1>8, Zenon
<1>10. g = [k \in 0..m |-> IF k = 0 THEN s0 ELSE Layer(dm, g[k - 1])]
  BY <1>1, <1>7, <1>9
<1>11. found = [k \in 0..m |-> IF k = 0 THEN s0 ELSE Layer(dm, found[k - 1])]
  BY <1>10, Zenon
<1> HIDE DEF found
<1> DEFINE T == {n \in Nat : n <= m => Searched(dm, root, found[n], n)}
<1>12. 0 \in T
  <2>1. found[0] = s0
    BY <1>1, <1>11
  <2>2. Searched(dm, root, s0, 0)
    <3>1. Cardinality(s0.out) >= 0
      BY <1>2, FS_EmptySet
    <3>2. s0 \in [out : SUBSET Nodes, next : SUBSET Nodes]
      BY <1>2 DEF S
    <3> QED BY Zenon, <1>2, <3>1, <3>2 DEF Searched
  <2> QED BY <2>1, <2>2
<1>13. \A n \in T : n + 1 \in T
  <2> SUFFICES ASSUME NEW n \in T, n + 1 <= m PROVE Searched(dm, root, found[n + 1], n + 1)
    OBVIOUS
  <2>1. n \in Nat /\ n + 1 \in 1..m /\ (n + 1) - 1 = n /\ Searched(dm, root, found[n], n)
    BY <1>1
  <2>2. found[n + 1] = Layer(dm, found[n])
    BY <1>1, <1>11, <2>1
  <2> QED BY <2>1, <2>2, LayerIsSearched
<1>14. T = Nat
  <2>1. T \in SUBSET Nat
    OBVIOUS
  <2> HIDE DEF T
  <2> QED BY <1>12, <1>13, <2>1, NatSetInduction
<1>15. Searched(dm, root, found[m], m)
  <2>1. m \in T
    BY <1>1, <1>14
  <2> QED BY <1>1, <2>1
<1> QED BY <1>4, <1>15, SearchedEnough DEF m

\* The search of buildTransitive, which guards DependOn against cycles, finds exactly what is
\* reachable, in every graph that DependOn can build.
THEOREM SearchesEverything == GraphSpec => []DiscoveryIsComplete
<1>1. Sound => DiscoveryIsComplete
  <2> SUFFICES ASSUME Sound, NEW n \in graph.nodes
               PROVE  Search(graph.dependencies, n) = deps(graph, n)
    BY DEF DiscoveryIsComplete
  <2>1. n \in Nodes /\ IsDepmap(graph.dependencies)
    BY DEF Sound, GraphTypeOK, IsGraph
  <2>2. deps(graph, n) = Reachable(graph.dependencies, n)
    BY DEF deps, buildTransitive
  <2> QED BY <2>1, <2>2, SearchIsReachable
<1> QED BY <1>1, GraphIsSound, PTL
=============================================================================
