----------------------------- MODULE KubeProofs ------------------------------
(* Clients of the API server: the authorizer and the object client, for any    *)
(* calls of them, and SignUp, for any number of processes and keys.            *)
EXTENDS Authorizer, ObjectClient, SignUp, TLAPS

(* More time for the provers: a long module keeps their results waiting.       *)
USE SMTT(20), ZenonT(20)

-----------------------------------------------------------------------------
(* What the Kubernetes helpers guarantee for any number of callers, attempts,    *)
(* users and targets: Apply and Uninstall tell the truth, and so does UserCan.   *)

-----------------------------------------------------------------------------
(* Apply and Uninstall *)

ObjectSpec == ObjectInit /\ [][ObjectNext]_objectVars

ApplySteps == {"idle", "get", "create", "update", "delete", "failed", "ok", "error"}
Calls ==
  [pc : ApplySteps, op : {"apply", "uninstall"}, obj : Nat, attempt : 0..retryAttempts,
   canceled : BOOLEAN, mine : SUBSET Nat, rivals : 0..retryAttempts, gone : BOOLEAN,
   fault : BOOLEAN]

\* A call that has no excuse but its rivals.
Unexcused(a) == ~a.canceled /\ ~a.fault /\ ~a.gone

\* What a call a has seen, when now is stored and top was the last version: a
\* missing object has been noticed, and every attempt that failed was defeated
\* by a rival of its own; so is one that holds an outdated version.
CallInv(a, now, top) ==
  /\ a \in Calls /\ a.obj <= top
  /\ a.pc # "idle" /\ now = NotFound => a.gone
  /\ a.pc \in {"create", "update"} => a.op = "apply"
  /\ a.pc = "delete" => a.op = "uninstall"
  /\ a.pc = "create" => a.gone
  /\ a.pc = "ok" => IF a.op = "apply" THEN a.obj \in a.mine ELSE a.gone
  /\ Unexcused(a) =>
       /\ a.pc \in {"get", "update", "delete"} => a.rivals + 1 >= a.attempt
       /\ a.pc = "update" /\ a.obj # now => a.rivals >= a.attempt
       /\ a.pc = "failed" => a.rivals >= a.attempt
       /\ a.pc = "error" => a.rivals >= retryAttempts

ObjectInv ==
  /\ version \in Nat /\ stored \in Nat /\ stored <= version
  /\ apply \in [Appliers -> Calls]
  /\ \A c \in Appliers : CallInv(apply[c], stored, version)

\* What a call becomes that notices a change of the object.
Noticing(a, now) ==
  [a EXCEPT !.rivals = IF @ < retryAttempts THEN @ + 1 ELSE @, !.gone = @ \/ now = NotFound]

\* A call that notices a change of the object counts a rival, and its version is
\* outdated from then on.
LEMMA NoticedInv ==
  ASSUME NEW a, NEW now \in Nat, NEW top \in Nat, CallInv(a, now, top), a.pc # "idle",
         NEW now2 \in Nat, NEW top2 \in Nat,
         \/ now2 = NotFound /\ top2 = top
         \/ now2 = top + 1 /\ top2 = top + 1
  PROVE  CallInv(Noticing(a, now2), now2, top2)
<1> DEFINE r == IF a.rivals < retryAttempts THEN a.rivals + 1 ELSE a.rivals
           g == a.gone \/ now2 = NotFound
           b == [a EXCEPT !.rivals = r, !.gone = g]
<1>1. a \in Calls /\ retryAttempts \in Nat \ {0}
  BY ObjectAssumption DEF CallInv
<1>2. r \in 0..retryAttempts /\ r >= a.rivals /\ (r > a.rivals \/ r = retryAttempts)
  BY <1>1 DEF Calls
<1>3. g \in BOOLEAN
  BY <1>1 DEF Calls
<1>4. /\ b \in Calls /\ b.rivals = r /\ b.gone = g
      /\ b.pc = a.pc /\ b.op = a.op /\ b.obj = a.obj /\ b.attempt = a.attempt
      /\ b.canceled = a.canceled /\ b.mine = a.mine /\ b.fault = a.fault
  <2> HIDE DEF r, g
  <2> QED BY <1>1, <1>2, <1>3, Zenon DEF Calls
<1>5. now2 = NotFound => b.gone
  BY <1>4, Zenon
<1>6. a.gone => b.gone
  BY <1>4, Zenon
<1>7. a.attempt \in 0..retryAttempts /\ a.obj \in Nat /\ a.rivals \in 0..retryAttempts
  BY <1>1 DEF Calls
<1>8. Unexcused(b) => Unexcused(a)
  BY <1>4, <1>6 DEF Unexcused
<1> HIDE DEF b, r, g
<1>9. Unexcused(b) =>
        /\ b.pc \in {"get", "update", "delete"} => b.rivals + 1 >= b.attempt
        /\ b.pc = "update" /\ b.obj # now2 => b.rivals >= b.attempt
        /\ b.pc = "failed" => b.rivals >= b.attempt
        /\ b.pc = "error" => b.rivals >= retryAttempts
  BY <1>1, <1>2, <1>4, <1>7, <1>8 DEF CallInv
<1>10. b.obj <= top2
  BY <1>4, <1>7 DEF CallInv
<1>11. CallInv(b, now2, top2)
  BY <1>4, <1>5, <1>6, <1>9, <1>10 DEF CallInv
<1> QED BY <1>11 DEF b, r, g, Noticing

\* Everyone but the writers is left in order by a change of the object.
LEMMA OthersNotice ==
  ASSUME ObjectInv, NEW w \in SUBSET Appliers, NEW now2 \in Nat, NEW top2 \in Nat,
         \/ now2 = NotFound /\ top2 = version
         \/ now2 = version + 1 /\ top2 = version + 1
  PROVE  /\ Noticed(w, now2) \in [Appliers -> Calls]
         /\ \A d \in Appliers \ w : CallInv(Noticed(w, now2)[d], now2, top2)
         /\ \A d \in w : Noticed(w, now2)[d] = apply[d]
<1>1. ASSUME NEW d \in Appliers
      PROVE  CallInv(apply[d], stored, version) /\ apply[d] \in Calls
  BY DEF ObjectInv
<1>2. ASSUME NEW d \in Appliers \ w
      PROVE  CallInv(Noticed(w, now2)[d], now2, top2)
  <2>1. CASE apply[d].pc = "idle"
    <3>1. Noticed(w, now2)[d] = apply[d]
      BY <2>1 DEF Noticed
    <3>2. apply[d].obj <= top2
      BY <1>1 DEF CallInv, Calls, ObjectInv
    <3> QED BY <1>1, <2>1, <3>1, <3>2 DEF CallInv
  <2>2. CASE apply[d].pc # "idle"
    <3>1. Noticed(w, now2)[d] = Noticing(apply[d], now2)
      BY <2>2 DEF Noticed, Noticing
    <3>2. stored \in Nat /\ version \in Nat
      BY DEF ObjectInv
    <3> QED BY Zenon, <1>1, <2>2, <3>1, <3>2, NoticedInv
  <2> QED BY <2>1, <2>2
<1>3. \A d \in w : Noticed(w, now2)[d] = apply[d]
  BY Zenon DEF Noticed
<1>4. \A d \in Appliers : Noticed(w, now2)[d] \in Calls
  BY <1>1, <1>2, <1>3 DEF CallInv
<1>5. Noticed(w, now2) = [d \in Appliers |-> Noticed(w, now2)[d]]
  BY DEF Noticed
<1>6. Noticed(w, now2) \in [Appliers -> Calls]
  BY <1>4, <1>5
<1> QED BY <1>2, <1>3, <1>6

\* When the object does not change, a step is in order if its own call is.
LEMMA OwnStepSuffices ==
  ASSUME ObjectInv, NEW c \in Appliers, NEW n, apply' = [apply EXCEPT ![c] = n],
         UNCHANGED <<stored, version>>, CallInv(n, stored, version)
  PROVE  ObjectInv'
<1>1. n \in Calls
  BY DEF CallInv
<1> QED BY <1>1 DEF ObjectInv

\* When the object changes, likewise.
LEMMA OwnChangeSuffices ==
  ASSUME ObjectInv, NEW c \in Appliers, NEW n, NEW now2 \in Nat, NEW top2 \in Nat,
         \/ now2 = NotFound /\ top2 = version
         \/ now2 = version + 1 /\ top2 = version + 1,
         apply' = [Noticed({c}, now2) EXCEPT ![c] = n],
         stored' = now2, version' = top2, CallInv(n, now2, top2)
  PROVE  ObjectInv'
<1>1. n \in Calls
  BY DEF CallInv
<1>2. /\ Noticed({c}, now2) \in [Appliers -> Calls]
      /\ \A d \in Appliers \ {c} : CallInv(Noticed({c}, now2)[d], now2, top2)
  BY OthersNotice
<1>3. apply' \in [Appliers -> Calls]
  BY <1>1, <1>2
<1>4. \A d \in Appliers : CallInv(apply'[d], now2, top2)
  BY <1>2
<1>5. now2 <= top2
  BY DEF NotFound
<1> QED BY <1>3, <1>4, <1>5 DEF ObjectInv

\* A write by the call itself: it is answered, or its answer is lost.
LEMMA WriteStep ==
  ASSUME ObjectInv, NEW c \in Appliers, apply[c].pc \in {"create", "update"},
         Written(c) \/ WrittenUnheard(c)
  PROVE  ObjectInv'
<1> DEFINE a == apply[c]
           v == version + 1
           heard == [a EXCEPT !.pc = "ok", !.obj = v, !.mine = @ \cup {v}]
           unheard == [a EXCEPT !.pc = "failed", !.mine = @ \cup {v}, !.fault = TRUE]
<1>1. /\ a \in Calls /\ CallInv(a, stored, version) /\ version \in Nat /\ v \in Nat
      /\ stored' = v /\ version' = v /\ v # NotFound
  BY DEF ObjectInv, Written, WrittenUnheard, NotFound
<1>2. Noticed({c}, v)[c] = a /\ c \in DOMAIN Noticed({c}, v)
  BY DEF Noticed
<1>3. CASE Written(c)
  <2>1. apply' = [Noticed({c}, v) EXCEPT ![c] = heard]
    BY <1>2, <1>3, Zenon DEF Written
  <2>2. /\ heard \in Calls /\ heard.pc = "ok" /\ heard.obj = v /\ v \in heard.mine
        /\ heard.op = a.op
    BY <1>1, Zenon DEF Calls, ApplySteps
  <2>3. a.op = "apply"
    BY <1>1 DEF CallInv
  <2> HIDE DEF heard
  <2>4. CallInv(heard, v, v)
    BY <1>1, <2>2, <2>3 DEF CallInv, NotFound
  <2> QED BY <1>1, <2>1, <2>4, OwnChangeSuffices
<1>4. CASE WrittenUnheard(c)
  <2>1. apply' = [Noticed({c}, v) EXCEPT ![c] = unheard]
    BY <1>2, <1>4, Zenon DEF WrittenUnheard
  <2>2. /\ unheard \in Calls /\ unheard.pc = "failed" /\ unheard.fault /\ unheard.obj = a.obj
    BY <1>1, Zenon DEF Calls, ApplySteps
  <2>3. a.obj <= v
    BY <1>1 DEF CallInv, Calls
  <2> HIDE DEF unheard
  <2>4. CallInv(unheard, v, v)
    BY <1>1, <2>2, <2>3 DEF CallInv, Unexcused, NotFound
  <2> QED BY <1>1, <2>1, <2>4, OwnChangeSuffices
<1> QED BY <1>3, <1>4

\* A write that the API server refuses: the object was missing, or a rival has
\* made the version outdated.
LEMMA RefusedStep ==
  ASSUME ObjectInv, NEW c \in Appliers, Refused(c),
         \/ apply[c].pc = "create"
         \/ apply[c].pc = "update" /\ (stored = NotFound \/ apply[c].obj # stored)
  PROVE  ObjectInv'
<1> DEFINE a == apply[c]
           n == [a EXCEPT !.pc = "failed"]
<1>1. a \in Calls /\ CallInv(a, stored, version)
  BY DEF ObjectInv
<1>2. apply' = [apply EXCEPT ![c] = n] /\ UNCHANGED <<stored, version>>
  BY DEF Refused
<1>3. /\ n \in Calls /\ n.pc = "failed" /\ n.op = a.op /\ n.obj = a.obj /\ n.mine = a.mine
      /\ n.attempt = a.attempt /\ n.rivals = a.rivals /\ n.gone = a.gone /\ n.fault = a.fault
      /\ n.canceled = a.canceled
  BY <1>1 DEF Calls, ApplySteps
<1> HIDE DEF n
<1>4. CallInv(n, stored, version)
  BY <1>1, <1>3 DEF CallInv, Unexcused
<1> QED BY <1>2, <1>4, OwnStepSuffices, Zenon

\* The steps of a call that leave the object alone.
LEMMA QuietStep ==
  ASSUME ObjectInv, NEW c \in Appliers,
         \/ \E op \in {"apply", "uninstall"} : Call(c, op)
         \/ Get(c) \/ Fault(c) \/ retry(c) \/ Canceled(c) \/ ObjectReturn(c)
  PROVE  ObjectInv'
<1> DEFINE a == apply[c]
<1>1. /\ a \in Calls /\ CallInv(a, stored, version) /\ retryAttempts \in Nat \ {0}
      /\ stored \in Nat /\ version \in Nat /\ stored <= version
      /\ UNCHANGED <<stored, version>>
  BY ObjectAssumption DEF ObjectInv, Call, Get, Fault, retry, Canceled, ObjectReturn
<1>2. ASSUME NEW op \in {"apply", "uninstall"}, Call(c, op)
      PROVE  ObjectInv'
  <2> DEFINE g == stored = NotFound
             n == [Quiet EXCEPT !.pc = "get", !.op = op, !.attempt = 1, !.gone = g]
  <2>1. apply' = [apply EXCEPT ![c] = n] /\ g \in BOOLEAN /\ (stored = NotFound => g)
    BY <1>2 DEF Call
  <2> HIDE DEF g
  <2>2. /\ n \in Calls /\ n.pc = "get" /\ n.obj = 0 /\ n.attempt = 1 /\ n.rivals = 0
        /\ n.gone = g
    <3>1. Quiet \in Calls /\ Quiet.obj = 0 /\ Quiet.rivals = 0 /\ 1 \in 0..retryAttempts
      BY <1>1 DEF Quiet, Calls, ApplySteps
    <3> HIDE DEF Quiet
    <3> QED BY <2>1, <3>1, Zenon DEF Calls, ApplySteps
  <2> HIDE DEF n
  <2>3. stored = NotFound => n.gone
    BY <2>1, <2>2
  <2>4. n.rivals + 1 >= n.attempt /\ n.obj <= version
    BY <1>1, <2>2
  <2>5. CallInv(n, stored, version)
    BY <2>2, <2>3, <2>4 DEF CallInv
  <2> QED BY <1>1, <2>1, <2>5, OwnStepSuffices, Zenon
<1>3. CASE Get(c)
  <2> DEFINE p == IF a.op = "apply" THEN IF stored = NotFound THEN "create" ELSE "update"
                  ELSE IF stored = NotFound THEN "ok" ELSE "delete"
             n == IF a.op = "apply" /\ stored # NotFound
                    THEN [a EXCEPT !.pc = "update", !.obj = stored] ELSE [a EXCEPT !.pc = p]
  <2>1. apply' = [apply EXCEPT ![c] = n] /\ a.pc = "get"
    BY <1>3, Zenon DEF Get
  <2>2. /\ n \in Calls /\ n.pc = p /\ n.op = a.op /\ n.obj \in {a.obj, stored}
        /\ n.pc = "update" => n.obj = stored
        /\ n.attempt = a.attempt /\ n.rivals = a.rivals /\ n.gone = a.gone
        /\ n.fault = a.fault /\ n.canceled = a.canceled
    BY <1>1, Zenon DEF Calls, ApplySteps
  <2>3. p \in {"create", "update", "ok", "delete"}
    OBVIOUS
  <2>4. /\ p = "create" => stored = NotFound /\ a.op = "apply"
        /\ p = "update" => a.op = "apply"
        /\ p = "ok" => stored = NotFound /\ a.op # "apply"
    OBVIOUS
  <2> HIDE DEF n, p
  <2>5. stored = NotFound => n.gone
    BY <1>1, <2>1, <2>2 DEF CallInv
  <2>6. n.obj <= version
    BY <1>1, <2>2 DEF CallInv
  <2>7. Unexcused(n) => n.rivals + 1 >= n.attempt
    BY <1>1, <2>1, <2>2 DEF CallInv, Unexcused
  <2>8. CallInv(n, stored, version)
    <3>1. p = "ok" => n.op # "apply" /\ n.gone
      BY <2>2, <2>4, <2>5
    <3>2. p = "create" => n.op = "apply" /\ n.gone
      BY <2>2, <2>4, <2>5
    <3>3. p = "update" => n.op = "apply" /\ n.obj = stored
      BY <2>2, <2>4
    <3>4. p = "delete" => n.op = "uninstall"
      BY <1>1, <2>2 DEF p, Calls
    <3> QED BY <2>2, <2>3, <2>5, <2>6, <2>7, <3>1, <3>2, <3>3, <3>4 DEF CallInv
  <2> QED BY <1>1, <2>1, <2>8, OwnStepSuffices, Zenon
<1>4. CASE Fault(c)
  <2> DEFINE n == [a EXCEPT !.pc = "failed", !.fault = TRUE]
  <2>1. apply' = [apply EXCEPT ![c] = n] /\ a.pc # "idle"
    BY <1>1, <1>4, Zenon DEF Fault, ObjectInv
  <2>2. n \in Calls /\ n.pc = "failed" /\ n.fault /\ n.obj = a.obj /\ n.gone = a.gone
    BY <1>1, Zenon DEF Calls, ApplySteps
  <2> HIDE DEF n
  <2>3. CallInv(n, stored, version)
    BY <1>1, <2>1, <2>2 DEF CallInv, Unexcused
  <2> QED BY <1>1, <2>1, <2>3, OwnStepSuffices, Zenon
<1>5. CASE retry(c)
  <2> DEFINE n == IF a.attempt = retryAttempts THEN [a EXCEPT !.pc = "error"]
                  ELSE [a EXCEPT !.pc = "get", !.attempt = @ + 1]
  <2>1. apply' = [apply EXCEPT ![c] = n] /\ a.pc = "failed"
    BY <1>5 DEF retry
  <2>2. a.attempt \in 0..retryAttempts /\ a.rivals \in 0..retryAttempts
    BY <1>1 DEF Calls
  <2>3. /\ n \in Calls /\ n.obj = a.obj /\ n.gone = a.gone /\ n.rivals = a.rivals
        /\ n.fault = a.fault /\ n.canceled = a.canceled
        /\ \/ n.pc = "error" /\ a.attempt = retryAttempts
           \/ n.pc = "get" /\ n.attempt = a.attempt + 1
    <3>1. CASE a.attempt = retryAttempts
      <4> DEFINE m == [a EXCEPT !.pc = "error"]
      <4>1. n = m
        BY <3>1
      <4>2. /\ m \in Calls /\ m.obj = a.obj /\ m.gone = a.gone /\ m.rivals = a.rivals
            /\ m.fault = a.fault /\ m.canceled = a.canceled /\ m.pc = "error"
        BY <1>1 DEF Calls, ApplySteps
      <4> HIDE DEF m, n
      <4> QED BY <3>1, <4>1, <4>2
    <3>2. CASE a.attempt # retryAttempts
      <4> DEFINE k == a.attempt + 1
                 m == [a EXCEPT !.pc = "get", !.attempt = k]
      <4>1. n = m /\ k \in 0..retryAttempts
        BY <1>1, <2>2, <3>2
      <4> HIDE DEF k
      <4>2. /\ m \in Calls /\ m.obj = a.obj /\ m.gone = a.gone /\ m.rivals = a.rivals
            /\ m.fault = a.fault /\ m.canceled = a.canceled /\ m.pc = "get" /\ m.attempt = k
        BY <1>1, <4>1, Zenon DEF Calls, ApplySteps
      <4> HIDE DEF m, n
      <4> QED BY <4>1, <4>2 DEF k
    <3> QED BY <3>1, <3>2
  <2> HIDE DEF n
  <2>4. CallInv(n, stored, version)
    BY <1>1, <2>1, <2>2, <2>3 DEF CallInv, Unexcused
  <2> QED BY <1>1, <2>1, <2>4, OwnStepSuffices, Zenon
<1>6. CASE Canceled(c)
  <2> DEFINE n == [a EXCEPT !.pc = "error", !.canceled = TRUE]
  <2>1. apply' = [apply EXCEPT ![c] = n] /\ a.pc = "failed"
    BY <1>1, <1>6, Zenon DEF Canceled, ObjectInv
  <2>2. n \in Calls /\ n.pc = "error" /\ n.canceled /\ n.obj = a.obj /\ n.gone = a.gone
    BY <1>1, Zenon DEF Calls, ApplySteps
  <2> HIDE DEF n
  <2>3. CallInv(n, stored, version)
    BY <1>1, <2>1, <2>2 DEF CallInv, Unexcused
  <2> QED BY <1>1, <2>1, <2>3, OwnStepSuffices, Zenon
<1>7. CASE ObjectReturn(c)
  <2>1. apply' = [apply EXCEPT ![c] = Quiet]
    BY <1>7 DEF ObjectReturn
  <2>2. Quiet \in Calls /\ Quiet.pc = "idle" /\ Quiet.obj = 0
    BY <1>1 DEF Quiet, Calls, ApplySteps
  <2>3. CallInv(Quiet, stored, version)
    <3> HIDE DEF Quiet
    <3> QED BY <1>1, <2>2 DEF CallInv
  <2> QED BY <1>1, <2>1, <2>3, OwnStepSuffices, Zenon
<1> QED BY <1>2, <1>3, <1>4, <1>5, <1>6, <1>7

\* Every step keeps the account of rivals, faults and absences.
LEMMA ObjectStep == ObjectInv /\ [ObjectNext]_objectVars => ObjectInv'
<1> SUFFICES ASSUME ObjectInv, [ObjectNext]_objectVars PROVE ObjectInv'
  OBVIOUS
<1>1. ASSUME NEW c \in Appliers, Create(c) \/ Update(c)
      PROVE  ObjectInv'
  BY <1>1, WriteStep, RefusedStep DEF Create, Update
<1>2. ASSUME NEW c \in Appliers, Delete(c)
      PROVE  ObjectInv'
  <2> DEFINE a == apply[c]
             done == [a EXCEPT !.pc = "ok", !.gone = TRUE]
             lost == [a EXCEPT !.pc = "failed", !.gone = TRUE, !.fault = TRUE]
  <2>1. /\ a \in Calls /\ a.obj <= version /\ version \in Nat /\ NotFound \in Nat
        /\ stored' = NotFound /\ version' = version
        /\ apply[c].op \in {"apply", "uninstall"} /\ apply[c].pc = "delete"
    BY <1>2 DEF ObjectInv, CallInv, Delete, NotFound, Calls
  <2>2. Noticed({c}, NotFound)[c] = a /\ c \in DOMAIN Noticed({c}, NotFound)
    BY DEF Noticed
  <2>3. \/ apply' = [Noticed({c}, NotFound) EXCEPT ![c] = done]
        \/ apply' = [Noticed({c}, NotFound) EXCEPT ![c] = lost]
    BY <1>2, <2>2, Zenon DEF Delete
  <2>4. /\ done \in Calls /\ done.pc = "ok" /\ done.gone /\ done.obj = a.obj /\ done.op = a.op
        /\ lost \in Calls /\ lost.pc = "failed" /\ lost.gone /\ lost.obj = a.obj
    BY <2>1, Zenon DEF Calls, ApplySteps
  <2>5. a.op = "uninstall"
    BY <2>1 DEF ObjectInv, CallInv
  <2> HIDE DEF done, lost
  <2>6. CallInv(done, NotFound, version) /\ CallInv(lost, NotFound, version)
    BY <2>1, <2>4, <2>5 DEF CallInv, Unexcused
  <2> QED BY <2>1, <2>3, <2>6, OwnChangeSuffices
<1>3. CASE Rival
  <2>1. PICK now2 \in Nat :
          /\ apply' = Noticed({}, now2) /\ stored' = now2 /\ version' \in Nat
          /\ \/ now2 = NotFound /\ version' = version
             \/ now2 = version + 1 /\ version' = version + 1
    BY <1>3 DEF Rival, ObjectInv, NotFound
  <2>2. /\ apply' \in [Appliers -> Calls]
        /\ \A d \in Appliers : CallInv(apply'[d], now2, version')
    BY <2>1, OthersNotice
  <2>3. now2 <= version'
    BY <2>1 DEF NotFound
  <2> QED BY <2>1, <2>2, <2>3 DEF ObjectInv
<1>4. CASE UNCHANGED objectVars
  BY <1>4 DEF objectVars, ObjectInv
<1> QED BY <1>1, <1>2, <1>3, <1>4, QuietStep DEF ObjectNext

\* Apply and Uninstall tell the truth, for any number of callers, rivals and
\* attempts: success means that the call itself wrote the version it returns, or
\* that the object was missing; and Apply gives up only when cancelled, when a
\* request failed, or when every attempt was defeated.
THEOREM ApplyTellsTheTruth == ObjectSpec => []ApplyIsTrue
<1>1. ObjectInit => ObjectInv
  <2> SUFFICES ASSUME ObjectInit PROVE ObjectInv
    OBVIOUS
  <2>1. Quiet \in Calls /\ Quiet.pc = "idle" /\ Quiet.obj = 0
    BY ObjectAssumption DEF Quiet, Calls, ApplySteps
  <2>2. \A c \in Appliers : apply[c] = Quiet
    BY DEF ObjectInit
  <2>3. apply \in [Appliers -> Calls]
    BY <2>1 DEF ObjectInit
  <2> HIDE DEF Quiet
  <2> QED BY <2>1, <2>2, <2>3 DEF ObjectInit, ObjectInv, CallInv
<1>2. ObjectInv /\ [ObjectNext]_objectVars => ObjectInv'
  BY ObjectStep
<1>3. ObjectInv => ApplyIsTrue
  BY DEF ObjectInv, CallInv, Unexcused, ApplyIsTrue
<1> QED BY <1>1, <1>2, <1>3, PTL DEF ObjectSpec

-----------------------------------------------------------------------------
(* UserCan *)

RBACSpec == RBACInit /\ [][RBACNext]_rbacVars

Checks ==
  [pc : {"idle", "lookup", "review"}, user : Users \cup {NoCall.user}, ttl : {0, TTL},
   targets : SUBSET Targets, todo : SUBSET Targets, pending : SUBSET Targets,
   access : SUBSET Targets, allowed : SUBSET Targets, denied : SUBSET Targets,
   failed : BOOLEAN]

\* Every target of a call is somewhere on its way, unless a request failed.
Accounted(a) ==
  LET parts == a.todo \cup a.pending \cup a.access \cup a.allowed \cup a.denied IN
  /\ a \in Checks
  /\ a.pc # "idle" => a.user \in Users
  /\ parts \subseteq a.targets
  /\ a.failed \/ a.targets \subseteq parts

CheckInv ==
  /\ check \in [Checkers -> Checks]
  /\ \A c \in Checkers : Accounted(check[c])

Entries == {<<>>} \cup {<<[allowed |-> a, left |-> l]>> : a \in BOOLEAN, l \in 0..TTL}

\* The answer that an entry holds is as old as the entry at most.
Fresh(e, yesAge, noAge) ==
  e # <<>> => IF e[1].allowed THEN yesAge + e[1].left <= TTL ELSE noAge + e[1].left <= TTL

AnswerInv ==
  /\ policy \in [Users -> Policies]
  /\ allowedAge \in [Pairs -> Nat] /\ deniedAge \in [Pairs -> Nat]
  /\ cacheTTL \in {0, TTL}
  /\ decisions \in [Pairs -> Entries]
  /\ \A u \in Users, t \in Targets :
       IF Granted(u, t) THEN allowedAge[<<u, t>>] = 0 ELSE deniedAge[<<u, t>>] = 0
  /\ \A p \in Pairs : Fresh(decisions[p], allowedAge[p], deniedAge[p])

RBACInv == CheckInv /\ AnswerInv

\* What an entry of the cache is.
LEMMA EntryShape ==
  ASSUME NEW e \in Entries, e # <<>>
  PROVE  e[1].allowed \in BOOLEAN /\ e[1].left \in 0..TTL
BY DEF Entries

\* The fields of an entry that storeCache makes.
LEMMA EntryMade ==
  ASSUME NEW a \in BOOLEAN, NEW l \in 0..TTL
  PROVE  /\ <<[allowed |-> a, left |-> l]>> \in Entries
         /\ <<[allowed |-> a, left |-> l]>> # <<>>
         /\ <<[allowed |-> a, left |-> l]>>[1].allowed = a
         /\ <<[allowed |-> a, left |-> l]>>[1].left = l
BY DEF Entries

\* The first target of a set that is not empty is one of it.
LEMMA FirstIsOne ==
  ASSUME NEW ts, ts # {}
  PROVE  First(ts) \in ts
BY DEF First

\* Some of a user's rules allow no more than all of them.
LEMMA FewerRulesAllowLess ==
  ASSUME NEW some, NEW all, some \subseteq all, NEW t, rulesAllowTarget(some, t)
  PROVE  rulesAllowTarget(all, t)
BY DEF rulesAllowTarget

\* A step that only changes a call, and leaves it in order, keeps the calls in order.
LEMMA OneCallChanges ==
  ASSUME CheckInv, NEW c \in Checkers, NEW n, check' = [check EXCEPT ![c] = n], Accounted(n)
  PROVE  CheckInv'
<1>1. n \in Checks
  BY DEF Accounted
<1> QED BY <1>1 DEF CheckInv

\* What a call remembers between its steps.
LEMMA ReviewKeepsCall ==
  ASSUME CheckInv, AnswerInv, NEW c \in Checkers, NEW ns,
         \/ RulesReviewFails(c, ns)
         \/ \E listed, incomplete : RulesReview(c, ns, listed, incomplete)
  PROVE  CheckInv'
<1> DEFINE a == check[c]
<1>1. Accounted(a) /\ a \in Checks
  BY DEF CheckInv, Accounted
<1>2. CASE RulesReviewFails(c, ns)
  <2> DEFINE items == Items(c, ns)
             n == [a EXCEPT !.pending = a.pending \ items, !.access = items]
  <2>1. check' = [check EXCEPT ![c] = n] /\ a.access = {} /\ a.pc = "review"
    BY <1>2, Zenon DEF RulesReviewFails, CheckInv
  <2>2. items \subseteq a.pending
    BY DEF Items
  <2> HIDE DEF items
  <2>3. items \in SUBSET Targets /\ a.pending \ items \in SUBSET Targets
    BY <1>1, <2>2 DEF Checks
  <2>4. /\ n \in Checks /\ n.pc = a.pc /\ n.user = a.user /\ n.targets = a.targets
        /\ n.todo = a.todo /\ n.pending = a.pending \ items /\ n.access = items
        /\ n.allowed = a.allowed /\ n.denied = a.denied /\ n.failed = a.failed
    BY <1>1, <2>3, Zenon DEF Checks
  <2> HIDE DEF n
  <2>5. Accounted(n)
    BY <1>1, <2>1, <2>2, <2>4 DEF Accounted
  <2> QED BY <2>1, <2>5, OneCallChanges, Zenon
<1>3. ASSUME NEW listed, NEW incomplete, RulesReview(c, ns, listed, incomplete)
      PROVE  CheckInv'
  <2> DEFINE items == Items(c, ns)
             yes == {t \in items : rulesAllowTarget(listed, t)}
             no == IF incomplete THEN {} ELSE items \ yes
             n == [a EXCEPT !.pending = a.pending \ items, !.allowed = a.allowed \cup yes,
                            !.denied = a.denied \cup no, !.access = items \ (yes \cup no)]
  <2>1. check' = [check EXCEPT ![c] = n] /\ a.access = {} /\ a.pc = "review"
    BY <1>3, Zenon DEF RulesReview, CheckInv
  <2>2. items \subseteq a.pending /\ yes \subseteq items /\ no \subseteq items
    BY DEF Items
  <2> HIDE DEF items, yes, no
  <2>3. /\ a.pending \ items \in SUBSET Targets /\ a.allowed \cup yes \in SUBSET Targets
        /\ a.denied \cup no \in SUBSET Targets /\ items \ (yes \cup no) \in SUBSET Targets
    BY <1>1, <2>2 DEF Checks
  <2>4. /\ n \in Checks /\ n.pc = a.pc /\ n.user = a.user /\ n.targets = a.targets
        /\ n.todo = a.todo /\ n.pending = a.pending \ items /\ n.access = items \ (yes \cup no)
        /\ n.allowed = a.allowed \cup yes /\ n.denied = a.denied \cup no /\ n.failed = a.failed
    BY <1>1, <2>3, Zenon DEF Checks
  <2> HIDE DEF n
  <2>5. Accounted(n)
    BY <1>1, <2>1, <2>2, <2>4 DEF Accounted
  <2> QED BY <2>1, <2>5, OneCallChanges, Zenon
<1> QED BY <1>2, <1>3

\* An access review moves its target to the answers, or marks the call as failed (rbac.go).
LEMMA AccessKeepsCall ==
  ASSUME CheckInv, NEW c \in Checkers, AccessReview(c) \/ AccessReviewFails(c)
  PROVE  CheckInv'
<1> DEFINE a == check[c]
           t == First(a.access)
           rest == a.access \ {t}
           yes == [a EXCEPT !.access = rest, !.allowed = a.allowed \cup {t}]
           no == [a EXCEPT !.access = rest, !.denied = a.denied \cup {t}]
           lost == [a EXCEPT !.access = rest, !.failed = TRUE]
<1>1. Accounted(a) /\ a \in Checks /\ a.pc = "review" /\ a.access # {}
  BY DEF CheckInv, Accounted, AccessReview, AccessReviewFails
<1>2. t \in a.access
  BY <1>1, FirstIsOne
<1>3. \/ check' = [check EXCEPT ![c] = yes]
      \/ check' = [check EXCEPT ![c] = no]
      \/ check' = [check EXCEPT ![c] = lost]
  BY Zenon DEF AccessReview, AccessReviewFails, CheckInv
<1> HIDE DEF t
<1>4. /\ rest \in SUBSET Targets /\ a.allowed \cup {t} \in SUBSET Targets
      /\ a.denied \cup {t} \in SUBSET Targets
  BY <1>1, <1>2 DEF Checks
<1> HIDE DEF rest
<1>5. /\ yes \in Checks /\ yes.pc = a.pc /\ yes.user = a.user /\ yes.targets = a.targets
      /\ yes.todo = a.todo /\ yes.pending = a.pending /\ yes.access = rest
      /\ yes.allowed = a.allowed \cup {t} /\ yes.denied = a.denied /\ yes.failed = a.failed
  BY <1>1, <1>4, Zenon DEF Checks
<1>6. /\ no \in Checks /\ no.pc = a.pc /\ no.user = a.user /\ no.targets = a.targets
      /\ no.todo = a.todo /\ no.pending = a.pending /\ no.access = rest
      /\ no.allowed = a.allowed /\ no.denied = a.denied \cup {t} /\ no.failed = a.failed
  BY <1>1, <1>4, Zenon DEF Checks
<1>7. /\ lost \in Checks /\ lost.pc = a.pc /\ lost.user = a.user /\ lost.targets = a.targets
      /\ lost.todo = a.todo /\ lost.pending = a.pending /\ lost.access = rest
      /\ lost.allowed = a.allowed /\ lost.denied = a.denied /\ lost.failed
  BY <1>1, <1>4, Zenon DEF Checks
<1> HIDE DEF yes, no, lost
<1>8. Accounted(yes)
  BY <1>1, <1>2, <1>5 DEF Accounted, rest
<1>9. Accounted(no)
  BY <1>1, <1>2, <1>6 DEF Accounted, rest
<1>10. Accounted(lost)
  BY <1>1, <1>2, <1>7 DEF Accounted, rest
<1> QED BY <1>3, <1>8, <1>9, <1>10, OneCallChanges

\* A lookup moves its target to the answers or to the pending ones (rbac.go:153-168).
LEMMA LookupKeepsCall ==
  ASSUME CheckInv, NEW c \in Checkers, Lookup(c)
  PROVE  CheckInv'
<1> DEFINE a == check[c]
           t == First(a.todo)
           rest == a.todo \ {t}
           miss == [a EXCEPT !.todo = rest, !.pending = a.pending \cup {t}]
           yes == [a EXCEPT !.todo = rest, !.allowed = a.allowed \cup {t}]
           no == [a EXCEPT !.todo = rest, !.denied = a.denied \cup {t}]
<1>1. Accounted(a) /\ a \in Checks /\ a.pc = "lookup" /\ a.todo # {}
  BY DEF CheckInv, Accounted, Lookup
<1>2. t \in a.todo
  BY <1>1, FirstIsOne
<1>3. \/ check' = [check EXCEPT ![c] = miss]
      \/ check' = [check EXCEPT ![c] = yes]
      \/ check' = [check EXCEPT ![c] = no]
  BY Zenon DEF Lookup, CheckInv
<1> HIDE DEF t
<1>4. /\ rest \in SUBSET Targets /\ a.allowed \cup {t} \in SUBSET Targets
      /\ a.denied \cup {t} \in SUBSET Targets /\ a.pending \cup {t} \in SUBSET Targets
  BY <1>1, <1>2 DEF Checks
<1> HIDE DEF rest
<1>5. /\ yes \in Checks /\ yes.pc = a.pc /\ yes.user = a.user /\ yes.targets = a.targets
      /\ yes.todo = rest /\ yes.pending = a.pending /\ yes.access = a.access
      /\ yes.allowed = a.allowed \cup {t} /\ yes.denied = a.denied /\ yes.failed = a.failed
  BY <1>1, <1>4, Zenon DEF Checks
<1>6. /\ no \in Checks /\ no.pc = a.pc /\ no.user = a.user /\ no.targets = a.targets
      /\ no.todo = rest /\ no.pending = a.pending /\ no.access = a.access
      /\ no.allowed = a.allowed /\ no.denied = a.denied \cup {t} /\ no.failed = a.failed
  BY <1>1, <1>4, Zenon DEF Checks
<1>7. /\ miss \in Checks /\ miss.pc = a.pc /\ miss.user = a.user /\ miss.targets = a.targets
      /\ miss.todo = rest /\ miss.pending = a.pending \cup {t} /\ miss.access = a.access
      /\ miss.allowed = a.allowed /\ miss.denied = a.denied /\ miss.failed = a.failed
  BY <1>1, <1>4, Zenon DEF Checks
<1> HIDE DEF yes, no, miss
<1>8. Accounted(yes)
  BY <1>1, <1>2, <1>5 DEF Accounted, rest
<1>9. Accounted(no)
  BY <1>1, <1>2, <1>6 DEF Accounted, rest
<1>10. Accounted(miss)
  BY <1>1, <1>2, <1>7 DEF Accounted, rest
<1> QED BY <1>3, <1>8, <1>9, <1>10, OneCallChanges

\* A call that has not begun.
LEMMA NoCallAccounted ==
  /\ Accounted(NoCall) /\ NoCall.pc = "idle" /\ NoCall.ttl = 0 /\ NoCall.targets = {}
  /\ NoCall.todo = {} /\ NoCall.pending = {} /\ NoCall.access = {}
  /\ NoCall.allowed = {} /\ NoCall.denied = {} /\ NoCall.failed = FALSE
<1>1. /\ NoCall.pc = "idle" /\ NoCall.ttl = 0 /\ NoCall.targets = {}
      /\ NoCall.todo = {} /\ NoCall.pending = {} /\ NoCall.access = {}
      /\ NoCall.allowed = {} /\ NoCall.denied = {} /\ NoCall.failed = FALSE
  BY DEF NoCall
<1>2. NoCall \in Checks
  <2> DEFINE nobody == CHOOSE u \in Users : TRUE
  <2>1. NoCall = [pc |-> "idle", user |-> nobody, ttl |-> 0, targets |-> {}, todo |-> {},
                  pending |-> {}, access |-> {}, allowed |-> {}, denied |-> {}, failed |-> FALSE]
    BY DEF NoCall
  <2>2. NoCall.user = nobody
    BY <2>1
  <2> HIDE DEF nobody
  <2> QED BY <2>1, <2>2 DEF Checks
<1> QED BY <1>1, <1>2 DEF Accounted

\* A call begins, builds its client and returns.
LEMMA EdgesKeepCall ==
  ASSUME CheckInv, AnswerInv, NEW c \in Checkers,
         \/ \E u \in Users, ts \in Requests : UserCan(c, u, ts)
         \/ Clientset(c)
         \/ buildUserCanResult(c)
  PROVE  CheckInv'
<1> DEFINE a == check[c]
<1>1. Accounted(a) /\ a \in Checks
  BY DEF CheckInv, Accounted
<1>2. ASSUME NEW u \in Users, NEW ts \in Requests, UserCan(c, u, ts)
      PROVE  CheckInv'
  <2> DEFINE n == [NoCall EXCEPT !.pc = "lookup", !.user = u, !.ttl = cacheTTL, !.targets = ts,
                                 !.todo = ts]
  <2>1. check' = [check EXCEPT ![c] = n]
    BY <1>2, Zenon DEF UserCan
  <2>2. ts \in SUBSET Targets /\ cacheTTL \in {0, TTL}
    BY AuthorizerAssumption DEF AnswerInv
  <2>3. NoCall \in Checks
    BY NoCallAccounted DEF Accounted
  <2>4. /\ n \in Checks /\ n.user = u /\ n.targets = ts /\ n.todo = ts
        /\ n.pending = {} /\ n.access = {} /\ n.allowed = {} /\ n.denied = {}
    <3>1. \A x \in Checks :
            LET m == [x EXCEPT !.pc = "lookup", !.user = u, !.ttl = cacheTTL, !.targets = ts,
                               !.todo = ts]
            IN  /\ m \in Checks /\ m.user = u /\ m.targets = ts /\ m.todo = ts
                /\ m.pending = x.pending /\ m.access = x.access /\ m.allowed = x.allowed
                /\ m.denied = x.denied
      BY <2>2, Zenon DEF Checks
    <3> QED BY <2>3, <3>1, NoCallAccounted, Zenon
  <2> HIDE DEF n
  <2>5. Accounted(n)
    BY <2>4 DEF Accounted
  <2> QED BY <2>1, <2>5, OneCallChanges, Zenon
<1>3. CASE Clientset(c)
  <2> DEFINE n == [a EXCEPT !.pc = "review"]
             lost == [a EXCEPT !.pending = {}, !.failed = TRUE]
  <2>1. /\ check' = [check EXCEPT ![c] = n] \/ check' = [check EXCEPT ![c] = lost]
        /\ a.pc = "lookup"
    BY <1>3, Zenon DEF Clientset, CheckInv
  <2>2. /\ n \in Checks /\ n.user = a.user /\ n.targets = a.targets
        /\ n.todo = a.todo /\ n.pending = a.pending /\ n.access = a.access
        /\ n.allowed = a.allowed /\ n.denied = a.denied /\ n.failed = a.failed
    BY <1>1 DEF Checks
  <2>3. /\ lost \in Checks /\ lost.user = a.user /\ lost.targets = a.targets
        /\ lost.todo = a.todo /\ lost.pending = {} /\ lost.access = a.access
        /\ lost.allowed = a.allowed /\ lost.denied = a.denied /\ lost.failed
    BY <1>1, Zenon DEF Checks
  <2> HIDE DEF n, lost
  <2>4. Accounted(n) /\ Accounted(lost)
    BY <1>1, <2>1, <2>2, <2>3 DEF Accounted
  <2> QED BY <2>1, <2>4, OneCallChanges
<1>4. CASE buildUserCanResult(c)
  BY <1>4, NoCallAccounted, OneCallChanges, Zenon DEF buildUserCanResult
<1> QED BY <1>2, <1>3, <1>4

\* Answers stored as soon as the API server gave them are fresh.
LEMMA StoredFresh ==
  ASSUME RBACInv, NEW c \in Checkers, check[c].user \in Users,
         NEW yes \in SUBSET Targets, NEW no \in SUBSET Targets,
         \A t \in yes : allowedAge[<<check[c].user, t>>] = 0,
         \A t \in no : deniedAge[<<check[c].user, t>>] = 0,
         storeCache(c, yes, no), UNCHANGED environment
  PROVE  AnswerInv'
<1> DEFINE u == check[c].user
           keys(ts) == {newUserCanCacheKey(u, t) : t \in ts}
           l == check[c].ttl
           stored1(k) == <<[allowed |-> k \in keys(yes), left |-> l]>>
<1>1. l \in 0..TTL /\ TTL \in Nat /\ decisions \in [Pairs -> Entries]
  BY AuthorizerAssumption DEF RBACInv, CheckInv, Checks, AnswerInv
<1>2. \A k \in Pairs : Fresh(decisions[k], allowedAge[k], deniedAge[k])
  BY DEF RBACInv, AnswerInv
<1>3. CASE l = 0
  <2>1. decisions' = decisions
    BY <1>3 DEF storeCache
  <2> QED BY <2>1 DEF RBACInv, AnswerInv, environment, Granted
<1>4. CASE l # 0
  <2>1. decisions' = [k \in Pairs |->
                        IF k \in keys(yes) \cup keys(no) THEN stored1(k) ELSE decisions[k]]
    BY <1>4 DEF storeCache, userCanCacheKey, Pairs
  <2>2. ASSUME NEW k \in Pairs
        PROVE  decisions'[k] \in Entries /\ Fresh(decisions'[k], allowedAge[k], deniedAge[k])
    <3>1. CASE k \in keys(yes) \cup keys(no)
      <4> DEFINE b == k \in keys(yes)
      <4>1. decisions'[k] = <<[allowed |-> b, left |-> l]>> /\ b \in BOOLEAN
        BY <2>1, <3>1
      <4>2. b => allowedAge[k] = 0
        BY DEF newUserCanCacheKey
      <4>3. ~b => deniedAge[k] = 0
        BY Zenon, <3>1 DEF newUserCanCacheKey
      <4> HIDE DEF b, l
      <4>4. /\ decisions'[k] \in Entries /\ decisions'[k][1].allowed = b
            /\ decisions'[k][1].left = l
        BY <1>1, <4>1, EntryMade
      <4>5. b => allowedAge[k] + l <= TTL
        BY <1>1, <4>2
      <4>6. ~b => deniedAge[k] + l <= TTL
        BY <1>1, <4>3
      <4> QED BY <4>1, <4>4, <4>5, <4>6 DEF Fresh
    <3>2. CASE k \notin keys(yes) \cup keys(no)
      <4>1. decisions'[k] = decisions[k]
        BY <2>1, <3>2
      <4> QED BY <1>1, <1>2, <4>1
    <3> QED BY <3>1, <3>2
  <2>3. decisions' \in [Pairs -> Entries]
    <3>1. decisions' = [k \in Pairs |-> decisions'[k]]
      BY <2>1
    <3> QED BY <2>2, <3>1
  <2> QED BY <2>2, <2>3 DEF RBACInv, AnswerInv, environment, Granted
<1> QED BY <1>3, <1>4

\* A review decides by the rules that hold when it is answered.
LEMMA ReviewFresh ==
  ASSUME RBACInv, NEW c \in Checkers,
         ReviewSteps(c) \/ AccessReview(c)
  PROVE  AnswerInv'
<1> DEFINE a == check[c]
           u == a.user
<1>1. Accounted(a) /\ a \in Checks
  BY DEF RBACInv, CheckInv
<1>2. a.pc = "review"
  BY Zenon DEF ReviewSteps, AccessReview, RulesReviewFails, RulesReview
<1>3. u \in Users
  BY <1>1, <1>2 DEF Accounted
<1>4. \A t \in Targets : IF Granted(u, t) THEN allowedAge[<<u, t>>] = 0 ELSE deniedAge[<<u, t>>] = 0
  BY <1>3 DEF RBACInv, AnswerInv
<1>5. CASE AccessReview(c)
  <2> DEFINE t == First(a.access)
  <2>1. a.access # {} /\ UNCHANGED environment
    BY <1>5 DEF AccessReview
  <2>2. t \in Targets
    BY <1>1, <2>1, FirstIsOne DEF Checks
  <2>3. \/ Granted(u, t) /\ storeCache(c, {t}, {})
        \/ ~Granted(u, t) /\ storeCache(c, {}, {t})
    BY <1>5 DEF AccessReview
  <2> HIDE DEF t
  <2>4. {} \in SUBSET Targets /\ {t} \in SUBSET Targets
    BY <2>2
  <2>5. CASE Granted(u, t) /\ storeCache(c, {t}, {})
    <3>1. \A x \in {t} : allowedAge[<<u, x>>] = 0
      BY <1>4, <2>2, <2>5
    <3> QED BY <1>3, <2>1, <2>4, <2>5, <3>1, StoredFresh
  <2>6. CASE ~Granted(u, t) /\ storeCache(c, {}, {t})
    <3>1. \A x \in {t} : deniedAge[<<u, x>>] = 0
      BY <1>4, <2>2, <2>6
    <3> QED BY <1>3, <2>1, <2>4, <2>6, <3>1, StoredFresh
  <2> QED BY <2>3, <2>5, <2>6
<1>6. ASSUME NEW ns, RulesReviewFails(c, ns)
      PROVE  AnswerInv'
  BY <1>6 DEF RulesReviewFails, RBACInv, AnswerInv, environment, Granted
<1>7. ASSUME NEW ns, NEW listed \in SUBSET policy[u], NEW incomplete \in BOOLEAN,
             RulesReview(c, ns, listed, incomplete), incomplete \/ listed = policy[u]
      PROVE  AnswerInv'
  <2> DEFINE items == Items(c, ns)
             yes == {t \in items : rulesAllowTarget(listed, t)}
             no == IF incomplete THEN {} ELSE items \ yes
  <2>1. storeCache(c, yes, no) /\ UNCHANGED environment
    BY <1>7, Zenon DEF RulesReview
  <2>2. items \in SUBSET Targets
    BY <1>1 DEF Items, Checks
  <2>3. yes \in SUBSET Targets /\ no \in SUBSET Targets
    BY <2>2
  <2>4. \A t \in yes : allowedAge[<<u, t>>] = 0
    <3> SUFFICES ASSUME NEW t \in yes PROVE allowedAge[<<u, t>>] = 0
      OBVIOUS
    <3>1. rulesAllowTarget(listed, t) /\ t \in Targets
      BY <2>2
    <3>2. Granted(u, t)
      BY <3>1, FewerRulesAllowLess DEF Granted
    <3> QED BY <1>4, <3>1, <3>2
  <2>5. \A t \in no : deniedAge[<<u, t>>] = 0
    <3> SUFFICES ASSUME NEW t \in no PROVE deniedAge[<<u, t>>] = 0
      OBVIOUS
    <3>1. ~incomplete /\ ~rulesAllowTarget(listed, t) /\ t \in Targets
      BY <2>2
    <3>2. ~Granted(u, t)
      BY <1>7, <3>1 DEF Granted
    <3> QED BY <1>4, <3>1, <3>2
  <2> HIDE DEF yes, no
  <2> QED BY <1>3, <2>1, <2>3, <2>4, <2>5, StoredFresh
<1>8. CASE ReviewSteps(c)
  <2>1. PICK ns : \/ RulesReviewFails(c, ns)
                  \/ RulesReview(c, ns, policy[u], FALSE)
                  \/ \E listed \in SUBSET policy[u] : RulesReview(c, ns, listed, TRUE)
    BY <1>8, Zenon DEF ReviewSteps
  <2>2. policy[u] \in SUBSET policy[u] /\ TRUE \in BOOLEAN /\ FALSE \in BOOLEAN
    OBVIOUS
  <2> QED BY <1>6, <1>7, <2>1, <2>2, Zenon
<1> QED BY <1>5, <1>8

\* New rules, the clock, an eviction and a new TTL keep every entry fresh.
LEMMA EnvironmentFresh ==
  ASSUME RBACInv,
         \/ \E u \in Users, rules \in Policies : Regrant(u, rules)
         \/ \E k \in userCanCacheKey : Evict(k)
         \/ \E ttl \in {0, TTL} : SetCacheTTL(ttl)
         \/ RBACTick
  PROVE  AnswerInv'
<1>1. /\ TTL \in Nat /\ <<>> \in Entries
      /\ policy \in [Users -> Policies] /\ cacheTTL \in {0, TTL}
      /\ allowedAge \in [Pairs -> Nat] /\ deniedAge \in [Pairs -> Nat]
      /\ decisions \in [Pairs -> Entries]
      /\ \A x, y : Fresh(<<>>, x, y)
  BY AuthorizerAssumption DEF RBACInv, AnswerInv, Entries, Fresh
<1>2. \A p \in Pairs : Fresh(decisions[p], allowedAge[p], deniedAge[p])
  BY DEF RBACInv, AnswerInv
<1>3. \A u \in Users, t \in Targets :
        IF Granted(u, t) THEN allowedAge[<<u, t>>] = 0 ELSE deniedAge[<<u, t>>] = 0
  BY Zenon DEF RBACInv, AnswerInv
<1>4. ASSUME NEW u \in Users, NEW rules \in Policies, Regrant(u, rules)
      PROVE  AnswerInv'
  <2>1. /\ policy' = [policy EXCEPT ![u] = rules] /\ UNCHANGED <<cacheTTL, decisions>>
        /\ allowedAge' = [p \in Pairs |-> IF p[1] = u /\ rulesAllowTarget(rules, p[2])
                                          THEN 0 ELSE allowedAge[p]]
        /\ deniedAge' = [p \in Pairs |-> IF p[1] = u /\ ~rulesAllowTarget(rules, p[2])
                                         THEN 0 ELSE deniedAge[p]]
    BY <1>4 DEF Regrant
  <2>2. policy' \in [Users -> Policies]
    BY <1>1, <2>1
  <2>3. allowedAge' \in [Pairs -> Nat] /\ deniedAge' \in [Pairs -> Nat]
    BY <1>1, <2>1
  <2>4. ASSUME NEW w \in Users, NEW t \in Targets
        PROVE  IF Granted(w, t)' THEN allowedAge'[<<w, t>>] = 0 ELSE deniedAge'[<<w, t>>] = 0
    <3>1. <<w, t>> \in Pairs /\ <<w, t>>[1] = w /\ <<w, t>>[2] = t
      BY DEF Pairs
    <3>2. CASE w = u
      <4>1. Granted(w, t)' <=> rulesAllowTarget(rules, t)
        BY <1>1, <2>1, <3>2 DEF Granted
      <4> QED BY <2>1, <3>1, <3>2, <4>1
    <3>3. CASE w # u
      <4>1. Granted(w, t)' <=> Granted(w, t)
        BY <1>1, <2>1, <3>3 DEF Granted
      <4> QED BY <1>3, <2>1, <3>1, <3>3, <4>1
    <3> QED BY <3>2, <3>3
  <2>5. ASSUME NEW p \in Pairs
        PROVE  Fresh(decisions'[p], allowedAge'[p], deniedAge'[p])
    <3>1. allowedAge'[p] \in Nat /\ allowedAge'[p] <= allowedAge[p] /\ allowedAge[p] \in Nat
      BY <1>1, <2>1
    <3>2. deniedAge'[p] \in Nat /\ deniedAge'[p] <= deniedAge[p] /\ deniedAge[p] \in Nat
      BY <1>1, <2>1
    <3>3. decisions[p] # <<>> => decisions[p][1].left \in Nat
      BY <1>1, EntryShape
    <3> QED BY <1>1, <1>2, <2>1, <3>1, <3>2, <3>3 DEF Fresh
  <2> QED BY <1>1, <2>1, <2>2, <2>3, <2>4, <2>5, Zenon DEF AnswerInv
<1>5. ASSUME NEW k \in userCanCacheKey, Evict(k)
      PROVE  AnswerInv'
  BY <1>1, <1>2, <1>3, <1>5, Zenon DEF Evict, AnswerInv, Granted
<1>6. ASSUME NEW ttl \in {0, TTL}, SetCacheTTL(ttl)
      PROVE  AnswerInv'
  <2>1. UNCHANGED <<policy, allowedAge, deniedAge>> /\ cacheTTL' \in {0, TTL}
    BY <1>6 DEF SetCacheTTL
  <2>2. decisions' = decisions \/ decisions' = [k \in Pairs |-> <<>>]
    BY <1>6 DEF SetCacheTTL, userCanCacheKey, Pairs
  <2> QED BY <1>1, <1>2, <1>3, <2>1, <2>2 DEF AnswerInv, Granted
<1>7. CASE RBACTick
  <2> DEFINE older(age) == IF age > TTL THEN age ELSE age + 1
             aged(e) == IF e = <<>> \/ e[1].left = 0 THEN <<>>
                        ELSE <<[e[1] EXCEPT !.left = e[1].left - 1]>>
  <2>1. /\ UNCHANGED <<policy, cacheTTL>>
        /\ allowedAge' = [p \in Pairs |-> IF Granted(p[1], p[2]) THEN 0 ELSE older(allowedAge[p])]
        /\ deniedAge' = [p \in Pairs |-> IF Granted(p[1], p[2]) THEN older(deniedAge[p]) ELSE 0]
        /\ decisions' = [k \in Pairs |-> aged(decisions[k])]
    BY <1>7 DEF RBACTick, userCanCacheKey, Pairs
  <2>2. allowedAge' \in [Pairs -> Nat] /\ deniedAge' \in [Pairs -> Nat]
    BY <1>1, <2>1
  <2>3. \A u \in Users, t \in Targets :
          IF Granted(u, t)' THEN allowedAge'[<<u, t>>] = 0 ELSE deniedAge'[<<u, t>>] = 0
    BY <2>1 DEF Granted, Pairs
  <2>4. ASSUME NEW p \in Pairs
        PROVE  decisions'[p] \in Entries /\ Fresh(decisions'[p], allowedAge'[p], deniedAge'[p])
    <3> DEFINE e == decisions[p]
               b == e[1].allowed
               l == e[1].left
               m == l - 1
    <3>1. decisions'[p] = aged(e) /\ e \in Entries
      BY <1>1, <2>1
    <3>2. CASE e = <<>> \/ l = 0
      BY <1>1, <3>1, <3>2
    <3>3. CASE e # <<>> /\ l # 0
      <4>1. b \in BOOLEAN /\ l \in 0..TTL
        BY <3>1, <3>3, EntryShape
      <4>2. m \in 0..TTL
        BY <1>1, <3>3, <4>1
      <4>3. aged(e) = <<[allowed |-> b, left |-> m]>>
        <5>1. PICK x \in BOOLEAN, y \in 0..TTL : e = <<[allowed |-> x, left |-> y]>>
          BY <3>1, <3>3 DEF Entries
        <5>2. e[1] = [allowed |-> x, left |-> y]
          BY <5>1
        <5> QED BY <3>3, <5>2
      <4>4. /\ decisions'[p] \in Entries /\ decisions'[p][1].allowed = b
            /\ decisions'[p][1].left = m
        <5> HIDE DEF b, m, e, aged
        <5> QED BY <3>1, <4>1, <4>2, <4>3, EntryMade
      <4>5. allowedAge[p] \in Nat /\ deniedAge[p] \in Nat
        BY <1>1
      <4>6. b => allowedAge'[p] + m <= TTL
        <5>1. b => allowedAge[p] + l <= TTL
          BY <1>2, <3>3 DEF Fresh
        <5>2. allowedAge'[p] \in {0, allowedAge[p] + 1, allowedAge[p]}
          BY <2>1
        <5> QED BY <1>1, <3>3, <4>1, <4>5, <5>1, <5>2
      <4>7. ~b => deniedAge'[p] + m <= TTL
        <5>1. ~b => deniedAge[p] + l <= TTL
          BY <1>2, <3>3 DEF Fresh
        <5>2. deniedAge'[p] \in {0, deniedAge[p] + 1, deniedAge[p]}
          BY <2>1
        <5> QED BY <1>1, <3>3, <4>1, <4>5, <5>1, <5>2
      <4> HIDE DEF b, m
      <4> QED BY <4>1, <4>4, <4>6, <4>7 DEF Fresh
    <3> QED BY <3>2, <3>3
  <2>5. decisions' \in [Pairs -> Entries]
    <3>1. decisions' = [k \in Pairs |-> decisions'[k]]
      BY <2>1
    <3> QED BY <2>4, <3>1
  <2> QED BY <1>1, <2>1, <2>2, <2>3, <2>4, <2>5, Zenon DEF AnswerInv
<1> QED BY <1>4, <1>5, <1>6, <1>7

\* The steps of a call, and those of everything else.
CallStep(c) ==
  \/ \E u \in Users, ts \in Requests : UserCan(c, u, ts)
  \/ Lookup(c) \/ AccessReview(c) \/ AccessReviewFails(c)
  \/ Clientset(c) \/ ReviewSteps(c) \/ buildUserCanResult(c)

EnvironmentStep ==
  \/ \E u \in Users, rules \in Policies : Regrant(u, rules)
  \/ \E k \in userCanCacheKey : Evict(k)
  \/ \E ttl \in {0, TTL} : SetCacheTTL(ttl)
  \/ RBACTick

\* Every step keeps RBACInv.
LEMMA RBACStep == RBACInv /\ [RBACNext]_rbacVars => RBACInv'
<1> SUFFICES ASSUME RBACInv, [RBACNext]_rbacVars PROVE RBACInv'
  OBVIOUS
<1>1. CASE UNCHANGED rbacVars
  BY <1>1 DEF rbacVars, RBACInv, CheckInv, AnswerInv, Granted
<1>2. CASE EnvironmentStep
  <2>1. check' = check
    BY <1>2 DEF EnvironmentStep, Regrant, Evict, SetCacheTTL, RBACTick
  <2>2. CheckInv'
    BY <2>1 DEF RBACInv, CheckInv
  <2> QED BY <1>2, <2>2, EnvironmentFresh DEF RBACInv, EnvironmentStep
<1>3. ASSUME NEW c \in Checkers, CallStep(c)
      PROVE  RBACInv'
  <2>1. CASE ReviewSteps(c)
    <3>1. PICK ns : \/ RulesReviewFails(c, ns)
                    \/ RulesReview(c, ns, policy[check[c].user], FALSE)
                    \/ \E listed \in SUBSET policy[check[c].user] : RulesReview(c, ns, listed, TRUE)
      BY <2>1, Zenon DEF ReviewSteps
    <3>2. CheckInv'
      BY <3>1, ReviewKeepsCall, Zenon DEF RBACInv
    <3> QED BY <2>1, <3>2, ReviewFresh DEF RBACInv
  <2>2. CASE AccessReview(c)
    BY <2>2, AccessKeepsCall, ReviewFresh DEF RBACInv
  <2>3. CASE ~ReviewSteps(c) /\ ~AccessReview(c)
    <3>1. UNCHANGED <<environment, decisions>>
      BY <1>3, <2>3, Zenon DEF CallStep, UserCan, Lookup, AccessReviewFails, Clientset,
                        buildUserCanResult
    <3>2. AnswerInv'
      BY <3>1 DEF RBACInv, AnswerInv, environment, Granted
    <3>3. CheckInv'
      BY <1>3, <2>3, AccessKeepsCall, LookupKeepsCall, EdgesKeepCall DEF RBACInv, CallStep
    <3> QED BY <3>2, <3>3 DEF RBACInv
  <2> QED BY <2>1, <2>2, <2>3
<1> QED BY <1>1, <1>2, <1>3 DEF RBACNext, CallStep, EnvironmentStep

\* A call that has finished has answered every target, or a request failed.
LEMMA FinishedAnswered ==
  ASSUME CheckInv, NEW c \in Checkers, Finished(c)
  PROVE  check[c].failed \/ check[c].targets = check[c].allowed \cup check[c].denied
BY Zenon DEF CheckInv, Accounted, Finished

\* The answers that a step adds are of the last TTL.
LEMMA AddedAreRecent ==
  ASSUME RBACInv, NEW c \in Checkers, CallStep(c)
  PROVE  /\ \A t \in check'[c].allowed \ check[c].allowed : allowedAge[<<check[c].user, t>>] <= TTL
         /\ \A t \in check'[c].denied \ check[c].denied : deniedAge[<<check[c].user, t>>] <= TTL
<1> DEFINE a == check[c]
           u == a.user
<1>1. Accounted(a) /\ a \in Checks /\ TTL \in Nat /\ check \in [Checkers -> Checks]
  BY AuthorizerAssumption DEF RBACInv, CheckInv
<1>2. a.pc # "idle" => u \in Users
  BY <1>1 DEF Accounted
<1>3. u \in Users => \A t \in Targets :
        IF Granted(u, t) THEN allowedAge[<<u, t>>] = 0 ELSE deniedAge[<<u, t>>] = 0
  BY DEF RBACInv, AnswerInv
<1>4. CASE \/ \E w \in Users, ts \in Requests : UserCan(c, w, ts)
           \/ buildUserCanResult(c)
  <2>1. check'[c].allowed = {} /\ check'[c].denied = {}
    <3>1. CASE buildUserCanResult(c)
      BY <1>1, <3>1, NoCallAccounted DEF buildUserCanResult
    <3>2. ASSUME NEW w \in Users, NEW ts \in Requests, UserCan(c, w, ts)
          PROVE  check'[c].allowed = {} /\ check'[c].denied = {}
      <4> DEFINE n == [NoCall EXCEPT !.pc = "lookup", !.user = w, !.ttl = cacheTTL,
                                     !.targets = ts, !.todo = ts]
      <4>1. check'[c] = n
        BY <1>1, <3>2 DEF UserCan
      <4>2. n.allowed = {} /\ n.denied = {}
        BY DEF NoCall
      <4> QED BY <4>1, <4>2
    <3> QED BY <1>4, <3>1, <3>2
  <2> QED BY <2>1
<1>5. CASE Clientset(c) \/ AccessReviewFails(c) \/ \E ns : RulesReviewFails(c, ns)
  <2>1. check'[c].allowed = a.allowed /\ check'[c].denied = a.denied
    <3>1. CASE Clientset(c)
      BY <1>1, <3>1 DEF Clientset, Checks
    <3>2. CASE AccessReviewFails(c)
      BY <1>1, <3>2 DEF AccessReviewFails, Checks
    <3>3. ASSUME NEW ns, RulesReviewFails(c, ns)
          PROVE  check'[c].allowed = a.allowed /\ check'[c].denied = a.denied
      BY Zenon, <1>1, <3>3 DEF RulesReviewFails, Checks
    <3> QED BY <1>5, <3>1, <3>2, <3>3
  <2> QED BY <2>1
<1>6. CASE Lookup(c)
  <2> DEFINE t == First(a.todo)
             k == <<u, t>>
             e == decisions[k]
  <2>1. a.todo # {} /\ a.pc = "lookup"
    BY <1>6 DEF Lookup
  <2>2. t \in Targets /\ u \in Users
    BY <1>1, <1>2, <2>1, FirstIsOne DEF Checks
  <2>3. k \in Pairs
    BY <2>2 DEF Pairs
  <2>4. /\ Fresh(e, allowedAge[k], deniedAge[k]) /\ e \in Entries
        /\ allowedAge[k] \in Nat /\ deniedAge[k] \in Nat
    BY <2>3 DEF RBACInv, AnswerInv
  <2>5. /\ \/ check'[c].allowed = a.allowed
           \/ check'[c].allowed = a.allowed \cup {t} /\ e # <<>> /\ e[1].allowed
        /\ \/ check'[c].denied = a.denied
           \/ check'[c].denied = a.denied \cup {t} /\ e # <<>> /\ ~e[1].allowed
    <3> DEFINE rest == a.todo \ {t}
               miss == [a EXCEPT !.todo = rest, !.pending = a.pending \cup {t}]
               yes == [a EXCEPT !.todo = rest, !.allowed = a.allowed \cup {t}]
               no == [a EXCEPT !.todo = rest, !.denied = a.denied \cup {t}]
    <3>1. \/ check' = [check EXCEPT ![c] = miss]
          \/ check' = [check EXCEPT ![c] = yes] /\ e # <<>> /\ e[1].allowed
          \/ check' = [check EXCEPT ![c] = no] /\ e # <<>> /\ ~e[1].allowed
      BY <1>1, <1>6, Zenon DEF Lookup, newUserCanCacheKey
    <3>2. /\ miss.allowed = a.allowed /\ miss.denied = a.denied
          /\ yes.allowed = a.allowed \cup {t} /\ yes.denied = a.denied
          /\ no.allowed = a.allowed /\ no.denied = a.denied \cup {t}
      BY Zenon, <1>1 DEF Checks
    <3> DEFINE hit == e # <<>> /\ e[1].allowed
               refusal == e # <<>> /\ ~e[1].allowed
    <3>3. \/ check'[c] = miss
          \/ check'[c] = yes /\ hit
          \/ check'[c] = no /\ refusal
      <4> HIDE DEF miss, yes, no, hit, refusal
      <4> QED BY Zenon, <1>1, <3>1 DEF hit, refusal
    <3> HIDE DEF miss, yes, no
    <3> QED BY <3>2, <3>3, Zenon
  <2>6. e # <<>> => IF e[1].allowed THEN allowedAge[k] <= TTL ELSE deniedAge[k] <= TTL
    <3> SUFFICES ASSUME e # <<>>
                 PROVE  IF e[1].allowed THEN allowedAge[k] <= TTL ELSE deniedAge[k] <= TTL
      OBVIOUS
    <3>1. e[1].left \in 0..TTL
      BY Zenon, <2>4, EntryShape
    <3> QED BY <1>1, <2>4, <3>1 DEF Fresh
  <2> QED BY <2>5, <2>6
<1>7. CASE AccessReview(c)
  <2> DEFINE t == First(a.access)
  <2>1. a.access # {} /\ a.pc = "review"
    BY <1>7 DEF AccessReview
  <2>2. t \in Targets /\ u \in Users
    BY <1>1, <1>2, <2>1, FirstIsOne DEF Checks
  <2>3. \/ /\ Granted(u, t) /\ check'[c].allowed = a.allowed \cup {t}
           /\ check'[c].denied = a.denied
        \/ /\ ~Granted(u, t) /\ check'[c].denied = a.denied \cup {t}
           /\ check'[c].allowed = a.allowed
    BY <1>1, <1>7 DEF AccessReview, Checks
  <2> QED BY <1>1, <1>3, <2>2, <2>3
<1>8. ASSUME NEW ns, NEW listed \in SUBSET policy[u], NEW incomplete \in BOOLEAN,
             RulesReview(c, ns, listed, incomplete), incomplete \/ listed = policy[u]
      PROVE  /\ \A t \in check'[c].allowed \ a.allowed : allowedAge[<<u, t>>] <= TTL
             /\ \A t \in check'[c].denied \ a.denied : deniedAge[<<u, t>>] <= TTL
  <2> DEFINE items == Items(c, ns)
             yes == {t \in items : rulesAllowTarget(listed, t)}
             no == IF incomplete THEN {} ELSE items \ yes
  <2>1. check'[c].allowed = a.allowed \cup yes /\ check'[c].denied = a.denied \cup no
    BY <1>1, <1>8, Zenon DEF RulesReview, Checks
  <2>2. items \subseteq Targets
    BY <1>1 DEF Items, Checks
  <2>3. u \in Users
    BY <1>2, <1>8, Zenon DEF RulesReview
  <2>4. ASSUME NEW t \in yes PROVE allowedAge[<<u, t>>] = 0
    <3>1. rulesAllowTarget(listed, t) /\ t \in Targets
      BY <2>2
    <3>2. Granted(u, t)
      BY <3>1, FewerRulesAllowLess DEF Granted
    <3> QED BY <1>3, <2>3, <3>1, <3>2
  <2>5. ASSUME NEW t \in no PROVE deniedAge[<<u, t>>] = 0
    <3>1. ~incomplete /\ ~rulesAllowTarget(listed, t) /\ t \in Targets
      BY <2>2
    <3>2. ~Granted(u, t)
      BY <1>8, <3>1 DEF Granted
    <3> QED BY <1>3, <2>3, <3>1, <3>2
  <2> HIDE DEF yes, no
  <2> QED BY <1>1, <2>1, <2>4, <2>5
<1>9. CASE ReviewSteps(c)
  <2>1. PICK ns : \/ RulesReviewFails(c, ns)
                  \/ RulesReview(c, ns, policy[u], FALSE)
                  \/ \E listed \in SUBSET policy[u] : RulesReview(c, ns, listed, TRUE)
    BY <1>9, Zenon DEF ReviewSteps
  <2>2. policy[u] \in SUBSET policy[u] /\ TRUE \in BOOLEAN /\ FALSE \in BOOLEAN
    OBVIOUS
  <2> QED BY <1>5, <1>8, <2>1, <2>2, Zenon
<1> QED BY Zenon, <1>4, <1>5, <1>6, <1>7, <1>9 DEF CallStep

\* UserCan answers what the API server answered for the same user and target at
\* most one TTL ago, for any number of calls, users, targets and rules, however
\* they interleave with new rules, evictions and changes of the TTL; and it
\* leaves a target unanswered only when a request of the call failed.
THEOREM UserCanIsReal == RBACSpec => AnswersAreReal
<1>1. RBACInit => RBACInv
  <2> SUFFICES ASSUME RBACInit PROVE RBACInv
    OBVIOUS
  <2>1. NoCall \in Checks /\ Accounted(NoCall)
    BY NoCallAccounted DEF Accounted
  <2>2. CheckInv
    BY <2>1 DEF RBACInit, CheckInv
  <2>3. TTL \in Nat /\ <<>> \in Entries
    BY AuthorizerAssumption DEF Entries
  <2>4. decisions \in [Pairs -> Entries] /\ \A p \in Pairs : decisions[p] = <<>>
    <3>1. decisions = [k \in Pairs |-> <<>>]
      BY DEF RBACInit, userCanCacheKey, Pairs
    <3> QED BY <2>3, <3>1
  <2>5. allowedAge \in [Pairs -> Nat] /\ deniedAge \in [Pairs -> Nat]
    BY <2>3 DEF RBACInit
  <2>6. \A u \in Users, t \in Targets :
          IF Granted(u, t) THEN allowedAge[<<u, t>>] = 0 ELSE deniedAge[<<u, t>>] = 0
    BY DEF RBACInit, Pairs
  <2>7. AnswerInv
    BY <2>4, <2>5, <2>6 DEF RBACInit, AnswerInv, Fresh
  <2> QED BY <2>2, <2>7 DEF RBACInv
<1>2. RBACInv /\ [RBACNext]_rbacVars => RBACInv'
  BY RBACStep
<1>3. RBACInv /\ [RBACNext]_rbacVars => [\A c \in Checkers : RealAnswers(c)]_rbacVars
  <2> SUFFICES ASSUME RBACInv, RBACNext PROVE \A c \in Checkers : RealAnswers(c)
    OBVIOUS
  <2> SUFFICES ASSUME NEW c \in Checkers PROVE RealAnswers(c)
    OBVIOUS
  <2>1. Finished(c) =>
          check[c].failed \/ check[c].targets = check[c].allowed \cup check[c].denied
    BY FinishedAnswered DEF RBACInv
  <2>2. CASE CallStep(c)
    BY <2>1, <2>2, AddedAreRecent DEF RealAnswers
  <2>3. CASE ~CallStep(c)
    <3>1. check'[c] = check[c]
      <4>1. PICK d : EnvironmentStep \/ (d \in Checkers /\ d # c /\ CallStep(d))
        BY <2>3 DEF RBACNext, CallStep, EnvironmentStep
      <4>2. CASE EnvironmentStep
        BY <4>2 DEF EnvironmentStep, Regrant, Evict, SetCacheTTL, RBACTick
      <4>3. CASE d \in Checkers /\ d # c /\ CallStep(d)
        <5>1. check \in [Checkers -> Checks]
          BY DEF RBACInv, CheckInv
        <5> QED BY <4>3, <5>1, Zenon DEF CallStep, UserCan, Lookup, AccessReview, AccessReviewFails,
                    Clientset, ReviewSteps, RulesReviewFails, RulesReview, buildUserCanResult
      <4> QED BY <4>1, <4>2, <4>3
    <3> QED BY <2>1, <3>1 DEF RealAnswers
  <2> QED BY <2>2, <2>3
<1> QED BY <1>1, <1>2, <1>3, PTL DEF RBACSpec, AnswersAreReal

-----------------------------------------------------------------------------
(* A sign-up that no other one overlaps stores a certificate of its own key, for any number of *)
(* processes and keys. The invariant follows the certificate request through the steps of a    *)
(* sign-up that is alone: until it has made its own request, a request it finds is nobody's    *)
(* to delete but its own; from then on the request with the user's name is the one it made.    *)

SignUpSpec == SignUpInit /\ [][SignUpNext]_signUpVars

\* The shapes of the records. K is some set that holds the keys in use: that a fresh key can be
\* found in Keys plays no part in the argument.
Records(K) == [pc : Steps, key : K, cert : K, alone : BOOLEAN, faulty : BOOLEAN]
Requested(K) == [key : K, approved : BOOLEAN, certified : BOOLEAN, going : BOOLEAN]
Shaped(K) ==
  /\ NoKey \in K /\ signup \in [Signers -> Records(K)]
  /\ csr # <<>> => csr = <<csr[1]>> /\ csr[1] \in Requested(K)

Alone(s) == Active(s) /\ signup[s].alone

\* What a sign-up that is alone can rely on, at each of its steps.
Undisturbed(s) == Alone(s) =>
  /\ \A o \in Signers \ {s} : ~Active(o)
  /\ signup[s].pc = "create" /\ csr # <<>> => ~csr[1].going
  /\ signup[s].pc = "delete" => csr # <<>> /\ ~csr[1].going
  /\ signup[s].pc = "recreate" => csr = <<>>
  /\ signup[s].pc \in {"approve", "wait", "fetch"} =>
       csr # <<>> /\ csr[1].key = signup[s].key /\ ~csr[1].going
  /\ signup[s].pc = "fetch" => csr[1].certified
  /\ signup[s].pc \in {"store", "update"} => signup[s].cert = signup[s].key

Excused(s) == signup[s].pc = "failed" /\ signup[s].alone => signup[s].faulty
StoredFits == secret # <<>> /\ secret[1].alone => secret[1].fits
SignedSound == StoredFits /\ \A s \in Signers : Undisturbed(s) /\ Excused(s)
SignUpInv == SignedSound /\ \E K : Shaped(K)

\* A sign-up that goes on to another step changes nothing else of its own or of the others.
LEMMA Goes ==
  ASSUME NEW K, Shaped(K), NEW s \in Signers, NEW pc \in Steps, GotoStep(s, pc)
  PROVE  /\ signup' \in [Signers -> Records(K)]
         /\ \A o \in Signers \ {s} : signup'[o] = signup[o]
         /\ signup'[s].pc = pc /\ signup'[s].key = signup[s].key /\ signup'[s].cert = signup[s].cert
         /\ signup'[s].alone = signup[s].alone /\ signup'[s].faulty = signup[s].faulty
BY DEF Shaped, GotoStep, Records

\* One that ends forgets its key and its certificate.
LEMMA Ends ==
  ASSUME NEW K, Shaped(K), NEW s \in Signers, NEW pc \in Steps, EndSignUp(s, pc)
  PROVE  /\ signup' \in [Signers -> Records(K)]
         /\ \A o \in Signers \ {s} : signup'[o] = signup[o]
         /\ signup'[s].pc = pc
         /\ signup'[s].alone = signup[s].alone /\ signup'[s].faulty = signup[s].faulty
<1> DEFINE n == [signup[s] EXCEPT !.pc = pc, !.key = NoKey, !.cert = NoKey]
<1>1. signup' = [signup EXCEPT ![s] = n]  BY DEF EndSignUp
<1>2. n \in Records(K) /\ n.pc = pc /\ n.alone = signup[s].alone /\ n.faulty = signup[s].faulty
  BY Zenon DEF Shaped, Records
<1> HIDE DEF n
<1> QED  BY <1>1, <1>2 DEF Shaped

\* A step of one sign-up cannot hurt another one that is alone: there is no such other one.
LEMMA OthersAreNotAlone ==
  ASSUME SignedSound, NEW s \in Signers, Active(s),
         \A o \in Signers \ {s} : signup'[o] = signup[o]
  PROVE  /\ \A o \in Signers \ {s} : Undisturbed(o)' /\ Excused(o)'
         /\ Alone(s) => \A o \in Signers \ {s} : ~Active(o)'
BY DEF SignedSound, Undisturbed, Excused, Alone, Active

\* The end of a sign-up that failed by its own fault or by another's keeps all there is to keep.
LEMMA FailingIsSafe ==
  ASSUME SignedSound, NEW K, Shaped(K), NEW s \in Signers, Active(s),
         EndSignUp(s, "failed"), ~signup[s].alone, UNCHANGED <<csr, secret>>
  PROVE  SignedSound' /\ Shaped(K)'
<1>0. "failed" \in Steps  BY DEF Steps
<1>1. Shaped(K)'  BY Zenon, <1>0, Ends DEF Shaped
<1>2. Undisturbed(s)' /\ Excused(s)'
  BY <1>0, Ends DEF Undisturbed, Excused, Alone, Active
<1>3. StoredFits'  BY DEF SignedSound, StoredFits
<1> QED  BY Zenon, <1>0, <1>1, <1>2, <1>3, Ends, OthersAreNotAlone DEF SignedSound

\* A failed call, or a wait that took too long, ends a sign-up with an excuse.
LEMMA FaultIsSafe ==
  ASSUME SignedSound, NEW K, Shaped(K), NEW s \in Signers, SignUpFails(s) \/ WaitTimesOut(s)
  PROVE  SignedSound' /\ Shaped(K)'
<1> DEFINE n == [signup[s] EXCEPT !.pc = "failed", !.faulty = TRUE, !.key = NoKey, !.cert = NoKey]
<1>1. signup' = [signup EXCEPT ![s] = n] /\ UNCHANGED <<csr, secret>> /\ Active(s)
  BY DEF SignUpFails, WaitTimesOut, Active
<1>2. n \in Records(K) /\ n.pc = "failed" /\ n.faulty
  BY ZenonT(60) DEF Shaped, Records, Steps
<1> HIDE DEF n
<1>3. signup' \in [Signers -> Records(K)] /\ signup'[s] = n /\ \A o \in Signers \ {s} : signup'[o] = signup[o]
  BY <1>1, <1>2 DEF Shaped
<1>4. Shaped(K)'  BY <1>1, <1>3 DEF Shaped
<1>5. Undisturbed(s)' /\ Excused(s)'
  BY <1>2, <1>3 DEF Undisturbed, Excused, Alone, Active
<1>6. StoredFits'  BY <1>1 DEF SignedSound, StoredFits
<1> QED  BY <1>1, <1>3, <1>4, <1>5, <1>6, OthersAreNotAlone DEF SignedSound

\* A sign-up that starts ends the solitude of those under way, and is alone only if there are none.
LEMMA DoIsSafe ==
  ASSUME SignedSound, NEW K, Shaped(K), NEW s \in Signers, Do(s)
  PROVE  SignedSound' /\ \E L : Shaped(L)'
<1>0. PICK key : key = CHOOSE k \in Keys : k \notin InUse  OBVIOUS
<1> DEFINE others == {o \in Signers \ {s} : Active(o)}
           deleting == csr # <<>> /\ csr[1].going
           L == K \cup {key}
           n == [pc |-> "create", key |-> key, cert |-> NoKey,
                 alone |-> others = {} /\ ~deleting, faulty |-> FALSE]
<1>1. /\ signup' = [o \in Signers |->
           IF o = s THEN n ELSE [signup[o] EXCEPT !.alone = @ /\ o \notin others]]
      /\ UNCHANGED <<csr, secret>> /\ ~Active(s)
  BY <1>0 DEF Do
<1>2. n \in Records(L) /\ n.pc = "create" /\ n.alone = (others = {} /\ ~deleting)
  BY DEF Shaped, Records, Steps
<1> HIDE DEF n
<1>3. signup'[s] = n  BY <1>1
<1>4. ASSUME NEW o \in Signers \ {s}
      PROVE  /\ signup'[o] \in Records(L)
             /\ signup'[o].pc = signup[o].pc /\ signup'[o].faulty = signup[o].faulty
             /\ signup'[o].alone = (signup[o].alone /\ o \notin others)
  <2>1. signup'[o] = [signup[o] EXCEPT !.alone = @ /\ o \notin others]  BY <1>1
  <2>2. signup[o] \in Records(L)  BY DEF Shaped, Records
  <2> QED  BY Zenon, <2>1, <2>2 DEF Records
<1>5. Shaped(L)'
  <2>1. \A o \in Signers : signup'[o] \in Records(L)  BY Zenon, <1>2, <1>3, <1>4
  <2>2. signup' = [o \in Signers |-> signup'[o]]  BY <1>1
  <2>3. signup' \in [Signers -> Records(L)]  BY <2>1, <2>2
  <2> QED  BY Zenon, <1>1, <2>3 DEF Shaped, Requested
<1>6. ASSUME NEW o \in Signers \ {s} PROVE Undisturbed(o)' /\ Excused(o)'
  <2>1. ~Alone(o)'  BY Zenon, <1>4 DEF Alone, Active
  <2> QED  BY ZenonT(60), <1>4, <2>1 DEF Undisturbed, Excused, SignedSound
<1>7. Undisturbed(s)' /\ Excused(s)'
  <2>1. Excused(s)'  BY <1>2, <1>3 DEF Excused
  <2>2. ASSUME Alone(s)' PROVE \A o \in Signers \ {s} : ~Active(o)'
    BY Zenon, <1>2, <1>3, <1>4, <2>2 DEF Alone, Active
  <2>3. ASSUME Alone(s)' PROVE csr' # <<>> => ~csr'[1].going
    BY Zenon, <1>1, <1>2, <1>3, <2>3 DEF Alone
  <2> QED  BY <1>2, <1>3, <2>1, <2>2, <2>3 DEF Undisturbed
<1>8. StoredFits'  BY Zenon, <1>1 DEF SignedSound, StoredFits
<1> QED  BY <1>5, <1>6, <1>7, <1>8 DEF SignedSound

\* A step that keeps what holds of its own sign-up, and of the secret, keeps it of all.
LEMMA SignerStepSuffices ==
  ASSUME SignedSound, NEW s \in Signers, Active(s),
         \A o \in Signers \ {s} : signup'[o] = signup[o],
         Undisturbed(s)', Excused(s)', StoredFits'
  PROVE  SignedSound'
BY OthersAreNotAlone DEF SignedSound

\* A sign-up that is alone makes its own request, or finds the one it has to delete first.
LEMMA RequestIsSafe ==
  ASSUME SignedSound, NEW K, Shaped(K), NEW s \in Signers,
         CreateCSR(s) \/ DeleteCSR(s) \/ DeletedCSR(s) \/ RecreateCSR(s)
  PROVE  SignedSound' /\ Shaped(K)'
<1>a. /\ {"approve", "delete", "gone", "recreate"} \subseteq Steps
      /\ signup[s].key \in K
  BY DEF Steps, Shaped, Records
<1>b. Active(s)  BY DEF CreateCSR, DeleteCSR, DeletedCSR, RecreateCSR, Active
<1>c. StoredFits'
  BY DEF CreateCSR, DeleteCSR, DeletedCSR, RecreateCSR, SignedSound, StoredFits
<1>d. Undisturbed(s)  BY DEF SignedSound
<1> DEFINE New == NewCertificateSigningRequest(s)
<1>e. /\ New # <<>> /\ New = <<New[1]>> /\ New[1] \in Requested(K)
      /\ New[1].key = signup[s].key /\ ~New[1].going
  BY Zenon, <1>a DEF NewCertificateSigningRequest, Requested
<1> HIDE DEF New
<1>1. ASSUME signup[s].pc \in {"create", "recreate"}, csr = <<>>, csr' = New, GotoStep(s, "approve")
      PROVE  SignedSound' /\ Shaped(K)'
  <2>1. Shaped(K)'  BY Zenon, <1>a, <1>e, <1>1, Goes DEF Shaped
  <2>2. Undisturbed(s)' /\ Excused(s)'
    BY Zenon, <1>a, <1>b, <1>e, <1>1, Goes, OthersAreNotAlone DEF Undisturbed, Excused, Alone
  <2> QED  BY <1>a, <1>b, <1>c, <1>1, <2>1, <2>2, Goes, SignerStepSuffices
<1>2. ASSUME signup[s].pc = "create", csr # <<>>, csr' = csr, GotoStep(s, "delete")
      PROVE  SignedSound' /\ Shaped(K)'
  <2>1. Shaped(K)'  BY Zenon, <1>a, <1>2, Goes DEF Shaped
  <2>2. Undisturbed(s)' /\ Excused(s)'
    BY Zenon, <1>a, <1>b, <1>d, <1>2, Goes, OthersAreNotAlone DEF Undisturbed, Excused, Alone
  <2> QED  BY Zenon, <1>a, <1>b, <1>c, <1>2, <2>1, <2>2, Goes, SignerStepSuffices
<1>3. ASSUME signup[s].pc = "delete", csr # <<>>, csr' = <<[csr[1] EXCEPT !.going = TRUE]>>,
             GotoStep(s, "gone")
      PROVE  SignedSound' /\ Shaped(K)'
  <2>0. csr' = <<csr'[1]>> /\ csr'[1] \in Requested(K)  BY Zenon, <1>3 DEF Shaped, Requested
  <2>1. Shaped(K)'  BY <1>a, <1>3, <2>0, Goes DEF Shaped
  <2>2. Undisturbed(s)' /\ Excused(s)'
    BY Zenon, <1>a, <1>b, <1>3, Goes, OthersAreNotAlone DEF Undisturbed, Excused, Alone
  <2> QED  BY <1>a, <1>b, <1>c, <1>3, <2>1, <2>2, Goes, SignerStepSuffices
<1>4. ASSUME signup[s].pc = "gone", csr = <<>>, csr' = csr, GotoStep(s, "recreate")
      PROVE  SignedSound' /\ Shaped(K)'
  <2>1. Shaped(K)'  BY Zenon, <1>a, <1>4, Goes DEF Shaped
  <2>2. Undisturbed(s)' /\ Excused(s)'
    BY Zenon, <1>a, <1>b, <1>4, Goes, OthersAreNotAlone DEF Undisturbed, Excused, Alone
  <2> QED  BY Zenon, <1>a, <1>b, <1>c, <1>4, <2>1, <2>2, Goes, SignerStepSuffices
\* The errors: nothing to delete, or the name taken again. Neither happens to one that is alone.
<1>5. ASSUME \/ signup[s].pc = "delete" /\ csr = <<>>
             \/ signup[s].pc = "recreate" /\ csr # <<>>,
             EndSignUp(s, "failed"), UNCHANGED <<csr, secret>>
      PROVE  SignedSound' /\ Shaped(K)'
  <2>1. ~signup[s].alone  BY <1>b, <1>d, <1>5 DEF Undisturbed, Alone
  <2> QED  BY Zenon, <1>b, <1>5, <2>1, FailingIsSafe
<1> QED  BY <1>1, <1>2, <1>3, <1>4, <1>5 DEF CreateCSR, DeleteCSR, DeletedCSR, RecreateCSR, New

\* Having made its request, it approves, awaits and fetches the certificate of that very request.
LEMMA CertificateIsSafe ==
  ASSUME SignedSound, NEW K, Shaped(K), NEW s \in Signers,
         ApproveCSR(s) \/ WaitForCertificate(s) \/ FetchCertificate(s)
  PROVE  SignedSound' /\ Shaped(K)'
<1>a. {"wait", "fetch", "store"} \subseteq Steps  BY DEF Steps
<1>b. Active(s)  BY DEF ApproveCSR, WaitForCertificate, FetchCertificate, Active
<1>c. StoredFits'
  BY DEF ApproveCSR, WaitForCertificate, FetchCertificate, SignedSound, StoredFits
<1>d. Undisturbed(s)  BY DEF SignedSound
<1>1. ASSUME signup[s].pc = "approve", csr # <<>>, csr' = <<[csr[1] EXCEPT !.approved = TRUE]>>,
             GotoStep(s, "wait")
      PROVE  SignedSound' /\ Shaped(K)'
  <2>0. /\ csr' # <<>> /\ csr' = <<csr'[1]>> /\ csr'[1] \in Requested(K)
        /\ csr'[1].key = csr[1].key /\ csr'[1].going = csr[1].going
    BY Zenon, <1>1 DEF Shaped, Requested
  <2>1. Shaped(K)'  BY <1>a, <1>1, <2>0, Goes DEF Shaped
  <2>2. Undisturbed(s)' /\ Excused(s)'
    BY Zenon, <1>a, <1>b, <1>d, <1>1, <2>0, Goes, OthersAreNotAlone DEF Undisturbed, Excused, Alone
  <2> QED  BY <1>a, <1>b, <1>c, <1>1, <2>1, <2>2, Goes, SignerStepSuffices
<1>2. ASSUME signup[s].pc = "wait", csr # <<>>, csr[1].certified, csr' = csr, GotoStep(s, "fetch")
      PROVE  SignedSound' /\ Shaped(K)'
  <2>1. Shaped(K)'  BY Zenon, <1>a, <1>2, Goes DEF Shaped
  <2>2. Undisturbed(s)' /\ Excused(s)'
    BY Zenon, <1>a, <1>b, <1>d, <1>2, Goes, OthersAreNotAlone DEF Undisturbed, Excused, Alone
  <2> QED  BY <1>a, <1>b, <1>c, <1>2, <2>1, <2>2, Goes, SignerStepSuffices
<1>3. ASSUME signup[s].pc = "fetch", csr # <<>>, csr' = csr,
             signup' = [signup EXCEPT ![s].pc = "store",
                                      ![s].cert = IF csr[1].certified THEN csr[1].key ELSE NoKey]
      PROVE  SignedSound' /\ Shaped(K)'
  <2> DEFINE cert == IF csr[1].certified THEN csr[1].key ELSE NoKey
             n == [signup[s] EXCEPT !.pc = "store", !.cert = cert]
  <2>0. cert \in K  BY <1>3 DEF Shaped, Requested
  <2>1. signup' = [signup EXCEPT ![s] = n]
    BY Zenon, <1>3 DEF Shaped
  <2> HIDE DEF cert
  <2>2. /\ n \in Records(K) /\ n.pc = "store" /\ n.cert = cert
        /\ n.key = signup[s].key /\ n.alone = signup[s].alone
    BY Zenon, <2>0, <1>a DEF Shaped, Records
  <2> HIDE DEF n
  <2>3. /\ signup' \in [Signers -> Records(K)] /\ signup'[s] = n
        /\ \A o \in Signers \ {s} : signup'[o] = signup[o]
    BY <2>1, <2>2 DEF Shaped
  <2>4. Shaped(K)'  BY <1>3, <2>3 DEF Shaped
  <2>5. Undisturbed(s)' /\ Excused(s)'
    BY <1>b, <1>d, <1>3, <2>2, <2>3, OthersAreNotAlone DEF Undisturbed, Excused, Alone, cert
  <2> QED  BY <1>b, <1>c, <2>3, <2>4, <2>5, SignerStepSuffices
<1>4. ASSUME signup[s].pc \in {"approve", "wait", "fetch"}, csr = <<>>,
             EndSignUp(s, "failed"), UNCHANGED <<csr, secret>>
      PROVE  SignedSound' /\ Shaped(K)'
  <2>1. ~signup[s].alone  BY Zenon, <1>b, <1>d, <1>4 DEF Undisturbed, Alone
  <2> QED  BY <1>b, <1>4, <2>1, FailingIsSafe
<1> QED  BY <1>1, <1>2, <1>3, <1>4 DEF ApproveCSR, WaitForCertificate, FetchCertificate

\* What it stores is then the certificate of its own key.
LEMMA StoringIsSafe ==
  ASSUME SignedSound, NEW K, Shaped(K), NEW s \in Signers, StoreEndpoint(s) \/ UpdateEndpoint(s)
  PROVE  SignedSound' /\ Shaped(K)'
<1>a. {"update", "ok"} \subseteq Steps  BY DEF Steps
<1>b. Active(s) /\ csr' = csr  BY DEF StoreEndpoint, UpdateEndpoint, Active
<1>d. Undisturbed(s)  BY Zenon DEF SignedSound
<1>1. ASSUME signup[s].pc \in {"store", "update"}, secret' = <<EndpointOf(s)>>, EndSignUp(s, "ok")
      PROVE  SignedSound' /\ Shaped(K)'
  <2>1. Shaped(K)'  BY Zenon, <1>a, <1>b, <1>1, Ends DEF Shaped
  <2>2. Undisturbed(s)' /\ Excused(s)'
    BY Zenon, <1>a, <1>1, Ends DEF Undisturbed, Excused, Alone, Active
  <2>3. secret'[1].alone = signup[s].alone /\ secret'[1].fits = (signup[s].cert = signup[s].key)
    BY <1>1 DEF EndpointOf
  <2>4. StoredFits'  BY Zenon, <1>b, <1>d, <1>1, <2>3 DEF StoredFits, Undisturbed, Alone
  <2> QED  BY Zenon, <1>a, <1>b, <1>1, <2>1, <2>2, <2>4, Ends, SignerStepSuffices
<1>2. ASSUME signup[s].pc = "store", secret' = secret, GotoStep(s, "update")
      PROVE  SignedSound' /\ Shaped(K)'
  <2>1. Shaped(K)'  BY Zenon, <1>a, <1>b, <1>2, Goes DEF Shaped
  <2>2. Undisturbed(s)' /\ Excused(s)'
    BY Zenon, <1>a, <1>b, <1>d, <1>2, Goes, OthersAreNotAlone DEF Undisturbed, Excused, Alone
  <2>3. StoredFits'  BY <1>2 DEF SignedSound, StoredFits
  <2> QED  BY <1>a, <1>b, <1>2, <2>1, <2>2, <2>3, Goes, SignerStepSuffices
<1> QED  BY <1>1, <1>2 DEF StoreEndpoint, UpdateEndpoint

\* The signer and the API server do nothing a sign-up that is alone does not expect.
LEMMA ClusterIsSafe ==
  ASSUME SignedSound, NEW K, Shaped(K), Sign \/ DeletionCompletes
  PROVE  SignedSound' /\ Shaped(K)'
<1>a. UNCHANGED <<secret, signup>> /\ csr # <<>>  BY DEF Sign, DeletionCompletes
<1>1. CASE Sign
  <2>1. csr' = <<[csr[1] EXCEPT !.certified = TRUE]>>  BY <1>1 DEF Sign
  <2>2. /\ csr' # <<>> /\ csr' = <<csr'[1]>> /\ csr'[1] \in Requested(K)
        /\ csr'[1].key = csr[1].key /\ csr'[1].going = csr[1].going /\ csr'[1].certified
    BY Zenon, <1>a, <2>1 DEF Shaped, Requested
  <2>3. Shaped(K)'  BY <1>a, <2>2 DEF Shaped
  <2>4. ASSUME NEW s \in Signers PROVE Undisturbed(s)' /\ Excused(s)'
    BY <1>a, <2>2 DEF SignedSound, Undisturbed, Excused, Alone, Active
  <2> QED  BY <1>a, <2>3, <2>4 DEF SignedSound, StoredFits
<1>2. CASE DeletionCompletes
  <2>1. csr[1].going /\ csr' = <<>>  BY <1>2 DEF DeletionCompletes
  <2>2. Shaped(K)'  BY <1>a, <2>1 DEF Shaped
  <2>3. ASSUME NEW s \in Signers PROVE Undisturbed(s)' /\ Excused(s)'
    BY <1>a, <2>1 DEF SignedSound, Undisturbed, Excused, Alone, Active
  <2> QED  BY <1>a, <2>2, <2>3 DEF SignedSound, StoredFits
<1> QED  BY <1>1, <1>2

\* Nobody signs up at the start.
LEMMA SignUpStarts == SignUpInit => SignUpInv
<1> SUFFICES ASSUME SignUpInit PROVE SignUpInv  OBVIOUS
<1>1. Shaped({NoKey})  BY DEF SignUpInit, Shaped, Records, Steps
<1>2. SignedSound  BY DEF SignUpInit, SignedSound, StoredFits, Undisturbed, Excused, Alone, Active
<1> QED  BY <1>1, <1>2 DEF SignUpInv

\* Every step keeps SignUpInv.
LEMMA SignUpGoesOn == SignUpInv /\ [SignUpNext]_signUpVars => SignUpInv'
<1> SUFFICES ASSUME SignUpInv, [SignUpNext]_signUpVars PROVE SignUpInv'  OBVIOUS
<1>0. PICK K : Shaped(K)  BY DEF SignUpInv
<1>a. SignedSound  BY DEF SignUpInv
<1>1. ASSUME NEW s \in Signers, Do(s) PROVE SignUpInv'
  BY <1>0, <1>a, <1>1, DoIsSafe DEF SignUpInv
<1>2. ASSUME NEW s \in Signers, SignUpStep(s) \/ SignUpFails(s) PROVE SignedSound' /\ Shaped(K)'
  BY <1>0, <1>a, <1>2, FaultIsSafe, RequestIsSafe, CertificateIsSafe, StoringIsSafe DEF SignUpStep
<1>3. CASE Sign \/ DeletionCompletes
  BY <1>0, <1>a, <1>3, ClusterIsSafe DEF SignUpInv
<1>4. CASE UNCHANGED signUpVars
  <2>1. Shaped(K)'  BY Zenon, <1>0, <1>4 DEF Shaped, signUpVars
  <2>2. SignedSound'
    BY <1>a, <1>4 DEF SignedSound, StoredFits, Undisturbed, Excused, Alone, Active, signUpVars
  <2> QED  BY <2>1, <2>2 DEF SignUpInv
<1> QED  BY <1>1, <1>2, <1>3, <1>4 DEF SignUpNext, SignUpInv

\* A sign-up on its own stores a certificate of its own key or fails for a reason of its own,
\* whatever earlier sign-ups of any number of processes left under the user's name
\* (signup.go:115-168, certs.go:67-152).
THEOREM SignUpsAreSound == SignUpSpec => []SignUpIsSound
<1>1. SignUpInv => SignUpIsSound
  BY DEF SignUpInv, SignedSound, StoredFits, Undisturbed, Excused, Alone, Active,
         SignUpIsSound, CertificateFitsKey, AloneSucceeds
<1> QED  BY <1>1, SignUpStarts, SignUpGoesOn, PTL DEF SignUpSpec
=============================================================================
