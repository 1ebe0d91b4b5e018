---------------------------- MODULE EventRecorder ----------------------------
(***************************************************************************)
(* kubeutil/eventrecorder.ThrottledRecorder: an event whose message is the  *)
(* last one of its stream is suppressed, but for one after maxSilence.      *)
(* Eventf reads the clock before it takes the mutex and publishes after it  *)
(* has released it. Instants are kept as ages.                              *)
(***************************************************************************)
EXTENDS Integers

CONSTANTS
  Reporters,  \* goroutines that call Eventf
  Streams,    \* object, related object, type, reason and action
  Messages,
  MaxSilence,
  MaxLag,     \* bound on the time a call takes from reading the clock to publishing
  MaxTurns    \* bound on the changes of what is reported

ASSUME RecorderAssumption == MaxSilence \in Nat \ {0} /\ MaxLag \in Nat /\ MaxTurns \in Nat

VARIABLES
  topic, turns,      \* what there is to report on a stream, and how often it has changed
  signature, first,  \* the recorder: the last message, the age of its first suppression
  event,             \* the calls of Eventf
  visible            \* the inner recorder: the last event published

recorderVars == <<topic, turns, signature, first, event, visible>>

None == "none"
Never == -1
Cap == MaxSilence + MaxLag
NoEvent == [pc |-> "idle", stream |-> CHOOSE s \in Streams : TRUE, message |-> None, lag |-> 0]

RecorderTypeOK ==
  /\ topic \in [Streams -> Messages] /\ turns \in 0..MaxTurns
  /\ signature \in [Streams -> Messages \cup {None}]
  /\ first \in [Streams -> Never..Cap]
  /\ event \in [Reporters -> [pc : {"idle", "lock", "publish"}, stream : Streams,
                              message : Messages \cup {None}, lag : 0..MaxLag]]
  /\ visible \in [Streams -> Messages \cup {None}]
  /\ \A s \in Streams : signature[s] = None => first[s] = Never

RecorderInit ==
  /\ topic \in [Streams -> Messages] /\ turns = 0
  /\ signature = [s \in Streams |-> None] /\ first = [s \in Streams |-> Never]
  /\ event = [c \in Reporters |-> NoEvent]
  /\ visible = [s \in Streams |-> None]

Turn(s, m) ==
  /\ turns < MaxTurns /\ turns' = turns + 1
  /\ m # topic[s] /\ topic' = [topic EXCEPT ![s] = m]
  /\ UNCHANGED <<signature, first, event, visible>>

RecorderTick ==
  LET older(age) == IF age = Never \/ age = Cap THEN age ELSE age + 1 IN
  /\ \A c \in Reporters : event[c].pc = "idle" \/ event[c].lag < MaxLag
  /\ first' = [s \in Streams |-> older(first[s])]
  /\ event' = [c \in Reporters |-> IF event[c].pc = "idle" THEN event[c] ELSE [event[c] EXCEPT !.lag = @ + 1]]
  /\ UNCHANGED <<topic, turns, signature, visible>>

\* Eventf reads the clock.
Eventf(c, s) ==
  /\ event[c].pc = "idle"
  /\ event' = [event EXCEPT ![c] = [pc |-> "lock", stream |-> s, message |-> topic[s], lag |-> 0]]
  /\ UNCHANGED <<topic, turns, signature, first, visible>>

\* now.Sub(firstSuppressedAt), with the time of the call for a first suppression.
Silence(c) ==
  LET s == event[c].stream IN (IF first[s] = Never THEN event[c].lag ELSE first[s]) - event[c].lag

Duplicate(c) == signature[event[c].stream] = event[c].message

Forced(c) == Duplicate(c) /\ Silence(c) >= MaxSilence

\* Mutant: every suppression starts the silence anew.
SuppressRestarts(c) ==
  LET s == event[c].stream IN
  /\ event[c].pc = "lock" /\ Duplicate(c) /\ ~Forced(c)
  /\ first' = [first EXCEPT ![s] = event[c].lag]
  /\ event' = [event EXCEPT ![c] = NoEvent]
  /\ UNCHANGED <<topic, turns, signature, visible>>

Suppress(c) ==
  LET s == event[c].stream IN
  /\ event[c].pc = "lock" /\ Duplicate(c) /\ ~Forced(c)
  /\ first' = [first EXCEPT ![s] = IF @ = Never THEN event[c].lag ELSE @]
  /\ event' = [event EXCEPT ![c] = NoEvent]
  /\ UNCHANGED <<topic, turns, signature, visible>>

\* A new message, or the end of the silence: the decision to publish.
Decide(c) ==
  LET s == event[c].stream IN
  /\ event[c].pc = "lock" /\ (~Duplicate(c) \/ Forced(c))
  /\ signature' = [signature EXCEPT ![s] = event[c].message]
  /\ first' = [first EXCEPT ![s] = Never]
  /\ event' = [event EXCEPT ![c].pc = "publish"]
  /\ UNCHANGED <<topic, turns, visible>>

Publish(c) ==
  /\ event[c].pc = "publish"
  /\ visible' = [visible EXCEPT ![event[c].stream] = event[c].message]
  /\ event' = [event EXCEPT ![c] = NoEvent]
  /\ UNCHANGED <<topic, turns, signature, first>>

\* Forget drops the streams of an object, Reset all of them.
Dropped(S) ==
  /\ signature' = [s \in Streams |-> IF s \in S THEN None ELSE signature[s]]
  /\ first' = [s \in Streams |-> IF s \in S THEN Never ELSE first[s]]
  /\ UNCHANGED <<topic, turns, event, visible>>

Forget(s) == Dropped({s})
Reset == Dropped(Streams)

RecorderStep(c) == Suppress(c) \/ Decide(c) \/ Publish(c)

RecorderNext ==
  \/ \E s \in Streams : Forget(s) \/ \E m \in Messages : Turn(s, m)
  \/ \E c \in Reporters : RecorderStep(c) \/ \E s \in Streams : Eventf(c, s)
  \/ RecorderTick \/ Reset

-----------------------------------------------------------------------------
(* What a stream keeps reporting becomes, and stays, the last event that is *)
(* visible, although a slow call may publish an older message after a newer *)
(* one and leave the recorder suppressing the newer (94-98).                *)
RepeatedIsVisible == \A s \in Streams : <>[](visible[s] = topic[s])
=============================================================================
