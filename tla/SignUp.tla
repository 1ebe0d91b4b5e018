------------------------------- MODULE SignUp -------------------------------
(* signup/signup.go with certs/certs.go and endpoints/endpoints.go: sign-ups of one user, each *)
(* with a fresh private key, that ask for a certificate through a CertificateSigningRequest   *)
(* and store certificate and key as the user's endpoint. The request is named after the user   *)
(* and stays in the cluster when a sign-up is over, however it ended; so every sign-up but the *)
(* first meets an old one. The API server and the signer are external.                         *)
EXTENDS Naturals, FiniteSets

CONSTANTS Signers,  \* the processes that call Do for this user
          Keys      \* private keys, positive numbers; large enough for a fresh one always to be found

VARIABLES csr,      \* the CertificateSigningRequest of that name, or <<>>
          secret,   \* the stored endpoint, or <<>>
          signup    \* what each caller is doing

signUpVars == <<csr, secret, signup>>

NoKey == 0
Active(s) == signup[s].pc \notin {"idle", "ok", "failed"}

CSRs == [key : Keys, approved : BOOLEAN, certified : BOOLEAN, going : BOOLEAN]
Endpoints == [fits : BOOLEAN, alone : BOOLEAN]
Steps == {"idle", "create", "delete", "gone", "recreate", "approve", "wait", "fetch",
          "store", "update", "ok", "failed"}

\* alone: no other sign-up of the user, nor a deletion one has begun, overlapped this one.
\* faulty: a call to the API failed or a wait took too long. Both are history.
SignUpTypeOK ==
  /\ csr \in {<<>>} \cup {<<c>> : c \in CSRs}
  /\ secret \in {<<>>} \cup {<<e>> : e \in Endpoints}
  /\ signup \in [Signers -> [pc : Steps, key : Keys \cup {NoKey}, cert : Keys \cup {NoKey},
                             alone : BOOLEAN, faulty : BOOLEAN]]

SignUpInit ==
  /\ csr = <<>> /\ secret = <<>>
  /\ signup = [s \in Signers |->
       [pc |-> "idle", key |-> NoKey, cert |-> NoKey, alone |-> TRUE, faulty |-> FALSE]]

GotoStep(s, pc) == signup' = [signup EXCEPT ![s].pc = pc]
EndSignUp(s, pc) ==
  signup' = [signup EXCEPT ![s] = [@ EXCEPT !.pc = pc, !.key = NoKey, !.cert = NoKey]]

InUse == {signup[s].key : s \in Signers} \cup {signup[s].cert : s \in Signers}
         \cup (IF csr = <<>> THEN {} ELSE {csr[1].key})

\* NewPrivateKey: a key that nothing refers to.
Do(s) ==
  /\ ~Active(s)
  /\ LET key == CHOOSE k \in Keys : k \notin InUse
         others == {o \in Signers \ {s} : Active(o)}
         deleting == csr # <<>> /\ csr[1].going
     IN  signup' = [o \in Signers |->
           IF o = s THEN [pc |-> "create", key |-> key, cert |-> NoKey,
                          alone |-> others = {} /\ ~deleting, faulty |-> FALSE]
           ELSE [signup[o] EXCEPT !.alone = @ /\ o \notin others]]
  /\ UNCHANGED <<csr, secret>>

\* A call to the API fails, or the process gives up, at any step but the wait of the deletion,
\* which takes a failed Get for a reason to poll again.
SignUpFails(s) ==
  /\ Active(s) /\ signup[s].pc # "gone"
  /\ signup' = [signup EXCEPT ![s] = [@ EXCEPT !.pc = "failed", !.faulty = TRUE,
                                               !.key = NoKey, !.cert = NoKey]]
  /\ UNCHANGED <<csr, secret>>

\* certificateWaitTimeout
WaitTimesOut(s) ==
  /\ signup[s].pc \in {"gone", "wait"}
  /\ signup' = [signup EXCEPT ![s] = [@ EXCEPT !.pc = "failed", !.faulty = TRUE,
                                               !.key = NoKey, !.cert = NoKey]]
  /\ UNCHANGED <<csr, secret>>

NewCertificateSigningRequest(s) ==
  <<[key |-> signup[s].key, approved |-> FALSE, certified |-> FALSE, going |-> FALSE]>>

\* Mutant: an existing request is taken for the own one.
CreateOrReuseCSR(s) ==
  /\ signup[s].pc = "create"
  /\ GotoStep(s, "approve")
  /\ IF csr = <<>> THEN csr' = NewCertificateSigningRequest(s) ELSE UNCHANGED csr
  /\ UNCHANGED secret

\* CreateCertificateSigningRequests; what follows when the name is taken differs.
CreateCSR(s) ==
  /\ signup[s].pc = "create"
  /\ \/ csr = <<>> /\ csr' = NewCertificateSigningRequest(s) /\ GotoStep(s, "approve")
     \/ csr # <<>> /\ GotoStep(s, "delete") /\ UNCHANGED csr
  /\ UNCHANGED secret

\* A second call that finds the name taken, or nothing to delete, is an error.
DeleteCSR(s) ==
  /\ signup[s].pc = "delete"
  /\ \/ csr = <<>> /\ EndSignUp(s, "failed") /\ UNCHANGED csr
     \/ csr # <<>> /\ csr' = <<[csr[1] EXCEPT !.going = TRUE]>> /\ GotoStep(s, "gone")
  /\ UNCHANGED secret

DeletedCSR(s) ==
  /\ signup[s].pc = "gone" /\ csr = <<>>
  /\ GotoStep(s, "recreate")
  /\ UNCHANGED <<csr, secret>>

RecreateCSR(s) ==
  /\ signup[s].pc = "recreate"
  /\ \/ csr = <<>> /\ csr' = NewCertificateSigningRequest(s) /\ GotoStep(s, "approve")
     \/ csr # <<>> /\ EndSignUp(s, "failed") /\ UNCHANGED csr
  /\ UNCHANGED secret

\* The update names the request and has no resourceVersion: it approves whatever has the name.
ApproveCSR(s) ==
  /\ signup[s].pc = "approve"
  /\ \/ csr = <<>> /\ EndSignUp(s, "failed") /\ UNCHANGED csr
     \/ csr # <<>> /\ csr' = <<[csr[1] EXCEPT !.approved = TRUE]>> /\ GotoStep(s, "wait")
  /\ UNCHANGED secret

\* A poll that finds no request is an error, one that finds no certificate polls again.
WaitForCertificate(s) ==
  /\ signup[s].pc = "wait"
  /\ \/ csr = <<>> /\ EndSignUp(s, "failed")
     \/ csr # <<>> /\ csr[1].certified /\ GotoStep(s, "fetch")
  /\ UNCHANGED <<csr, secret>>

\* Reads the request again. Its certificate, possibly none, is taken as it is.
FetchCertificate(s) ==
  /\ signup[s].pc = "fetch"
  /\ \/ csr = <<>> /\ EndSignUp(s, "failed")
     \/ /\ csr # <<>>
        /\ signup' = [signup EXCEPT ![s].pc = "store",
                                    ![s].cert = IF csr[1].certified THEN csr[1].key ELSE NoKey]
  /\ UNCHANGED <<csr, secret>>

\* Of certificate and key what matters is whether they belong together.
EndpointOf(s) == [fits |-> signup[s].cert = signup[s].key, alone |-> signup[s].alone]

\* Store creates the secret, or else replaces it.
StoreEndpoint(s) ==
  /\ signup[s].pc = "store"
  /\ \/ secret = <<>> /\ secret' = <<EndpointOf(s)>> /\ EndSignUp(s, "ok")
     \/ secret # <<>> /\ GotoStep(s, "update") /\ UNCHANGED secret
  /\ UNCHANGED csr

UpdateEndpoint(s) ==
  /\ signup[s].pc = "update"
  /\ secret' = <<EndpointOf(s)>> /\ EndSignUp(s, "ok")
  /\ UNCHANGED csr

\* The signer certifies an approved request; the API server completes a deletion.
Sign ==
  /\ csr # <<>> /\ csr[1].approved /\ ~csr[1].certified
  /\ csr' = <<[csr[1] EXCEPT !.certified = TRUE]>>
  /\ UNCHANGED <<secret, signup>>

DeletionCompletes == csr # <<>> /\ csr[1].going /\ csr' = <<>> /\ UNCHANGED <<secret, signup>>

SignUpStep(s) ==
  \/ CreateCSR(s) \/ DeleteCSR(s) \/ DeletedCSR(s) \/ RecreateCSR(s) \/ ApproveCSR(s)
  \/ WaitForCertificate(s) \/ FetchCertificate(s) \/ StoreEndpoint(s) \/ UpdateEndpoint(s)
  \/ WaitTimesOut(s)

SignUpNext ==
  \/ \E s \in Signers : Do(s) \/ SignUpStep(s) \/ SignUpFails(s)
  \/ Sign \/ DeletionCompletes

-----------------------------------------------------------------------------
\* A sign-up that no other sign-up of the user overlapped never stores, nor is about to, a
\* certificate that is missing or belongs to another key, although it finds the requests, approved,
\* certified or neither, that earlier sign-ups left.
CertificateFitsKey ==
  /\ secret # <<>> /\ secret[1].alone => secret[1].fits
  /\ \A s \in Signers : signup[s].pc \in {"store", "update"} /\ signup[s].alone =>
       signup[s].cert = signup[s].key

\* A sign-up fails only because of another one, or because a call failed or took too long: the
\* request an earlier sign-up left behind, at whatever stage, never stands in its way.
AloneSucceeds ==
  \A s \in Signers : signup[s].pc = "failed" /\ signup[s].alone => signup[s].faulty

\* A sign-up on its own gets a certificate of its own key or fails for a reason of its own, whatever
\* generateClientCertAndKey finds under the user's name.
SignUpIsSound == CertificateFitsKey /\ AloneSucceeds

\* Every sign-up ends, also when the signer never answers or others keep re-creating the
\* request it waits to see gone.
SignUpEnds == \A s \in Signers : []<>~Active(s)
=============================================================================
