-------------------------- MODULE MCPersonalSigning --------------------------
(***************************************************************************)
(* The signers of a personal wallet under two hosts: the coordinator of    *)
(* PersonalSigning, and a host that has lost its state and sends any       *)
(* request to two of the signers, in any order and any number of times.    *)
(***************************************************************************)
EXTENDS PersonalSigning
CONSTANTS s1, s2, s3, o1
VARIABLE host
MCExpiry == [o \in Operations |-> 2]
MCIds == 1..MaxBatches

\* Two requests for each of two signers, which draw two nonces; a restarted
\* signer without the durable replay store takes them again.
Stray(r) ==
  /\ r.id <= 2 /\ r.to # s3
  /\ r.package[s3] = NoNonce /\ \A s \in Signers : r.package[s] <= 2
  /\ r.kind = "one" => drawn < 2

\* A host without state: the coordinator's variables stay as they were.
AnyRequest ==
  /\ \/ \E r \in Requests : Stray(r) /\ Handle(r)
     \/ \E s \in Signers \ {s3} : RestartSigner(s)
     \/ Tick
  /\ UNCHANGED <<durable, process, sent, batches>>

MCInit == Init /\ host \in {"coordinator", "stateless"}

MCNext ==
  /\ \/ host = "coordinator" /\ Next
     \/ host = "stateless" /\ AnyRequest
  /\ UNCHANGED host

MCSpec == MCInit /\ [][MCNext]_<<vars, host>>
=============================================================================
