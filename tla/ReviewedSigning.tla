--------------------------- MODULE ReviewedSigning --------------------------
(***************************************************************************)
(* Reviews, signatures and what becomes of them.                           *)
(*                                                                         *)
(* A person approves the review of some material by the suite of one of    *)
(* the wallet's accounts, and the signers of that account sign the message *)
(* the review names.  From then on the signature exists: it can be         *)
(* presented with any artifact, to any suite, changed on the way.  The     *)
(* artifacts kept by the wallet may be genuine or have drifted: the        *)
(* digests of one review stored with the material of another.              *)
(*                                                                         *)
(* Fractal transactions go one step further: an adapter prepares a request *)
(* that is bound to a signer set and its epoch, installs the aggregate     *)
(* signature, and a node client runs the node's own acceptance test before *)
(* it sends.  The node answers what it likes, may be replaced by another   *)
(* one at any time, and a call may fail after it took effect.              *)
(***************************************************************************)
EXTENDS ReviewedSuites

CONSTANTS
    Accounts,     \* sequence of suites [scope, key, alg, type, signers, epoch]
    Materials,    \* sequence of transaction materials
    Nodes,        \* nodes a transport may reach: [chain, indexer]
    Desks,        \* parts under study: subset of {"verify", "fractal"}
    MaxApproved,  \* bound: reviews approved
    MaxSent       \* bound: transactions sent

\* An account has a scope, and no transaction spends a coin twice: a digest
\* that names the coin of the signed input then tells which input that is.
ASSUME ReviewAssumption ==
    /\ \A a \in DOMAIN Accounts : Accounts[a].scope \in ChainNetworks
    /\ \A k \in DOMAIN Materials :
          LET tx == Materials[k].tx
          IN /\ Materials[k].index \in Nat /\ Len(tx.outputs) \in Nat
             /\ \A i, l \in DOMAIN tx.inputs : tx.inputs[i].prev = tx.inputs[l].prev => i = l

VARIABLES
    desk,         \* the part under study
    approved,     \* <<account, material>>: approved, hence signed
    accepted,     \* <<account, material>> whose signature was accepted last
    request,      \* the FractalFrostSigningRequest of the adapter's caller
    finalized,    \* the FractalFinalizedKeySpend made from it
    rpc,          \* the scope of the connected FractalNodeRpc
    preflight,    \* the AcceptedFractalTransaction of a running broadcast
    sent          \* <<scope, spend>>: transactions a node was told to broadcast

reviewVars == <<desk, approved, accepted, request, finalized, rpc, preflight, sent>>
fractalVars == <<request, finalized, rpc, preflight, sent>>

Review(a, m) == ReviewTransaction(Accounts[a], Materials[m])
Jobs == (DOMAIN Accounts) \X (DOMAIN Materials)

\* Only what can be reviewed can be approved: an eager table of both.
Reviewable ==
    (UNION {{IF SuiteOpens(Accounts[j[1]]) /\ Review(j[1], j[2]) # {} THEN j ELSE <<>>} :
               j \in Jobs}) \ {<<>>}

ReviewInit ==
    /\ desk \in Desks
    /\ approved = {} /\ accepted = <<>>
    /\ request = <<>> /\ finalized = <<>> /\ preflight = <<>>
    /\ rpc = <<>>
    /\ sent = {}

Fractal(a) == Accounts[a].scope[1] = "fractal-bitcoin"

\* The review of account a is approved and its signers sign the message.
Approve(j) ==
    /\ Cardinality(approved) < MaxApproved
    /\ desk = "fractal" => Fractal(j[1])
    /\ approved' = approved \cup {j}
    /\ UNCHANGED <<desk, accepted, fractalVars>>

\* The signature made for job j, before it is assembled.
SignatureOf(j) ==
    [key |-> Accounts[j[1]].key, alg |-> SignatureAlgorithm(Accounts[j[1]]),
     message |-> (CHOOSE a \in Review(j[1], j[2]) : TRUE).message,
     s |-> "low", tail |-> <<>>]

\* What may be presented as the signature of job j: the assembled bytes, the
\* same with the other s, or with another type at the end.
Presented(j) ==
    UNION {{f, [f EXCEPT !.s = "high"], [f EXCEPT !.tail = <<67>>]} :
              f \in Assemble(Accounts[j[1]], Materials[j[2]], SignatureOf(j))}

\* Artifacts in the wallet's store, with the number of their material: reviews
\* of any account, and the digests of an approved review with other material.
\* They are read back, and so built again.
Genuine ==
    UNION {{<<j[2], a>> : a \in UNION {ReadArtifact(r) : r \in Review(j[1], j[2])}} :
              j \in Reviewable}
Drifted(j) ==
    UNION {{<<m, a>> : a \in UNION {ReadArtifact([r EXCEPT !.material = Materials[m]]) :
                                        r \in Review(j[1], j[2])}} :
              m \in DOMAIN Materials}

\* verify_finalized_signature by the suite of account b.
Verify(b, stored, f) ==
    /\ SuiteOpens(Accounts[b])
    /\ VerifyFinalizedSignature(Accounts[b], stored[2], f)
    /\ accepted' = <<b, stored[1]>>
    /\ UNCHANGED <<desk, approved, fractalVars>>

----------------------------------------------------------------------------
(* The Fractal adapter.                                                    *)

\* FractalFrostExecutionAdapter::new.
AdapterOpens(a) == Fractal(a) /\ SuiteOpens(Accounts[a])

\* ReviewBinding of an adapter for an artifact.
BindingOf(a, artifact) ==
    <<Accounts[a].scope, Accounts[a].signers, Accounts[a].epoch, artifact.schema,
      artifact.digest>>

ArtifactOf(a, m) == CHOOSE r \in Review(a, m) : TRUE

\* Fault: any hash type is prepared.
PrepareAnyType(a, m, session) ==
    /\ desk = "fractal" /\ AdapterOpens(a)
    /\ request = <<>>
    /\ session # 0
    /\ <<a, m>> \in Reviewable
    /\ request' = <<a, m>>
    /\ UNCHANGED <<desk, approved, accepted, finalized, rpc, preflight, sent>>

\* FractalFrostExecutionAdapter::prepare: a session, and nothing but the
\* default type, which signs all of the transaction.  The request holds the
\* review of material m and the binding of adapter a for it.
Prepare(a, m, session) ==
    /\ desk = "fractal" /\ AdapterOpens(a)
    /\ request = <<>>
    /\ session # 0
    /\ DecodeTaproot(Materials[m]) /\ ToRequest(Materials[m])
    /\ Materials[m].type = 0
    /\ <<a, m>> \in Reviewable
    /\ request' = <<a, m>>
    /\ UNCHANGED <<desk, approved, accepted, finalized, rpc, preflight, sent>>

\* The spend that the adapter of account a makes of the review of request q
\* and the signature of job j.
Spends(a, q, j) ==
    FinalizeReviewedKeySpend(Accounts[a], ArtifactOf(q[1], q[2]), SignatureOf(j))

\* finalize_with_signer, which consumes the request: the coordinator returns
\* a signature of some approved job, or fails.
FinalizeWithSigner(a) ==
    /\ desk = "fractal" /\ AdapterOpens(a)
    /\ request # <<>>
    /\ request' = <<>>
    /\ LET artifact == ArtifactOf(request[1], request[2])
       IN \/ finalized' = finalized
          \/ /\ BindingOf(request[1], artifact) = BindingOf(a, artifact)
             /\ \E j \in approved :
                   Spends(a, request, j) # {} /\ finalized' = <<a, request, j>>
    /\ UNCHANGED <<desk, approved, accepted, rpc, preflight, sent>>

\* The finished spend named by finalized, preflight or a member of sent.
SpendOf(x) == CHOOSE fin \in Spends(x[1], x[2], x[3]) : TRUE

----------------------------------------------------------------------------
(* The Fractal node client.                                                *)

\* fractal_rpc_chain_name.
FractalRpcChainName(network) ==
    CASE network = "mainnet" -> "main"
      [] network = "testnet3" -> "test"
      [] OTHER -> network

\* verify_node_identity: the node's network, and that it knows the calls only
\* a Fractal node has.
VerifyNodeIdentity(scope, n) == n.chain = FractalRpcChainName(scope[2]) /\ n.indexer

\* FractalNodeRpc::connect to node n, the one time its identity is looked at:
\* the later answers may come from any node.
Connect(scope, n) ==
    /\ desk = "fractal" /\ rpc # scope /\ preflight = <<>>
    /\ scope[1] = "fractal-bitcoin" /\ ScopeProfile(scope) # {}
    /\ VerifyNodeIdentity(scope, n)
    /\ rpc' = scope
    /\ UNCHANGED <<desk, approved, accepted, request, finalized, preflight, sent>>

\* test_mempool_accept, the first half of preflight_and_broadcast.  The entry
\* answered must name this transaction (txid) with this witness (wtxid) and
\* say it is allowed; anything else ends the call.
TestMempoolAccept(entry) ==
    /\ desk = "fractal" /\ rpc # <<>> /\ finalized # <<>> /\ preflight = <<>>
    /\ Cardinality(sent) < MaxSent
    /\ SpendOf(finalized).scope = rpc
    /\ entry.txid /\ entry.wtxid /\ entry.allowed
    /\ preflight' = finalized
    /\ UNCHANGED <<desk, approved, accepted, request, finalized, rpc, sent>>

\* broadcast_accepted: the bytes that passed are sent.  The call may be lost;
\* an answer that names another transaction is reported as an error although
\* they were sent.
BroadcastAccepted ==
    /\ desk = "fractal" /\ preflight # <<>>
    /\ preflight' = <<>>
    /\ \/ SpendOf(preflight).scope = rpc /\ sent' = sent \cup {<<rpc, preflight>>}
       \/ sent' = sent
    /\ UNCHANGED <<desk, approved, accepted, request, finalized, rpc>>

\* What a node may answer of the transaction it was asked about.
Entries == [txid : BOOLEAN, wtxid : BOOLEAN, allowed : BOOLEAN]

ReviewNext ==
    \/ \E j \in Reviewable : Approve(j)
    \/ /\ desk = "verify" /\ accepted = <<>>
       /\ \E stored \in Genuine \cup UNION {Drifted(j) : j \in approved} :
             \E f \in UNION {Presented(j) : j \in approved} :
                \E b \in DOMAIN Accounts : Verify(b, stored, f)
    \/ \E a \in DOMAIN Accounts, m \in DOMAIN Materials, session \in {0, 1} :
          Prepare(a, m, session)
    \/ \E a \in DOMAIN Accounts : FinalizeWithSigner(a)
    \/ \E a \in DOMAIN Accounts, n \in Nodes : Connect(Accounts[a].scope, n)
    \/ \E e \in Entries : TestMempoolAccept(e)
    \/ BroadcastAccepted

ReviewSpec == ReviewInit /\ [][ReviewNext]_reviewVars
----------------------------------------------------------------------------
(* Properties.                                                             *)

\* What a spend does, apart from the scripts that unlock its inputs.
Effects(m) ==
    [inputs |-> [i \in DOMAIN m.tx.inputs |-> <<m.tx.inputs[i].prev, m.tx.inputs[i].sequence>>],
     outputs |-> m.tx.outputs, lock |-> m.tx.lock, index |-> m.index]

\* Which outputs a hash type fixes: all of them, none, or the input's own.
FixedOutputs(m) ==
    LET base == CASE m.format = "taproot" -> m.type % 4
                  [] m.format = "kaspa" -> m.type % 128
                  [] OTHER -> m.type % 32
    IN CASE base \in {0, 1} -> m.tx.outputs
         [] base = 2 -> <<>>
         [] OTHER -> IF m.index > Len(m.tx.outputs) THEN <<>> ELSE <<m.tx.outputs[m.index]>>

\* The part of a spend that its hash type fixes.
Fixed(m) ==
    [own |-> m.tx.inputs[m.index].prev,
     inputs |-> IF AnyoneCanPay(m.type) THEN {}
                ELSE {m.tx.inputs[i].prev : i \in DOMAIN m.tx.inputs},
     outputs |-> FixedOutputs(m), lock |-> m.tx.lock]

\* The chains whose reviews admit only types that sign everything.
SignsAll(s) == s.scope[1] \in {"bitcoin-cash", "bsv"}

\* A signature is accepted for some material only if a review was approved
\* under the same key, for a transaction that does the same: on Bitcoin Cash
\* and BSV exactly the same, on the other chains at least in every part that
\* the hash type shown in both reviews fixes.  This is across accounts,
\* networks, drifted artifacts and changed signatures
\* (verify_finalized_signature of the suites).
AcceptedWasApproved ==
    accepted # <<>> =>
        \E j \in approved :
            LET s == Accounts[accepted[1]]
                m == Materials[accepted[2]]
                n == Materials[j[2]]
            IN /\ Accounts[j[1]].key = s.key
               /\ Fixed(m) = Fixed(n)
               /\ SignsAll(s) => Effects(m) = Effects(n)

\* A transaction handed to a Fractal node does exactly what a review that was
\* approved under that key says, in the scope the client was connected for.
\* The adapter and the client keep this through failing calls, nodes that
\* answer anything, and adapters of another scope or epoch (finalize_with_signer, preflight_and_broadcast).
BroadcastWasApproved ==
    /\ \A x \in sent :
          LET spend == SpendOf(x[2])
              witness == spend.ftx.witness[spend.index]
          IN /\ spend.scope = x[1]
             /\ \E j \in approved :
                   LET n == Materials[j[2]]
                   IN /\ Fractal(j[1])
                      /\ n.type = 0
                      /\ Effects(n) = Effects([tx |-> spend.ftx.tx, index |-> spend.index])
                      /\ witness[1].key = Accounts[j[1]].key
=============================================================================
