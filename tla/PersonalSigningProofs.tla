----------------------- MODULE PersonalSigningProofs ------------------------
(***************************************************************************)
(* Proofs about SignerProvider and PersonalSigning, for any number of      *)
(* signers, operations, batches and nonces, any deadlines and any set of   *)
(* faulty signers.                                                         *)
(*                                                                         *)
(* The provider on its own comes first.  NonceSignsOnce is not inductive:  *)
(* that a pending nonce was never used before follows from the order in    *)
(* which nonces are drawn.  Inv adds that no nonce is beyond the counter   *)
(* (Counted), that a pending nonce belongs to one round (PendingDistinct)  *)
(* and is neither signed nor burned (Unused), and that a durable store     *)
(* remembers what it answered (Remembered).                                *)
(*                                                                         *)
(* The composition takes only steps a provider allows, so all this holds   *)
(* in it.  For its other properties the invariant is Consistent: what the  *)
(* database, the requests sent, the answers and a running machine say of   *)
(* one operation fits together.  They are not inductive without it: that a *)
(* frozen package is the one the receipts rebuild needs what the machine   *)
(* and the receipts have in common while round one is collected            *)
(* (Collected), and that a share is one its signer made needs where an     *)
(* answer came from (Traced).                                              *)
(***************************************************************************)
EXTENDS PersonalSigning, FiniteSetTheorems, TLAPS

-----------------------------------------------------------------------------
(* The signer provider.                                                    *)

\* No nonce in use is beyond the number of nonces drawn.
Counted(p, d, sg, b) ==
  /\ \A s \in Signers : \A o \in Operations : p[s][o] <= d
  /\ \A x \in sg : x.nonce <= d
  /\ \A n \in b : n <= d

\* A pending nonce has neither signed nor been burned.
Unused(p, sg, b) ==
  \A s \in Signers : \A o \in Operations :
    p[s][o] # NoNonce =>
      /\ p[s][o] \notin b
      /\ \A x \in sg : x.nonce # p[s][o]

\* A durable store keeps the request nonce of everything answered.
Remembered ==
  \A x \in answers :
    x.request.to \in DurableReplay =>
      x.request.id \in consumed[x.request.to]

Inv ==
  /\ ProviderTypeOK
  /\ Counted(pending, drawn, signed, burned)
  /\ PendingDistinct
  /\ Unused(pending, signed, burned)
  /\ NonceSignsOnce
  /\ BurnedNeverSigns

AnswerInv == ProviderTypeOK /\ Remembered /\ AnsweredOnce

-----------------------------------------------------------------------------
\* The initial state is typed.
LEMMA TypeInit == ProviderInit => ProviderTypeOK
  BY ProviderAssumption
  DEF ProviderAssumption, ProviderInit, ProviderTypeOK, Nonces, NoNonce

\* Claiming a request nonce keeps the type of the replay stores.
LEMMA ClaimTyped ==
  ASSUME ProviderTypeOK, NEW r \in Requests, AuthorizeContext(r)
  PROVE  /\ consumed' \in [Signers -> SUBSET Ids]
         /\ r.id \notin consumed[r.to]
         /\ consumed' = [consumed EXCEPT ![r.to] = @ \cup {r.id}]
  BY Zenon DEF ProviderTypeOK, Requests, AuthorizeContext, ClaimRequestNonce

\* The fields of a request.
LEMMA RequestFields ==
  ASSUME NEW r \in Requests
  PROVE  /\ r.id \in Ids /\ r.to \in Signers /\ r.op \in Operations
         /\ r.package \in Packages
  BY Zenon, ProviderAssumption
  DEF Requests, Packages, NoPackage, Nonces, NoNonce, ProviderAssumption

\* Every step keeps the types.
LEMMA TypeStep ==
  ASSUME ProviderTypeOK, [ProviderNext]_<<now, providerVars>>
  PROVE  ProviderTypeOK'
<1>0. /\ MaxNonces \in Nat /\ MaxTime \in Nat
  BY Zenon, ProviderAssumption DEF ProviderAssumption
<1>a. /\ now \in 0..MaxTime
      /\ consumed \in [Signers -> SUBSET Ids]
      /\ reservations \in [Signers -> SUBSET Operations]
      /\ pending \in [Signers -> [Operations -> Nonces \cup {NoNonce}]]
      /\ claims \in [Signers -> SUBSET Nonces]
      /\ answers \subseteq Answers
      /\ drawn \in 0..MaxNonces
      /\ signed \subseteq [nonce : Nonces, op : Operations, package : Packages]
      /\ burned \subseteq Nonces
  BY Zenon DEF ProviderTypeOK
<1>1. ASSUME NEW r \in Requests, RoundOne(r) PROVE ProviderTypeOK'
  <2>1. r.to \in Signers /\ r.op \in Operations
    BY Zenon, RequestFields
  <2>2. AuthorizeContext(r) /\ Round1(r.to, r.op)
    BY Zenon, <1>1 DEF RoundOne, ReserveNonceAndCommit
  <2>3. consumed' \in [Signers -> SUBSET Ids]
    BY Zenon, <2>2, ClaimTyped
  <2>4. drawn + 1 \in Nonces /\ drawn' = drawn + 1
    BY <1>0, <1>a, <2>2 DEF Round1, Nonces
  <2>5. pending' \in [Signers -> [Operations -> Nonces \cup {NoNonce}]]
    BY Zenon, <1>a, <2>1, <2>2, <2>4 DEF Round1
  <2>6. reservations' \in [Signers -> SUBSET Operations]
    BY Zenon, <1>1, <1>a, <2>1 DEF RoundOne, ReserveNonceAndCommit
  <2>7. answers' \subseteq Answers
    BY <1>1, <1>a, <2>4 DEF RoundOne, Answers
  <2>8. UNCHANGED <<now, claims, signed, burned>>
    BY Zenon, <1>1 DEF RoundOne
  <2> QED
    BY <1>0, <1>a, <2>3, <2>4, <2>5, <2>6, <2>7, <2>8 DEF ProviderTypeOK, Nonces
<1>2. ASSUME NEW r \in Requests,
             RoundOneRefused(r) \/ RoundTwoRefused(r) \/ AbortRefused(r)
      PROVE  ProviderTypeOK'
  <2>1. AuthorizeContext(r)
    BY Zenon, <1>2 DEF RoundOneRefused, RoundTwoRefused, AbortRefused
  <2>2. consumed' \in [Signers -> SUBSET Ids]
    BY Zenon, <2>1, ClaimTyped
  <2>3. UNCHANGED <<now, reservations, pending, claims, answers, drawn, signed,
                    burned>>
    BY Zenon, <1>2 DEF RoundOneRefused, RoundTwoRefused, AbortRefused
  <2> QED
    BY Zenon, <1>a, <2>2, <2>3 DEF ProviderTypeOK
<1>3. ASSUME NEW r \in Requests, RoundTwo(r) PROVE ProviderTypeOK'
  <2>1. r.to \in Signers /\ r.op \in Operations /\ r.package \in Packages
    BY Zenon, RequestFields
  <2>2. AuthorizeContext(r) /\ Reserved(r) /\ Round2Matches(r) /\ TakePending(r)
        /\ SignShare(r) /\ BurnBeforeSigning(r)
    BY Zenon, <1>3 DEF RoundTwo
  <2>3. consumed' \in [Signers -> SUBSET Ids]
    BY Zenon, <2>2, ClaimTyped
  <2>4. pending[r.to][r.op] \in Nonces
    BY <1>a, <2>1, <2>2 DEF Reserved, Round2Matches
  <2>5. pending' \in [Signers -> [Operations -> Nonces \cup {NoNonce}]]
    BY Zenon, <1>a, <2>1, <2>2 DEF TakePending
  <2>6. reservations' \in [Signers -> SUBSET Operations]
    BY Zenon, <1>a, <2>1, <2>2 DEF BurnBeforeSigning
  <2>7. claims' \in [Signers -> SUBSET Nonces]
    BY Zenon, <1>a, <2>1, <2>2, <2>4 DEF SignShare
  <2>8. signed' \subseteq
          [nonce : Nonces, op : Operations, package : Packages]
    BY <1>a, <2>1, <2>2, <2>4 DEF SignShare
  <2>9. answers' \subseteq Answers
    <3>1. PICK share \in {pending[r.to][r.op]} \cup FaultyShare(r.to) :
            answers' = answers \cup {[request |-> r, nonce |-> share]}
      BY Zenon, <1>3 DEF RoundTwo
    <3>2. share \in Nonces \cup {NoNonce, BadShare}
      BY Zenon, <2>4, <3>1 DEF FaultyShare
    <3> QED
      BY <1>a, <3>1, <3>2 DEF Answers
  <2>10. UNCHANGED <<now, drawn, burned>>
    BY Zenon, <1>3 DEF RoundTwo
  <2> QED
    BY Zenon, <1>a, <2>3, <2>5, <2>6, <2>7, <2>8, <2>9, <2>10 DEF ProviderTypeOK
<1>4. ASSUME NEW r \in Requests, RoundTwoMismatched(r) PROVE ProviderTypeOK'
  <2>1. r.to \in Signers /\ r.op \in Operations
    BY RequestFields
  <2>2. AuthorizeContext(r) /\ BurnBeforeSigning(r)
        /\ UNCHANGED <<now, pending, claims, answers, drawn, signed, burned>>
    BY Zenon, <1>4 DEF RoundTwoMismatched
  <2>3. consumed' \in [Signers -> SUBSET Ids]
    BY Zenon, <2>2, ClaimTyped
  <2>4. reservations' \in [Signers -> SUBSET Operations]
    BY Zenon, <1>a, <2>1, <2>2 DEF BurnBeforeSigning
  <2> QED
    BY Zenon, <1>a, <2>2, <2>3, <2>4 DEF ProviderTypeOK
<1>5. ASSUME NEW r \in Requests, Abort(r) PROVE ProviderTypeOK'
  <2>1. r.to \in Signers /\ r.op \in Operations
    BY RequestFields
  <2>2. AuthorizeContext(r) /\ BurnReservation(r.to, r.op)
        /\ UNCHANGED <<now, claims, drawn, signed>>
    BY Zenon, <1>5 DEF Abort
  <2>3. consumed' \in [Signers -> SUBSET Ids]
    BY Zenon, <2>2, ClaimTyped
  <2>4. /\ reservations' \in [Signers -> SUBSET Operations]
        /\ pending' \in [Signers -> [Operations -> Nonces \cup {NoNonce}]]
    BY Zenon, <1>a, <2>1, <2>2 DEF BurnReservation
  <2>5. burned' \subseteq Nonces
    BY <1>a, <2>1, <2>2 DEF BurnReservation
  <2>6. answers' \subseteq Answers
    BY <1>5, <1>a DEF Abort, Answers
  <2> QED
    BY Zenon, <1>a, <2>2, <2>3, <2>4, <2>5, <2>6 DEF ProviderTypeOK
<1>6. ASSUME NEW s \in Signers, RestartSigner(s) PROVE ProviderTypeOK'
  <2>1. consumed' \in [Signers -> SUBSET Ids]
    BY Zenon, <1>6, <1>a DEF RestartSigner
  <2>2. /\ reservations' \in [Signers -> SUBSET Operations]
        /\ claims' \in [Signers -> SUBSET Nonces]
    BY Zenon, <1>6, <1>a DEF RestartSigner
  <2>3. pending' \in [Signers -> [Operations -> Nonces \cup {NoNonce}]]
    BY Zenon, <1>6, <1>a DEF RestartSigner
  <2>4. UNCHANGED <<now, answers, drawn, signed, burned>>
    BY Zenon, <1>6 DEF RestartSigner
  <2> QED
    BY Zenon, <1>a, <2>1, <2>2, <2>3, <2>4 DEF ProviderTypeOK
<1>7. ASSUME Tick PROVE ProviderTypeOK'
  BY <1>7, <1>0, <1>a DEF Tick, providerVars, ProviderTypeOK
<1>8. ASSUME UNCHANGED <<now, providerVars>> PROVE ProviderTypeOK'
  BY Zenon, <1>8, <1>a DEF providerVars, ProviderTypeOK
<1> QED
  BY Zenon, <1>1, <1>2, <1>3, <1>4, <1>5, <1>6, <1>7, <1>8 DEF ProviderNext, Handle

\* Every request store, reservation, pending round, answer and nonce keeps its
\* shape (GuardedSignerProvider and LocalFrostParticipant).
THEOREM ProviderTypeCorrect == ProviderSpec => []ProviderTypeOK
<1>1. ProviderTypeOK /\ [ProviderNext]_<<now, providerVars>> => ProviderTypeOK'
  BY Zenon, TypeStep
<1> QED
  BY TypeInit, <1>1, PTL DEF ProviderSpec

-----------------------------------------------------------------------------
\* Initially nothing is drawn, pending, signed or burned.
LEMMA InvInit == ProviderInit => Inv
<1> SUFFICES ASSUME ProviderInit PROVE Inv
  BY Zenon
<1>1. ProviderTypeOK
  BY Zenon, TypeInit
<1>2. Counted(pending, drawn, signed, burned)
  BY DEF ProviderInit, Counted, NoNonce
<1>3. PendingDistinct
  BY Zenon DEF ProviderInit, PendingDistinct
<1>4. Unused(pending, signed, burned) /\ NonceSignsOnce /\ BurnedNeverSigns
  BY Zenon DEF ProviderInit, Unused, NonceSignsOnce, BurnedNeverSigns
<1> QED
  BY Zenon, <1>1, <1>2, <1>3, <1>4 DEF Inv

\* Every step keeps the invariant.  A drawn nonce is beyond all others; a
\* nonce that signs or is burned stops being pending in the same step.
LEMMA InvStep ==
  ASSUME Inv, [ProviderNext]_<<now, providerVars>>
  PROVE  Inv'
<1>0. ProviderTypeOK'
  BY Zenon, TypeStep DEF Inv
<1>a. /\ MaxNonces \in Nat
      /\ reservations \in [Signers -> SUBSET Operations]
      /\ pending \in [Signers -> [Operations -> Nonces \cup {NoNonce}]]
      /\ drawn \in 0..MaxNonces
      /\ signed \subseteq [nonce : Nonces, op : Operations, package : Packages]
      /\ burned \subseteq Nonces
      /\ Nonces \cup {NoNonce} \subseteq Int
  BY ProviderAssumption
  DEF Inv, ProviderTypeOK, ProviderAssumption, Nonces, NoNonce
<1>i. /\ Counted(pending, drawn, signed, burned)
      /\ PendingDistinct
      /\ Unused(pending, signed, burned)
      /\ NonceSignsOnce
      /\ BurnedNeverSigns
  BY Zenon DEF Inv
<1>1. ASSUME NEW r \in Requests, RoundOne(r) PROVE Inv'
  <2>1. r.to \in Signers /\ r.op \in Operations
    BY Zenon, RequestFields
  <2>2. /\ drawn' = drawn + 1
        /\ pending' = [pending EXCEPT ![r.to][r.op] = drawn + 1]
        /\ reservations' = [reservations EXCEPT ![r.to] = @ \cup {r.op}]
        /\ UNCHANGED <<signed, burned>>
    BY Zenon, <1>1 DEF RoundOne, ReserveNonceAndCommit, Round1
  <2>3. \A s \in Signers : \A o \in Operations :
          pending'[s][o] =
            IF s = r.to /\ o = r.op THEN drawn + 1 ELSE pending[s][o]
    BY Zenon, <1>a, <2>1, <2>2
  <2>4. Counted(pending', drawn', signed', burned')
    BY <1>a, <1>i, <2>2, <2>3 DEF Counted
  <2>5. ASSUME NEW s \in Signers, NEW o \in Operations
        PROVE  pending[s][o] # drawn + 1
    <3>1. pending[s][o] \in Int /\ drawn \in Int
      BY <1>a
    <3>2. pending[s][o] <= drawn
      BY Zenon, <1>i DEF Counted
    <3> QED
      BY ONLY <3>1, <3>2
  <2>6. PendingDistinct'
    <3>1. \A s \in Signers : \A o \in Operations :
            o \in reservations'[s] => pending'[s][o] # NoNonce
      BY <1>a, <1>i, <2>1, <2>2, <2>3 DEF PendingDistinct, NoNonce
    <3>2. \A s, t \in Signers : \A o, p \in Operations :
            pending'[s][o] = pending'[t][p] /\ pending'[s][o] # NoNonce
            => s = t /\ o = p
      BY <1>a, <1>i, <2>3, <2>5 DEF PendingDistinct
    <3> QED
      BY <3>1, <3>2 DEF PendingDistinct
  <2>7. Unused(pending', signed', burned')
    BY <1>a, <1>i, <2>2, <2>3 DEF Unused, Counted
  <2>8. NonceSignsOnce' /\ BurnedNeverSigns'
    BY Zenon, <1>i, <2>2 DEF NonceSignsOnce, BurnedNeverSigns
  <2> QED
    BY ONLY <1>0, <2>4, <2>6, <2>7, <2>8 DEF Inv
<1>2. ASSUME NEW r \in Requests,
             RoundOneRefused(r) \/ RoundTwoRefused(r) \/ AbortRefused(r)
      PROVE  Inv'
  <2>1. UNCHANGED <<reservations, pending, drawn, signed, burned>>
    BY Zenon, <1>2 DEF RoundOneRefused, RoundTwoRefused, AbortRefused
  <2> QED
    BY <1>0, <1>i, <2>1
    DEF Inv, Counted, PendingDistinct, Unused, NonceSignsOnce, BurnedNeverSigns
<1>3. ASSUME NEW r \in Requests, RoundTwo(r) PROVE Inv'
  <2>1. r.to \in Signers /\ r.op \in Operations
    BY RequestFields
  <2>2. /\ r.op \in reservations[r.to]
        /\ pending' = [pending EXCEPT ![r.to][r.op] = NoNonce]
        /\ reservations' = [reservations EXCEPT ![r.to] = @ \ {r.op}]
        /\ signed' = signed \cup
             {[nonce |-> pending[r.to][r.op], op |-> r.op,
               package |-> r.package]}
        /\ UNCHANGED <<drawn, burned>>
    BY Zenon, <1>3 DEF RoundTwo, Reserved, TakePending, BurnBeforeSigning, SignShare
  <2>3. \A s \in Signers : \A o \in Operations :
          pending'[s][o] =
            IF s = r.to /\ o = r.op THEN NoNonce ELSE pending[s][o]
    BY Zenon, <1>a, <2>1, <2>2
  <2>4. pending[r.to][r.op] # NoNonce
    BY <1>i, <2>1, <2>2 DEF PendingDistinct
  <2>5. Counted(pending', drawn', signed', burned')
    BY <1>a, <1>i, <2>1, <2>2, <2>3 DEF Counted, NoNonce
  <2>6. PendingDistinct'
    <3>1. \A s \in Signers : \A o \in Operations :
            o \in reservations'[s] => pending'[s][o] # NoNonce
      BY <1>a, <1>i, <2>1, <2>2, <2>3 DEF PendingDistinct
    <3>2. \A s, t \in Signers : \A o, p \in Operations :
            pending'[s][o] = pending'[t][p] /\ pending'[s][o] # NoNonce
            => s = t /\ o = p
      BY <1>i, <2>3 DEF PendingDistinct
    <3> QED
      BY <3>1, <3>2 DEF PendingDistinct
  <2>7. Unused(pending', signed', burned')
    <3> SUFFICES ASSUME NEW s \in Signers, NEW o \in Operations,
                        pending'[s][o] # NoNonce
                 PROVE  /\ pending'[s][o] \notin burned'
                        /\ \A x \in signed' : x.nonce # pending'[s][o]
      BY Zenon DEF Unused
    <3>1. pending'[s][o] = pending[s][o] /\ ~(s = r.to /\ o = r.op)
      BY Zenon, <2>3
    <3>2. pending[s][o] # pending[r.to][r.op]
      BY <1>i, <2>1, <3>1 DEF PendingDistinct
    <3> QED
      BY <1>i, <2>2, <3>1, <3>2 DEF Unused
  <2>8. \A x \in signed : x.nonce # pending[r.to][r.op]
    BY Zenon, <1>i, <2>1, <2>4 DEF Unused
  <2>9. NonceSignsOnce'
    BY <1>i, <2>2, <2>8 DEF NonceSignsOnce
  <2>10. BurnedNeverSigns'
    BY <1>i, <2>1, <2>2, <2>4 DEF BurnedNeverSigns, Unused
  <2> QED
    BY ONLY <1>0, <2>5, <2>6, <2>7, <2>9, <2>10 DEF Inv
<1>4. ASSUME NEW r \in Requests, RoundTwoMismatched(r) PROVE Inv'
  <2>1. r.to \in Signers
    BY Zenon, RequestFields
  <2>2. /\ reservations' = [reservations EXCEPT ![r.to] = @ \ {r.op}]
        /\ UNCHANGED <<pending, drawn, signed, burned>>
    BY Zenon, <1>4 DEF RoundTwoMismatched, BurnBeforeSigning
  <2>3. PendingDistinct'
    BY <1>a, <1>i, <2>1, <2>2 DEF PendingDistinct
  <2> QED
    BY Zenon, <1>0, <1>i, <2>2, <2>3
    DEF Inv, Counted, Unused, NonceSignsOnce, BurnedNeverSigns
<1>5. ASSUME NEW r \in Requests, Abort(r) PROVE Inv'
  <2>1. r.to \in Signers /\ r.op \in Operations
    BY RequestFields
  <2>2. /\ pending' = [pending EXCEPT ![r.to][r.op] = NoNonce]
        /\ reservations' = [reservations EXCEPT ![r.to] = @ \ {r.op}]
        /\ burned' = burned \cup ({pending[r.to][r.op]} \ {NoNonce})
        /\ UNCHANGED <<drawn, signed>>
    BY Zenon, <1>5 DEF Abort, BurnReservation
  <2>3. \A s \in Signers : \A o \in Operations :
          pending'[s][o] =
            IF s = r.to /\ o = r.op THEN NoNonce ELSE pending[s][o]
    BY Zenon, <1>a, <2>1, <2>2
  <2>4. Counted(pending', drawn', signed', burned')
    BY <1>a, <1>i, <2>1, <2>2, <2>3 DEF Counted, NoNonce
  <2>5. PendingDistinct'
    <3>1. \A s \in Signers : \A o \in Operations :
            o \in reservations'[s] => pending'[s][o] # NoNonce
      BY <1>a, <1>i, <2>1, <2>2, <2>3 DEF PendingDistinct
    <3>2. \A s, t \in Signers : \A o, p \in Operations :
            pending'[s][o] = pending'[t][p] /\ pending'[s][o] # NoNonce
            => s = t /\ o = p
      BY <1>i, <2>3 DEF PendingDistinct
    <3> QED
      BY <3>1, <3>2 DEF PendingDistinct
  <2>6. Unused(pending', signed', burned')
    <3> SUFFICES ASSUME NEW s \in Signers, NEW o \in Operations,
                        pending'[s][o] # NoNonce
                 PROVE  /\ pending'[s][o] \notin burned'
                        /\ \A x \in signed' : x.nonce # pending'[s][o]
      BY DEF Unused
    <3>1. pending'[s][o] = pending[s][o] /\ ~(s = r.to /\ o = r.op)
      BY <2>3
    <3>2. pending[s][o] # pending[r.to][r.op]
      BY <1>i, <2>1, <3>1 DEF PendingDistinct
    <3> QED
      BY <1>i, <2>2, <3>1, <3>2 DEF Unused
  <2>7. NonceSignsOnce'
    BY Zenon, <1>i, <2>2 DEF NonceSignsOnce
  <2>8. BurnedNeverSigns'
    BY Zenon, <1>i, <2>1, <2>2 DEF BurnedNeverSigns, Unused
  <2> QED
    BY ONLY <1>0, <2>4, <2>5, <2>6, <2>7, <2>8 DEF Inv
<1>6. ASSUME NEW z \in Signers, RestartSigner(z) PROVE Inv'
  <2>1. /\ reservations' = [reservations EXCEPT ![z] = {}]
        /\ pending' = [pending EXCEPT ![z] = [o \in Operations |-> NoNonce]]
        /\ UNCHANGED <<drawn, signed, burned>>
    BY Zenon, <1>6 DEF RestartSigner
  <2>2. \A s \in Signers : \A o \in Operations :
          pending'[s][o] = IF s = z THEN NoNonce ELSE pending[s][o]
    BY Zenon, <1>a, <2>1
  <2>3. Counted(pending', drawn', signed', burned')
    BY <1>a, <1>i, <2>1, <2>2 DEF Counted, NoNonce
  <2>4. PendingDistinct'
    BY <1>a, <1>i, <2>1, <2>2 DEF PendingDistinct
  <2>5. Unused(pending', signed', burned')
    BY <1>i, <2>1, <2>2 DEF Unused
  <2>6. NonceSignsOnce' /\ BurnedNeverSigns'
    BY Zenon, <1>i, <2>1 DEF NonceSignsOnce, BurnedNeverSigns
  <2> QED
    BY ONLY <1>0, <2>3, <2>4, <2>5, <2>6 DEF Inv
<1>7. ASSUME Tick \/ UNCHANGED <<now, providerVars>> PROVE Inv'
  <2>1. UNCHANGED <<reservations, pending, drawn, signed, burned>>
    BY Zenon, <1>7 DEF Tick, providerVars
  <2> QED
    BY <1>0, <1>i, <2>1
    DEF Inv, Counted, PendingDistinct, Unused, NonceSignsOnce, BurnedNeverSigns
<1> QED
  BY Zenon, <1>1, <1>2, <1>3, <1>4, <1>5, <1>6, <1>7 DEF ProviderNext, Handle

\* The invariant holds throughout.
LEMMA Invariance == ProviderSpec => []Inv
<1>1. Inv /\ [ProviderNext]_<<now, providerVars>> => Inv'
  BY Zenon, InvStep
<1> QED
  BY InvInit, <1>1, PTL DEF ProviderSpec

\* No nonce of any signer signs two packages, under any order and repetition
\* of requests and any restarts (NonceGuard, LocalFrostParticipant::round2).
THEOREM NoncesSignOnce == ProviderSpec => []NonceSignsOnce
<1>1. Inv => NonceSignsOnce
  BY Zenon DEF Inv
<1> QED
  BY Invariance, <1>1, PTL

\* A nonce burned by an abort has not signed and never will
\* (LocalEncryptedFrostBackend::burn_reservation).
THEOREM BurnedStaysUnsigned == ProviderSpec => []BurnedNeverSigns
<1>1. Inv => BurnedNeverSigns
  BY Zenon DEF Inv
<1> QED
  BY Invariance, <1>1, PTL

\* Every reservation has nonces of its own
\* (LocalEncryptedFrostBackend::reserve_nonce_and_commit).
THEOREM PendingStaysDistinct == ProviderSpec => []PendingDistinct
<1>1. Inv => PendingDistinct
  BY Zenon DEF Inv
<1> QED
  BY Invariance, <1>1, PTL

-----------------------------------------------------------------------------
\* An answer in a step of a request comes with the claim of its request nonce.
LEMMA AnswerStep ==
  ASSUME AnswerInv, [ProviderNext]_<<now, providerVars>>
  PROVE  AnswerInv'
<1>0. ProviderTypeOK'
  BY Zenon, TypeStep DEF AnswerInv
<1>a. /\ consumed \in [Signers -> SUBSET Ids]
      /\ answers \subseteq Answers
      /\ Remembered
      /\ AnsweredOnce
  BY Zenon DEF AnswerInv, ProviderTypeOK
<1>b. \A x \in answers : x.request.to \in Signers
  BY Zenon, <1>a, RequestFields DEF Answers
<1>1. ASSUME NEW r \in Requests, NEW n, AuthorizeContext(r),
             answers' = answers \cup {[request |-> r, nonce |-> n]}
      PROVE  AnswerInv'
  <2>1. r.to \in Signers
    BY RequestFields
  <2>2. /\ r.id \notin consumed[r.to]
        /\ consumed' = [consumed EXCEPT ![r.to] = @ \cup {r.id}]
    BY Zenon, <1>1 DEF AuthorizeContext, ClaimRequestNonce
  <2>3. \A s \in Signers : consumed[s] \subseteq consumed'[s]
    BY Zenon, <1>a, <2>1, <2>2
  <2>4. r.id \in consumed'[r.to]
    BY Zenon, <1>a, <2>1, <2>2
  <2>5. Remembered'
    <3> SUFFICES ASSUME NEW x \in answers', x.request.to \in DurableReplay
                 PROVE  x.request.id \in consumed'[x.request.to]
      BY Zenon DEF Remembered
    <3>1. CASE x \in answers
      BY Zenon, <1>a, <1>b, <2>3, <3>1 DEF Remembered
    <3>2. CASE x = [request |-> r, nonce |-> n]
      BY Zenon, <2>4, <3>2
    <3> QED
      BY Zenon, <1>1, <3>1, <3>2
  <2>6. ASSUME NEW x \in answers, x.request.to \in DurableReplay,
               x.request.to = r.to
        PROVE  x.request.id # r.id
    BY Zenon, <1>a, <2>2, <2>6 DEF Remembered
  <2>7. AnsweredOnce'
    <3> SUFFICES ASSUME NEW x \in answers', NEW y \in answers',
                        x.request.id = y.request.id,
                        x.request.to = y.request.to,
                        x.request.to \in DurableReplay
                 PROVE  x = y
      BY Zenon DEF AnsweredOnce
    <3>1. CASE x \in answers /\ y \in answers
      BY Zenon, <1>a, <3>1 DEF AnsweredOnce
    <3>2. CASE x \in answers /\ y = [request |-> r, nonce |-> n]
      BY Zenon, <2>6, <3>2
    <3>3. CASE x = [request |-> r, nonce |-> n] /\ y \in answers
      BY Zenon, <2>6, <3>3
    <3> QED
      BY Zenon, <1>1, <3>1, <3>2, <3>3
  <2> QED
    BY Zenon, <1>0, <2>5, <2>7 DEF AnswerInv
<1>2. ASSUME NEW r \in Requests, AuthorizeContext(r), UNCHANGED answers
      PROVE  AnswerInv'
  <2>1. r.to \in Signers
    BY RequestFields
  <2>2. \A s \in Signers : consumed[s] \subseteq consumed'[s]
    BY Zenon, <1>2, <1>a, <2>1 DEF AuthorizeContext, ClaimRequestNonce
  <2>3. Remembered'
    BY Zenon, <1>2, <1>a, <1>b, <2>2 DEF Remembered
  <2> QED
    BY Zenon, <1>0, <1>2, <1>a, <2>3 DEF AnswerInv, AnsweredOnce
<1>3. ASSUME NEW z \in Signers, RestartSigner(z) PROVE AnswerInv'
  <2>1. UNCHANGED answers
    BY Zenon, <1>3 DEF RestartSigner
  <2>2. \A s \in DurableReplay : s \in Signers => consumed'[s] = consumed[s]
    BY Zenon, <1>3, <1>a DEF RestartSigner
  <2>3. Remembered'
    BY Zenon, <1>a, <1>b, <2>1, <2>2 DEF Remembered
  <2> QED
    BY Zenon, <1>0, <1>a, <2>1, <2>3 DEF AnswerInv, AnsweredOnce
<1>4. ASSUME Tick \/ UNCHANGED <<now, providerVars>> PROVE AnswerInv'
  <2>1. UNCHANGED <<answers, consumed>>
    BY Zenon, <1>4 DEF Tick, providerVars
  <2> QED
    BY Zenon, <1>0, <1>a, <2>1 DEF AnswerInv, AnsweredOnce, Remembered
<1>5. ASSUME NEW r \in Requests, Handle(r) PROVE AnswerInv'
  <2>1. CASE RoundOne(r)
    BY Zenon, <1>1, <2>1 DEF RoundOne
  <2>2. CASE RoundTwo(r)
    <3>1. PICK share \in {pending[r.to][r.op]} \cup FaultyShare(r.to) :
            answers' = answers \cup {[request |-> r, nonce |-> share]}
      BY Zenon, <2>2 DEF RoundTwo
    <3> QED
      BY Zenon, <1>1, <2>2, <3>1 DEF RoundTwo
  <2>3. CASE Abort(r)
    BY Zenon, <1>1, <2>3 DEF Abort
  <2>4. CASE RoundOneRefused(r) \/ RoundTwoMismatched(r)
             \/ RoundTwoRefused(r) \/ AbortRefused(r)
    BY Zenon, <1>2, <2>4
    DEF RoundOneRefused, RoundTwoMismatched, RoundTwoRefused, AbortRefused
  <2> QED
    BY Zenon, <1>5, <2>1, <2>2, <2>3, <2>4 DEF Handle
<1> QED
  BY Zenon, <1>3, <1>4, <1>5 DEF ProviderNext

\* A signer whose replay store is durable answers a request nonce at most once
\* (ProviderReplayStore::claim_request_nonce).
THEOREM DurablyAnsweredOnce == ProviderSpec => []AnsweredOnce
<1>1. ProviderInit => AnswerInv
  BY Zenon, TypeInit DEF ProviderInit, AnswerInv, Remembered, AnsweredOnce
<1>2. AnswerInv /\ [ProviderNext]_<<now, providerVars>> => AnswerInv'
  BY AnswerStep
<1>3. AnswerInv => AnsweredOnce
  BY Zenon DEF AnswerInv
<1> QED
  BY <1>1, <1>2, <1>3, PTL DEF ProviderSpec

-----------------------------------------------------------------------------
(* The composition with the coordinator.                                   *)

\* Every answer answers a request that was sent; a commitment is a nonce, and
\* a share is what its signer signed, or bad.
Traced ==
  \A a \in answers :
    /\ a.request \in sent
    /\ a.request.kind = "one" => a.nonce \in Nonces
    /\ a.request.kind = "two" =>
         \/ a.nonce = BadShare
         \/ [nonce |-> a.nonce, op |-> a.request.op,
             package |-> a.request.package] \in signed

TypeInv == TypeOK /\ Traced

-----------------------------------------------------------------------------
\* Facts about the values the actions write.

\* The empty contributions are typed.
LEMMA NothingTyped ==
  /\ NoPackage \in Packages
  /\ Nothing \in Packages
  /\ Nothing \in Contributions
  /\ NoContext \in [Signers -> Ids \cup {0}]
  /\ NoMachine \in Machines
  BY Zenon DEF NoPackage, Nothing, NoContext, NoMachine, Packages, Contributions,
         Machines, Phases

\* The operations of the session machine yield machines.
LEMMA MachineTyped ==
  ASSUME NEW m \in Machines, NEW s \in Signers
  PROVE  /\ \A n \in Nonces : AddCommitment(m, s, n) \in Machines
         /\ \A n \in Nonces \cup {NoNonce, BadShare} :
              AddShare(m, s, n) \in Machines
         /\ FreezeMachine(m) \in Machines
         /\ FailMachine(m) \in Machines
         /\ FinalizeMachine(m) \in Machines
         /\ [m EXCEPT !.phase = "expired"] \in Machines
  BY Zenon DEF Machines, AddCommitment, AddShare, FreezeMachine, FailMachine,
         FinalizeMachine, Phases, Collecting, Packages, Contributions

\* A dispatch sends requests and counts a batch.
LEMMA DispatchTyped ==
  ASSUME TypeOK, NEW o \in Operations, NEW P \in SUBSET Signers,
         NEW kind, NEW pkg, Dispatch(o, P, kind, pkg),
         \/ kind \in {"one", "abort"} /\ pkg = NoPackage
         \/ kind = "two" /\ pkg \in Packages
  PROVE  /\ sent' \subseteq Requests
         /\ batches' \in 0..MaxBatches
         /\ Context(P) \in [Signers -> Ids \cup {0}]
<1>1. MaxBatches \in Nat /\ Ids = 1..MaxBatches
  BY Zenon, BatchAssumption DEF BatchAssumption
<1>2. batches + 1 \in Ids /\ batches' \in 0..MaxBatches
  BY <1>1 DEF TypeOK, Dispatch
<1>3. \A s \in P : [id |-> batches + 1, to |-> s, op |-> o, kind |-> kind,
                    package |-> pkg] \in Requests
  BY Zenon, <1>2 DEF Requests
<1>4. sent' \subseteq Requests
  BY Zenon, <1>3 DEF TypeOK, Dispatch
<1>5. Context(P) \in [Signers -> Ids \cup {0}]
  BY Zenon, <1>2 DEF Context
<1> QED
  BY Zenon, <1>2, <1>4, <1>5

\* An answered context stays a context.
LEMMA ContextTyped ==
  ASSUME NEW c \in [Operations -> [Signers -> Ids \cup {0}]],
         NEW o \in Operations, NEW s \in Signers
  PROVE  [c EXCEPT ![o][s] = 0] \in [Operations -> [Signers -> Ids \cup {0}]]
<1>1. [c[o] EXCEPT ![s] = 0] \in [Signers -> Ids \cup {0}]
  BY Zenon
<1> QED
  BY Zenon, <1>1

\* An answer comes from a signer.
LEMMA AnswerFields ==
  ASSUME TypeOK, NEW a \in answers
  PROVE  /\ a.request \in Requests
         /\ a.request.to \in Signers
         /\ a.request.op \in Operations
         /\ a.request.id \in Ids
         /\ a.nonce \in Nonces \cup {NoNonce, BadShare}
  BY Zenon, RequestFields DEF TypeOK, ProviderTypeOK, Answers

-----------------------------------------------------------------------------
\* Type correctness, and where answers come from.

RowsTyped ==
  /\ status \in [Operations -> {"none"} \cup Collecting \cup Terminal]
  /\ selected \in [Operations -> SUBSET Signers]
  /\ package \in [Operations -> Packages]
  /\ commitmentReceipt \in [Operations -> Packages]
  /\ shareReceipt \in [Operations -> Contributions]

ProcessTyped ==
  /\ machine \in [Operations -> Machines]
  /\ roundOneContext \in [Operations -> [Signers -> Ids \cup {0}]]
  /\ roundTwoContext \in [Operations -> [Signers -> Ids \cup {0}]]

\* The types of the coordinator's state, taken apart.
LEMMA TypeParts ==
  TypeOK <=> /\ ProviderTypeOK /\ RowsTyped /\ ProcessTyped
             /\ sent \subseteq Requests /\ batches \in 0..MaxBatches
  BY Zenon DEF TypeOK, RowsTyped, ProcessTyped

\* The transactions keep the types of the rows.
LEMMA RowsStep ==
  ASSUME RowsTyped, NEW o \in Operations, NEW s \in Signers,
         \/ \E P \in Pairs : InsertOperation(o, P)
         \/ \E n \in Nonces : RecordCommitment(o, s, n)
         \/ \E n \in Nonces \cup {NoNonce, BadShare} : RecordShare(o, s, n)
         \/ \E pkg \in Packages : FreezeOperation(o, pkg)
         \/ CompleteOperation(o)
         \/ \E st \in Terminal : TerminateOperation(o, st)
         \/ FailedWrite
  PROVE  RowsTyped'
<1>1. ASSUME NEW P \in Pairs, InsertOperation(o, P) PROVE RowsTyped'
  BY Zenon, <1>1 DEF RowsTyped, InsertOperation, Pairs, Collecting
<1>2. ASSUME NEW n \in Nonces, RecordCommitment(o, s, n) PROVE RowsTyped'
  BY Zenon, <1>2 DEF RowsTyped, RecordCommitment, Packages
<1>3. ASSUME NEW n \in Nonces \cup {NoNonce, BadShare}, RecordShare(o, s, n)
      PROVE  RowsTyped'
  BY Zenon, <1>3 DEF RowsTyped, RecordShare, Contributions
<1>4. ASSUME NEW pkg \in Packages, FreezeOperation(o, pkg) PROVE RowsTyped'
  BY Zenon, <1>4 DEF RowsTyped, FreezeOperation, Collecting
<1>5. ASSUME CompleteOperation(o) PROVE RowsTyped'
  BY Zenon, <1>5 DEF RowsTyped, CompleteOperation, Terminal
<1>6. ASSUME NEW st \in Terminal, TerminateOperation(o, st) PROVE RowsTyped'
  BY Zenon, <1>6 DEF RowsTyped, TerminateOperation
<1>7. ASSUME FailedWrite PROVE RowsTyped'
  BY Zenon, <1>7 DEF RowsTyped, FailedWrite, durable
<1> QED
  BY Zenon, <1>1, <1>2, <1>3, <1>4, <1>5, <1>6, <1>7

\* The coordinator's steps keep all types.
LEMMA CoordinateTyped ==
  ASSUME TypeInv, NEW o \in Operations, Coordinate(o)
  PROVE  TypeOK' /\ UNCHANGED <<now, providerVars>>
<1>a. /\ ProviderTypeOK /\ RowsTyped /\ ProcessTyped
      /\ sent \subseteq Requests /\ batches \in 0..MaxBatches
  BY Zenon, TypeParts DEF TypeInv
<1>b. /\ machine[o] \in Machines
      /\ machine[o].commitments \in Packages
      /\ selected[o] \in SUBSET Signers
      /\ package[o] \in Packages
      /\ commitmentReceipt[o] \in Packages
      /\ shareReceipt[o] \in Contributions
  BY Zenon, <1>a DEF RowsTyped, ProcessTyped, Machines
<1>s. PICK s0 : s0 \in Signers
  BY Zenon, ProviderAssumption DEF ProviderAssumption
<1>n. NoDispatch => sent' \subseteq Requests /\ batches' \in 0..MaxBatches
  BY Zenon, <1>a DEF NoDispatch
<1>u. UNCHANGED <<now, providerVars>> => ProviderTypeOK'
  BY Zenon, <1>a DEF ProviderTypeOK, providerVars
<1>t. TypeOK
  BY Zenon DEF TypeInv
<1>p. ProviderTypeOK' /\ RowsTyped' /\ ProcessTyped' /\ sent' \subseteq Requests
      /\ batches' \in 0..MaxBatches => TypeOK'
  BY Zenon DEF TypeOK, RowsTyped, ProcessTyped
<1>1. ASSUME NEW P \in Pairs, BeginAuthorized(o, P)
      PROVE  TypeOK' /\ UNCHANGED <<now, providerVars>>
  <2>1. P \in SUBSET Signers
    BY Zenon DEF Pairs
  <2>2. /\ sent' \subseteq Requests /\ batches' \in 0..MaxBatches
        /\ Context(P) \in [Signers -> Ids \cup {0}]
    BY Zenon, <1>1, <1>t, <2>1, DispatchTyped DEF BeginAuthorized
  <2>3. [NoMachine EXCEPT !.phase = "collecting_commitments"] \in Machines
    BY Zenon, NothingTyped DEF Machines, Phases, Collecting
  <2>4. ProcessTyped'
    BY Zenon, <1>1, <1>a, <2>2, <2>3, NothingTyped DEF BeginAuthorized, ProcessTyped
  <2>5. RowsTyped'
    BY Zenon, <1>1, <1>a, <1>s, RowsStep DEF BeginAuthorized
  <2> QED
    BY Zenon, <1>1, <1>p, <1>u, <2>2, <2>4, <2>5 DEF BeginAuthorized
<1>2. ASSUME NEW a \in answers, AcceptRoundOne(o, a) \/ AcceptRoundOneFails(o, a)
      PROVE  TypeOK' /\ UNCHANGED <<now, providerVars>>
  <2>1. a.request.to \in Signers /\ a.nonce \in Nonces
    BY Zenon, <1>2, <1>t, AnswerFields
    DEF TypeInv, Traced, AcceptRoundOne, AcceptRoundOneFails, AwaitedOne
  <2>2. AddCommitment(machine[o], a.request.to, a.nonce) \in Machines
    BY Zenon, <1>b, <2>1, MachineTyped
  <2>3. ProcessTyped'
    <3>1. machine' \in [Operations -> Machines]
      BY Zenon, <1>2, <1>a, <2>2
      DEF AcceptRoundOne, AcceptRoundOneFails, ProcessTyped
    <3>2. \/ UNCHANGED roundOneContext
          \/ roundOneContext' = [roundOneContext EXCEPT ![o][a.request.to] = 0]
      BY Zenon, <1>2 DEF AcceptRoundOne, AcceptRoundOneFails
    <3>3. UNCHANGED roundTwoContext
      BY Zenon, <1>2 DEF AcceptRoundOne, AcceptRoundOneFails
    <3>4. roundOneContext' \in [Operations -> [Signers -> Ids \cup {0}]]
      <4>1. roundOneContext \in [Operations -> [Signers -> Ids \cup {0}]]
        BY Zenon, <1>a DEF ProcessTyped
      <4>2. [roundOneContext EXCEPT ![o][a.request.to] = 0]
              \in [Operations -> [Signers -> Ids \cup {0}]]
        BY ONLY Zenon, <2>1, <4>1, o \in Operations, ContextTyped
      <4> QED
        BY ONLY Zenon, <3>2, <4>1, <4>2
    <3> QED
      BY Zenon, <1>a, <3>1, <3>3, <3>4 DEF ProcessTyped
  <2>4. RowsTyped'
    BY Zenon, <1>2, <1>a, <2>1, RowsStep DEF AcceptRoundOne, AcceptRoundOneFails
  <2> QED
    BY Zenon, <1>2, <1>p, <1>u, <1>n, <2>3, <2>4
    DEF AcceptRoundOne, AcceptRoundOneFails
<1>3. ASSUME NEW a \in answers,
             AcceptRoundTwo(o, a) \/ AcceptRoundTwoFails(o, a)
      PROVE  TypeOK' /\ UNCHANGED <<now, providerVars>>
  <2>1. a.request.to \in Signers /\ a.nonce \in Nonces \cup {NoNonce, BadShare}
    BY Zenon, <1>t, AnswerFields
  <2>2. AddShare(machine[o], a.request.to, a.nonce) \in Machines
    BY Zenon, <1>b, <2>1, MachineTyped
  <2>3. ProcessTyped'
    <3>1. machine' \in [Operations -> Machines]
      BY Zenon, <1>3, <1>a, <2>2
      DEF AcceptRoundTwo, AcceptRoundTwoFails, ProcessTyped
    <3>2. \/ UNCHANGED roundTwoContext
          \/ roundTwoContext' = [roundTwoContext EXCEPT ![o][a.request.to] = 0]
      BY Zenon, <1>3 DEF AcceptRoundTwo, AcceptRoundTwoFails
    <3>3. UNCHANGED roundOneContext
      BY Zenon, <1>3 DEF AcceptRoundTwo, AcceptRoundTwoFails
    <3>4. roundTwoContext' \in [Operations -> [Signers -> Ids \cup {0}]]
      <4>1. roundTwoContext \in [Operations -> [Signers -> Ids \cup {0}]]
        BY Zenon, <1>a DEF ProcessTyped
      <4>2. [roundTwoContext EXCEPT ![o][a.request.to] = 0]
              \in [Operations -> [Signers -> Ids \cup {0}]]
        BY ONLY Zenon, <2>1, <4>1, o \in Operations, ContextTyped
      <4> QED
        BY ONLY Zenon, <3>2, <4>1, <4>2
    <3> QED
      BY Zenon, <1>a, <3>1, <3>3, <3>4 DEF ProcessTyped
  <2>4. RowsTyped'
    BY Zenon, <1>3, <1>a, <2>1, RowsStep DEF AcceptRoundTwo, AcceptRoundTwoFails
  <2> QED
    BY Zenon, <1>3, <1>p, <1>u, <1>n, <2>3, <2>4
    DEF AcceptRoundTwo, AcceptRoundTwoFails
<1>4. ASSUME NEW a \in answers, RejectShare(o, a)
      PROVE  TypeOK' /\ UNCHANGED <<now, providerVars>>
  <2>1. ProcessTyped'
    BY Zenon, <1>4, <1>a, <1>b, <1>s, MachineTyped DEF RejectShare, ProcessTyped
  <2>2. RowsTyped'
    BY Zenon, <1>4, <1>a DEF RejectShare, RowsTyped, durable
  <2> QED
    BY Zenon, <1>4, <1>p, <1>u, <1>n, <2>1, <2>2 DEF RejectShare
<1>5. ASSUME FreezeCommitments(o)
      PROVE  TypeOK' /\ UNCHANGED <<now, providerVars>>
  <2>1. /\ sent' \subseteq Requests /\ batches' \in 0..MaxBatches
        /\ Context(selected[o]) \in [Signers -> Ids \cup {0}]
    BY Zenon, <1>5, <1>b, <1>t, DispatchTyped DEF FreezeCommitments
  <2>2. ProcessTyped'
    BY Zenon, <1>5, <1>a, <1>b, <1>s, <2>1, MachineTyped
    DEF FreezeCommitments, ProcessTyped
  <2>3. RowsTyped'
    BY Zenon, <1>5, <1>a, <1>b, <1>s, RowsStep DEF FreezeCommitments
  <2> QED
    BY Zenon, <1>5, <1>p, <1>u, <2>1, <2>2, <2>3 DEF FreezeCommitments
<1>6. ASSUME FreezeCommitmentsFails(o) \/ FinalizeFails(o) \/ ExpireFails(o)
             \/ CallTooLate(o)
      PROVE  TypeOK' /\ UNCHANGED <<now, providerVars>>
  <2>1. ProcessTyped'
    BY Zenon, <1>6, <1>a, <1>b, <1>s, MachineTyped
    DEF FreezeCommitmentsFails, FinalizeFails, ExpireFails, CallTooLate,
        ExpireMachine, ProcessTyped
  <2>2. RowsTyped'
    BY Zenon, <1>6, <1>a
    DEF FreezeCommitmentsFails, FinalizeFails, ExpireFails, CallTooLate,
        FailedWrite, RowsTyped, durable
  <2> QED
    BY Zenon, <1>6, <1>p, <1>u, <1>n, <2>1, <2>2
    DEF FreezeCommitmentsFails, FinalizeFails, ExpireFails, CallTooLate
<1>7. ASSUME Finalize(o) PROVE TypeOK' /\ UNCHANGED <<now, providerVars>>
  <2>1. ProcessTyped'
    BY Zenon, <1>7, <1>a, <1>b, <1>s, MachineTyped DEF Finalize, ProcessTyped
  <2>2. RowsTyped'
    BY Zenon, <1>7, <1>a, <1>s, RowsStep DEF Finalize
  <2> QED
    BY Zenon, <1>7, <1>p, <1>u, <1>n, <2>1, <2>2 DEF Finalize
<1>8. ASSUME Expire(o) PROVE TypeOK' /\ UNCHANGED <<now, providerVars>>
  <2>1. sent' \subseteq Requests /\ batches' \in 0..MaxBatches
    BY Zenon, <1>8, <1>b, <1>t, DispatchTyped DEF Expire
  <2>2. ProcessTyped'
    BY Zenon, <1>8, <1>a, <1>b, <1>s, MachineTyped
    DEF Expire, ExpireMachine, ProcessTyped
  <2>3. RowsTyped'
    BY Zenon, <1>8, <1>a, <1>s, RowsStep DEF Expire, Terminal
  <2> QED
    BY Zenon, <1>8, <1>p, <1>u, <2>1, <2>2, <2>3 DEF Expire
<1>9. ASSUME RecoverCommitmentRound(o) \/ RecoverExpired(o)
      PROVE  TypeOK' /\ UNCHANGED <<now, providerVars>>
  <2>1. ProcessTyped'
    BY Zenon, <1>9, <1>a
    DEF RecoverCommitmentRound, RecoverExpired, ProcessTyped, process
  <2>2. RowsTyped'
    BY Zenon, <1>9, <1>a, <1>s, RowsStep
    DEF RecoverCommitmentRound, RecoverExpired, Terminal
  <2> QED
    BY Zenon, <1>9, <1>p, <1>u, <1>n, <2>1, <2>2
    DEF RecoverCommitmentRound, RecoverExpired
<1>10. ASSUME ResumeRoundTwo(o)
       PROVE  TypeOK' /\ UNCHANGED <<now, providerVars>>
  <2>1. Missing(o) \in SUBSET Signers
    BY Zenon, <1>b DEF Missing
  <2>2. /\ sent' \subseteq Requests /\ batches' \in 0..MaxBatches
        /\ Context(Missing(o)) \in [Signers -> Ids \cup {0}]
    <3>1. CASE Missing(o) = {}
      BY Zenon, <1>10, <1>n, <3>1 DEF ResumeRoundTwo, Context
    <3>2. CASE Missing(o) # {}
      BY Zenon, <1>10, <1>b, <1>t, <2>1, <3>2, DispatchTyped DEF ResumeRoundTwo
    <3> QED
      BY Zenon, <3>1, <3>2
  <2>3. [phase |-> "collecting_shares", commitments |-> commitmentReceipt[o],
         shares |-> shareReceipt[o]] \in Machines
    BY Zenon, <1>b DEF Machines, Phases, Collecting
  <2>4. ProcessTyped'
    BY Zenon, <1>10, <1>a, <2>2, <2>3, NothingTyped DEF ResumeRoundTwo, ProcessTyped
  <2>5. RowsTyped'
    BY Zenon, <1>10, <1>a DEF ResumeRoundTwo, RowsTyped, durable
  <2> QED
    BY Zenon, <1>10, <1>p, <1>u, <2>2, <2>4, <2>5 DEF ResumeRoundTwo
<1> QED
  BY Zenon, <1>1, <1>2, <1>3, <1>4, <1>5, <1>6, <1>7, <1>8, <1>9, <1>10
  DEF Coordinate

\* Requests are only ever added.
LEMMA SentGrows ==
  ASSUME TypeOK, Next
  PROVE  sent \subseteq sent'
<1>1. ASSUME NEW o \in Operations, Coordinate(o) PROVE sent \subseteq sent'
  BY Zenon, <1>1
  DEF Coordinate, BeginAuthorized, AcceptRoundOne, AcceptRoundOneFails,
      AcceptRoundTwo, AcceptRoundTwoFails, RejectShare, FreezeCommitments,
      FreezeCommitmentsFails, Finalize, FinalizeFails, CallTooLate, Expire,
      ExpireFails, RecoverCommitmentRound, RecoverExpired, ResumeRoundTwo,
      Dispatch, NoDispatch
<1> QED
  BY Zenon, <1>1 DEF Next, Restart, NoDispatch

\* A request handled leaves every answer traced.
LEMMA TracedHandle ==
  ASSUME TypeInv, NEW r \in sent, Handle(r), UNCHANGED sent
  PROVE  Traced'
<1>a. /\ r \in Requests
      /\ drawn \in 0..MaxNonces
      /\ MaxNonces \in Nat
      /\ signed \subseteq signed'
      /\ Traced
  BY Zenon, ProviderAssumption
  DEF TypeInv, TypeOK, ProviderTypeOK, ProviderAssumption, Handle, RoundOne,
      RoundOneRefused, RoundTwo, RoundTwoMismatched, RoundTwoRefused, Abort,
      AbortRefused, SignShare
<1>1. ASSUME UNCHANGED answers PROVE Traced'
  BY Zenon, <1>1, <1>a DEF Traced
<1>2. ASSUME NEW n, answers' = answers \cup {[request |-> r, nonce |-> n]},
             r.kind = "one" => n \in Nonces,
             r.kind = "two" =>
               \/ n = BadShare
               \/ [nonce |-> n, op |-> r.op, package |-> r.package] \in signed'
      PROVE  Traced'
  <2> SUFFICES ASSUME NEW a \in answers'
               PROVE  /\ a.request \in sent
                      /\ a.request.kind = "one" => a.nonce \in Nonces
                      /\ a.request.kind = "two" =>
                           \/ a.nonce = BadShare
                           \/ [nonce |-> a.nonce, op |-> a.request.op,
                               package |-> a.request.package] \in signed'
    BY Zenon DEF Traced
  <2>1. CASE a \in answers
    BY Zenon, <1>a, <2>1 DEF Traced
  <2>2. CASE a = [request |-> r, nonce |-> n]
    BY Zenon, <1>2, <2>2
  <2> QED
    BY Zenon, <1>2, <2>1, <2>2
<1>3. CASE RoundOne(r)
  <2>1. drawn + 1 \in Nonces
    BY <1>3, <1>a DEF RoundOne, ReserveNonceAndCommit, Round1, Nonces
  <2> QED
    BY Zenon, <1>2, <1>3, <2>1 DEF RoundOne
<1>4. CASE RoundTwo(r)
  <2>1. PICK share \in {pending[r.to][r.op]} \cup FaultyShare(r.to) :
          answers' = answers \cup {[request |-> r, nonce |-> share]}
    BY Zenon, <1>4 DEF RoundTwo
  <2>2. \/ share = BadShare
        \/ [nonce |-> share, op |-> r.op, package |-> r.package] \in signed'
    BY Zenon, <1>4, <2>1 DEF RoundTwo, SignShare, FaultyShare
  <2>3. r.kind # "one"
    BY Zenon, <1>4 DEF RoundTwo
  <2> QED
    BY Zenon, <1>2, <2>1, <2>2, <2>3
<1>5. CASE Abort(r)
  BY Zenon, <1>2, <1>5 DEF Abort
<1>6. CASE RoundOneRefused(r) \/ RoundTwoMismatched(r)
           \/ RoundTwoRefused(r) \/ AbortRefused(r)
  BY Zenon, <1>1, <1>6
  DEF RoundOneRefused, RoundTwoMismatched, RoundTwoRefused, AbortRefused
<1> QED
  BY Zenon, <1>3, <1>4, <1>5, <1>6 DEF Handle

\* A step of the composition is a provider step or leaves the signers alone.
LEMMA StepIsProviderStep ==
  ASSUME TypeInv, [Next]_vars
  PROVE  [ProviderNext]_<<now, providerVars>>
<1>1. ASSUME NEW o \in Operations, Coordinate(o)
      PROVE  UNCHANGED <<now, providerVars>>
  BY Zenon, <1>1, CoordinateTyped
<1>2. ASSUME SignerStep PROVE ProviderNext
  BY Zenon, <1>2 DEF SignerStep, ProviderNext, TypeInv, TypeOK
<1>3. Restart => UNCHANGED <<now, providerVars>>
  BY Zenon DEF Restart
<1> QED
  BY Zenon, <1>1, <1>2, <1>3 DEF Next, vars

\* Every step keeps the types and the traces.
LEMMA TypeInvStep ==
  ASSUME TypeInv, [Next]_vars
  PROVE  TypeInv'
<1>0. ProviderTypeOK'
  BY Zenon, StepIsProviderStep, TypeStep DEF TypeInv, TypeOK
<1>1. ASSUME UNCHANGED answers, UNCHANGED signed, sent \subseteq sent'
      PROVE  Traced'
  BY Zenon, <1>1 DEF TypeInv, Traced
<1>2. ASSUME NEW o \in Operations, Coordinate(o) PROVE TypeInv'
  <2>1. TypeOK' /\ UNCHANGED <<now, providerVars>>
    BY Zenon, <1>2, CoordinateTyped
  <2>2. sent \subseteq sent'
    BY Zenon, <1>2, SentGrows DEF Next, TypeInv
  <2> QED
    BY Zenon, <1>1, <2>1, <2>2 DEF TypeInv, providerVars
<1>3. ASSUME Restart PROVE TypeInv'
  <2>1. TypeOK'
    BY Zenon, <1>3, <1>0, NothingTyped DEF Restart, NoDispatch, TypeInv, TypeOK, durable
  <2> QED
    BY Zenon, <1>1, <1>3, <2>1 DEF TypeInv, Restart, NoDispatch, providerVars
<1>4. ASSUME SignerStep, UNCHANGED <<durable, process, sent, batches>>
      PROVE  TypeInv'
  <2>1. TypeOK'
    BY Zenon, <1>4, <1>0 DEF TypeInv, TypeOK, durable, process
  <2>2. CASE \E r \in sent : Handle(r)
    BY Zenon, <1>4, <2>1, <2>2, TracedHandle DEF TypeInv
  <2>3. CASE Tick \/ \E s \in Signers : RestartSigner(s)
    BY Zenon, <1>1, <1>4, <2>1, <2>3 DEF TypeInv, Tick, RestartSigner, providerVars
  <2> QED
    BY Zenon, <1>4, <2>2, <2>3 DEF SignerStep
<1>5. ASSUME UNCHANGED vars PROVE TypeInv'
  <2>1. TypeOK'
    BY Zenon, <1>5, <1>0 DEF TypeInv, TypeOK, durable, process, vars
  <2> QED
    BY Zenon, <1>1, <1>5, <2>1 DEF TypeInv, vars, providerVars
<1> QED
  BY Zenon, <1>2, <1>3, <1>4, <1>5 DEF Next

\* The initial state is typed and traced.
LEMMA TypeInvInit == Init => TypeInv
<1> SUFFICES ASSUME Init PROVE TypeInv
  OBVIOUS
<1>1. ProviderTypeOK
  BY Zenon, TypeInit DEF Init
<1>2. MaxBatches \in Nat
  BY Zenon, BatchAssumption DEF BatchAssumption
<1> QED
  BY <1>1, <1>2, NothingTyped
  DEF Init, ProviderInit, TypeInv, TypeOK, Traced, Collecting

\* Type correctness of the coordinator, its database and its signers
\* (PersonalSigningCoordinator, PersonalSigningOperation).
THEOREM PersonalTypeCorrect == Spec => []TypeOK
<1>1. TypeInv /\ [Next]_vars => TypeInv'
  BY Zenon, TypeInvStep
<1>2. TypeInv => TypeOK
  BY Zenon DEF TypeInv
<1> QED
  BY TypeInvInit, <1>1, <1>2, PTL DEF Spec

\* The coordinator with its signers implements the provider specification:
\* whatever the coordinator does, its signers behave as SignerProvider says.
THEOREM PersonalImplementsProvider == Spec => ProviderSpec
<1>1. Init => ProviderInit
  BY Zenon DEF Init
<1>2. TypeInv /\ [Next]_vars => TypeInv'
  BY Zenon, TypeInvStep
<1>3. TypeInv /\ [Next]_vars => [ProviderNext]_<<now, providerVars>>
  BY Zenon, StepIsProviderStep
<1> QED
  BY TypeInvInit, <1>1, <1>2, <1>3, PTL DEF Spec, ProviderSpec

\* So no nonce signs two packages in a personal signing operation, through
\* retries, lost answers, recoveries and restarts of either side.
THEOREM PersonalNoncesSignOnce == Spec => []NonceSignsOnce
  BY PersonalImplementsProvider, NoncesSignOnce, PTL

-----------------------------------------------------------------------------
\* The invariant of one operation, over the values it has.

Early == {"none", "collecting_commitments"}

\* The row and its receipts fit together.
RowFits(o, st, sel, pkg, cr, sr, sg) ==
  /\ st \in Early => pkg = NoPackage /\ sr = Nothing
  /\ st = "none" => cr = Nothing
  /\ st # "none" => sel \in Pairs
  /\ Given(sr) \subseteq sel
  /\ st = "collecting_shares" => pkg = cr /\ Cardinality(Given(cr)) >= 2
  /\ \A s \in Given(sr) :
       /\ sr[s] = pkg[s]
       /\ [nonce |-> pkg[s], op |-> o, package |-> pkg] \in sg
  /\ st = "finalized" => Cardinality(Given(sr)) >= 2

\* Shares are asked for, and made, after the package is frozen and for it.
Asked(o, st, pkg, sn, sg) ==
  /\ \A r \in sn :
       r.kind = "two" /\ r.op = o => st \notin Early /\ r.package = pkg
  /\ \A x \in sg : x.op = o => st \notin Early /\ x.package = pkg

\* A running machine has what is stored, and in round one nothing else that
\* is not still awaited (Collected).
Covers(m, c2, cr, sr) ==
  m.phase \in Collecting =>
    \A s \in Signers :
      /\ cr[s] \in {NoNonce, m.commitments[s]}
      /\ sr[s] \in {NoNonce, m.shares[s]}
      /\ c2[s] # 0 => sr[s] = NoNonce

Collected(m, c1, cr) ==
  m.phase = "collecting_commitments" =>
    \A s \in Signers : c1[s] = 0 => m.commitments[s] = cr[s]

Rows ==
  \A o \in Operations :
    RowFits(o, status[o], selected[o], package[o], commitmentReceipt[o],
            shareReceipt[o], signed)

Asks ==
  \A o \in Operations : Asked(o, status[o], package[o], sent, signed)

Machinery ==
  \A o \in Operations :
    /\ Covers(machine[o], roundTwoContext[o], commitmentReceipt[o],
              shareReceipt[o])
    /\ Collected(machine[o], roundOneContext[o], commitmentReceipt[o])

Consistent == TypeInv /\ Rows /\ Asks /\ Machinery

\* What a dispatch adds to the requests sent.
LEMMA DispatchSends ==
  ASSUME NEW o, NEW S, NEW kind, NEW pkg, Dispatch(o, S, kind, pkg)
  PROVE  \A r \in sent' : r \in sent \/ (r.kind = kind /\ r.package = pkg)
BY DEF Dispatch

\* A coordinator step for one operation leaves the others alone.
LEMMA OthersUnchanged ==
  ASSUME TypeOK, NEW o \in Operations, Coordinate(o),
         NEW p \in Operations, p # o
  PROVE  /\ status'[p] = status[p]
         /\ selected'[p] = selected[p]
         /\ package'[p] = package[p]
         /\ commitmentReceipt'[p] = commitmentReceipt[p]
         /\ shareReceipt'[p] = shareReceipt[p]
         /\ machine'[p] = machine[p]
         /\ roundOneContext'[p] = roundOneContext[p]
         /\ roundTwoContext'[p] = roundTwoContext[p]
         /\ \A r \in sent' : r.op = p => r \in sent
<1>a. RowsTyped /\ ProcessTyped
  BY Zenon, TypeParts
<1>1. /\ status'[p] = status[p]
      /\ selected'[p] = selected[p]
      /\ package'[p] = package[p]
      /\ commitmentReceipt'[p] = commitmentReceipt[p]
      /\ shareReceipt'[p] = shareReceipt[p]
  BY Zenon, <1>a
  DEF Coordinate, BeginAuthorized, AcceptRoundOne, AcceptRoundOneFails,
      AcceptRoundTwo, AcceptRoundTwoFails, RejectShare, FreezeCommitments,
      FreezeCommitmentsFails, Finalize, FinalizeFails, CallTooLate, Expire,
      ExpireFails, RecoverCommitmentRound, RecoverExpired, ResumeRoundTwo,
      FailedWrite, durable, RowsTyped,
      InsertOperation, RecordCommitment, RecordShare, FreezeOperation,
      CompleteOperation, TerminateOperation
<1>2. /\ machine'[p] = machine[p]
      /\ roundOneContext'[p] = roundOneContext[p]
      /\ roundTwoContext'[p] = roundTwoContext[p]
  BY Zenon, <1>a
  DEF Coordinate, BeginAuthorized, AcceptRoundOne, AcceptRoundOneFails,
      AcceptRoundTwo, AcceptRoundTwoFails, RejectShare, FreezeCommitments,
      FreezeCommitmentsFails, Finalize, FinalizeFails, CallTooLate, Expire,
      ExpireFails, RecoverCommitmentRound, RecoverExpired, ResumeRoundTwo,
      ExpireMachine, process, ProcessTyped
<1>3. \A r \in sent' : r.op = p => r \in sent
  <2>1. sent' = sent \/ \E P, kind, pkg : Dispatch(o, P, kind, pkg)
    BY Zenon
    DEF Coordinate, BeginAuthorized, AcceptRoundOne, AcceptRoundOneFails,
        AcceptRoundTwo, AcceptRoundTwoFails, RejectShare, FreezeCommitments,
        FreezeCommitmentsFails, Finalize, FinalizeFails, CallTooLate, Expire,
        ExpireFails, RecoverCommitmentRound, RecoverExpired, ResumeRoundTwo,
        NoDispatch
  <2>2. ASSUME NEW P, NEW kind, NEW pkg, Dispatch(o, P, kind, pkg),
               NEW r \in sent', r.op = p
        PROVE  r \in sent
    BY <2>2 DEF Dispatch
  <2> QED
    BY Zenon, <2>1, <2>2
<1> QED
  BY Zenon, <1>1, <1>2, <1>3

\* So a coordinator step keeps the invariant if it does for its operation.
LEMMA FitsAtOperation ==
  ASSUME Consistent, NEW o \in Operations, Coordinate(o),
         RowFits(o, status'[o], selected'[o], package'[o],
                 commitmentReceipt'[o], shareReceipt'[o], signed),
         Asked(o, status'[o], package'[o], sent', signed),
         Covers(machine'[o], roundTwoContext'[o], commitmentReceipt'[o],
                shareReceipt'[o]),
         Collected(machine'[o], roundOneContext'[o], commitmentReceipt'[o])
  PROVE  Consistent'
<1>1. TypeInv'
  BY Zenon, TypeInvStep DEF Consistent, Next
<1>2. UNCHANGED signed
  BY Zenon, CoordinateTyped DEF Consistent, providerVars
<1>3. ASSUME NEW p \in Operations, p # o
      PROVE  /\ RowFits(p, status'[p], selected'[p], package'[p],
                        commitmentReceipt'[p], shareReceipt'[p], signed')
             /\ Covers(machine'[p], roundTwoContext'[p], commitmentReceipt'[p],
                       shareReceipt'[p])
             /\ Collected(machine'[p], roundOneContext'[p],
                          commitmentReceipt'[p])
  BY Zenon, <1>2, <1>3, OthersUnchanged DEF Consistent, TypeInv, Rows, Machinery
<1>4. ASSUME NEW p \in Operations, p # o
      PROVE  Asked(p, status'[p], package'[p], sent', signed')
  <2>1. Asked(p, status[p], package[p], sent, signed)
    BY Zenon DEF Consistent, Asks
  <2>2. /\ status'[p] = status[p] /\ package'[p] = package[p]
        /\ \A r \in sent' : r.op = p => r \in sent
    BY Zenon, <1>4, OthersUnchanged DEF Consistent, TypeInv
  <2> QED
    BY Zenon, <1>2, <2>1, <2>2 DEF Asked
<1>5. Rows' /\ Asks' /\ Machinery'
  BY Zenon, <1>2, <1>3, <1>4 DEF Rows, Asks, Machinery
<1> QED
  BY Zenon, <1>1, <1>5 DEF Consistent

\* A new operation: nothing is stored, asked or signed for it yet.
LEMMA BeginFits ==
  ASSUME Consistent, NEW o \in Operations, NEW P \in Pairs,
         BeginAuthorized(o, P)
  PROVE  Consistent'
<1>1. /\ RowsTyped /\ ProcessTyped
      /\ RowFits(o, status[o], selected[o], package[o], commitmentReceipt[o],
                 shareReceipt[o], signed)
      /\ Asked(o, status[o], package[o], sent, signed)
  BY Zenon, TypeParts DEF Consistent, TypeInv, Rows, Asks
<1>2. /\ status[o] = "none"
      /\ status'[o] = "collecting_commitments"
      /\ selected'[o] = P
      /\ package'[o] = package[o]
      /\ commitmentReceipt'[o] = commitmentReceipt[o]
      /\ shareReceipt'[o] = shareReceipt[o]
  BY Zenon, <1>1 DEF BeginAuthorized, InsertOperation, RowsTyped
<1>3. /\ package[o] = NoPackage /\ shareReceipt[o] = Nothing
      /\ commitmentReceipt[o] = Nothing
  BY Zenon, <1>1, <1>2 DEF RowFits, Early
<1>4. /\ machine'[o].phase = "collecting_commitments"
      /\ machine'[o].commitments = Nothing
  BY Zenon, <1>1 DEF BeginAuthorized, ProcessTyped, NoMachine
<1>5. RowFits(o, status'[o], selected'[o], package'[o],
              commitmentReceipt'[o], shareReceipt'[o], signed)
  BY Zenon, <1>2, <1>3 DEF RowFits, Given, Nothing, Early
<1>6. Asked(o, status'[o], package'[o], sent', signed)
  <2>1. \A r \in sent : ~(r.kind = "two" /\ r.op = o)
    BY Zenon, <1>1, <1>2 DEF Asked, Early
  <2>2. \A r \in sent' : r \in sent \/ r.kind = "one"
    BY DEF BeginAuthorized, Dispatch
  <2>3. \A x \in signed : x.op # o
    BY Zenon, <1>1, <1>2 DEF Asked, Early
  <2> QED
    BY Zenon, <2>1, <2>2, <2>3 DEF Asked
<1>7. Covers(machine'[o], roundTwoContext'[o], commitmentReceipt'[o],
             shareReceipt'[o])
  BY Zenon, <1>2, <1>3 DEF Covers, Nothing
<1>8. Collected(machine'[o], roundOneContext'[o], commitmentReceipt'[o])
  BY Zenon, <1>2, <1>3, <1>4 DEF Collected
<1>9. Coordinate(o)
  BY Zenon DEF Coordinate
<1> QED
  BY Zenon, <1>5, <1>6, <1>7, <1>8, <1>9, FitsAtOperation

\* A commitment goes to the machine and, unless the write fails, to the rows.
LEMMA RoundOneFits ==
  ASSUME Consistent, NEW o \in Operations, NEW a \in answers,
         AcceptRoundOne(o, a) \/ AcceptRoundOneFails(o, a)
  PROVE  Consistent'
<1> DEFINE s == a.request.to
<1>0. Coordinate(o)
  BY Zenon DEF Coordinate
<1>1. /\ RowsTyped /\ ProcessTyped /\ TypeOK
      /\ RowFits(o, status[o], selected[o], package[o], commitmentReceipt[o],
                 shareReceipt[o], signed)
      /\ Asked(o, status[o], package[o], sent, signed)
      /\ Covers(machine[o], roundTwoContext[o], commitmentReceipt[o],
                shareReceipt[o])
      /\ Collected(machine[o], roundOneContext[o], commitmentReceipt[o])
  BY Zenon, TypeParts DEF Consistent, TypeInv, Rows, Asks, Machinery
<1>2. s \in Signers /\ a.request.id \in Ids /\ 0 \notin Ids
  BY <1>1, AnswerFields, BatchAssumption DEF BatchAssumption
<1>3. /\ roundOneContext[o][s] # 0
      /\ machine[o].phase = "collecting_commitments"
      /\ machine[o].commitments[s] = NoNonce
  BY Zenon, <1>2
  DEF AcceptRoundOne, AcceptRoundOneFails, AwaitedOne, CanAddCommitment
<1>4. /\ machine'[o].phase = machine[o].phase
      /\ machine'[o].shares = machine[o].shares
      /\ \A t \in Signers : machine'[o].commitments[t] =
           IF t = s THEN a.nonce ELSE machine[o].commitments[t]
      /\ roundTwoContext'[o] = roundTwoContext[o]
  BY <1>1, <1>2
  DEF AcceptRoundOne, AcceptRoundOneFails, AddCommitment, ProcessTyped,
      Machines, Packages
<1>5. /\ UNCHANGED <<status, selected, package, shareReceipt, sent>>
      /\ \/ /\ UNCHANGED commitmentReceipt
            /\ UNCHANGED roundOneContext
         \/ /\ status[o] = "collecting_commitments"
            /\ \A t \in Signers : commitmentReceipt'[o][t] =
                 IF t = s THEN a.nonce ELSE commitmentReceipt[o][t]
            /\ \A t \in Signers : roundOneContext'[o][t] =
                 IF t = s THEN 0 ELSE roundOneContext[o][t]
  <2>1. CASE AcceptRoundOneFails(o, a)
    BY Zenon, <2>1 DEF AcceptRoundOneFails, FailedWrite, durable, NoDispatch
  <2>2. CASE AcceptRoundOne(o, a)
    <3>1. /\ UNCHANGED <<status, selected, package, shareReceipt, sent>>
          /\ status[o] = "collecting_commitments"
          /\ commitmentReceipt' = [commitmentReceipt EXCEPT ![o][s] = a.nonce]
          /\ roundOneContext' = [roundOneContext EXCEPT ![o][s] = 0]
      BY Zenon, <2>2 DEF AcceptRoundOne, RecordCommitment, NoDispatch
    <3>2. \A t \in Signers : commitmentReceipt'[o][t] =
            IF t = s THEN a.nonce ELSE commitmentReceipt[o][t]
      BY <1>1, <1>2, <3>1 DEF RowsTyped, Packages
    <3>3. \A t \in Signers : roundOneContext'[o][t] =
            IF t = s THEN 0 ELSE roundOneContext[o][t]
      BY <1>1, <1>2, <3>1 DEF ProcessTyped
    <3> QED
      BY Zenon, <3>1, <3>2, <3>3
  <2> QED
    BY Zenon, <2>1, <2>2
<1>6. RowFits(o, status'[o], selected'[o], package'[o],
              commitmentReceipt'[o], shareReceipt'[o], signed)
  BY Zenon, <1>1, <1>5 DEF RowFits
<1>7. Asked(o, status'[o], package'[o], sent', signed)
  BY Zenon, <1>1, <1>5
<1>8. Covers(machine'[o], roundTwoContext'[o], commitmentReceipt'[o],
             shareReceipt'[o])
  <2> SUFFICES ASSUME NEW t \in Signers
               PROVE  /\ commitmentReceipt'[o][t] \in {NoNonce, machine'[o].commitments[t]}
                      /\ shareReceipt'[o][t] \in {NoNonce, machine'[o].shares[t]}
                      /\ roundTwoContext'[o][t] # 0 => shareReceipt'[o][t] = NoNonce
    BY Zenon DEF Covers
  <2>1. /\ commitmentReceipt[o][t] \in {NoNonce, machine[o].commitments[t]}
        /\ shareReceipt[o][t] \in {NoNonce, machine[o].shares[t]}
        /\ roundTwoContext[o][t] # 0 => shareReceipt[o][t] = NoNonce
    BY Zenon, <1>1, <1>3 DEF Covers, Collecting
  <2>2. CASE t = s
    BY Zenon, <1>2, <1>3, <1>4, <1>5, <2>1, <2>2
  <2>3. CASE t # s
    BY Zenon, <1>4, <1>5, <2>1, <2>3
  <2> QED
    BY Zenon, <2>2, <2>3
<1>9. Collected(machine'[o], roundOneContext'[o], commitmentReceipt'[o])
  BY Zenon, <1>1, <1>3, <1>4, <1>5 DEF Collected
<1> QED
  BY Zenon, <1>0, <1>6, <1>7, <1>8, <1>9, FitsAtOperation

\* A verified share is one its signer made for the frozen package.
LEMMA RoundTwoFits ==
  ASSUME Consistent, NEW o \in Operations, NEW a \in answers,
         AcceptRoundTwo(o, a) \/ AcceptRoundTwoFails(o, a)
  PROVE  Consistent'
<1> DEFINE s == a.request.to
<1>0. Coordinate(o)
  BY Zenon DEF Coordinate
<1>1. /\ RowsTyped /\ ProcessTyped /\ TypeOK /\ Traced
      /\ RowFits(o, status[o], selected[o], package[o], commitmentReceipt[o],
                 shareReceipt[o], signed)
      /\ Asked(o, status[o], package[o], sent, signed)
      /\ Covers(machine[o], roundTwoContext[o], commitmentReceipt[o],
                shareReceipt[o])
  BY Zenon, TypeParts DEF Consistent, TypeInv, Rows, Asks, Machinery
<1>2. s \in Signers /\ a.request.id \in Ids /\ 0 \notin Ids
  BY <1>1, AnswerFields, BatchAssumption DEF BatchAssumption
<1>3. /\ roundTwoContext[o][s] # 0
      /\ machine[o].phase = "collecting_shares"
      /\ machine[o].shares[s] = NoNonce
      /\ a.request.kind = "two" /\ a.request.op = o
      /\ a.request.package = machine[o].commitments
      /\ a.nonce = machine[o].commitments[s]
  BY Zenon, <1>2
  DEF AcceptRoundTwo, AcceptRoundTwoFails, AwaitedTwo, CanAddShare,
      ShareVerifies
<1>4. /\ a.request.package = package[o] /\ a.nonce = package[o][s]
      /\ status[o] \notin Early
  BY Zenon, <1>1, <1>3 DEF Traced, Asked
<1>5. a.nonce # BadShare
  <2>1. package[o][s] \in Nonces \cup {NoNonce}
    BY Zenon, <1>1, <1>2 DEF RowsTyped, Packages
  <2> QED
    BY <1>4, <2>1, ProviderAssumption
    DEF ProviderAssumption, Nonces, NoNonce, BadShare
<1>6. [nonce |-> package[o][s], op |-> o, package |-> package[o]] \in signed
  BY Zenon, <1>1, <1>3, <1>4, <1>5 DEF Traced
<1>7. /\ machine'[o].phase = machine[o].phase
      /\ machine'[o].commitments = machine[o].commitments
      /\ \A t \in Signers : machine'[o].shares[t] =
           IF t = s THEN a.nonce ELSE machine[o].shares[t]
  BY <1>1, <1>2
  DEF AcceptRoundTwo, AcceptRoundTwoFails, AddShare, ProcessTyped,
      Machines, Contributions
<1>8. /\ UNCHANGED <<status, selected, package, commitmentReceipt, sent>>
      /\ roundOneContext'[o] = roundOneContext[o]
  BY Zenon, <1>1
  DEF AcceptRoundTwo, AcceptRoundTwoFails, RecordShare, FailedWrite,
      durable, NoDispatch
<1>9. \/ UNCHANGED <<shareReceipt, roundTwoContext>>
      \/ /\ status[o] = "collecting_shares"
         /\ s \in selected[o]
         /\ \A t \in Signers : shareReceipt'[o][t] =
              IF t = s THEN a.nonce ELSE shareReceipt[o][t]
         /\ \A t \in Signers : roundTwoContext'[o][t] =
              IF t = s THEN 0 ELSE roundTwoContext[o][t]
  <2>1. CASE AcceptRoundTwoFails(o, a)
    BY Zenon, <2>1 DEF AcceptRoundTwoFails, FailedWrite, durable
  <2>2. CASE AcceptRoundTwo(o, a)
    <3>1. /\ status[o] = "collecting_shares" /\ s \in selected[o]
          /\ shareReceipt' = [shareReceipt EXCEPT ![o][s] = a.nonce]
          /\ roundTwoContext' = [roundTwoContext EXCEPT ![o][s] = 0]
      BY Zenon, <2>2 DEF AcceptRoundTwo, RecordShare
    <3>2. \A t \in Signers : shareReceipt'[o][t] =
            IF t = s THEN a.nonce ELSE shareReceipt[o][t]
      BY <1>1, <1>2, <3>1 DEF RowsTyped, Contributions
    <3>3. \A t \in Signers : roundTwoContext'[o][t] =
            IF t = s THEN 0 ELSE roundTwoContext[o][t]
      BY <1>1, <1>2, <3>1 DEF ProcessTyped
    <3> QED
      BY Zenon, <3>1, <3>2, <3>3
  <2> QED
    BY Zenon, <2>1, <2>2
<1>10. RowFits(o, status'[o], selected'[o], package'[o],
               commitmentReceipt'[o], shareReceipt'[o], signed)
  <2>1. CASE UNCHANGED shareReceipt
    BY Zenon, <1>1, <1>8, <2>1
  <2>2. CASE /\ status[o] = "collecting_shares"
             /\ s \in selected[o]
             /\ \A t \in Signers : shareReceipt'[o][t] =
                  IF t = s THEN a.nonce ELSE shareReceipt[o][t]
    <3>1. Given(shareReceipt'[o]) \subseteq Given(shareReceipt[o]) \cup {s}
      BY Zenon, <1>2, <2>2 DEF Given
    <3>2. \A t \in Given(shareReceipt'[o]) :
            /\ shareReceipt'[o][t] = package[o][t]
            /\ [nonce |-> package[o][t], op |-> o, package |-> package[o]]
                 \in signed
      BY Zenon, <1>1, <1>4, <1>6, <2>2, <3>1 DEF RowFits, Given
    <3> QED
      BY Zenon, <1>1, <1>8, <2>2, <3>1, <3>2 DEF RowFits, Early
  <2> QED
    BY Zenon, <1>9, <2>1, <2>2
<1>11. Asked(o, status'[o], package'[o], sent', signed)
  BY Zenon, <1>1, <1>8
<1>12. Covers(machine'[o], roundTwoContext'[o], commitmentReceipt'[o],
              shareReceipt'[o])
  <2> SUFFICES ASSUME NEW t \in Signers
               PROVE  /\ commitmentReceipt'[o][t] \in {NoNonce, machine'[o].commitments[t]}
                      /\ shareReceipt'[o][t] \in {NoNonce, machine'[o].shares[t]}
                      /\ roundTwoContext'[o][t] # 0 => shareReceipt'[o][t] = NoNonce
    BY Zenon DEF Covers
  <2>1. /\ commitmentReceipt[o][t] \in {NoNonce, machine[o].commitments[t]}
        /\ shareReceipt[o][t] \in {NoNonce, machine[o].shares[t]}
        /\ roundTwoContext[o][t] # 0 => shareReceipt[o][t] = NoNonce
    BY Zenon, <1>1, <1>3 DEF Covers, Collecting
  <2>2. CASE t = s
    <3>1. /\ shareReceipt'[o][s] \in {NoNonce, a.nonce}
          /\ roundTwoContext'[o][s] # 0 => shareReceipt'[o][s] = NoNonce
      BY Zenon, <1>2, <1>3, <1>9, <2>1, <2>2
    <3>2. machine'[o].shares[s] = a.nonce
      BY Zenon, <1>2, <1>7
    <3> QED
      BY Zenon, <1>7, <1>8, <2>1, <2>2, <3>1, <3>2
  <2>3. CASE t # s
    <3>1. /\ shareReceipt'[o][t] = shareReceipt[o][t]
          /\ roundTwoContext'[o][t] = roundTwoContext[o][t]
      BY Zenon, <1>9, <2>3
    <3>2. machine'[o].shares[t] = machine[o].shares[t]
      BY Zenon, <1>7, <2>3
    <3> QED
      BY Zenon, <1>7, <1>8, <2>1, <3>1, <3>2
  <2> QED
    BY Zenon, <2>2, <2>3
<1>13. Collected(machine'[o], roundOneContext'[o], commitmentReceipt'[o])
  BY Zenon, <1>3, <1>7 DEF Collected
<1> QED
  BY Zenon, <1>0, <1>10, <1>11, <1>12, <1>13, FitsAtOperation

\* What is frozen in the machine is what the receipts hold.
LEMMA FreezeFits ==
  ASSUME Consistent, NEW o \in Operations, FreezeCommitments(o)
  PROVE  Consistent'
<1>0. Coordinate(o)
  BY Zenon DEF Coordinate
<1>1. /\ RowsTyped /\ ProcessTyped
      /\ RowFits(o, status[o], selected[o], package[o], commitmentReceipt[o],
                 shareReceipt[o], signed)
      /\ Asked(o, status[o], package[o], sent, signed)
      /\ Covers(machine[o], roundTwoContext[o], commitmentReceipt[o],
                shareReceipt[o])
      /\ Collected(machine[o], roundOneContext[o], commitmentReceipt[o])
  BY Zenon, TypeParts DEF Consistent, TypeInv, Rows, Asks, Machinery
<1>2. /\ machine[o].phase = "collecting_commitments"
      /\ roundOneContext[o] = NoContext
      /\ status[o] = "collecting_commitments"
      /\ Cardinality(Given(commitmentReceipt[o])) >= 2
  BY Zenon DEF FreezeCommitments, CanFreeze, RoundOneComplete, FreezeOperation
<1>3. machine[o].commitments = commitmentReceipt[o]
  <2>1. \A s \in Signers : machine[o].commitments[s] = commitmentReceipt[o][s]
    BY Zenon, <1>1, <1>2 DEF Collected, NoContext
  <2>2. /\ machine[o].commitments \in Packages
        /\ commitmentReceipt[o] \in Packages
    BY Zenon, <1>1 DEF RowsTyped, ProcessTyped, Machines
  <2> QED
    BY <2>1, <2>2 DEF Packages
<1>4. /\ status'[o] = "collecting_shares"
      /\ package'[o] = machine[o].commitments
      /\ UNCHANGED <<selected, commitmentReceipt, shareReceipt>>
  BY Zenon, <1>1 DEF FreezeCommitments, FreezeOperation, RowsTyped
<1>5. /\ machine'[o].phase = "collecting_shares"
      /\ machine'[o].commitments = machine[o].commitments
      /\ machine'[o].shares = machine[o].shares
  BY Zenon, <1>1 DEF FreezeCommitments, FreezeMachine, ProcessTyped, Machines
<1>6. package[o] = NoPackage /\ shareReceipt[o] = Nothing
  BY Zenon, <1>1, <1>2 DEF RowFits, Early
<1>7. RowFits(o, status'[o], selected'[o], package'[o],
              commitmentReceipt'[o], shareReceipt'[o], signed)
  BY Zenon, <1>1, <1>2, <1>3, <1>4, <1>6 DEF RowFits, Given, Nothing, Early
<1>8. Asked(o, status'[o], package'[o], sent', signed)
  <2>1. \A r \in sent : ~(r.kind = "two" /\ r.op = o)
    BY Zenon, <1>1, <1>2 DEF Asked, Early
  <2>2. \A r \in sent' : r \in sent \/ r.package = machine[o].commitments
    BY DispatchSends DEF FreezeCommitments
  <2>3. \A x \in signed : x.op # o
    BY Zenon, <1>1, <1>2 DEF Asked, Early
  <2> QED
    BY Zenon, <1>4, <2>1, <2>2, <2>3 DEF Asked, Early
<1>9. Covers(machine'[o], roundTwoContext'[o], commitmentReceipt'[o],
             shareReceipt'[o])
  BY Zenon, <1>1, <1>2, <1>4, <1>5, <1>6 DEF Covers, Collecting, Nothing
<1>10. Collected(machine'[o], roundOneContext'[o], commitmentReceipt'[o])
  BY Zenon, <1>5 DEF Collected
<1> QED
  BY Zenon, <1>0, <1>7, <1>8, <1>9, <1>10, FitsAtOperation

\* Steps that move the machine out of round one and store nothing.
LEMMA MachineOnlyFits ==
  ASSUME Consistent, NEW o \in Operations,
         \/ FreezeCommitmentsFails(o) \/ FinalizeFails(o)
         \/ CallTooLate(o) \/ ExpireFails(o)
         \/ \E a \in answers : RejectShare(o, a)
  PROVE  Consistent'
<1>0. Coordinate(o)
  BY Zenon DEF Coordinate
<1>1. /\ RowsTyped /\ ProcessTyped
      /\ RowFits(o, status[o], selected[o], package[o], commitmentReceipt[o],
                 shareReceipt[o], signed)
      /\ Asked(o, status[o], package[o], sent, signed)
      /\ Covers(machine[o], roundTwoContext[o], commitmentReceipt[o],
                shareReceipt[o])
  BY Zenon, TypeParts DEF Consistent, TypeInv, Rows, Asks, Machinery
<1>2. UNCHANGED <<status, selected, package, commitmentReceipt, shareReceipt,
                  sent, roundTwoContext>>
  BY Zenon DEF FreezeCommitmentsFails, FinalizeFails, CallTooLate, ExpireFails,
         RejectShare, FailedWrite, durable, NoDispatch
<1>3. machine[o].phase \in Collecting
  BY Zenon DEF FreezeCommitmentsFails, FinalizeFails, CallTooLate, ExpireFails,
         RejectShare, CanFreeze, CanFinalize, CanAddShare, ExpireMachine,
         Running, Collecting
<1>4. /\ machine'[o].phase \in {"collecting_shares", "failed", "expired",
                                "finalized"}
      /\ machine'[o].commitments = machine[o].commitments
      /\ machine'[o].shares = machine[o].shares
  BY <1>1
  DEF FreezeCommitmentsFails, FinalizeFails, CallTooLate, ExpireFails,
      RejectShare, ExpireMachine, FreezeMachine, FinalizeMachine, FailMachine,
      ProcessTyped, Machines
<1>5. /\ RowFits(o, status'[o], selected'[o], package'[o],
                 commitmentReceipt'[o], shareReceipt'[o], signed)
      /\ Asked(o, status'[o], package'[o], sent', signed)
  BY Zenon, <1>1, <1>2
<1>6. Covers(machine'[o], roundTwoContext'[o], commitmentReceipt'[o],
             shareReceipt'[o])
  BY Zenon, <1>1, <1>2, <1>3, <1>4 DEF Covers
<1>7. Collected(machine'[o], roundOneContext'[o], commitmentReceipt'[o])
  BY Zenon, <1>4 DEF Collected
<1> QED
  BY Zenon, <1>0, <1>5, <1>6, <1>7, FitsAtOperation

\* Steps that end the row.
LEMMA EndFits ==
  ASSUME Consistent, NEW o \in Operations,
         \/ Finalize(o) \/ Expire(o)
         \/ RecoverCommitmentRound(o) \/ RecoverExpired(o)
  PROVE  Consistent'
<1>0. Coordinate(o)
  BY Zenon DEF Coordinate
<1>1. /\ RowsTyped /\ ProcessTyped
      /\ RowFits(o, status[o], selected[o], package[o], commitmentReceipt[o],
                 shareReceipt[o], signed)
      /\ Asked(o, status[o], package[o], sent, signed)
      /\ Covers(machine[o], roundTwoContext[o], commitmentReceipt[o],
                shareReceipt[o])
      /\ Collected(machine[o], roundOneContext[o], commitmentReceipt[o])
  BY Zenon, TypeParts DEF Consistent, TypeInv, Rows, Asks, Machinery
<1>2. /\ status[o] \in Collecting
      /\ status'[o] \in Terminal
      /\ status'[o] = "finalized" => Cardinality(Given(shareReceipt[o])) >= 2
      /\ UNCHANGED <<selected, package, commitmentReceipt, shareReceipt>>
  BY Zenon, <1>1
  DEF Finalize, Expire, RecoverCommitmentRound, RecoverExpired,
      CompleteOperation, TerminateOperation, RowsTyped, Collecting, Terminal
<1>3. \A r \in sent' : r \in sent \/ r.kind = "abort"
  <2>1. CASE Expire(o)
    BY Zenon, <2>1, DispatchSends DEF Expire
  <2> QED
    BY Zenon, <2>1
    DEF Finalize, RecoverCommitmentRound, RecoverExpired, NoDispatch
<1>4. \/ machine'[o].phase \notin Collecting
      \/ /\ machine'[o] = machine[o]
         /\ roundOneContext'[o] = roundOneContext[o]
         /\ roundTwoContext'[o] = roundTwoContext[o]
  BY Zenon, <1>1
  DEF Finalize, Expire, RecoverCommitmentRound, RecoverExpired, ExpireMachine,
      FinalizeMachine, ProcessTyped, Machines, Collecting, process
<1>5. RowFits(o, status'[o], selected'[o], package'[o],
              commitmentReceipt'[o], shareReceipt'[o], signed)
  BY Zenon, <1>1, <1>2 DEF RowFits, Early, Collecting, Terminal
<1>6. Asked(o, status'[o], package'[o], sent', signed)
  BY Zenon, <1>1, <1>2, <1>3 DEF Asked, Early, Collecting, Terminal
<1>7. Covers(machine'[o], roundTwoContext'[o], commitmentReceipt'[o],
             shareReceipt'[o])
  BY Zenon, <1>1, <1>2, <1>4 DEF Covers
<1>8. Collected(machine'[o], roundOneContext'[o], commitmentReceipt'[o])
  BY Zenon, <1>1, <1>2, <1>4 DEF Collected, Collecting
<1> QED
  BY Zenon, <1>0, <1>5, <1>6, <1>7, <1>8, FitsAtOperation

\* A machine rebuilt from the receipts asks for the stored package.
LEMMA ResumeFits ==
  ASSUME Consistent, NEW o \in Operations, ResumeRoundTwo(o)
  PROVE  Consistent'
<1>0. Coordinate(o)
  BY Zenon DEF Coordinate
<1>1. /\ RowsTyped /\ ProcessTyped
      /\ RowFits(o, status[o], selected[o], package[o], commitmentReceipt[o],
                 shareReceipt[o], signed)
      /\ Asked(o, status[o], package[o], sent, signed)
  BY Zenon, TypeParts DEF Consistent, TypeInv, Rows, Asks, Machinery
<1>2. /\ status[o] = "collecting_shares"
      /\ UNCHANGED <<status, selected, package, commitmentReceipt, shareReceipt>>
  BY Zenon DEF ResumeRoundTwo, durable
<1>3. /\ machine'[o].phase = "collecting_shares"
      /\ machine'[o].commitments = commitmentReceipt[o]
      /\ machine'[o].shares = shareReceipt[o]
      /\ roundTwoContext'[o] = Context(Missing(o))
  BY Zenon, <1>1 DEF ResumeRoundTwo, ProcessTyped
<1>4. \A s \in Signers : Context(Missing(o))[s] # 0 => shareReceipt[o][s] = NoNonce
  BY Zenon DEF Context, Missing, Given
<1>5. \A r \in sent' : r \in sent \/ r.package = package[o]
  BY Zenon, DispatchSends DEF ResumeRoundTwo, NoDispatch
<1>6. RowFits(o, status'[o], selected'[o], package'[o],
              commitmentReceipt'[o], shareReceipt'[o], signed)
  BY Zenon, <1>1, <1>2
<1>7. Asked(o, status'[o], package'[o], sent', signed)
  BY Zenon, <1>1, <1>2, <1>5 DEF Asked, Early
<1>8. Covers(machine'[o], roundTwoContext'[o], commitmentReceipt'[o],
             shareReceipt'[o])
  BY Zenon, <1>2, <1>3, <1>4 DEF Covers
<1>9. Collected(machine'[o], roundOneContext'[o], commitmentReceipt'[o])
  BY Zenon, <1>3 DEF Collected
<1> QED
  BY Zenon, <1>0, <1>6, <1>7, <1>8, <1>9, FitsAtOperation

\* A signer's step adds at most a share of a package it was asked to sign.
LEMMA SignerFits ==
  ASSUME Consistent, SignerStep, UNCHANGED <<durable, process, sent, batches>>
  PROVE  Consistent'
<1>0. TypeInv'
  BY Zenon, TypeInvStep DEF Consistent, Next
<1>1. /\ signed \subseteq signed'
      /\ \A x \in signed' :
           \/ x \in signed
           \/ \E r \in sent : r.kind = "two" /\ r.op = x.op
                              /\ r.package = x.package
  <2>1. CASE UNCHANGED signed
    BY Zenon, <2>1
  <2>2. ASSUME NEW r \in sent, RoundTwo(r)
        PROVE  /\ signed \subseteq signed'
               /\ \A x \in signed' :
                    x \in signed \/ (x.op = r.op /\ x.package = r.package)
               /\ r.kind = "two"
    BY <2>2 DEF RoundTwo, SignShare
  <2> QED
    BY Zenon, <2>1, <2>2
    DEF SignerStep, Handle, RoundOne, RoundOneRefused, RoundTwoMismatched,
        RoundTwoRefused, Abort, AbortRefused, RestartSigner, Tick, providerVars
<1>2. UNCHANGED <<status, selected, package, commitmentReceipt, shareReceipt,
                  machine, roundOneContext, roundTwoContext, sent>>
  BY Zenon DEF durable, process
<1>3. Rows'
  BY Zenon, <1>1, <1>2 DEF Consistent, Rows, RowFits
<1>4. Asks'
  BY Zenon, <1>1, <1>2 DEF Consistent, Asks, Asked
<1>5. Machinery'
  BY Zenon, <1>2 DEF Consistent, Machinery
<1> QED
  BY Zenon, <1>0, <1>3, <1>4, <1>5 DEF Consistent

\* Every step keeps the invariant.
LEMMA ConsistentStep ==
  ASSUME Consistent, [Next]_vars
  PROVE  Consistent'
<1>1. ASSUME NEW o \in Operations, Coordinate(o) PROVE Consistent'
  BY Zenon, <1>1, BeginFits, RoundOneFits, RoundTwoFits, FreezeFits, MachineOnlyFits,
     EndFits, ResumeFits
  DEF Coordinate
<1>2. ASSUME Restart PROVE Consistent'
  <2>1. TypeInv'
    BY Zenon, <1>2, TypeInvStep DEF Consistent, Next
  <2>2. \A o \in Operations : machine'[o].phase = "none"
    BY Zenon, <1>2 DEF Restart, NoMachine
  <2>3. UNCHANGED <<status, selected, package, commitmentReceipt, shareReceipt,
                    signed, sent>>
    BY Zenon, <1>2 DEF Restart, durable, providerVars, NoDispatch
  <2>4. Rows' /\ Asks'
    BY Zenon, <2>3 DEF Consistent, Rows, Asks
  <2>5. Machinery'
    BY Zenon, <2>2 DEF Machinery, Covers, Collected, Collecting
  <2> QED
    BY Zenon, <2>1, <2>4, <2>5 DEF Consistent
<1>3. ASSUME UNCHANGED vars PROVE Consistent'
  <2>1. TypeInv'
    BY Zenon, <1>3, TypeInvStep DEF Consistent
  <2>2. UNCHANGED <<status, selected, package, commitmentReceipt, shareReceipt,
                    machine, roundOneContext, roundTwoContext, sent, signed>>
    BY Zenon, <1>3 DEF vars, durable, process, providerVars
  <2> QED
    BY Zenon, <2>1, <2>2 DEF Consistent, Rows, Asks, Machinery
<1> QED
  BY Zenon, <1>1, <1>2, <1>3, SignerFits DEF Next

\* Initially nothing is stored, asked or running.
LEMMA ConsistentInit == Init => Consistent
<1> SUFFICES ASSUME Init PROVE Consistent
  OBVIOUS
<1>1. TypeInv
  BY Zenon, TypeInvInit
<1>2. Given(Nothing) = {}
  BY Zenon DEF Given, Nothing
<1>3. Rows
  BY Zenon, <1>2 DEF Init, Rows, RowFits, Early
<1>4. Asks
  BY Zenon DEF Init, ProviderInit, Asks, Asked
<1>5. Machinery
  BY Zenon DEF Init, Machinery, Covers, Collected, NoMachine, Collecting
<1> QED
  BY Zenon, <1>1, <1>3, <1>4, <1>5 DEF Consistent

\* The invariant holds throughout.
LEMMA Consistency == Spec => []Consistent
<1>1. Consistent /\ [Next]_vars => Consistent'
  BY Zenon, ConsistentStep
<1> QED
  BY ConsistentInit, <1>1, PTL DEF Spec

-----------------------------------------------------------------------------
\* Every share asked for or made is of the package frozen in the database
\* (freeze_commitments, recover_operation).
THEOREM SharesOfOnePackage == Spec => []OnePackage
<1>1. Consistent => OnePackage
  <2> SUFFICES ASSUME Consistent PROVE OnePackage
    BY Zenon
  <2>1. /\ \A r \in sent : r.op \in Operations
        /\ \A x \in signed : x.op \in Operations
    BY Zenon, RequestFields DEF Consistent, TypeInv, TypeOK, ProviderTypeOK
  <2> QED
    BY Zenon, <2>1 DEF Consistent, Asks, Asked, OnePackage
<1> QED
  BY Consistency, <1>1, PTL

\* A finalized operation carries the verified shares of exactly its two
\* selected signers (accept_round_two, finalize, complete).
THEOREM FinalizedByItsPair == Spec => []FinalizedByPair
<1>1. Consistent => FinalizedByPair
  <2> SUFFICES ASSUME Consistent, NEW o \in Operations
               PROVE  /\ \A s \in Given(shareReceipt[o]) :
                           /\ shareReceipt[o][s] = package[o][s]
                           /\ [nonce |-> package[o][s], op |-> o,
                               package |-> package[o]] \in signed
                      /\ status[o] = "finalized" =>
                           /\ Given(shareReceipt[o]) = selected[o]
                           /\ Cardinality(selected[o]) = 2
    BY Zenon DEF FinalizedByPair
  <2>1. RowFits(o, status[o], selected[o], package[o], commitmentReceipt[o],
                shareReceipt[o], signed)
    BY Zenon DEF Consistent, Rows
  <2>2. ASSUME status[o] = "finalized"
        PROVE  /\ Given(shareReceipt[o]) = selected[o]
               /\ Cardinality(selected[o]) = 2
    <3>1. /\ selected[o] \subseteq Signers
          /\ Cardinality(selected[o]) = 2
          /\ Given(shareReceipt[o]) \subseteq selected[o]
          /\ Cardinality(Given(shareReceipt[o])) >= 2
      BY Zenon, <2>1, <2>2 DEF RowFits, Pairs
    <3>2. IsFiniteSet(selected[o])
      BY Zenon, <3>1, FS_Subset, ProviderAssumption DEF ProviderAssumption
    <3>3. /\ Cardinality(Given(shareReceipt[o])) <= Cardinality(selected[o])
          /\ Cardinality(Given(shareReceipt[o])) = Cardinality(selected[o])
               => Given(shareReceipt[o]) = selected[o]
      BY Zenon, <3>1, <3>2, FS_Subset
    <3>4. Cardinality(Given(shareReceipt[o])) \in Nat
      BY Zenon, <3>1, <3>2, FS_Subset, FS_CardinalityType
    <3> QED
      BY <3>1, <3>3, <3>4
  <2> QED
    BY Zenon, <2>1, <2>2 DEF RowFits
<1> QED
  BY Consistency, <1>1, PTL

\* Until its deadline an operation that collects shares can always be rebuilt
\* from what is stored (rebuild_share_round).
THEOREM RecoveryIsPossible == Spec => []RecoveryNeverRefused
<1>1. Consistent => RecoveryNeverRefused
  BY Zenon DEF Consistent, Rows, RowFits, RecoveryNeverRefused, Rebuilds
<1> QED
  BY Consistency, <1>1, PTL

\* A running machine knows every stored receipt (accept_round_one,
\* accept_round_two, recover_operation).
THEOREM MachinesCoverReceipts == Spec => []MachineCoversReceipts
<1>1. Consistent => MachineCoversReceipts
  BY Zenon DEF Consistent, Machinery, Covers, MachineCoversReceipts, Running
<1> QED
  BY Consistency, <1>1, PTL

-----------------------------------------------------------------------------
Advances(o) ==
  /\ status[o] \in Terminal => status'[o] = status[o]
  /\ package[o] # NoPackage => package'[o] = package[o]
  /\ \A s \in Signers :
       /\ commitmentReceipt[o][s] # NoNonce =>
            commitmentReceipt'[o][s] = commitmentReceipt[o][s]
       /\ shareReceipt[o][s] # NoNonce =>
            shareReceipt'[o][s] = shareReceipt[o][s]

\* Each transaction of the database only advances the row.
LEMMA TransactionAdvances ==
  ASSUME Consistent, NEW o \in Operations,
         \/ \E P \in Pairs : InsertOperation(o, P)
         \/ \E s \in Signers, n \in Nonces : RecordCommitment(o, s, n)
         \/ \E s \in Signers, n \in Nonces \cup {NoNonce, BadShare} :
              RecordShare(o, s, n)
         \/ \E pkg \in Packages : FreezeOperation(o, pkg)
         \/ CompleteOperation(o)
         \/ \E st \in Terminal : TerminateOperation(o, st)
         \/ UNCHANGED durable
  PROVE  Advances(o)
<1>1. /\ RowsTyped
      /\ status[o] \in Early => package[o] = NoPackage
  BY Zenon, TypeParts DEF Consistent, TypeInv, Rows, RowFits
<1>2. ASSUME NEW P \in Pairs, InsertOperation(o, P) PROVE Advances(o)
  BY Zenon, <1>1, <1>2 DEF InsertOperation, Advances, RowsTyped, Terminal
<1>3. ASSUME NEW s \in Signers, NEW n \in Nonces, RecordCommitment(o, s, n)
      PROVE  Advances(o)
  BY Zenon, <1>1, <1>3 DEF RecordCommitment, Advances, RowsTyped, Packages
<1>4. ASSUME NEW s \in Signers, NEW n \in Nonces \cup {NoNonce, BadShare},
             RecordShare(o, s, n)
      PROVE  Advances(o)
  BY Zenon, <1>1, <1>4 DEF RecordShare, Advances, RowsTyped, Contributions
<1>5. ASSUME NEW pkg \in Packages, FreezeOperation(o, pkg) PROVE Advances(o)
  BY Zenon, <1>1, <1>5 DEF FreezeOperation, Advances, RowsTyped, Terminal, Early
<1>6. ASSUME CompleteOperation(o) PROVE Advances(o)
  BY Zenon, <1>1, <1>6 DEF CompleteOperation, Advances, RowsTyped, Terminal
<1>7. ASSUME NEW st \in Terminal, TerminateOperation(o, st) PROVE Advances(o)
  BY Zenon, <1>1, <1>7
  DEF TerminateOperation, Advances, RowsTyped, Terminal, Collecting
<1>8. ASSUME UNCHANGED durable PROVE Advances(o)
  BY Zenon, <1>8 DEF Advances, durable
<1> QED
  BY Zenon, <1>2, <1>3, <1>4, <1>5, <1>6, <1>7, <1>8

\* A row that ended stays ended, a frozen package stays, and no receipt is
\* replaced (the UPDATEs of complete, terminate and freeze name the status
\* they expect; the receipts have a primary key).
THEOREM RowsAdvance == Spec => RowsOnlyAdvance
<1>1. ASSUME Consistent, [Next]_vars
      PROVE  \A o \in Operations : Advances(o)
  <2>1. ASSUME NEW o \in Operations, Coordinate(o) PROVE Advances(o)
    <3>1. /\ TypeOK /\ Traced
          /\ machine[o].commitments \in Packages
      BY Zenon, <1>1 DEF Consistent, TypeInv, TypeOK, Machines
    <3>2. ASSUME NEW a \in answers,
                 \/ AcceptRoundOne(o, a) \/ AcceptRoundOneFails(o, a)
                 \/ AcceptRoundTwo(o, a) \/ AcceptRoundTwoFails(o, a)
                 \/ RejectShare(o, a)
          PROVE  Advances(o)
      <4>1. /\ a.request.to \in Signers
            /\ a.nonce \in Nonces \cup {NoNonce, BadShare}
            /\ a.request.kind = "one" => a.nonce \in Nonces
        BY Zenon, <3>1, AnswerFields DEF Traced
      <4>2. \/ /\ a.nonce \in Nonces
               /\ RecordCommitment(o, a.request.to, a.nonce)
            \/ RecordShare(o, a.request.to, a.nonce)
            \/ UNCHANGED durable
        BY Zenon, <3>2, <4>1
        DEF AcceptRoundOne, AwaitedOne, AcceptRoundOneFails, AcceptRoundTwo,
            AcceptRoundTwoFails, RejectShare, FailedWrite
      <4> QED
        BY Zenon, <1>1, <4>1, <4>2, TransactionAdvances
    <3>3. ASSUME FreezeCommitments(o) PROVE Advances(o)
      BY Zenon, <1>1, <3>1, <3>3, TransactionAdvances DEF FreezeCommitments
    <3>4. ASSUME NEW P \in Pairs, BeginAuthorized(o, P) PROVE Advances(o)
      BY Zenon, <1>1, <3>4, TransactionAdvances DEF BeginAuthorized
    <3>5. ASSUME \/ FreezeCommitmentsFails(o) \/ Finalize(o) \/ FinalizeFails(o)
                 \/ CallTooLate(o) \/ Expire(o) \/ ExpireFails(o)
                 \/ RecoverCommitmentRound(o) \/ RecoverExpired(o)
                 \/ ResumeRoundTwo(o)
          PROVE  Advances(o)
      <4>1. \/ CompleteOperation(o)
            \/ \E st \in Terminal : TerminateOperation(o, st)
            \/ UNCHANGED durable
        BY Zenon, <3>5
        DEF FreezeCommitmentsFails, Finalize, FinalizeFails, CallTooLate,
            Expire, ExpireFails, RecoverCommitmentRound, RecoverExpired,
            ResumeRoundTwo, FailedWrite, Terminal
      <4> QED
        BY Zenon, <1>1, <4>1, TransactionAdvances
    <3> QED
      BY Zenon, <2>1, <3>2, <3>3, <3>4, <3>5 DEF Coordinate
  <2>2. ASSUME NEW o \in Operations, Coordinate(o), NEW p \in Operations, p # o
        PROVE  Advances(p)
    BY Zenon, <1>1, <2>2, OthersUnchanged DEF Advances, Consistent, TypeInv
  <2>3. ASSUME UNCHANGED durable PROVE \A o \in Operations : Advances(o)
    BY Zenon, <2>3 DEF Advances, durable
  <2> QED
    BY Zenon, <1>1, <2>1, <2>2, <2>3 DEF Next, Restart, vars
<1>2. Consistent /\ [Next]_vars =>
        [\A o \in Operations : Advances(o)]_vars
  BY Zenon, <1>1
<1>3. RowsOnlyAdvance <=> [][\A o \in Operations : Advances(o)]_vars
  BY Zenon DEF RowsOnlyAdvance, Advances
<1> QED
  BY Consistency, <1>2, <1>3, PTL DEF Spec

=============================================================================
