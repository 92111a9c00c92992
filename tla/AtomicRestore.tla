--------------------------- MODULE AtomicRestore ----------------------------
(***************************************************************************)
(* What backup and restore promise: the wallet is one database at every    *)
(* moment, a restore replaces it in one step by a bundle whose unused      *)
(* authorizations are gone and whose epoch is higher, and nothing else     *)
(* replaces it.  Files, journals and crashes do not exist at this level.   *)
(***************************************************************************)
EXTENDS Integers

CONSTANTS Auths, ForeignEpochs

VARIABLES wallet, bundles, issued, uses

aVars == <<wallet, bundles, issued, uses>>

NoAuths == [a \in Auths |-> [st |-> "none", epoch |-> 0]]

AInit ==
  /\ wallet = [epoch |-> 1, auths |-> NoAuths]
  /\ bundles = {[epoch |-> e, auths |-> NoAuths] : e \in ForeignEpochs}
  /\ issued = {}
  /\ uses = [a \in Auths |-> 0]

AIssue(a) ==
  /\ a \notin issued
  /\ wallet' = [wallet EXCEPT !.auths[a] = [st |-> "available", epoch |-> wallet.epoch]]
  /\ issued' = issued \cup {a}
  /\ UNCHANGED <<bundles, uses>>

AConsume(a) ==
  /\ wallet.auths[a] = [st |-> "available", epoch |-> wallet.epoch]
  /\ wallet' = [wallet EXCEPT !.auths[a].st = "consumed"]
  /\ uses' = [uses EXCEPT ![a] = @ + 1]
  /\ UNCHANGED <<bundles, issued>>

AExport ==
  /\ bundles' = bundles \cup {wallet}
  /\ UNCHANGED <<wallet, issued, uses>>

\* Only unused authorizations change, and only to invalidated.
Fenced(auths) ==
  [a \in Auths |-> IF auths[a].st = "available"
                   THEN [auths[a] EXCEPT !.st = "invalidated"] ELSE auths[a]]

ARestore(b) ==
  /\ b.epoch >= wallet.epoch
  /\ wallet' = [epoch |-> b.epoch + 1, auths |-> Fenced(b.auths)]
  /\ UNCHANGED <<bundles, issued, uses>>

ANext ==
  \/ \E a \in Auths : AIssue(a) \/ AConsume(a)
  \/ AExport
  \/ \E b \in bundles : ARestore(b)

ASpec == AInit /\ [][ANext]_aVars
=============================================================================
