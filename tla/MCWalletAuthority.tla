------------------------- MODULE MCWalletAuthority -------------------------
(***************************************************************************)
(* Instances of WalletAuthority for TLC.                                   *)
(***************************************************************************)
EXTENDS WalletAuthority, TLC

CONSTANTS i1, i2, s1, s2, m1, m2

(* One FROST intent and one CovHub intent.                                 *)
MixedKind == i1 :> "legacy" @@ i2 :> "covhub"
MixedSession == i1 :> s1 @@ i2 :> s2
MixedMessage == i1 :> m1 @@ i2 :> m2
MixedExpiry == i1 :> 2 @@ i2 :> 3

(* Two FROST intents of one session with different messages, either of     *)
(* which may also be signed by a chain signing job.                        *)
SharedKind == i1 :> "legacy" @@ i2 :> "legacy"
SharedSession == i1 :> s1 @@ i2 :> s1
SharedMessage == i1 :> m1 @@ i2 :> m2
SharedExpiry == i1 :> 2 @@ i2 :> 2
=============================================================================
