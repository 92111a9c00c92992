-------------------------- MODULE MCPolicyRegistry --------------------------
(***************************************************************************)
(* Two issuance policies, a listing, files that do not compile, and files   *)
(* made from compiled bundles.                                              *)
(***************************************************************************)
EXTENDS PolicyRegistry

CONSTANTS seller, payout, creator, item

MCIssuance(rule, lanes, supply) ==
    [item |-> item, target_prefix |-> 1, total_supply |-> supply, successor_rule |-> rule,
     lane_count |-> lanes, salt |-> 7, metadata |-> 1]

MCListing ==
    [protocol_version |-> 1,
     receipt |-> [outpoint |-> <<"mint", 1>>, script_pubkey |-> ItemOwnerScript(seller),
                  item_sat_amount |-> 2, terms_hash |-> 1, item_id |-> item,
                  item_commitment |-> 1, lane |-> 0, sequence |-> 0],
     seller_key |-> seller, seller_payout_script |-> P2trOutputScript(payout), price_sat |-> 4,
     creator_fee_script |-> P2trOutputScript(creator), creator_fee_sat |-> 1,
     cancel_script |-> P2trOutputScript(seller), empty_script |-> FALSE,
     expiry_height |-> 2, max_network_fee_sat |-> 2]

Document(kind, input) ==
    [schema_version |-> 1, canonicalization |-> "jcs-v1", profile |-> "op-cat",
     name |-> <<"n">>, kind |-> kind, input |-> input]
Source(d) == [len |-> 1, strict |-> TRUE, document |-> d]

OneLane == Document("issuance", MCIssuance(Recursive, 1, 2))
TwoLanes == Document("issuance", MCIssuance(Sharded, 2, 2))
Listed == Document("listing", MCListing)

PolicySources ==
    <<Source(OneLane), Source(Listed), [Source(OneLane) EXCEPT !.len = 2],
      Source(TwoLanes), Source(Document("issuance", MCIssuance(Sharded, 3, 4))),
      [Source(OneLane) EXCEPT !.len = 9], [Source(OneLane) EXCEPT !.strict = FALSE],
      Source(Document("issuance", MCIssuance(Sharded, 3, 2))),
      Source([OneLane EXCEPT !.input.target_prefix = 33]),
      Source([OneLane EXCEPT !.input.metadata = 4]), Source([OneLane EXCEPT !.input.salt = Undecodable]),
      Source([OneLane EXCEPT !.name = <<>>]), Source([OneLane EXCEPT !.profile = "main"]),
      Source([Listed EXCEPT !.input.expiry_height = 0]),
      Source([Listed EXCEPT !.input.seller_key = Undecodable])>>
MCSources == LET all == PolicySources IN all

\* A bundle whose digests and run are recomputed for other artifacts or vectors.
Resealed(b, artifacts, vectors) ==
    [b EXCEPT !.artifacts = artifacts, !.artifact_set_digest = artifacts,
              !.test_vectors = vectors, !.vector_set_digest = vectors,
              !.validation_run = ValidationRun(b.compiler_version, b.policy_hash, artifacts, vectors,
                                   <<>> \o [n \in DOMAIN vectors |-> RunVector(vectors[n])])]

MCForgeries(written) ==
    LET a == written[1].bundle
        b == written[2].bundle
        file(x) == [canonical |-> TRUE, bundle |-> x]
    IN  <<[written[1] EXCEPT !.canonical = FALSE],
          file([a EXCEPT !.policy_hash = b.policy_hash]),
          file([a EXCEPT !.artifacts = b.artifacts]),
          file([a EXCEPT !.validation_run.run_digest = <<>>]),
          file([a EXCEPT !.validation_run.results[1].passed = FALSE]),
          file([a EXCEPT !.document = Renamed(a.document)]),
          file(Resealed(a, b.artifacts, a.test_vectors)),
          file(Resealed(a, a.artifacts, SubSeq(a.test_vectors, 1, 1))),
          file(Resealed(a, a.artifacts, <<>>)),
          file(Resealed(b, Tail(b.artifacts), b.test_vectors))>>
=============================================================================
