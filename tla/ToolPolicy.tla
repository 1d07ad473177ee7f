------------------------------ MODULE ToolPolicy ------------------------------
(***************************************************************************)
(* What a host may do with which tool: the tool-policy manifest            *)
(* (core/manifest.py), the inventory classified by it, and the negotiated  *)
(* enforcement profile (core/contracts.py).                                *)
(*                                                                         *)
(* There is one tool name and one anchored pattern, which matches it.  A   *)
(* tool is the namespace it is offered in and the digest of its schema; a  *)
(* rule is a record, its namespace None when it holds in every namespace,  *)
(* and its digest None when it pins no schema.                             *)
(***************************************************************************)
EXTENDS Integers, Sequences, FiniteSets

NoSpace == "any"
Spaces  == {"", "ns"}   \* namespaces of tools; a rule's "" is normalised to None
Digests == {"d1", "d2"}
NoPin   == "unpinned"

-----------------------------------------------------------------------------
(* The manifest.                                                           *)

\* _validate: ids are unique, and so is an exact name in its namespace; a pattern may
\* come again with another priority than the rule before it.
ValidManifest(rules) ==
  \A i, j \in DOMAIN rules : i < j =>
    /\ rules[i].id # rules[j].id
    /\ ~(rules[i].exact /\ rules[j].exact /\ rules[i].space = rules[j].space)
    /\ rules[i].pattern /\ rules[j].pattern /\ rules[i].space = rules[j].space
       /\ (\A k \in (i + 1)..(j - 1) : ~(rules[k].pattern /\ rules[k].space = rules[i].space))
         => rules[i].priority # rules[j].priority

Applies(rule, space) == rule.active /\ rule.space \in {NoSpace, space}

\* Mutant: a rule's priority alone decides.
MutantKey(rule, space) == <<0, rule.priority>>

\* The rules of the tool's own namespace come first, then the higher priority.
Key(rule, space) == <<IF rule.space = space THEN 1 ELSE 0, rule.priority>>
Above(k1, k2) == k1[1] > k2[1] \/ (k1[1] = k2[1] /\ k1[2] > k2[2])

\* max and the list of winners: positions whose key no other key is above.
Highest(rules, positions, space) ==
  {i \in positions : \A j \in positions : ~Above(Key(rules[j], space), Key(rules[i], space))}

Unmatched == "NO_POLICY"
Ambiguous == "AMBIGUOUS"   \* ManifestError, which _match_policy takes for no policy

\* match.  max takes the first of several; patterns need a single winner.
Match(rules, space) ==
  LET exact    == {i \in DOMAIN rules : Applies(rules[i], space) /\ rules[i].exact}
      patterns == {i \in DOMAIN rules : Applies(rules[i], space) /\ rules[i].pattern}
      winners  == Highest(rules, patterns, space)
  IN CASE exact # {} ->
            rules[CHOOSE i \in Highest(rules, exact, space) :
                    \A j \in Highest(rules, exact, space) : i <= j].id
       [] exact = {} /\ patterns = {} -> Unmatched
       [] exact = {} /\ patterns # {} ->
            IF Cardinality(winners) = 1 THEN rules[CHOOSE i \in winners : TRUE].id ELSE Ambiguous

\* classify_inventory, for one tool.
Verdict(rules, space, digest) ==
  LET id == Match(rules, space)
      rule == CHOOSE r \in {rules[i] : i \in DOMAIN rules} : r.id = id
  IN IF id \in {Unmatched, Ambiguous} THEN id
     ELSE IF rule.pin \notin {NoPin, digest} THEN "CANONICAL_SCHEMA_DRIFT"
     ELSE IF rule.effectful THEN "effectful" ELSE "read_only"

-----------------------------------------------------------------------------
\* Bound: manifests of up to three rules.
Rules(id) ==
  {r \in [id : {id}, exact : BOOLEAN, pattern : BOOLEAN, space : {NoSpace, "ns"},
          priority : 0..1, active : BOOLEAN, effectful : {id = "r1"},
          pin : IF id = "r1" THEN {"d1"} ELSE {NoPin}] : r.exact \/ r.pattern}

Manifests ==
  {m \in {<<r1, r2, r3>> : r1 \in Rules("r1"), r2 \in Rules("r2"), r3 \in Rules("r3")} : ValidManifest(m)}

\* The two other ways around that change which rule comes first.
Reordered(m) == {<<m[3], m[2], m[1]>>, <<m[2], m[3], m[1]>>}

\* A rule for a namespace against one for all, and an exact one against a pattern.
Yields(weaker, stronger, space) ==
  /\ Applies(stronger, space)
  /\ \/ stronger.exact /\ ~weaker.exact
     \/ stronger.exact = weaker.exact /\ stronger.space = space /\ weaker.space # space

PolicyFor(m, space) ==
  LET id == Match(m, space) IN
  /\ \A other \in Reordered(m), digest \in Digests :
       Match(other, space) = id /\ Verdict(other, space, digest) = Verdict(m, space, digest)
  /\ \A i, j \in DOMAIN m : m[i].id = id => ~Yields(m[i], m[j], space)

\* match: the order of the rules of a manifest never decides which policy a tool has,
\* nor whether its schema has drifted, and a general rule never takes the place of an
\* exact one, nor a rule for every namespace that of one for the tool's own, whatever
\* their priorities.
AllPoliciesDetermined == \A m \in Manifests : \A space \in Spaces : PolicyFor(m, space)

-----------------------------------------------------------------------------
(* Profiles.                                                               *)

Profiles == <<"observe", "action_enforce", "accepted_final", "strict">>
Ranks == DOMAIN Profiles
Capabilities == {"per_request_context", "pre_action_gate", "atomic_action_token_consume",
                 "accepted_final_transform", "exclusive_final_output_gate",
                 "buffered_stream_delivery", "bound_approval", "tool_inventory"}

\* missing_for
Required ==
  <<{}, {"pre_action_gate"},
    {"pre_action_gate", "per_request_context", "accepted_final_transform"}, Capabilities>>
Missing(has, profile) == Required[profile] \ has

\* maximum_profile
MaximumProfile(has) ==
  CHOOSE p \in Ranks : Missing(has, p) = {} /\ \A q \in Ranks : Missing(has, q) = {} => q <= p

\* Mutant: without a downgrade the requested profile stays in force.
MutantNegotiated(has, requested, downgrade, observeOnly) ==
  IF observeOnly THEN 1
  ELSE IF downgrade /\ Missing(has, requested) # {} THEN MaximumProfile(has) ELSE requested

\* negotiate_profile: the effective profile.
Negotiated(has, requested, downgrade, observeOnly) ==
  CASE observeOnly -> 1
    [] ~observeOnly /\ Missing(has, requested) = {} -> requested
    [] ~observeOnly /\ Missing(has, requested) # {} -> IF downgrade THEN MaximumProfile(has) ELSE 1

\* BeliefLedger.__init__: a profile that is not proved is refused, not downgraded.
Opens(has, requested) == Missing(has, requested) = {}

\* negotiate_profile: no profile is in force whose capabilities the host does not all
\* have, none above the one requested, and a downgrade gives up no more than it must.
AllProfilesProven ==
  \A has \in SUBSET Capabilities, requested \in Ranks, downgrade, observeOnly \in BOOLEAN :
    LET effective == Negotiated(has, requested, downgrade, observeOnly) IN
    /\ Missing(has, effective) = {} /\ effective <= requested
    /\ \A p \in 1..requested : downgrade /\ ~observeOnly /\ Missing(has, p) = {} => p <= effective
    /\ Opens(has, requested) => Negotiated(has, requested, FALSE, FALSE) = requested
=============================================================================
