------------------------------ MODULE ActionGate ------------------------------
(***************************************************************************)
(* How the facade decides on one action, when nothing changes meanwhile:   *)
(* the classification of the tool, its preconditions and their beliefs     *)
(* (gate/classify.py, gate/preconditions.py, gate/decision.py), and what   *)
(* _evaluate_with_policy makes of the gate's decision.  AuthorizationFlow  *)
(* has the interleavings and leaves these details out.                     *)
(*                                                                         *)
(* A belief is whether it is IN, the integrity of its source, the          *)
(* precondition whose proposition it states (none, if it holds a           *)
(* negation), and the highest stakes at which determine_admission lets it  *)
(* in; beliefs are a sequence in the order of their ids.                   *)
(***************************************************************************)
EXTENDS Integers, Sequences, FiniteSets

LOW == 1  MED == 2  HIGH == 3  CRITICAL == 4
Integrity == [unreadable |-> -1, untrusted |-> 0, semi |-> 1, trusted |-> 2]
Confirmation == "explicit_user_confirmation"
NoPolicy == [known |-> FALSE]

Higher(m, n) == IF m >= n THEN m ELSE n

-----------------------------------------------------------------------------
\* classify, with a registry that has the one policy of the tool or none.
Classified(policy, world) ==
  IF policy.known THEN [policy EXCEPT !.preconditions = @ \ {Confirmation}]
  ELSE LET effectful == world.mutating \/ world.enforce IN
       [known |-> FALSE, effectful |-> effectful,
        base |-> IF effectful THEN HIGH ELSE MED,
        minimum |-> IF effectful THEN "trusted" ELSE "untrusted",
        preconditions |-> IF effectful THEN {"operator_policy"} ELSE {}]

\* _entailing_belief: the first that is IN, of enough integrity, and says just that.
Entailing(beliefs, name, minimum) ==
  LET matching == {i \in DOMAIN beliefs :
                     /\ beliefs[i].in /\ beliefs[i].says = name
                     /\ Integrity[beliefs[i].integrity] >= Integrity[minimum]}
  IN {i \in matching : \A j \in matching : i <= j}

\* Mutant: a belief that is IN will do, at whatever stakes it came in.
MutantAdmitted(belief, stakes) == belief.in

\* determine_admission again, at the stakes of this action.
Admitted(belief, stakes) == belief.upTo >= stakes

\* resolve_preconditions and the elevated checks
Satisfied(name, beliefs, minimum, stakes, world) ==
  CASE name = "no_open_conflict" -> world.conflict # "touching"
    [] name = Confirmation -> FALSE
    [] name \notin {"no_open_conflict", Confirmation} ->
         \E i \in Entailing(beliefs, name, minimum) : Admitted(beliefs[i], stakes)

Stakes(policy, world) == Higher(world.default, Classified(policy, world).base)

Required(policy, world) ==
  Classified(policy, world).preconditions \cup
    (IF Stakes(policy, world) = CRITICAL /\ world.confirmCritical THEN {Confirmation} ELSE {})

\* ActionGate.evaluate.  No policy that the facade passes allows human approval.
Gate(policy, beliefs, world) ==
  LET class == Classified(policy, world) IN
  CASE ~world.enabled -> "GATE_DISABLED"
    [] world.enabled /\ ~class.known /\ class.effectful /\ world.enforce -> "UNKNOWN_EFFECTFUL_TOOL"
    [] world.enabled /\ ~class.effectful -> "READ_ONLY"
    [] world.enabled /\ class.effectful /\ (class.known \/ ~world.enforce) ->
         IF \A name \in Required(policy, world) :
              Satisfied(name, beliefs, class.minimum, Stakes(policy, world), world)
         THEN "PRECONDITIONS_SATISFIED" ELSE "MISSING_PRECONDITION"

Allows == {"GATE_DISABLED", "READ_ONLY", "PRECONDITIONS_SATISFIED"}

\* _support_and_conflicts
Supports(policy, beliefs) ==
  UNION {Entailing(beliefs, name, policy.minimum) :
           name \in policy.preconditions \ {"no_open_conflict", Confirmation}}

ApprovalNeeded(policy) == policy.approval \/ Confirmation \in policy.preconditions

\* _evaluate_with_policy, up to issue_action.
Authorization(policy, beliefs, world) ==
  LET reason   == Gate(policy, beliefs, world)
      supports == IF policy.known THEN Supports(policy, beliefs) ELSE {}
      permit   == /\ reason \in Allows /\ policy.known /\ policy.effectful
                  /\ ApprovalNeeded(policy) => world.approved
                  /\ ~world.observe
      withheld == /\ reason \in Allows /\ policy.known
                  /\ \/ ApprovalNeeded(policy) /\ ~world.approved
                     \/ policy.effectful /\ world.observe
  IN [permit |-> permit, allow |-> reason \in Allows /\ ~withheld, supports |-> supports]

-----------------------------------------------------------------------------
\* The integrities that are enough, for each that a policy may ask for.
Enough == [untrusted |-> {"untrusted", "semi", "trusted"}, semi |-> {"semi", "trusted"},
           trusted |-> {"trusted"}]

\* Bound: two beliefs, each differing from a good one in one respect at most, one or
\* two preconditions, and every configuration of the gate.
Good == [in |-> TRUE, says |-> "target_exists", integrity |-> "trusted", upTo |-> CRITICAL]
Variants == {Good, [Good EXCEPT !.in = FALSE], [Good EXCEPT !.says = "operator_policy"],
            [Good EXCEPT !.upTo = MED], [Good EXCEPT !.upTo = HIGH],
            [Good EXCEPT !.integrity = "semi"], [Good EXCEPT !.integrity = "unreadable"]}

Policies == {NoPolicy} \cup
  [known : {TRUE}, effectful : BOOLEAN, base : {HIGH, CRITICAL}, minimum : DOMAIN Enough,
   approval : BOOLEAN,
   preconditions : {{}, {"target_exists"}, {"target_exists", "operator_policy"},
                    {"target_exists", "no_open_conflict"}, {"target_exists", Confirmation}}]

GateWorlds == {w \in
  [enabled : BOOLEAN, enforce : BOOLEAN, observe : BOOLEAN, confirmCritical : BOOLEAN,
   approved : BOOLEAN, mutating : BOOLEAN, default : {LOW, CRITICAL}, conflict : {"none", "touching"}] :
   w.observe \/ w.conflict = "none" \/ w.enabled}

\* One belief for each precondition, good enough for the action.
Grounded(policy, beliefs, chosen, world) ==
  LET stakes == Higher(world.default, policy.base)
      named  == policy.preconditions \ {"no_open_conflict", Confirmation}
  IN /\ Cardinality(chosen) = Cardinality(named)
     /\ {beliefs[i].says : i \in chosen} = named
     /\ \A i \in chosen : /\ beliefs[i].in /\ beliefs[i].upTo >= stakes
                          /\ beliefs[i].integrity \in Enough[policy.minimum]

Decided(policy, beliefs, world) ==
  LET answer == Authorization(policy, beliefs, world) IN
  /\ ~policy.known => ~answer.permit /\ (world.enabled /\ world.enforce => ~answer.allow)
  /\ policy.known => answer.permit = (answer.allow /\ policy.effectful)
  /\ answer.permit /\ world.enabled =>
       /\ Grounded(policy, beliefs, answer.supports, world)
       /\ "no_open_conflict" \in policy.preconditions => world.conflict = "none"
  /\ answer.permit => ~world.observe /\ (ApprovalNeeded(policy) => world.approved)

\* evaluate_action: an effectful tool without a policy is not allowed while the gate
\* enforces; an allowed effectful action has a permit; and a permit names, for each
\* precondition, one belief that the gate itself would let in at the stakes of this
\* action, with the approval it needs and no conflict that touches its target.
AllDecided ==
  \A policy \in Policies, world \in GateWorlds, b1, b2 \in Variants :
    Decided(policy, <<b1, b2>>, world)
=============================================================================
