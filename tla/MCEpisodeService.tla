--------------------------- MODULE MCEpisodeService ---------------------------
(* Model values for EpisodeService.  Claims 1 and 2 contradict each other and   *)
(* come from two sites of the same standing; 3 is an observation of what 1      *)
(* claims; 4 and 6 are inferred; 5 is the verdict of a chain audit; 7 is a      *)
(* search that did not find what 1 claims.                                      *)
EXTENDS EpisodeService, TLC

Passed == WellFormed \cup UNION {Demanded(p) : p \in Derivations \cup {"pratyaksha", "shabda", "anupalabdhi"}}

Claim(value, root) ==
  [pramana |-> "shabda", kind |-> "web", integrity |-> "semi", root |-> root,
   checks |-> Passed, coverage |-> 100, recall |-> 90, subject |-> "x", value |-> value,
   words |-> {"x", value}, qualifiers |-> [key \in {} |-> 0], domain |-> "general",
   live |-> FALSE, competence |-> 6, specificity |-> 0]

Observation(value) ==
  [Claim(value, "tool") EXCEPT !.pramana = "pratyaksha", !.kind = "tool",
     !.integrity = "trusted", !.domain = "runtime_state", !.live = TRUE]

Absence(value) ==
  [Observation(value) EXCEPT !.pramana = "anupalabdhi", !.domain = "general"]

Inference(subject, words, root) ==
  [Claim("is", root) EXCEPT !.pramana = "anumana", !.kind = "model",
     !.subject = subject, !.words = words]

MCAttr ==
  1 :> Claim("exists", "site1") @@ 2 :> Claim("absent", "site2")
  @@ 3 :> Observation("exists")
  @@ 4 :> Inference("so", {"x", "exists", "so"}, "model")
  @@ 5 :> [Inference("audit", {"audit"}, "auditor") EXCEPT !.domain = "monitoring"]
  @@ 6 :> Inference("hence", {"hence"}, "model") @@ 7 :> Absence("absent")

Svatah == [mode |-> "svatah", method |-> "none", k |-> 0]
Paratah(method) == [mode |-> "paratah", method |-> method, k |-> 1]

\* Stakes 0 and 1 stand for low and med of untrusted web pages, for low and high of
\* the other profiles.
MCMatrix ==
  [pratyaksha_tool |-> 0 :> Svatah @@ 1 :> Svatah,
   shabda_web_semi |-> 0 :> Svatah @@ 1 :> Paratah("cross_source"),
   anumana_registered |-> 0 :> Svatah @@ 1 :> Paratah("chain_audit"),
   anupalabdhi |-> 0 :> [Svatah EXCEPT !.mode = "yogyata"] @@ 1 :> Paratah("tool_recheck")]

Symmetry == Permutations(Callers)
=============================================================================
