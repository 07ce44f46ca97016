-------------------------------- MODULE Voter --------------------------------
(***************************************************************************)
(* cv32e40p_voter: the majority of three equally wide values, and which of *)
(* them differ.  Every output of a triplicated unit has a voter of its own.*)
(***************************************************************************)
Replica == {"a", "b", "c"}

dataout_o(d) ==
  IF d["b"] = d["c"] THEN d["b"] ELSE d["a"]

\* The inputs reported by error_detected_input_a, _b and _c; error_detected is
\* raised when there is one.
error_detected_input(d) ==
  IF d["b"] = d["c"] THEN IF d["a"] # d["b"] THEN {"a"} ELSE {}
  ELSE IF d["b"] = d["a"] THEN {"c"}
  ELSE IF d["c"] = d["a"] THEN {"b"}
  ELSE Replica
=============================================================================
