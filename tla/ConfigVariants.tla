--------------------------- MODULE ConfigVariants ---------------------------
(***************************************************************************)
(* The text of a configuration as it is submitted, and what a planner       *)
(* derives from it for the sizes of an axis.                                *)
(***************************************************************************)
EXTENDS SweepPlan

VARIABLE submitted   \* the text, which nothing changes

(* A configuration derived for a size says that size, belongs to the family  *)
(* of its base, forgets the size the base had, is stored as it is, stays     *)
(* valid, and is read alike by the planner and the agent, for every two      *)
(* sizes of an axis (tensor_parallel_variant, config_family_text,            *)
(* normalize_yaml, validate_config, _declared_parallelism).                  *)
VariantsRoundTrip ==
  \A sizes \in Sizes : \A n, m \in Range(sizes) :
    n > 0 /\ m > 0 =>
      RoundTrips(submitted, n, m) /\ StaysValid(submitted, n, GpuCount)
=============================================================================
