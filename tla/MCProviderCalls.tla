--------------------------- MODULE MCProviderCalls --------------------------
(***************************************************************************)
(* Instances of ProviderCalls for TLC: ordinary providers with and without a *)
(* fallback and three attempts, and a human at the primary endpoint with two. *)
(***************************************************************************)
EXTENDS ProviderCalls

MCConfigs ==
    {[attempts |-> 3, fallback |-> b, human |-> "nobody"] : b \in BOOLEAN}
    \cup {[attempts |-> 2, fallback |-> TRUE, human |-> "primary"]}

=============================================================================
