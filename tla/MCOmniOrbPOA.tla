---------------------------- MODULE MCOmniOrbPOA ----------------------------
(* Instances of OmniOrbPOA for TLC. *)
EXTENDS OmniOrbPOA

TwoPolicies == {[activator |-> TRUE, holdTimeout |-> FALSE],
                [activator |-> FALSE, holdTimeout |-> TRUE]}
All == {"activate_object", "deactivate_object", "activate", "hold_requests",
        "discard_requests", "deactivate", "destroy"}
=============================================================================
