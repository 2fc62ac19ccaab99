------------------------------ MODULE ConfigStore ------------------------------
(***************************************************************************)
(* What the configuration file promises: fields are set one at a time,     *)
(* or all put back to the factory's, and no setting is ever undone by      *)
(* another field's.                                                        *)
(***************************************************************************)
CONSTANTS Fields, Values, Factory

VARIABLE settings

Init == settings \in [Fields -> Values]

Set(f) ==
    /\ settings'[f] \in Values
    /\ settings' = [settings EXCEPT ![f] = settings'[f]]

Reset == settings' = Factory

Next == Reset \/ \E f \in Fields : Set(f)

Spec == Init /\ [][Next]_settings
=============================================================================
