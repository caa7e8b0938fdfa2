------------------------------ MODULE MCTrainer ------------------------------
EXTENDS Trainer

OneAirfield == {[facility |-> "AFIS", elevation |-> 1500,
                 runways |-> <<[length |-> 800, surface |-> 1]>>,
                 frequencies |-> <<"INFO">>]}
OneVersion == {[prompt |-> 1, file |-> 1]}
OneBuild == {[prompt |-> 1, layout |-> 1]}
=============================================================================
