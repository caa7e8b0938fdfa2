----------------------------- MODULE MCPostFlight -----------------------------
EXTENDS PostFlight

\* Releases: a first one, one with another prompt, one with another file layout too.
FirstBuild == {[prompt |-> 1, layout |-> 1]}
NewPrompt == FirstBuild \cup {[prompt |-> 2, layout |-> 1]}
TwoLayouts == NewPrompt \cup {[prompt |-> 2, layout |-> 2]}
=============================================================================
