----------------------------- MODULE MCHousehold -----------------------------
(* Edits of the household for TLC: the scenarios of WhatIf, which say what the persons are,   *)
(* and the writes of Household, which say what a property makes of them; one or the other.    *)
EXTENDS WhatIf, Household

Unchanged == [p \in People |-> 0]

To(label, address) == [label |-> label, address |-> address]
Someone(id, name, mpg, places) ==
    [id |-> id, name |-> name, car |-> FALSE, mpg |-> mpg, child |-> FALSE, places |-> places]
Simon == Someone("1", "Simon", 45, <<To("office", "here")>>)
Lorena == [Someone("", "Lorena", 30, <<To("office", "here")>>) EXCEPT !.car = TRUE]
George == [Someone("3", "George", 45, <<To("Primary", ""), To("Nursery", "")>>) EXCEPT !.child = TRUE]
SomeHouseholds ==
  { <<Simon, George>>,
    <<Simon, Lorena>>,
    <<[Simon EXCEPT !.name = "Si"], [Lorena EXCEPT !.name = "Lor"]>>,
    <<[Simon EXCEPT !.places = <<>>], George>>,
    <<[Simon EXCEPT !.places[1].address = "there", !.mpg = 30]>>,
    <<[Simon EXCEPT !.places = <<To("gym", "nowhere")>> \o @, !.car = TRUE]>> }

Settled == Init /\ HouseholdInit
EditScenario == Len(writes) = 1 /\ opened = 1 /\ running.node = Idle /\ graph.clock = 1 /\ Next /\ UNCHANGED householdVars
\* A write in a hurry is the first one, into the pipelines that are built when the server starts.
OneHurry == hurried' => opened' = 1 /\ Len(writes') <= 2
EditHousehold == acts = 0 /\ restarts = 0 /\ HouseholdNext /\ OneHurry /\ UNCHANGED vars
Edit == EditScenario \/ EditHousehold
EditSpec == Settled /\ [][Edit]_<<vars, householdVars>>
=============================================================================
