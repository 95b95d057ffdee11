------------------------------ MODULE MCAliases ------------------------------
\* Two usable names and a reserved one; one session on two days, the later file
\* in the legacy directory.
EXTENDS Aliases

Session(dir, date, id, age) == [dir |-> dir, date |-> date, id |-> id, age |-> age]
MCSessionFiles == {Session("session-data", 1, <<"a">>, 1), Session("sessions", 2, <<"a">>, 0)}
Symmetry == Permutations(Inspectors)
MCFirstAliases == ("old" :> [path |-> [kind |-> "filename", name |-> <<1, <<"a">>>>], title |-> "none", created |-> 0])
=============================================================================
