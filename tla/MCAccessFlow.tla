---------------------------- MODULE MCAccessFlow ----------------------------
(* Websites for TLC: one whose members administer one another, one that is *)
(* joined, and one that the administrators of the platform see to as well. *)
EXTENDS RoleWatch, TLC

CONSTANTS c1, c2, a1, a2, a3, x1, admin, editor

Website(known, members, commands) ==
    [people |-> (People \ {a3}) \cup known, accounts |-> known, commands |-> commands,
     roles |-> [p \in People |-> IF p \in DOMAIN members THEN members[p] ELSE {}]]

Council == Website({a1, a2, a3}, a1 :> {admin} @@ a2 :> {admin} @@ a3 :> {editor},
                   {"change", "remove"})
Village == Website({a1}, a1 :> {admin}, {"invite", "accept"})
Town    == Website({a1, a2}, a1 :> {admin}, {"access", "change", "remove"})

Everywhere == {Council, Village, Town}
=============================================================================
