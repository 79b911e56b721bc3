------------------------------ MODULE RoleWatch ------------------------------
(***************************************************************************)
(* The access of AccessFlow watched: which requests have their write       *)
(* crossed, that is, have the roles of their subject changed by somebody   *)
(* else between their own first statement and their last.  The watch       *)
(* changes nothing of what the requests do.                                *)
(***************************************************************************)
EXTENDS AccessFlow

VARIABLE crossed   \* the clients whose write was crossed; a history variable

watched == <<vars, crossed>>

\* The write of client c's request has made its first statement: an upsert of its
\* own, or, in the transaction, those before the commit.
Writes(c) ==
    \/ \E ph \in {"read", "drop", "commit"} : At(c, ph)
    \/ /\ At(c, "add")
       /\ ~Locked(c)
       /\ req[c].add # req[c].want

\* The step is the client's own, and not the other's.
Acts(c) == req'[c] # req[c]

Watch ==
    crossed' = {c \in Clients :
                  /\ Writes(c)'
                  /\ \/ c \in crossed
                     \/ /\ Writes(c)
                        /\ ~Acts(c)
                        /\ roles'[req[c].person] # roles[req[c].person]}

WatchInit == Init /\ crossed = {}

\* The steps of Next, each watched.
WatchNext ==
    \/ \E i \in Links : \/ Revoke(i) /\ Watch
                        \/ Expire(i) /\ Watch
    \/ \E c \in Clients :
        \/ Invite(c) /\ Watch
        \/ SetAccess(c) /\ Watch
        \/ RemoveAccess(c) /\ Watch
        \/ Accept(c) /\ Watch
        \/ \E want \in RoleSets : ChangeOther(c, "change", want) /\ Watch
        \/ ChangeOther(c, "remove", {}) /\ Watch
        \/ Claim(c) /\ Watch
        \/ SignUp(c) /\ Watch
        \/ Grant(c) /\ Watch
        \/ FailGrant(c) /\ Watch
        \/ GiveBack(c) /\ Watch
        \/ FindRoles(c) /\ Watch
        \/ Lock(c) /\ Watch
        \/ ReadHeld(c) /\ Watch
        \/ CountAdmins(c) /\ Watch
        \/ AddRole(c) /\ Watch
        \/ ReadRoles(c) /\ Watch
        \/ DropRole(c) /\ Watch
        \/ WriteLocked(c) /\ Watch
        \/ Commit(c) /\ Watch
        \/ Lose(c) /\ Watch

WatchSpec == WatchInit /\ [][WatchNext]_watched

\* With the fairness of AccessFlow.
WatchFairSpec == WatchSpec /\ \A c \in Clients : WF_vars(Continue(c)) /\ SF_vars(Lock(c))

-----------------------------------------------------------------------------

\* What the write of an uncrossed request has left so far: the wanted roles, but for
\* those it has still to insert; what it deletes is none of them (writeRoles).
Leaves(c) ==
    LET r == req[c]
    IN  IF r.phase = "commit"
        THEN r.want \subseteq (roles[r.person] \ r.drop) \cup r.add
        ELSE /\ r.want \ (IF r.phase = "add" THEN r.add ELSE {}) \subseteq roles[r.person]
             /\ r.phase = "drop" => r.drop \cap r.want = {}

\* Only a removal wants no roles.
Wants == \A c \in Clients : req[c] # None /\ req[c].want = {} => req[c].op = "remove"

WatchInv ==
    /\ crossed \subseteq Clients
    /\ Wants
    /\ \A c \in Clients \ crossed : Writes(c) => Leaves(c)

\* A member is never left without any role by a step of a change of roles, between two
\* statements, or where one fails or is the last: the last role is only taken by a
\* removal, or by a write during which somebody else changed the same person's roles
\* (writeRoles deletes after it has inserted, and never a wanted role).
NeverNone ==
    [][\A p \in People : roles[p] # {} /\ roles'[p] = {} =>
        \E c \in Clients : /\ Acts(c)
                           /\ req[c].person = p
                           /\ c \in crossed \/ (At(c, "commit") /\ req[c].want = {})]_watched
=============================================================================
