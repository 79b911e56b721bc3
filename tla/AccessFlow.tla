----------------------------- MODULE AccessFlow -----------------------------
(***************************************************************************)
(* Who may do what on one website: its memberships and invitations (auth). *)
(* The commands invite, accept, revoke, change roles, remove, and the       *)
(* platform's set access and remove access are requests in steps.           *)
(*                                                                         *)
(* writeRoles adds the wanted roles one by one, reads what the person has,  *)
(* and deletes the rest one by one.  On its own every statement takes       *)
(* effect at once; inside replaceRolesKeepingAdministrator they take effect *)
(* when the transaction commits, under the advisory lock of the roster.     *)
(***************************************************************************)
EXTENDS Integers, FiniteSets

CONSTANTS
    People,       \* persons, each with one e-mail address
    Roles,        \* roles in a website
    Admin,        \* the role that administers it
    Links,        \* ids of invitations; bounds how many are made
    Clients,      \* the requests under way at once
    Sites,        \* websites to begin with: the people around one, who has an account
                  \* (members of other websites too), their roles, and the commands issued
    None,         \* no invitation yet, no request
    Gone          \* an invitation that was revoked

Member   == {"invite", "access", "change", "remove"}
Ops      == Member \cup {"accept"}
RoleSets == (SUBSET Roles) \ {{}}

\* open: not accepted; expired: its time is over.
Invitation == [person: People, role: Roles, accepted: BOOLEAN, expired: BOOLEAN]

\* A request.  want is the role set to be written, add and drop what is still to
\* be inserted and deleted, held whether the subject was seen to administer.
Request == [op: Ops, phase: {"find", "claim", "account", "grant", "give back",
                             "roles", "lock", "held", "count", "add", "read", "drop", "commit"},
            person: People, want: SUBSET Roles, add: SUBSET Roles, drop: SUBSET Roles,
            link: Links \cup {None}]

ASSUME AccessConstants ==
    /\ Admin \in Roles
    /\ \A s \in Sites :
        /\ s.people \subseteq People
        /\ s.accounts \subseteq s.people
        /\ s.roles \in [People -> SUBSET Roles]
        /\ \A p \in People : s.roles[p] # {} => p \in s.accounts
        /\ s.commands \subseteq Ops
    /\ None # Gone
    /\ {None, Gone} \cap (Invitation \cup Request \cup Links \cup Clients) = {}
    /\ IsFiniteSet(People)

VARIABLES
    site,      \* what the website was to begin with
    roles,     \* the Membership rows: person -> roles
    accounts,  \* who has an account with the identity provider
    links,     \* the Invitation rows: id -> row, or None
    roster,    \* who holds the advisory lock of the tenant's roster, or None
    req        \* client -> its request, or None

vars == <<site, roles, accounts, links, roster, req>>

TypeOK ==
    /\ site \in Sites
    /\ roles \in [People -> SUBSET Roles]
    /\ accounts \subseteq People
    /\ links \in [Links -> Invitation \cup {None, Gone}]
    /\ roster \in Clients \cup {None}
    /\ req \in [Clients -> Request \cup {None}]

Init == /\ site \in Sites
        /\ roles = site.roles
        /\ accounts = site.accounts
        /\ links = [i \in Links |-> None]
        /\ roster = None
        /\ req = [c \in Clients |-> None]

Admins     == {p \in People : Admin \in roles[p]}
At(c, ph)  == req[c] # None /\ req[c].phase = ph
Idle(c, op) == req[c] = None /\ op \in site.commands
Goto(c, ph) == req' = [req EXCEPT ![c].phase = ph]
Answer(c)   == req' = [req EXCEPT ![c] = None]
Begin(c, op, ph, p, want, i) ==
    req' = [req EXCEPT ![c] = [op |-> op, phase |-> ph, person |-> p, want |-> want,
                               add |-> {}, drop |-> {}, link |-> i]]

Exists(i) == links[i] \notin {None, Gone}
IsOpen(i) == Exists(i) /\ ~links[i].accepted /\ ~links[i].expired

-----------------------------------------------------------------------------
(* The requests begin.                                                     *)

\* InviteUser: the address has an account, or is sent an invitation.
Invite(c) ==
    /\ Idle(c, "invite")
    /\ Admins # {}
    /\ \E p \in site.people, r \in Roles :
        \/ /\ p \in accounts
           /\ Begin(c, "invite", "roles", p, {r}, None)
           /\ UNCHANGED links
        \/ /\ p \notin accounts
           /\ \E i \in Links :
                /\ links[i] = None
                /\ links' = [links EXCEPT ![i] =
                     [person |-> p, role |-> r, accepted |-> FALSE, expired |-> FALSE]]
           /\ UNCHANGED req
    /\ UNCHANGED <<site, roles, accounts, roster>>

\* RevokeInvitation, and the mail of an invitation that could not be sent: the row goes.
Revoke(i) ==
    /\ Exists(i)
    /\ links' = [links EXCEPT ![i] = Gone]
    /\ UNCHANGED <<site, roles, accounts, roster, req>>

\* ChangeUserRoles and RemoveUser, of a member who is not oneself.
ChangeOther(c, op, want) ==
    /\ Idle(c, op)
    /\ \E a \in Admins, p \in People :
        /\ p # a
        /\ roles[p] # {}
        /\ Begin(c, op, "lock", p, want, None)
    /\ UNCHANGED <<site, roles, accounts, links, roster>>

\* SetUserAccess, by an administrator of the platform.
SetAccess(c) ==
    /\ Idle(c, "access")
    /\ \E p \in accounts, want \in RoleSets : Begin(c, "access", "roles", p, want, None)
    /\ UNCHANGED <<site, roles, accounts, links, roster>>

\* RemoveUserAccess, by an administrator of the platform: anybody, oneself too.
RemoveAccess(c) ==
    /\ Idle(c, "remove")
    /\ \E p \in accounts : Begin(c, "remove", "lock", p, {}, None)
    /\ UNCHANGED <<site, roles, accounts, links, roster>>

-----------------------------------------------------------------------------
(* AcceptInvitation                                                        *)

\* findByTokenHash and isInvitationOpen.
Accept(c) ==
    /\ Idle(c, "accept")
    /\ \E i \in Links :
        /\ IsOpen(i)
        /\ Begin(c, "accept", "claim", links[i].person, {links[i].role}, i)
    /\ UNCHANGED <<site, roles, accounts, links, roster>>

\* Mutant: the update does not ask for an invitation that nobody accepted.
ClaimableAlways(i) == Exists(i)
\* The conditional update of claim, with a clock of its own.
Claimable(i) == IsOpen(i)

Claim(c) ==
    /\ At(c, "claim")
    /\ IF Claimable(req[c].link)
       THEN /\ links' = [links EXCEPT ![req[c].link].accepted = TRUE]
            /\ Goto(c, "account")
       ELSE /\ Answer(c)
            /\ UNCHANGED links
    /\ UNCHANGED <<site, roles, accounts, roster>>

\* The account is made for the invited address.
Address(r) == r.person

\* signUp: an address that has an account is refused; it may also fail.
SignUp(c) ==
    /\ At(c, "account")
    /\ \/ /\ Address(req[c]) \notin accounts
          /\ accounts' = accounts \cup {Address(req[c])}
          /\ Goto(c, "grant")
       \/ /\ Goto(c, "give back")
          /\ UNCHANGED accounts
    /\ UNCHANGED <<site, roles, links, roster>>

\* grant: replaceRoles with the one role, or it fails.
Grant(c) ==
    /\ At(c, "grant")
    /\ \/ req' = [req EXCEPT ![c].phase = "add", ![c].add = req[c].want]
       \/ Goto(c, "give back")
    /\ UNCHANGED <<site, roles, accounts, links, roster>>

\* A statement of the grant fails: what it has written stays.
FailGrant(c) ==
    /\ \E ph \in {"add", "read", "drop"} : At(c, ph)
    /\ req[c].op = "accept"
    /\ Goto(c, "give back")
    /\ UNCHANGED <<site, roles, accounts, links, roster>>

GiveBack(c) ==
    /\ At(c, "give back")
    /\ links' = IF ~Exists(req[c].link) THEN links
                ELSE [links EXCEPT ![req[c].link].accepted = FALSE]
    /\ Answer(c)
    /\ UNCHANGED <<site, roles, accounts, roster>>

-----------------------------------------------------------------------------
(* replaceRoles and replaceRolesKeepingAdministrator                       *)

\* findRoles: InviteUser adds its role to those; SetUserAccess asks if there are any.
FindRoles(c) ==
    LET r == req[c]
        want == IF r.op = "invite" THEN r.want \cup roles[r.person] ELSE r.want
    IN  /\ At(c, "roles")
        /\ req' = [req EXCEPT ![c].want = want, ![c].add = want,
                     ![c].phase = IF r.op = "access" /\ roles[r.person] # {}
                                  THEN "lock" ELSE "add"]
        /\ UNCHANGED <<site, roles, accounts, links, roster>>

\* Mutant: the roster is not locked.
LockIsFreeAlways == TRUE
LockIsFree == roster = None

Lock(c) ==
    /\ At(c, "lock")
    /\ LockIsFree
    /\ roster' = c
    /\ Goto(c, "held")
    /\ UNCHANGED <<site, roles, accounts, links>>

\* Mutant: the lock outlives the transaction.
UnlockedNever(c) == roster
\* The lock ends with the transaction that took it.
Unlocked(c) == IF roster = c THEN None ELSE roster

\* Whether the write takes the role of an administrator away.
ReadHeld(c) ==
    /\ At(c, "held")
    /\ Goto(c, IF Admin \in roles[req[c].person] /\ Admin \notin req[c].want
               THEN "count" ELSE "add")
    /\ UNCHANGED <<site, roles, accounts, links, roster>>

IsLast == Cardinality(Admins) <= 1

CountAdmins(c) ==
    /\ At(c, "count")
    /\ IF IsLast THEN /\ Answer(c)
                      /\ roster' = Unlocked(c)
                 ELSE /\ Goto(c, "add")
                      /\ UNCHANGED roster
    /\ UNCHANGED <<site, roles, accounts, links>>

Locked(c) == roster = c

\* Mutant: what is not wanted is deleted first, and then the wanted roles are inserted.
AddRoleLast(c) ==
    /\ At(c, "add")
    /\ ~Locked(c)
    /\ LET drop == roles[req[c].person] \ req[c].want
       IN  IF drop # {}
           THEN /\ roles' = [roles EXCEPT ![req[c].person] = @ \ drop]
                /\ req' = [req EXCEPT ![c].drop = drop]
           ELSE \E r \in req[c].add :
                  /\ roles' = [roles EXCEPT ![req[c].person] = @ \cup {r}]
                  /\ req' = [req EXCEPT ![c].add = @ \ {r},
                                        ![c].phase = IF req[c].add = {r} THEN "read" ELSE "add"]
    /\ UNCHANGED <<site, accounts, links, roster>>

\* The upserts of a write on its own, one by one.
AddRole(c) ==
    /\ At(c, "add")
    /\ ~Locked(c)
    /\ \E r \in req[c].add :
        /\ roles' = [roles EXCEPT ![req[c].person] = @ \cup {r}]
        /\ req' = [req EXCEPT ![c].add = @ \ {r},
                              ![c].phase = IF req[c].add = {r} THEN "read" ELSE "add"]
    /\ UNCHANGED <<site, accounts, links, roster>>

\* What the person has beyond the wanted roles.
Surplus(r) == roles[r.person] \ r.want

ReadRoles(c) ==
    /\ At(c, "read")
    /\ LET drop == Surplus(req[c])
       IN  IF drop = {} THEN Answer(c)
           ELSE req' = [req EXCEPT ![c].drop = drop, ![c].phase = "drop"]
    /\ UNCHANGED <<site, roles, accounts, links, roster>>

DropRole(c) ==
    /\ At(c, "drop")
    /\ \E r \in req[c].drop :
        /\ roles' = [roles EXCEPT ![req[c].person] = @ \ {r}]
        /\ IF req[c].drop = {r} THEN Answer(c)
                                ELSE req' = [req EXCEPT ![c].drop = @ \ {r}]
    /\ UNCHANGED <<site, accounts, links, roster>>

\* In the transaction the upserts and the read that follows see what is committed
\* and their own rows: add is what they insert, drop what the deletes will take.
WriteLocked(c) ==
    /\ At(c, "add")
    /\ Locked(c)
    /\ LET has == roles[req[c].person]
       IN  req' = [req EXCEPT ![c].add = req[c].want \ has, ![c].drop = Surplus(req[c]),
                              ![c].phase = "commit"]
    /\ UNCHANGED <<site, roles, accounts, links, roster>>

Commit(c) ==
    /\ At(c, "commit")
    /\ roles' = [roles EXCEPT ![req[c].person] = (@ \ req[c].drop) \cup req[c].add]
    /\ roster' = Unlocked(c)
    /\ Answer(c)
    /\ UNCHANGED <<site, accounts, links>>

-----------------------------------------------------------------------------

Expire(i) ==
    /\ IsOpen(i)
    /\ links' = [links EXCEPT ![i].expired = TRUE]
    /\ UNCHANGED <<site, roles, accounts, roster, req>>

\* The request ends without its next step; its transaction, if any, rolls back.
Lose(c) ==
    /\ req[c] # None
    /\ Answer(c)
    /\ roster' = Unlocked(c)
    /\ UNCHANGED <<site, roles, accounts, links>>

Continue(c) ==
    \/ Claim(c) \/ SignUp(c) \/ Grant(c) \/ FailGrant(c) \/ GiveBack(c)
    \/ FindRoles(c) \/ Lock(c) \/ ReadHeld(c) \/ CountAdmins(c)
    \/ AddRole(c) \/ ReadRoles(c) \/ DropRole(c) \/ WriteLocked(c) \/ Commit(c)

Next ==
    \/ \E i \in Links : Revoke(i) \/ Expire(i)
    \/ \E c \in Clients :
        \/ Invite(c) \/ SetAccess(c) \/ RemoveAccess(c) \/ Accept(c)
        \/ \E want \in RoleSets : ChangeOther(c, "change", want)
        \/ ChangeOther(c, "remove", {})
        \/ Continue(c) \/ Lose(c)

Spec == Init /\ [][Next]_vars

\* The lock of a roster is handed on in the order it was asked for.
FairSpec == Spec /\ \A c \in Clients : WF_vars(Continue(c)) /\ SF_vars(Lock(c))

-----------------------------------------------------------------------------
(* Properties                                                              *)

\* Every write to the roles of this website is made under its lock.
AllLocked == site.commands \subseteq {"change", "remove"}

\* The website keeps an administrator if it has had one, however administrators change
\* and remove one another (replaceRolesKeepingAdministrator), where all write under its lock.
AdminKept == AllLocked /\ (\E p \in People : Admin \in site.roles[p]) => Admins # {}

\* While a request sets up the account of an invitation, the invitation is taken, and
\* by nobody else: two requests with one link never both create an account
\* (claim is given back by the request that took it, accept-invitation.ts).
Joins(c) == req[c] # None /\ req[c].op = "accept" /\ req[c].phase # "claim"
TakenOnce ==
    \A c \in Clients : Joins(c) =>
        /\ Exists(req[c].link) => links[req[c].link].accepted
        /\ \A d \in Clients \ {c} : Joins(d) => req[d].link # req[c].link

\* A request runs a command of this website and is at a step of it; the row of an
\* invitation that a request accepts has been there, and a revoked one stays away.
StepFits(r) ==
    /\ r.op \in site.commands
    /\ r.op = "accept" => r.link \in Links /\ links[r.link] # None
    /\ r.phase \in {"claim", "account", "grant", "give back"} => r.op = "accept"
    /\ r.phase \in {"lock", "held", "count", "commit"} => r.op \in {"access", "change", "remove"}
    /\ r.op \in {"change", "remove"} => r.phase \in {"lock", "held", "count", "add", "commit"}

\* The lock of the roster is held by the transaction that took it, from its first read
\* to its commit, and by nobody else: it does not outlive the request.
InLock(c) == /\ req[c] # None
             /\ req[c].op \in {"access", "change", "remove"}
             /\ req[c].phase \in {"held", "count", "add", "commit"}
LockHeld ==
    /\ roster # None => InLock(roster)
    /\ \A c \in Clients :
          InLock(c) /\ <<req[c].op, req[c].phase>> # <<"access", "add">> => roster = c

\* Whoever holds the lock has read what is stored, if all write under it: the roles
\* it writes are those that are wanted, and another administrator remains.
LockReads ==
    AllLocked =>
        \A c \in Clients : InLock(c) /\ req[c].phase \in {"add", "commit"} =>
            LET r == req[c]
            IN  /\ Admin \in roles[r.person] \ r.want => \E p \in Admins : p # r.person
                /\ r.phase = "commit" => /\ r.add = r.want \ roles[r.person]
                                         /\ r.drop = Surplus(r)

\* What is stored is well typed, an invitation is taken by one request at a time,
\* and the lock of the roster keeps what its holder has read true.
AccessInv == /\ TypeOK /\ TakenOnce
             /\ \A c \in Clients : req[c] # None => StepFits(req[c])
             /\ LockHeld /\ LockReads

\* Every request is answered, though they wait for one another on the roster's lock.
RequestsEnd == \A c \in Clients : req[c] # None ~> req[c] = None
=============================================================================
