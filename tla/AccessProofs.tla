---------------------------- MODULE AccessProofs ----------------------------
(***************************************************************************)
(* Proofs about the roster of a website and its invitations, for every     *)
(* value of their constants.                                               *)
(***************************************************************************)
EXTENDS RoleWatch, FiniteSetTheorems, TLAPS

Phases == {"find", "claim", "account", "grant", "give back",
           "roles", "lock", "held", "count", "add", "read", "drop", "commit"}

\* What the steps of requests do to their requests: begin, go on, and end.
Others(c) == \A d \in Clients \ {c} : req'[d] = req[d]

LEMMA BeginStep ==
    ASSUME TypeOK, NEW c \in Clients, NEW op \in Ops, NEW ph \in Phases, NEW p \in People,
           NEW want \in SUBSET Roles, NEW i \in Links \cup {None}, Begin(c, op, ph, p, want, i)
    PROVE  /\ req' \in [Clients -> Request \cup {None}]
           /\ req'[c] # None /\ req'[c].op = op /\ req'[c].phase = ph /\ req'[c].person = p
           /\ req'[c].want = want /\ req'[c].link = i
           /\ Others(c)
<1>. DEFINE r == [op |-> op, phase |-> ph, person |-> p, want |-> want,
                  add |-> {}, drop |-> {}, link |-> i]
<1>1. r \in Request
  BY DEF Request, Phases
<1>2. r # None
  BY <1>1, AccessConstants
<1>3. req' = [req EXCEPT ![c] = r]
  BY DEF Begin
<1>. QED
  BY <1>1, <1>2, <1>3 DEF TypeOK, Others

\* Request q carries on from r.
Follows(q, r) == /\ q \in Request /\ q # None
                 /\ q.op = r.op /\ q.person = r.person /\ q.link = r.link

LEMMA GotoStep ==
    ASSUME TypeOK, NEW c \in Clients, req[c] # None, NEW ph \in Phases, Goto(c, ph)
    PROVE  /\ req' \in [Clients -> Request \cup {None}]
           /\ Follows(req'[c], req[c]) /\ req'[c].phase = ph /\ req'[c].want = req[c].want
           /\ req'[c].add = req[c].add /\ req'[c].drop = req[c].drop
           /\ Others(c)
<1>. DEFINE r == [req[c] EXCEPT !.phase = ph]
<1>1. req[c] \in Request
  BY DEF TypeOK
<1>2. /\ r \in Request /\ r.phase = ph /\ r.op = req[c].op /\ r.person = req[c].person
      /\ r.link = req[c].link /\ r.want = req[c].want /\ r.add = req[c].add /\ r.drop = req[c].drop
  BY <1>1 DEF Request, Phases
<1>3. r # None
  BY <1>2, AccessConstants
<1>4. req' = [req EXCEPT ![c] = r]
  BY DEF Goto, TypeOK
<1>. HIDE DEF r
<1>. QED
  BY <1>2, <1>3, <1>4 DEF TypeOK, Others, Follows

LEMMA AnswerStep ==
    ASSUME TypeOK, NEW c \in Clients, Answer(c)
    PROVE  req' \in [Clients -> Request \cup {None}] /\ req'[c] = None /\ Others(c)
  BY DEF TypeOK, Answer, Others

-----------------------------------------------------------------------------
(* What a step of c must do to keep the invariant.                         *)

Steps == \A c \in Clients : req[c] # None => StepFits(req[c])

\* Invitations do not go back to being none, and those taken by others stay taken.
LinksKeep(c) ==
    /\ \A i \in Links : links[i] # None => links'[i] # None
    /\ \A d \in Clients \ {c} : Joins(d) =>
          LET i == req[d].link
          IN  links'[i] \notin {None, Gone} => links'[i].accepted

\* What c has taken is taken, by nobody else.
TakenBy(c) ==
    Joins(c)' => /\ Exists(req[c].link)' => links'[req'[c].link].accepted
                 /\ \A d \in Clients \ {c} : Joins(d) => req[d].link # req'[c].link

\* c has no lock, takes or keeps it, or gives it up.
LockMoves(c) ==
    \/ /\ roster' = roster /\ roster # c
       /\ InLock(c)' => req'[c].op = "access" /\ req'[c].phase = "add"
    \/ roster' = c /\ roster \in {None, c} /\ InLock(c)'
    \/ roster' = None /\ roster = c /\ ~InLock(c)'

\* What c has read under the lock is so.
ReadsFit(c) ==
    InLock(c) /\ req[c].phase \in {"add", "commit"} =>
        LET r == req[c]
        IN  /\ Admin \in roles[r.person] \ r.want => \E p \in Admins : p # r.person
            /\ r.phase = "commit" => /\ r.add = r.want \ roles[r.person]
                                     /\ r.drop = Surplus(r)

\* Where all writes are under the lock, only its holder writes.
RolesMove(c) == AllLocked => (roster = c \/ roles' = roles)

LEMMA StepKeeps ==
    ASSUME AccessInv, NEW c \in Clients, TypeOK', site' = site, Others(c),
           LinksKeep(c), req'[c] # None => StepFits(req[c])', TakenBy(c),
           LockMoves(c), RolesMove(c), AllLocked => ReadsFit(c)'
    PROVE  AccessInv'
<1>1. Steps'
  <2>. SUFFICES ASSUME NEW d \in Clients, d # c, req'[d] # None
                PROVE  StepFits(req[d])'
    BY DEF Steps
  <2>1. StepFits(req[d]) /\ req'[d] = req[d]
    BY DEF AccessInv, Others
  <2>. QED
    BY <2>1 DEF StepFits, LinksKeep
<1>2. TakenOnce'
  <2>1. \A d \in Clients \ {c} : /\ req'[d] = req[d]
                                 /\ Joins(d)' <=> Joins(d)
    BY DEF Others, Joins
  <2>2. ASSUME NEW d \in Clients, Joins(d)'
        PROVE  /\ Exists(req[d].link)' => links'[req'[d].link].accepted
               /\ \A e \in Clients \ {d} : Joins(e)' => req'[e].link # req'[d].link
    <3>1. CASE d = c
      BY <2>1, <2>2, <3>1 DEF TakenBy
    <3>2. CASE d # c
      <4>1. Joins(d) /\ req'[d] = req[d]
        BY <2>1, <2>2, <3>2
      <4>2. Exists(req[d].link)' => links'[req'[d].link].accepted
        BY <4>1, <3>2 DEF LinksKeep, Exists
      <4>3. ASSUME NEW e \in Clients \ {d}, Joins(e)'
            PROVE  req'[e].link # req'[d].link
        <5>1. CASE e = c
          BY <4>1, <4>3, <5>1, <3>2 DEF TakenBy
        <5>2. CASE e # c
          BY <2>1, <4>1, <4>3, <5>2 DEF AccessInv, TakenOnce
        <5>. QED
          BY <5>1, <5>2
      <4>. QED
        BY <4>2, <4>3
    <3>. QED
      BY <3>1, <3>2
  <2>. QED
    BY <2>2 DEF TakenOnce
<1>3. \A d \in Clients \ {c} : InLock(d)' <=> InLock(d)
  BY DEF Others, InLock
<1>4. LockHeld'
  <2>1. roster' # None => InLock(roster)'
    BY <1>3 DEF AccessInv, TypeOK, LockHeld, LockMoves, InLock, Others
  <2>2. ASSUME NEW d \in Clients, InLock(d)', <<req'[d].op, req'[d].phase>> # <<"access", "add">>
        PROVE  roster' = d
    <3>1. CASE d = c
      BY <2>2, <3>1 DEF LockMoves
    <3>2. CASE d # c
      <4>1. roster = d
        BY <1>3, <2>2, <3>2 DEF AccessInv, LockHeld, Others
      <4>. QED
        BY <3>2, <4>1, AccessConstants DEF LockMoves
    <3>. QED
      BY <3>1, <3>2
  <2>. QED
    BY <2>1, <2>2 DEF LockHeld
<1>5. LockReads'
  <2>1. SUFFICES ASSUME AllLocked', NEW d \in Clients, d # c, InLock(d)',
                        req'[d].phase \in {"add", "commit"}
                 PROVE  ReadsFit(d)'
    BY DEF LockReads, ReadsFit, AllLocked
  <2>2. AllLocked /\ InLock(d) /\ req'[d] = req[d]
    BY <1>3, <2>1 DEF AllLocked, Others
  <2>3. req[d].op # "access"
    BY <2>2 DEF AccessInv, StepFits, AllLocked, InLock
  <2>4. roster = d
    BY <2>2, <2>3 DEF AccessInv, LockHeld
  <2>5. roles' = roles
    BY <2>1, <2>2, <2>4 DEF RolesMove
  <2>6. ReadsFit(d)
    BY <2>1, <2>2 DEF AccessInv, LockReads, ReadsFit
  <2>. QED
    BY <2>1, <2>2, <2>5, <2>6 DEF ReadsFit, Admins, Surplus, InLock
<1>. QED
  BY <1>1, <1>2, <1>4, <1>5 DEF AccessInv, Steps

LEMMA LinksMove ==
    ASSUME AccessInv, TypeOK', UNCHANGED <<site, roles, accounts, roster, req>>,
           \A i \in Links : /\ links[i] # None => links'[i] # None
                            /\ links[i] = Gone => links'[i] = Gone
                            /\ Exists(i) /\ Exists(i)' => links'[i].accepted = links[i].accepted
    PROVE  AccessInv'
<1>1. Steps'
  BY DEF AccessInv, Steps, StepFits
<1>2. TakenOnce'
  <2>1. ASSUME NEW c \in Clients, Joins(c), Exists(req[c].link)'
        PROVE  links'[req[c].link].accepted
    <3>1. req[c].link \in Links /\ links[req[c].link] # None
      BY <2>1 DEF AccessInv, StepFits, Joins
    <3>. QED
      BY <2>1, <3>1 DEF AccessInv, TakenOnce, Exists
  <2>. QED
    BY <2>1 DEF AccessInv, TakenOnce, Joins, Exists
<1>3. LockHeld' /\ LockReads'
  BY DEF AccessInv, LockHeld, LockReads, InLock, AllLocked, Admins, Surplus
<1>. QED
  BY <1>1, <1>2, <1>3 DEF AccessInv, Steps

-----------------------------------------------------------------------------
(* The actions.                                                            *)

\* A request that begins holds and has taken nothing.
LEMMA BeginKeeps ==
    ASSUME AccessInv, NEW c \in Clients, NEW op \in Ops, NEW ph \in {"claim", "roles", "lock"},
           NEW p \in People, NEW want \in SUBSET Roles, NEW i \in Links \cup {None},
           Idle(c, op), Begin(c, op, ph, p, want, i), UNCHANGED <<site, roles, accounts, links, roster>>,
           op = "accept" <=> ph = "claim", op = "accept" => i \in Links /\ links[i] # None,
           op \in {"change", "remove"} <=> ph = "lock"
    PROVE  AccessInv'
<1>0. TypeOK /\ ph \in Phases
  BY DEF AccessInv, Phases
<1>1. /\ req' \in [Clients -> Request \cup {None}]
      /\ req'[c] # None /\ req'[c].op = op /\ req'[c].phase = ph /\ req'[c].link = i
      /\ Others(c)
  BY <1>0, BeginStep
<1>2. StepFits(req[c])'
  BY <1>1 DEF StepFits, Idle
<1>3. LinksKeep(c)
  BY DEF LinksKeep, AccessInv, TakenOnce, Exists
<1>4. ~Joins(c)' /\ ~InLock(c)' /\ roster # c
  BY <1>1, AccessConstants DEF Joins, InLock, Idle, AccessInv, LockHeld, TypeOK
<1>5. TakenBy(c) /\ LockMoves(c) /\ RolesMove(c) /\ ReadsFit(c)'
  BY <1>4 DEF TakenBy, LockMoves, RolesMove, ReadsFit
<1>6. TypeOK'
  BY <1>1 DEF AccessInv, TypeOK
<1>. QED
  BY <1>1, <1>2, <1>3, <1>5, <1>6, StepKeeps

LEMMA InviteKeeps ==
    ASSUME AccessInv, NEW c \in Clients, Invite(c)
    PROVE  AccessInv'
<1>1. PICK p \in site.people, r \in Roles :
        \/ Begin(c, "invite", "roles", p, {r}, None) /\ UNCHANGED links
        \/ /\ \E i \in Links :
                /\ links[i] = None
                /\ links' = [links EXCEPT ![i] =
                     [person |-> p, role |-> r, accepted |-> FALSE, expired |-> FALSE]]
           /\ UNCHANGED req
  BY DEF Invite
<1>2. p \in People
  BY AccessConstants DEF AccessInv, TypeOK
<1>3. CASE Begin(c, "invite", "roles", p, {r}, None) /\ UNCHANGED links
  BY <1>2, <1>3, BeginKeeps DEF Invite, Ops, Member
<1>4. ASSUME NEW i \in Links, links[i] = None, UNCHANGED req,
             links' = [links EXCEPT ![i] =
                     [person |-> p, role |-> r, accepted |-> FALSE, expired |-> FALSE]]
      PROVE  AccessInv'
  <2>. DEFINE new == [person |-> p, role |-> r, accepted |-> FALSE, expired |-> FALSE]
  <2>1. new \in Invitation
    BY <1>2 DEF Invitation
  <2>0. new \notin {None, Gone}
    BY <2>1, AccessConstants
  <2>2. links' = [links EXCEPT ![i] = new]
    BY <1>4
  <2>. HIDE DEF new
  <2>3. TypeOK'
    BY ZenonT(40), <1>4, <2>1, <2>2 DEF AccessInv, TypeOK, Invite
  <2>. QED
    BY <1>4, <2>0, <2>1, <2>2, <2>3, LinksMove, AccessConstants DEF AccessInv, TypeOK, Invite, Exists
<1>. QED
  BY <1>1, <1>3, <1>4

LEMMA RevokeKeeps ==
    ASSUME AccessInv, NEW i \in Links, Revoke(i)
    PROVE  AccessInv'
<1>1. TypeOK'
  BY DEF AccessInv, TypeOK, Revoke
<1>. QED
  BY <1>1, LinksMove, AccessConstants DEF AccessInv, TypeOK, Revoke, Exists

LEMMA ExpireKeeps ==
    ASSUME AccessInv, NEW i \in Links, Expire(i)
    PROVE  AccessInv'
<1>. DEFINE new == [links[i] EXCEPT !.expired = TRUE]
<1>1. links[i] \in Invitation
  BY DEF AccessInv, TypeOK, Expire, IsOpen, Exists
<1>2. new \in Invitation /\ new.accepted = links[i].accepted
  BY <1>1 DEF Invitation
<1>3. links' = [links EXCEPT ![i] = new]
  BY DEF Expire
<1>4. new \notin {None, Gone}
  BY <1>2, AccessConstants
<1>. HIDE DEF new
<1>5. TypeOK'
  BY <1>2, <1>3 DEF AccessInv, TypeOK, Expire
<1>. QED
  BY <1>2, <1>3, <1>4, <1>5, LinksMove DEF AccessInv, TypeOK, Expire, Exists, IsOpen

LEMMA StartKeeps ==
    ASSUME AccessInv, NEW c \in Clients,
           \/ SetAccess(c) \/ RemoveAccess(c) \/ Accept(c)
           \/ \E want \in RoleSets : ChangeOther(c, "change", want)
           \/ ChangeOther(c, "remove", {})
    PROVE  AccessInv'
<1>. USE DEF Ops, Member, RoleSets
<1>1. \A p \in accounts : p \in People
  BY DEF AccessInv, TypeOK
<1>2. CASE SetAccess(c)
  <2>1. PICK p \in accounts, want \in RoleSets : Begin(c, "access", "roles", p, want, None)
    BY <1>2 DEF SetAccess
  <2>. QED
    BY <1>1, <1>2, <2>1, BeginKeeps DEF SetAccess
<1>3. CASE RemoveAccess(c)
  <2>1. PICK p \in accounts : Begin(c, "remove", "lock", p, {}, None)
    BY <1>3 DEF RemoveAccess
  <2>. QED
    BY <1>1, <1>3, <2>1, BeginKeeps DEF RemoveAccess
<1>4. CASE Accept(c)
  <2>1. PICK i \in Links :
          IsOpen(i) /\ Begin(c, "accept", "claim", links[i].person, {links[i].role}, i)
    BY <1>4 DEF Accept
  <2>2. links[i] \in Invitation /\ links[i] # None
    BY <2>1 DEF AccessInv, TypeOK, IsOpen, Exists
  <2>3. links[i].person \in People /\ {links[i].role} \in SUBSET Roles
    BY <2>2 DEF Invitation
  <2>. QED
    BY <1>4, <2>1, <2>2, <2>3, BeginKeeps DEF Accept
<1>5. ASSUME NEW op \in {"change", "remove"}, NEW want \in SUBSET Roles, ChangeOther(c, op, want)
      PROVE  AccessInv'
  <2>1. PICK p \in People : Begin(c, op, "lock", p, want, None)
    BY <1>5 DEF ChangeOther
  <2>. QED
    BY <1>5, <2>1, BeginKeeps DEF ChangeOther
<1>. QED
  BY <1>2, <1>3, <1>4, <1>5

\* While the invitations stay as they are, a request that goes on takes none.
LEMMA StillTaken ==
    ASSUME AccessInv, NEW c \in Clients, links' = links,
           Joins(c)' => Joins(c) /\ req'[c].link = req[c].link
    PROVE  LinksKeep(c) /\ TakenBy(c)
  BY DEF AccessInv, TakenOnce, LinksKeep, TakenBy, Exists

\* A request that ends gives up the lock, if it has it.
LEMMA EndKeeps ==
    ASSUME AccessInv, NEW c \in Clients, Answer(c), roster' = Unlocked(c), site' = site,
           roles' \in [People -> SUBSET Roles], accounts' = accounts,
           links' \in [Links -> Invitation \cup {None, Gone}], LinksKeep(c), RolesMove(c)
    PROVE  AccessInv'
<1>1. req' \in [Clients -> Request \cup {None}] /\ req'[c] = None /\ Others(c)
  BY AnswerStep DEF AccessInv
<1>2. TypeOK'
  BY <1>1 DEF AccessInv, TypeOK, Unlocked
<1>3. TakenBy(c) /\ LockMoves(c) /\ ReadsFit(c)'
  BY <1>1 DEF TakenBy, Joins, LockMoves, InLock, ReadsFit, Unlocked
<1>. QED
  BY <1>1, <1>2, <1>3, StepKeeps

\* A request without the lock, or an upsert of its own.
LEMMA OutsideLock ==
    ASSUME AccessInv, NEW c \in Clients, req[c] # None,
           \/ req[c].phase \notin {"held", "count", "add", "commit"}
           \/ req[c].op \notin {"access", "change", "remove"}
    PROVE  roster # c
  BY AccessConstants DEF AccessInv, LockHeld, InLock, TypeOK

\* A request without the lock goes on without it.
LEMMA AsideKeeps ==
    ASSUME AccessInv, NEW c \in Clients, req[c] # None, roster # c,
           req' \in [Clients -> Request \cup {None}], Others(c),
           Follows(req'[c], req[c]), StepFits(req'[c]),
           InLock(c)' => req'[c].op = "access" /\ req'[c].phase = "add",
           Joins(c)' => Joins(c), UNCHANGED <<site, links, roster>>,
           roles' \in [People -> SUBSET Roles], accounts' \subseteq People, RolesMove(c)
    PROVE  AccessInv'
<1>1. TypeOK'
  BY DEF AccessInv, TypeOK
<1>2. LinksKeep(c) /\ TakenBy(c)
  BY StillTaken DEF Follows
<1>3. LockMoves(c)
  BY DEF LockMoves
<1>4. AllLocked => ReadsFit(c)'
  BY DEF ReadsFit, AllLocked, StepFits
<1>5. StepFits(req[c])'
  BY DEF StepFits
<1>. QED
  BY <1>1, <1>2, <1>3, <1>4, <1>5, StepKeeps

LEMMA ClaimKeeps ==
    ASSUME AccessInv, NEW c \in Clients, Claim(c)
    PROVE  AccessInv'
<1>. DEFINE r == req[c]
<1>1. r # None /\ r.phase = "claim" /\ StepFits(r)
  BY DEF Claim, At, AccessInv
<1>2. r.op = "accept" /\ r.link \in Links /\ roster # c
  BY <1>1, OutsideLock DEF StepFits
<1>3. CASE Answer(c) /\ UNCHANGED links
  <2>1. LinksKeep(c) /\ roster' = Unlocked(c)
    BY <1>2, <1>3 DEF Claim, LinksKeep, Unlocked, AccessInv, TakenOnce, Exists
  <2>. QED
    BY <1>3, <2>1, EndKeeps DEF Claim, AccessInv, TypeOK, RolesMove
<1>4. CASE Claimable(r.link) /\ links' = [links EXCEPT ![r.link].accepted = TRUE] /\ Goto(c, "account")
  <2>1. /\ req' \in [Clients -> Request \cup {None}]
        /\ Follows(req'[c], r) /\ req'[c].phase = "account" /\ Others(c)
    BY <1>1, <1>4, GotoStep DEF Phases, AccessInv
  <2>. DEFINE new == [links[r.link] EXCEPT !.accepted = TRUE]
  <2>2. links[r.link] \in Invitation /\ ~links[r.link].accepted /\ Exists(r.link)
    BY <1>2, <1>4 DEF Claimable, IsOpen, Exists, AccessInv, TypeOK
  <2>3. new \in Invitation /\ new.accepted
    BY <2>2 DEF Invitation
  <2>4. new \notin {None, Gone}
    BY <2>3, AccessConstants
  <2>5. links' = [links EXCEPT ![r.link] = new]
    BY <1>4
  <2>. HIDE DEF new
  <2>6. links' = [i \in Links |-> IF i = r.link THEN new ELSE links[i]]
    BY <2>5 DEF AccessInv, TypeOK
  <2>7. TypeOK'
    BY <2>1, <2>3, <2>6 DEF Claim, AccessInv, TypeOK
  <2>8. \A d \in Clients : Joins(d) => req[d].link # r.link
    BY <2>2 DEF AccessInv, TakenOnce
  <2>9. LinksKeep(c)
    <3>1. \A d \in Clients : Joins(d) => req[d].link \in Links
      BY DEF Joins, AccessInv, StepFits
    <3>. QED
      BY <2>3, <2>4, <2>6, <2>8, <3>1 DEF AccessInv, TakenOnce, LinksKeep, Exists
  <2>10. TakenBy(c)
    BY <1>2, <2>1, <2>3, <2>6, <2>8 DEF TakenBy, Follows
  <2>11. StepFits(req[c])'
    BY <1>1, <1>2, <2>1, <2>4, <2>6 DEF StepFits, Follows, Claim
  <2>12. LockMoves(c) /\ RolesMove(c) /\ ReadsFit(c)'
    BY <1>2, <2>1 DEF LockMoves, RolesMove, ReadsFit, InLock, Follows, Claim
  <2>. QED
    BY <2>1, <2>7, <2>9, <2>10, <2>11, <2>12, StepKeeps DEF Claim
<1>. QED
  BY <1>3, <1>4 DEF Claim

LEMMA GiveBackKeeps ==
    ASSUME AccessInv, NEW c \in Clients, GiveBack(c)
    PROVE  AccessInv'
<1>. DEFINE r == req[c]
<1>1. r # None /\ r.phase = "give back" /\ StepFits(r)
  BY DEF GiveBack, At, AccessInv
<1>2. r.op = "accept" /\ r.link \in Links /\ roster # c /\ Joins(c)
  BY <1>1, OutsideLock DEF StepFits, Joins
<1>3. links' \in [Links -> Invitation \cup {None, Gone}] /\ LinksKeep(c)
  <2>1. CASE ~Exists(r.link) /\ UNCHANGED links
    BY <2>1 DEF AccessInv, TypeOK, TakenOnce, LinksKeep, Exists
  <2>2. CASE Exists(r.link) /\ links' = [links EXCEPT ![r.link].accepted = FALSE]
    <3>. DEFINE new == [links[r.link] EXCEPT !.accepted = FALSE]
    <3>1. links[r.link] \in Invitation
      BY <1>2, <2>2 DEF Exists, AccessInv, TypeOK
    <3>2. new \in Invitation
      BY <3>1 DEF Invitation
    <3>3. new \notin {None, Gone}
      BY <3>2, AccessConstants
    <3>. HIDE DEF new
    <3>4. links' = [i \in Links |-> IF i = r.link THEN new ELSE links[i]]
      BY <2>2 DEF new, AccessInv, TypeOK
    <3>5. \A d \in Clients \ {c} : Joins(d) => req[d].link \in Links /\ req[d].link # r.link
      BY <1>2 DEF Joins, AccessInv, StepFits, TakenOnce
    <3>. QED
      BY <3>2, <3>3, <3>4, <3>5 DEF AccessInv, TypeOK, TakenOnce, LinksKeep, Exists
  <2>. QED
    BY <2>1, <2>2 DEF GiveBack
<1>4. roster' = Unlocked(c) /\ RolesMove(c)
  BY <1>2 DEF GiveBack, Unlocked, RolesMove
<1>. QED
  BY <1>3, <1>4, EndKeeps DEF GiveBack, AccessInv, TypeOK

\* SignUp, Grant and FailGrant.
LEMMA JoinGoes ==
    ASSUME AccessInv, NEW c \in Clients, req[c] # None, req[c].op = "accept",
           req[c].phase # "claim", UNCHANGED <<site, roles, links, roster>>,
           accounts' \subseteq People, NEW ph \in {"grant", "give back"}, Goto(c, ph)
    PROVE  AccessInv'
<1>1. ph \in Phases /\ TypeOK
  BY DEF Phases, AccessInv
<1>2. /\ req' \in [Clients -> Request \cup {None}]
      /\ Follows(req'[c], req[c]) /\ req'[c].phase = ph /\ Others(c)
  BY <1>1, GotoStep
<1>3. roster # c
  BY OutsideLock
<1>4. StepFits(req'[c])
  BY <1>2 DEF AccessInv, StepFits, Follows
<1>5. Joins(c) /\ ~InLock(c)' /\ RolesMove(c)
  BY <1>2 DEF Joins, InLock, RolesMove, Follows
<1>. QED
  BY <1>2, <1>3, <1>4, <1>5, AsideKeeps DEF AccessInv, TypeOK

LEMMA SignUpKeeps ==
    ASSUME AccessInv, NEW c \in Clients, SignUp(c)
    PROVE  AccessInv'
<1>1. req[c] # None /\ req[c].phase = "account" /\ req[c].op = "accept"
  BY DEF SignUp, At, AccessInv, StepFits
<1>0. req[c].person \in People
  <2>1. req[c] \in Request
    BY <1>1 DEF AccessInv, TypeOK
  <2>. QED
    BY <2>1 DEF Request
<1>2. accounts' \subseteq People
  BY <1>0 DEF SignUp, AccessInv, TypeOK, Address
<1>. QED
  BY <1>1, <1>2, JoinGoes DEF SignUp

LEMMA FailGrantKeeps ==
    ASSUME AccessInv, NEW c \in Clients, FailGrant(c)
    PROVE  AccessInv'
  BY JoinGoes DEF FailGrant, At, AccessInv, TypeOK

LEMMA GrantKeeps ==
    ASSUME AccessInv, NEW c \in Clients, Grant(c)
    PROVE  AccessInv'
<1>. DEFINE r == req[c]
            q == [r EXCEPT !.phase = "add", !.add = r.want]
<1>1. r # None /\ r.phase = "grant" /\ r.op = "accept" /\ r \in Request /\ StepFits(r)
  BY DEF Grant, At, AccessInv, StepFits, TypeOK
<1>2. CASE Goto(c, "give back")
  BY <1>1, <1>2, JoinGoes DEF Grant, AccessInv, TypeOK
<1>3. CASE req' = [req EXCEPT ![c].phase = "add", ![c].add = r.want]
  <2>1. /\ q \in Request /\ q.phase = "add" /\ q.op = r.op /\ q.person = r.person
        /\ q.link = r.link
    BY <1>1 DEF Request
  <2>2. q # None
    BY <2>1, AccessConstants
  <2>3. req' = [req EXCEPT ![c] = q]
    BY <1>3 DEF AccessInv, TypeOK
  <2>. HIDE DEF q
  <2>4. /\ req' \in [Clients -> Request \cup {None}] /\ req'[c] = q /\ Others(c)
    BY <2>1, <2>3 DEF AccessInv, TypeOK, Others
  <2>5. Follows(req'[c], r)
    BY <2>1, <2>2, <2>4 DEF Follows
  <2>6. StepFits(req'[c])
    BY <1>1, <2>1, <2>4 DEF StepFits
  <2>7. Joins(c) /\ ~InLock(c)' /\ RolesMove(c) /\ roster # c
    BY <1>1, <2>1, <2>4, OutsideLock DEF Joins, InLock, RolesMove, Grant
  <2>. QED
    BY <1>1, <2>4, <2>5, <2>6, <2>7, AsideKeeps DEF Grant, AccessInv, TypeOK
<1>. QED
  BY <1>2, <1>3 DEF Grant

Becomes(c, q) == req' = [req EXCEPT ![c] = q]

\* A request that goes on as q without the lock; what it holds does not matter to others.
Aside(c, q) ==
    /\ req[c] # None /\ roster # c /\ req[c].phase # "claim"
    /\ q \in Request /\ Becomes(c, q) /\ StepFits(q)
    /\ q.op = req[c].op /\ q.person = req[c].person /\ q.link = req[c].link
    /\ \/ q.phase \in {"lock", "read", "drop"}
       \/ q.phase = "add" /\ q.op \notin {"change", "remove"}
    /\ UNCHANGED <<site, links, accounts, roster>>
    /\ roles' \in [People -> SUBSET Roles] /\ RolesMove(c)

LEMMA GoesAside ==
    ASSUME AccessInv, NEW c \in Clients, NEW q, Aside(c, q)
    PROVE  AccessInv'
<1>. USE DEF Aside
<1>1. q # None
  BY AccessConstants
<1>2. /\ req' \in [Clients -> Request \cup {None}] /\ req'[c] = q /\ Others(c)
  BY DEF Becomes, AccessInv, TypeOK, Others
<1>3. Follows(req'[c], req[c])
  BY <1>1, <1>2 DEF Follows
<1>4. InLock(c)' => req'[c].op = "access" /\ req'[c].phase = "add"
  BY <1>2 DEF InLock
<1>5. Joins(c)' => Joins(c)
  BY <1>2 DEF Joins
<1>. QED
  BY <1>2, <1>3, <1>4, <1>5, AsideKeeps DEF AccessInv, TypeOK

LEMMA FindRolesKeeps ==
    ASSUME AccessInv, NEW c \in Clients, FindRoles(c)
    PROVE  AccessInv'
<1>1. PICK r \in Request : r = req[c]
  BY DEF FindRoles, At, AccessInv, TypeOK
<1>2. r # None /\ r.phase = "roles" /\ StepFits(r) /\ r.op \notin {"change", "remove"}
  BY <1>1 DEF FindRoles, At, AccessInv, StepFits
<1>3. r.person \in People /\ r.want \in SUBSET Roles
  BY DEF Request
<1>. DEFINE want == IF r.op = "invite" THEN r.want \cup roles[r.person] ELSE r.want
            ph == IF r.op = "access" /\ roles[r.person] # {} THEN "lock" ELSE "add"
            q == [r EXCEPT !.want = want, !.add = want, !.phase = ph]
<1>4. want \in SUBSET Roles /\ ph \in {"lock", "add"} /\ (ph = "lock" => r.op = "access")
  BY <1>3 DEF AccessInv, TypeOK
<1>5. Becomes(c, q)
  BY <1>1 DEF Becomes, FindRoles, AccessInv, TypeOK
<1>. HIDE DEF want, ph
<1>6. /\ q \in Request /\ q.op = r.op /\ q.person = r.person /\ q.link = r.link /\ q.phase = ph
  BY <1>4 DEF Request
<1>. HIDE DEF q
<1>7. StepFits(q)
  BY <1>2, <1>4, <1>6 DEF StepFits
<1>8. roster # c
  BY <1>1, <1>2, OutsideLock
<1>20. Aside(c, q)
  BY <1>1, <1>2, <1>4, <1>5, <1>6, <1>7, <1>8 DEF FindRoles, AccessInv, TypeOK, RolesMove, Aside
<1>. QED
  BY <1>20, GoesAside

LEMMA ReadRolesKeeps ==
    ASSUME AccessInv, NEW c \in Clients, ReadRoles(c)
    PROVE  AccessInv'
<1>1. PICK r \in Request : r = req[c]
  BY DEF ReadRoles, At, AccessInv, TypeOK
<1>2. r # None /\ r.phase = "read" /\ StepFits(r) /\ roster # c
  BY <1>1, OutsideLock DEF ReadRoles, At, AccessInv
<1>3. Surplus(r) \in SUBSET Roles
  BY DEF Request, Surplus, AccessInv, TypeOK
<1>4. CASE Answer(c)
  <2>1. LinksKeep(c) /\ roster' = Unlocked(c) /\ RolesMove(c)
    BY <1>2 DEF ReadRoles, LinksKeep, Unlocked, AccessInv, TakenOnce, Exists, RolesMove
  <2>. QED
    BY <1>4, <2>1, EndKeeps DEF ReadRoles, AccessInv, TypeOK
<1>5. CASE req' = [req EXCEPT ![c].drop = Surplus(r), ![c].phase = "drop"]
  <2>. DEFINE q == [r EXCEPT !.drop = Surplus(r), !.phase = "drop"]
  <2>1. Becomes(c, q)
    BY <1>1, <1>5 DEF Becomes, AccessInv, TypeOK
  <2>2. /\ q \in Request /\ q.op = r.op /\ q.person = r.person /\ q.link = r.link /\ q.phase = "drop"
    BY <1>3 DEF Request
  <2>. HIDE DEF q
  <2>3. StepFits(q)
    BY <1>2, <2>2 DEF StepFits
  <2>4. RolesMove(c) /\ roles' \in [People -> SUBSET Roles]
    BY DEF ReadRoles, AccessInv, TypeOK, RolesMove
  <2>5. UNCHANGED <<site, links, accounts, roster>>
    BY DEF ReadRoles
  <2>10. Aside(c, q)
    BY <1>1, <1>2, <2>1, <2>2, <2>3, <2>4, <2>5 DEF Aside
  <2>. QED
    BY <2>10, GoesAside
<1>. QED
  BY <1>1, <1>4, <1>5 DEF ReadRoles

\* A statement outside the lock is one of a website where not all are under it.
LEMMA NotAllLocked ==
    ASSUME AccessInv, NEW c \in Clients, req[c] # None, roster # c,
           req[c].phase \in {"add", "read", "drop"}
    PROVE  ~AllLocked
<1>1. StepFits(req[c])
  BY DEF AccessInv
<1>. QED
  BY <1>1 DEF AccessInv, StepFits, LockHeld, InLock, AllLocked

LEMMA AddRoleKeeps ==
    ASSUME AccessInv, NEW c \in Clients, AddRole(c)
    PROVE  AccessInv'
<1>1. PICK r \in Request : r = req[c]
  BY DEF AddRole, At, AccessInv, TypeOK
<1>2. r # None /\ r.phase = "add" /\ StepFits(r) /\ roster # c
  BY <1>1 DEF AddRole, At, AccessInv, Locked
<1>3. PICK x \in r.add :
        /\ roles' = [roles EXCEPT ![r.person] = @ \cup {x}]
        /\ req' = [req EXCEPT ![c].add = @ \ {x}, ![c].phase = IF r.add = {x} THEN "read" ELSE "add"]
  BY <1>1 DEF AddRole
<1>. DEFINE ph == IF r.add = {x} THEN "read" ELSE "add"
            q == [r EXCEPT !.add = @ \ {x}, !.phase = ph]
<1>4. ~AllLocked
  BY <1>1, <1>2, NotAllLocked
<1>5. r.op \notin {"change", "remove"}
  BY <1>1, <1>2 DEF AccessInv, LockHeld, InLock
<1>6. Becomes(c, q)
  BY <1>1, <1>3 DEF Becomes, AccessInv, TypeOK
<1>7. ph \in {"read", "add"}
  OBVIOUS
<1>. HIDE DEF ph
<1>8. /\ q \in Request /\ q.op = r.op /\ q.person = r.person /\ q.link = r.link /\ q.phase = ph
  BY <1>7 DEF Request
<1>. HIDE DEF q
<1>9. StepFits(q)
  BY <1>2, <1>5, <1>7, <1>8 DEF StepFits
<1>10. roles' \in [People -> SUBSET Roles]
  <2>1. r.person \in People /\ x \in Roles
    BY DEF Request
  <2>. QED
    BY <1>3, <2>1 DEF AccessInv, TypeOK
<1>20. Aside(c, q)
  BY <1>1, <1>2, <1>4, <1>5, <1>6, <1>7, <1>8, <1>9, <1>10 DEF AddRole, RolesMove, Aside
<1>. QED
  BY <1>20, GoesAside

LEMMA DropRoleKeeps ==
    ASSUME AccessInv, NEW c \in Clients, DropRole(c)
    PROVE  AccessInv'
<1>1. PICK r \in Request : r = req[c]
  BY DEF DropRole, At, AccessInv, TypeOK
<1>2. r # None /\ r.phase = "drop" /\ StepFits(r) /\ roster # c
  BY <1>1, OutsideLock DEF DropRole, At, AccessInv
<1>3. PICK x \in r.drop :
        /\ roles' = [roles EXCEPT ![r.person] = @ \ {x}]
        /\ IF r.drop = {x} THEN Answer(c) ELSE req' = [req EXCEPT ![c].drop = @ \ {x}]
  BY <1>1 DEF DropRole
<1>4. ~AllLocked
  BY <1>1, <1>2, NotAllLocked
<1>5. roles' \in [People -> SUBSET Roles]
  BY <1>3 DEF AccessInv, TypeOK
<1>6. CASE Answer(c)
  <2>1. LinksKeep(c) /\ roster' = Unlocked(c) /\ RolesMove(c)
    BY <1>2, <1>4 DEF DropRole, LinksKeep, Unlocked, AccessInv, TakenOnce, Exists, RolesMove
  <2>. QED
    BY <1>5, <1>6, <2>1, EndKeeps DEF DropRole, AccessInv, TypeOK
<1>7. CASE req' = [req EXCEPT ![c].drop = @ \ {x}]
  <2>. DEFINE q == [r EXCEPT !.drop = @ \ {x}]
  <2>1. Becomes(c, q)
    BY <1>1, <1>7 DEF Becomes, AccessInv, TypeOK
  <2>2. /\ q \in Request /\ q.op = r.op /\ q.person = r.person /\ q.link = r.link /\ q.phase = "drop"
    BY <1>2 DEF Request
  <2>. HIDE DEF q
  <2>3. StepFits(q)
    BY <1>2, <2>2 DEF StepFits
  <2>4. RolesMove(c) /\ UNCHANGED <<site, links, accounts, roster>>
    BY <1>4 DEF DropRole, RolesMove
  <2>10. Aside(c, q)
    BY <1>1, <1>2, <1>5, <2>1, <2>2, <2>3, <2>4 DEF Aside
  <2>. QED
    BY <2>10, GoesAside
<1>. QED
  BY <1>3, <1>6, <1>7

-----------------------------------------------------------------------------
(* The transaction under the lock.                                         *)

\* A request that goes on as q with the lock, which it takes or has.
Inside(c, q) ==
    /\ req[c] # None /\ roster \in {None, c} /\ roster' = c
    /\ q \in Request /\ Becomes(c, q) /\ StepFits(q)
    /\ q.op = req[c].op /\ q.op \in {"access", "change", "remove"}
    /\ q.phase \in {"held", "count", "add", "commit"}
    /\ AllLocked /\ q.phase \in {"add", "commit"} =>
          /\ Admin \in roles[q.person] \ q.want => \E p \in Admins : p # q.person
          /\ q.phase = "commit" => q.add = q.want \ roles[q.person] /\ q.drop = Surplus(q)
    /\ UNCHANGED <<site, roles, accounts, links>>

LEMMA GoesInside ==
    ASSUME AccessInv, NEW c \in Clients, NEW q, Inside(c, q)
    PROVE  AccessInv'
<1>. USE DEF Inside
<1>1. q # None
  BY AccessConstants
<1>2. /\ req' \in [Clients -> Request \cup {None}] /\ req'[c] = q /\ Others(c)
  BY DEF Becomes, AccessInv, TypeOK, Others
<1>3. InLock(c)' /\ ~Joins(c)'
  BY <1>1, <1>2 DEF InLock, Joins
<1>4. LinksKeep(c) /\ TakenBy(c)
  BY <1>3, StillTaken
<1>5. LockMoves(c) /\ RolesMove(c)
  BY <1>3 DEF LockMoves, RolesMove
<1>6. StepFits(req[c])'
  BY <1>2 DEF StepFits
<1>7. AllLocked => ReadsFit(c)'
  BY <1>2 DEF ReadsFit, Admins, Surplus
<1>8. TypeOK'
  BY <1>2 DEF AccessInv, TypeOK
<1>. QED
  BY <1>2, <1>4, <1>5, <1>6, <1>7, <1>8, StepKeeps

LEMMA LockKeeps ==
    ASSUME AccessInv, NEW c \in Clients, Lock(c)
    PROVE  AccessInv'
<1>1. PICK r \in Request : r = req[c]
  BY DEF Lock, At, AccessInv, TypeOK
<1>2. r # None /\ r.phase = "lock" /\ StepFits(r) /\ r.op \in {"access", "change", "remove"}
  BY <1>1 DEF Lock, At, AccessInv, StepFits
<1>. DEFINE q == [r EXCEPT !.phase = "held"]
<1>3. Becomes(c, q)
  BY <1>1 DEF Lock, Goto, Becomes, AccessInv, TypeOK
<1>4. q \in Request /\ q.op = r.op /\ q.link = r.link /\ q.phase = "held"
  BY DEF Request
<1>. HIDE DEF q
<1>5. StepFits(q)
  BY <1>2, <1>4 DEF StepFits
<1>6. Inside(c, q)
  BY <1>1, <1>2, <1>3, <1>4, <1>5 DEF Inside, Lock, LockIsFree
<1>. QED
  BY <1>6, GoesInside

\* Who is past the lock has it.
LEMMA InsideLock ==
    ASSUME AccessInv, NEW c \in Clients, req[c] # None, req[c].phase \in {"held", "count", "commit"}
    PROVE  roster = c /\ InLock(c) /\ req[c].op \in {"access", "change", "remove"}
  BY DEF AccessInv, StepFits, LockHeld, InLock

LEMMA ReadHeldKeeps ==
    ASSUME AccessInv, NEW c \in Clients, ReadHeld(c)
    PROVE  AccessInv'
<1>1. PICK r \in Request : r = req[c]
  BY DEF ReadHeld, At, AccessInv, TypeOK
<1>2. /\ r # None /\ r.phase = "held" /\ StepFits(r) /\ roster = c
      /\ r.op \in {"access", "change", "remove"}
  BY <1>1, InsideLock DEF ReadHeld, At, AccessInv
<1>. DEFINE ph == IF Admin \in roles[r.person] /\ Admin \notin r.want THEN "count" ELSE "add"
            q == [r EXCEPT !.phase = ph]
<1>3. Becomes(c, q)
  BY <1>1 DEF ReadHeld, Goto, Becomes, AccessInv, TypeOK
<1>4. ph \in {"count", "add"} /\ (ph = "add" => Admin \notin roles[r.person] \ r.want)
  OBVIOUS
<1>. HIDE DEF ph
<1>5. /\ q \in Request /\ q.op = r.op /\ q.link = r.link /\ q.phase = ph
      /\ q.person = r.person /\ q.want = r.want
  BY <1>4 DEF Request
<1>. HIDE DEF q
<1>6. StepFits(q)
  BY <1>2, <1>4, <1>5 DEF StepFits
<1>7. Inside(c, q)
  BY <1>1, <1>2, <1>3, <1>4, <1>5, <1>6 DEF Inside, ReadHeld
<1>. QED
  BY <1>7, GoesInside

\* Of more than one administrator, one is another than p.
LEMMA NotLast ==
    ASSUME ~IsLast, NEW p
    PROVE  \E a \in Admins : a # p
<1>1. IsFiniteSet(Admins)
  <2>1. Admins \in SUBSET People
    BY DEF Admins
  <2>. QED
    BY <2>1, AccessConstants, FS_Subset
<1>2. Cardinality(Admins) \in Nat /\ Cardinality(Admins) > 1
  BY <1>1, FS_CardinalityType DEF IsLast
<1>3. Cardinality(Admins \ {p}) # 0
  <2>1. CASE p \in Admins
    <3>1. Cardinality(Admins \ {p}) = Cardinality(Admins) - 1
      BY <1>1, <2>1, FS_RemoveElement
    <3>. QED
      BY <1>2, <3>1
  <2>2. CASE p \notin Admins
    <3>1. Admins \ {p} = Admins
      BY <2>2
    <3>2. Cardinality(Admins \ {p}) = Cardinality(Admins)
      BY <3>1, Zenon
    <3>. QED
      BY <1>2, <3>2
  <2>. QED
    BY <2>1, <2>2
<1>4. Admins \ {p} # {}
  BY <1>3, FS_EmptySet
<1>. QED
  BY <1>4

LEMMA CountAdminsKeeps ==
    ASSUME AccessInv, NEW c \in Clients, CountAdmins(c)
    PROVE  AccessInv'
<1>1. PICK r \in Request : r = req[c]
  BY DEF CountAdmins, At, AccessInv, TypeOK
<1>2. /\ r # None /\ r.phase = "count" /\ StepFits(r) /\ roster = c
      /\ r.op \in {"access", "change", "remove"}
  BY <1>1, InsideLock DEF CountAdmins, At, AccessInv
<1>3. CASE Answer(c) /\ roster' = Unlocked(c)
  <2>1. LinksKeep(c) /\ RolesMove(c)
    BY DEF CountAdmins, LinksKeep, AccessInv, TakenOnce, Exists, RolesMove
  <2>. QED
    BY <1>3, <2>1, EndKeeps DEF CountAdmins, AccessInv, TypeOK
<1>4. CASE ~IsLast /\ Goto(c, "add") /\ UNCHANGED roster
  <2>. DEFINE q == [r EXCEPT !.phase = "add"]
  <2>1. Becomes(c, q)
    BY <1>1, <1>4 DEF Goto, Becomes, AccessInv, TypeOK
  <2>2. /\ q \in Request /\ q.op = r.op /\ q.link = r.link /\ q.phase = "add"
    BY DEF Request
  <2>. HIDE DEF q
  <2>3. StepFits(q)
    BY <1>2, <2>2 DEF StepFits
  <2>4. Inside(c, q)
    BY <1>1, <1>2, <1>4, <2>1, <2>2, <2>3, NotLast DEF Inside, CountAdmins
  <2>. QED
    BY <2>4, GoesInside
<1>. QED
  BY <1>3, <1>4 DEF CountAdmins

LEMMA WriteLockedKeeps ==
    ASSUME AccessInv, NEW c \in Clients, WriteLocked(c)
    PROVE  AccessInv'
<1>1. PICK r \in Request : r = req[c]
  BY DEF WriteLocked, At, AccessInv, TypeOK
<1>2. r # None /\ r.phase = "add" /\ StepFits(r) /\ roster = c /\ InLock(c)
  BY <1>1, AccessConstants DEF WriteLocked, At, Locked, AccessInv, LockHeld
<1>3. r.op \in {"access", "change", "remove"}
  BY <1>1, <1>2 DEF InLock
<1>. DEFINE new == r.want \ roles[r.person]
            q == [r EXCEPT !.add = new, !.drop = Surplus(r), !.phase = "commit"]
<1>4. new \in SUBSET Roles /\ Surplus(r) \in SUBSET Roles
  BY DEF Request, Surplus, AccessInv, TypeOK
<1>5. Becomes(c, q)
  BY <1>1 DEF WriteLocked, Becomes, AccessInv, TypeOK
<1>6. /\ q \in Request /\ q.op = r.op /\ q.link = r.link /\ q.phase = "commit"
      /\ q.person = r.person /\ q.want = r.want /\ q.add = new /\ q.drop = Surplus(r)
  BY <1>4 DEF Request
<1>. HIDE DEF q
<1>7. Surplus(q) = Surplus(r)
  BY <1>6 DEF Surplus
<1>8. StepFits(q)
  BY <1>2, <1>3, <1>6 DEF StepFits
<1>9. AllLocked /\ Admin \in roles[r.person] \ r.want => \E p \in Admins : p # r.person
  BY <1>1, <1>2 DEF AccessInv, LockReads
<1>10. Inside(c, q)
  BY <1>1, <1>2, <1>3, <1>5, <1>6, <1>7, <1>8, <1>9 DEF Inside, WriteLocked
<1>. QED
  BY <1>10, GoesInside

LEMMA CommitKeeps ==
    ASSUME AccessInv, NEW c \in Clients, Commit(c)
    PROVE  AccessInv'
<1>1. PICK r \in Request : r = req[c]
  BY DEF Commit, At, AccessInv, TypeOK
<1>2. r # None /\ r.phase = "commit" /\ roster = c
  BY <1>1, InsideLock DEF Commit, At
<1>3. LinksKeep(c) /\ RolesMove(c)
  BY <1>2 DEF Commit, LinksKeep, AccessInv, TakenOnce, Exists, RolesMove
<1>4. roles' \in [People -> SUBSET Roles]
  <2>1. r.add \in SUBSET Roles /\ r.drop \in SUBSET Roles
    BY DEF Request
  <2>. QED
    BY <1>1, <2>1 DEF Commit, AccessInv, TypeOK
<1>. QED
  BY <1>3, <1>4, EndKeeps DEF Commit, AccessInv, TypeOK

LEMMA LoseKeeps ==
    ASSUME AccessInv, NEW c \in Clients, Lose(c)
    PROVE  AccessInv'
<1>1. LinksKeep(c) /\ RolesMove(c)
  BY DEF Lose, LinksKeep, AccessInv, TakenOnce, Exists, RolesMove
<1>. QED
  BY <1>1, EndKeeps DEF Lose, AccessInv, TypeOK

LEMMA StutterKeeps ==
    ASSUME AccessInv, UNCHANGED vars
    PROVE  AccessInv'
<1>1. TypeOK'
  BY DEF vars, AccessInv, TypeOK
<1>. QED
  BY <1>1, LinksMove DEF vars

LEMMA InitKeeps == Init => AccessInv
<1>. SUFFICES ASSUME Init
              PROVE  AccessInv
  OBVIOUS
<1>1. /\ site.roles \in [People -> SUBSET Roles]
      /\ site.accounts \subseteq People
  BY AccessConstants DEF Init
<1>2. TypeOK
  BY <1>1 DEF Init, TypeOK
<1>3. TakenOnce /\ LockHeld /\ LockReads
  BY DEF Init, TakenOnce, Joins, LockHeld, LockReads, InLock
<1>. QED
  BY <1>2, <1>3 DEF Init, AccessInv

LEMMA NextKeeps == AccessInv /\ [Next]_vars => AccessInv'
<1>. SUFFICES ASSUME AccessInv, [Next]_vars
              PROVE  AccessInv'
  OBVIOUS
<1>1. CASE UNCHANGED vars
  BY <1>1, StutterKeeps
<1>2. ASSUME NEW i \in Links, Revoke(i) \/ Expire(i)
      PROVE  AccessInv'
  BY <1>2, RevokeKeeps, ExpireKeeps
<1>3. ASSUME NEW c \in Clients, Continue(c)
      PROVE  AccessInv'
  BY <1>3, ClaimKeeps, SignUpKeeps, GrantKeeps, FailGrantKeeps, GiveBackKeeps, FindRolesKeeps,
     LockKeeps, ReadHeldKeeps, CountAdminsKeeps, AddRoleKeeps, ReadRolesKeeps, DropRoleKeeps,
     WriteLockedKeeps, CommitKeeps DEF Continue
<1>. QED
  BY <1>1, <1>2, <1>3, InviteKeeps, StartKeeps, LoseKeeps DEF Next

-----------------------------------------------------------------------------
(* Administrators and roles.                                               *)

\* Where all writes are under the lock, the roles of one person become those wanted.
LEMMA WhoWrites ==
    ASSUME AccessInv, [Next]_vars, AllLocked, roles' # roles
    PROVE  \E c \in Clients :
              /\ At(c, "commit")
              /\ roles' = [roles EXCEPT ![req[c].person] = req[c].want]
              /\ Admin \in roles[req[c].person] \ req[c].want =>
                    \E p \in Admins : p # req[c].person
<1>1. PICK c \in Clients : AddRole(c) \/ DropRole(c) \/ Commit(c)
  BY ZenonT(40) DEF Next, Revoke, Expire, Invite, SetAccess, RemoveAccess, Accept, ChangeOther, Continue,
     Lose, Claim, SignUp, Grant, FailGrant, GiveBack, FindRoles, Lock, ReadHeld, CountAdmins,
     ReadRoles, WriteLocked, vars
<1>2. Commit(c)
  <2>1. ~AddRole(c)
    BY NotAllLocked DEF AddRole, At, Locked
  <2>2. ~DropRole(c)
    BY NotAllLocked, OutsideLock DEF DropRole, At
  <2>. QED
    BY <1>1, <2>1, <2>2
<1>3. PICK r \in Request : r = req[c]
  BY <1>2 DEF Commit, At, AccessInv, TypeOK
<1>4. /\ r.add = r.want \ roles[r.person] /\ r.drop = roles[r.person] \ r.want
      /\ Admin \in roles[r.person] \ r.want => \E p \in Admins : p # r.person
  BY <1>2, <1>3, InsideLock DEF Commit, At, AccessInv, LockReads, Surplus
<1>5. (roles[r.person] \ r.drop) \cup r.add = r.want
  BY <1>4
<1>. QED
  BY <1>2, <1>3, <1>4, <1>5 DEF Commit

LEMMA AdminStays ==
    ASSUME AccessInv, [Next]_vars, AdminKept
    PROVE  AdminKept'
<1>1. site' = site
  BY ZenonT(40) DEF Next, Revoke, Expire, Invite, SetAccess, RemoveAccess, Accept, ChangeOther, Continue,
     Lose, Claim, SignUp, Grant, FailGrant, GiveBack, FindRoles, Lock, ReadHeld, CountAdmins,
     AddRole, ReadRoles, DropRole, WriteLocked, Commit, vars
<1>. SUFFICES ASSUME AllLocked, Admins # {}
              PROVE  Admins' # {}
  BY <1>1 DEF AdminKept, AllLocked
<1>2. CASE roles' = roles
  BY <1>2 DEF Admins
<1>3. CASE roles' # roles
  <2>1. PICK c \in Clients :
              /\ At(c, "commit")
              /\ roles' = [roles EXCEPT ![req[c].person] = req[c].want]
              /\ Admin \in roles[req[c].person] \ req[c].want =>
                    \E p \in Admins : p # req[c].person
    BY <1>3, WhoWrites
  <2>2. PICK a \in Admins : a = req[c].person => Admin \in req[c].want
    BY <2>1 DEF Admins
  <2>3. a \in Admins'
    BY <2>1, <2>2 DEF Admins, AccessInv, TypeOK
  <2>. QED
    BY <2>3
<1>. QED
  BY <1>2, <1>3

-----------------------------------------------------------------------------
(* The watched writes.                                                     *)

\* What a request of client c may do.
Does(c) ==
    \/ Invite(c) \/ SetAccess(c) \/ RemoveAccess(c) \/ Accept(c)
    \/ \E want \in RoleSets : ChangeOther(c, "change", want)
    \/ ChangeOther(c, "remove", {})
    \/ Continue(c) \/ Lose(c)

LEMMA DoesAlone ==
    ASSUME TypeOK, NEW c \in Clients, Does(c)
    PROVE  Others(c)
<1>1. CASE Invite(c) \/ SetAccess(c) \/ RemoveAccess(c) \/ Accept(c)
  BY <1>1 DEF Invite, SetAccess, RemoveAccess, Accept, Begin, Others, TypeOK
<1>2. ASSUME NEW want, NEW op, ChangeOther(c, op, want)
      PROVE  Others(c)
  BY <1>2 DEF ChangeOther, Begin, Others, TypeOK
<1>3. CASE Claim(c) \/ SignUp(c) \/ Grant(c) \/ FailGrant(c) \/ GiveBack(c) \/ Lose(c)
  BY <1>3 DEF Claim, SignUp, Grant, FailGrant, GiveBack, Lose, Goto, Answer, Others, TypeOK
<1>4. CASE FindRoles(c) \/ Lock(c) \/ ReadHeld(c) \/ CountAdmins(c)
  BY <1>4 DEF FindRoles, Lock, ReadHeld, CountAdmins, Goto, Answer, Others, TypeOK
<1>5. CASE AddRole(c) \/ ReadRoles(c) \/ DropRole(c) \/ WriteLocked(c) \/ Commit(c)
  BY <1>5 DEF AddRole, ReadRoles, DropRole, WriteLocked, Commit, Answer, Others, TypeOK
<1>. QED
  BY <1>1, <1>2, <1>3, <1>4, <1>5 DEF Does, Continue

LEMMA Doer ==
    ASSUME TypeOK, [Next]_vars, NEW d \in Clients, Acts(d)
    PROVE  Does(d)
<1>1. PICK c \in Clients : Does(c)
  BY DEF Next, Does, Revoke, Expire, Acts, vars
<1>2. d = c
  BY <1>1, DoesAlone DEF Others, Acts
<1>. QED
  BY <1>1, <1>2

\* The roster's lock stays with its holder while that request does nothing.
LEMMA LockStays ==
    ASSUME TypeOK, [Next]_vars, NEW d \in Clients, ~Acts(d), Locked(d), req[d] # None
    PROVE  Locked(d)'
<1>1. CASE roster' = roster
  BY <1>1 DEF Locked
<1>2. CASE roster' # roster
  <2>1. PICK c \in Clients : Lock(c) \/ CountAdmins(c) \/ Commit(c) \/ Lose(c)
    BY <1>2, ZenonT(40) DEF Next, Revoke, Expire, Invite, SetAccess, RemoveAccess, Accept, ChangeOther,
       Continue, Claim, SignUp, Grant, FailGrant, GiveBack, FindRoles, ReadHeld, AddRole, ReadRoles,
       DropRole, WriteLocked, vars
  <2>2. ~Lock(c)
    BY AccessConstants DEF Lock, LockIsFree, Locked
  <2>3. c = d
    BY <1>2, <2>1, <2>2 DEF CountAdmins, Commit, Lose, Unlocked, Locked
  <2>4. req'[d] = None
    BY <1>2, <2>1, <2>2, <2>3 DEF CountAdmins, Commit, Lose, Answer, TypeOK
  <2>. QED
    BY <2>4 DEF Acts
<1>. QED
  BY <1>1, <1>2

\* A request keeps what it does, and the roles it wants but for those it finds.
LEMMA Onward ==
    ASSUME TypeOK, NEW c \in Clients, Continue(c) \/ Lose(c), req'[c] # None
    PROVE  /\ req[c] # None /\ req'[c].op = req[c].op
           /\ req[c].want \subseteq req'[c].want
<1>1. req[c] # None
  BY DEF Continue, Claim, SignUp, Grant, FailGrant, GiveBack, Lose, FindRoles, Lock, ReadHeld,
         CountAdmins, AddRole, ReadRoles, DropRole, WriteLocked, Commit, At
<1>2. req[c] \in Request
  BY <1>1 DEF TypeOK
<1>3. ASSUME NEW ph \in Phases, Goto(c, ph)
      PROVE  req'[c].op = req[c].op /\ req'[c].want = req[c].want
  BY <1>1, <1>3, GotoStep DEF Follows
<1>4. ~Answer(c)
  BY AnswerStep
<1>5. CASE Claim(c) \/ SignUp(c) \/ FailGrant(c) \/ GiveBack(c) \/ Lose(c)
  BY <1>1, <1>3, <1>4, <1>5 DEF Claim, SignUp, FailGrant, GiveBack, Lose, Phases
<1>6. CASE Lock(c) \/ ReadHeld(c) \/ CountAdmins(c) \/ Commit(c)
  BY <1>1, <1>3, <1>4, <1>6 DEF Lock, ReadHeld, CountAdmins, Commit, Phases
<1>7. CASE Grant(c)
  <2>1. CASE req' = [req EXCEPT ![c].phase = "add", ![c].add = req[c].want]
    BY <1>1, <1>2, <2>1 DEF TypeOK, Request
  <2>. QED
    BY <1>1, <1>3, <1>7, <2>1 DEF Grant, Phases
<1>8. CASE FindRoles(c)
  BY <1>1, <1>2, <1>8 DEF FindRoles, TypeOK, Request
<1>9. CASE AddRole(c)
  <2>1. PICK x : req' = [req EXCEPT ![c].add = @ \ {x},
                                    ![c].phase = IF req[c].add = {x} THEN "read" ELSE "add"]
    BY <1>9 DEF AddRole
  <2>. QED
    BY <1>1, <1>2, <2>1 DEF TypeOK, Request
<1>10. CASE ReadRoles(c) \/ DropRole(c)
  <2>1. CASE ReadRoles(c)
    <3>1. PICK drop : req' = [req EXCEPT ![c].drop = drop, ![c].phase = "drop"]
      BY <1>4, <2>1, Zenon DEF ReadRoles
    <3>. QED
      BY <1>1, <1>2, <3>1 DEF TypeOK, Request
  <2>2. CASE DropRole(c)
    <3>1. PICK x : req' = [req EXCEPT ![c].drop = @ \ {x}]
      BY <1>4, <2>2 DEF DropRole
    <3>. QED
      BY <1>1, <1>2, <3>1 DEF TypeOK, Request
  <2>. QED
    BY <1>10, <2>1, <2>2
<1>11. CASE WriteLocked(c)
  BY <1>1, <1>2, <1>11 DEF WriteLocked, TypeOK, Request
<1>. QED
  BY <1>1, <1>5, <1>6, <1>7, <1>8, <1>9, <1>10, <1>11 DEF Continue

LEMMA WantsStay ==
    ASSUME AccessInv, Wants, [Next]_vars
    PROVE  Wants'
<1>. SUFFICES ASSUME NEW c \in Clients, req'[c] # None, req'[c].want = {}
              PROVE  req'[c].op = "remove"
  BY DEF Wants
<1>1. CASE ~Acts(c)
  BY <1>1 DEF Acts, Wants
<1>2. CASE Acts(c)
  <2>0. Does(c) /\ TypeOK
    BY <1>2, Doer DEF AccessInv
  <2>1. CASE Invite(c) \/ SetAccess(c) \/ RemoveAccess(c) \/ Accept(c)
    BY <2>0, <2>1, <1>2 DEF Invite, SetAccess, RemoveAccess, Accept, Begin, RoleSets, TypeOK, Acts
  <2>2. ASSUME NEW want, NEW op, ChangeOther(c, op, want), want = {} => op = "remove"
        PROVE  req'[c].op = "remove"
    BY <2>0, <2>2 DEF ChangeOther, Begin, TypeOK
  <2>3. CASE Continue(c) \/ Lose(c)
    <3>1. req[c] # None /\ req'[c].op = req[c].op /\ req[c].want = {}
      BY <2>0, <2>3, Onward
    <3>. QED
      BY <3>1 DEF Wants
  <2>. QED
    BY <2>0, <2>1, <2>2, <2>3 DEF Does, RoleSets
<1>. QED
  BY <1>1, <1>2

\* The statements of a write leave what they should, unless somebody else interferes.
LEMMA WriteLeaves ==
    ASSUME AccessInv, WatchInv, NEW d \in Clients, Does(d), Writes(d)', Writes(d) => Leaves(d)
    PROVE  Leaves(d)'
<1>. PICK r : r = req[d]
  OBVIOUS
<1>0. TypeOK /\ (r # None => r \in Request)
  BY DEF AccessInv, TypeOK
<1>1. At(d, "add")' \/ At(d, "read")' \/ At(d, "drop")' \/ At(d, "commit")'
  BY DEF Writes, At
<1>2. ASSUME NEW ph \in Phases, Goto(d, ph), r # None, ph \notin {"add", "read", "drop", "commit"}
      PROVE  FALSE
  BY <1>0, <1>1, <1>2, GotoStep DEF At
<1>3. ~Answer(d)
  BY <1>0, <1>1, AnswerStep DEF At
<1>4. ASSUME NEW op \in Ops, NEW ph \in Phases, NEW p \in People, NEW want \in SUBSET Roles,
             NEW i \in Links \cup {None}, Begin(d, op, ph, p, want, i),
             ph \in {"roles", "lock", "claim"}
      PROVE  FALSE
  BY <1>0, <1>1, <1>4, BeginStep DEF At
<1>5. ~Invite(d)
  <2>1. ASSUME Invite(d)
        PROVE  FALSE
    <3>0. PICK p \in site.people, q \in Roles :
             Begin(d, "invite", "roles", p, {q}, None) \/ UNCHANGED req
      BY <2>1 DEF Invite
    <3>2. p \in People
      BY <1>0, AccessConstants DEF TypeOK
    <3>3. UNCHANGED req
      BY <1>4, <3>0, <3>2 DEF Ops, Member, Phases
    <3>1. UNCHANGED <<req, roster>> /\ req[d] = None
      BY <2>1, <3>3 DEF Invite, Idle
    <3>. QED
      BY <1>1, <3>1 DEF At
  <2>. QED
    BY <2>1
<1>6. ~SetAccess(d) /\ ~RemoveAccess(d) /\ ~Accept(d)
  <2>1. ~SetAccess(d)
    BY <1>0, <1>4 DEF SetAccess, Ops, Member, Phases, RoleSets, TypeOK
  <2>2. ~RemoveAccess(d)
    BY <1>0, <1>4 DEF RemoveAccess, Ops, Member, Phases, TypeOK
  <2>3. ASSUME Accept(d)
        PROVE  FALSE
    <3>1. PICK i \in Links : IsOpen(i) /\ Begin(d, "accept", "claim", links[i].person, {links[i].role}, i)
      BY <2>3 DEF Accept
    <3>2. links[i] \in Invitation
      BY <1>0, <3>1 DEF IsOpen, Exists, TypeOK
    <3>. QED
      BY <1>4, <3>1, <3>2 DEF Ops, Phases, Invitation
  <2>. QED
    BY <2>1, <2>2, <2>3
<1>7. ~ChangeOther(d, "remove", {}) /\ \A want \in RoleSets : ~ChangeOther(d, "change", want)
  BY <1>4 DEF ChangeOther, Ops, Member, Phases, RoleSets
<1>8. Continue(d) \/ Lose(d)
  BY <1>5, <1>6, <1>7 DEF Does
<1>9. ~Claim(d) /\ ~SignUp(d) /\ ~FailGrant(d) /\ ~GiveBack(d) /\ ~Lose(d) /\ ~Lock(d) /\ ~Commit(d)
  BY <1>2, <1>3 DEF Claim, SignUp, FailGrant, GiveBack, Lose, Lock, Commit, At, Phases
<1>10. ~Grant(d)
  <2>1. ASSUME Grant(d)
        PROVE  FALSE
    <3>1. r # None /\ r \in Request
      BY <1>0, <2>1 DEF Grant, At
    <3>2. req' = [req EXCEPT ![d].phase = "add", ![d].add = req[d].want]
      BY <1>2, <2>1, <3>1 DEF Grant, Phases
    <3>3. req'[d].phase = "add" /\ req'[d].add = req'[d].want
      BY <1>0, <3>1, <3>2 DEF TypeOK, Request
    <3>. QED
      BY <3>3 DEF Writes, At
  <2>. QED
    BY <2>1
<1>11. ~FindRoles(d)
  <2>1. ASSUME FindRoles(d)
        PROVE  FALSE
    <3>1. r # None /\ r \in Request
      BY <1>0, <2>1 DEF FindRoles, At
    <3>2. PICK want, ph : /\ req' = [req EXCEPT ![d].want = want, ![d].add = want, ![d].phase = ph]
                          /\ ph \in {"lock", "add"}
      BY <2>1 DEF FindRoles
    <3>3. req'[d].phase = ph /\ req'[d].add = req'[d].want
      BY <1>0, <3>1, <3>2 DEF TypeOK, Request
    <3>. QED
      BY <3>2, <3>3 DEF Writes, At
  <2>. QED
    BY <2>1
<1>12. ~ReadHeld(d) /\ ~CountAdmins(d)
  <2>1. ASSUME ReadHeld(d) \/ CountAdmins(d)
        PROVE  FALSE
    <3>1. r # None /\ r.phase \in {"held", "count"}
      BY <2>1 DEF ReadHeld, CountAdmins, At
    <3>2. Goto(d, "add") /\ roster' = roster
      BY <1>2, <1>3, <2>1, <3>1 DEF ReadHeld, CountAdmins, Phases
    <3>3. StepFits(r)
      BY <3>1 DEF AccessInv
    <3>4. InLock(d) /\ roster = d
      BY <3>1, <3>3 DEF InLock, AccessInv, LockHeld, StepFits
    <3>5. Locked(d)' /\ At(d, "add")'
      BY <1>0, <3>1, <3>2, <3>4, GotoStep DEF Locked, At, Phases, Follows
    <3>. QED
      BY <3>5 DEF Writes, At
  <2>. QED
    BY <2>1
<1>13. CASE AddRole(d)
  <2>1. r # None /\ r \in Request /\ r.phase = "add" /\ ~Locked(d)
    BY <1>0, <1>13 DEF AddRole, At
  <2>2. PICK x \in r.add :
           /\ roles' = [roles EXCEPT ![r.person] = @ \cup {x}]
           /\ req' = [req EXCEPT ![d].add = @ \ {x},
                                 ![d].phase = IF r.add = {x} THEN "read" ELSE "add"]
    BY <1>13 DEF AddRole
  <2>3. r.want \ r.add \subseteq roles[r.person]
    <3>1. CASE r.add = r.want
      BY <3>1
    <3>2. CASE r.add # r.want
      BY <2>1, <3>2 DEF Writes, Leaves, At
    <3>. QED
      BY <3>1, <3>2
  <2>4. /\ req'[d].want = r.want /\ req'[d].person = r.person /\ req'[d].add = r.add \ {x}
        /\ req'[d].phase = IF r.add = {x} THEN "read" ELSE "add"
    BY <1>0, <2>1, <2>2 DEF TypeOK, Request
  <2>5. r.person \in People /\ roles'[r.person] = roles[r.person] \cup {x}
    BY <1>0, <2>1, <2>2 DEF TypeOK, Request
  <2>6. /\ req'[d].phase # "commit" /\ req'[d].phase # "drop"
        /\ r.want \ (IF req'[d].phase = "add" THEN req'[d].add ELSE {}) \subseteq roles'[r.person]
    BY <2>3, <2>4, <2>5
  <2>. QED
    BY <2>4, <2>6 DEF Leaves
<1>14. CASE ReadRoles(d)
  <2>1. r # None /\ r \in Request /\ r.phase = "read"
    BY <1>0, <1>14 DEF ReadRoles, At
  <2>2. req' = [req EXCEPT ![d].drop = Surplus(r), ![d].phase = "drop"] /\ roles' = roles
    BY <1>3, <1>14 DEF ReadRoles
  <2>3. /\ req'[d].want = r.want /\ req'[d].person = r.person /\ req'[d].drop = Surplus(r)
        /\ req'[d].phase = "drop"
    BY <1>0, <2>1, <2>2 DEF TypeOK, Request
  <2>4. r.want \subseteq roles[r.person]
    BY <2>1 DEF Writes, Leaves, At
  <2>. QED
    BY <2>2, <2>3, <2>4 DEF Leaves, Surplus
<1>15. CASE DropRole(d)
  <2>1. r # None /\ r \in Request /\ r.phase = "drop"
    BY <1>0, <1>15 DEF DropRole, At
  <2>2. PICK x \in r.drop : /\ roles' = [roles EXCEPT ![r.person] = @ \ {x}]
                            /\ req' = [req EXCEPT ![d].drop = @ \ {x}]
    BY <1>3, <1>15 DEF DropRole
  <2>3. /\ req'[d].want = r.want /\ req'[d].person = r.person /\ req'[d].drop = r.drop \ {x}
        /\ req'[d].phase = "drop"
    BY <1>0, <2>1, <2>2 DEF TypeOK, Request
  <2>4. r.want \subseteq roles[r.person] /\ r.drop \cap r.want = {}
    BY <2>1 DEF Writes, Leaves, At
  <2>5. roles'[r.person] = roles[r.person] \ {x}
    BY <1>0, <2>1, <2>2 DEF TypeOK, Request
  <2>. QED
    BY <2>2, <2>3, <2>4, <2>5 DEF Leaves
<1>16. CASE WriteLocked(d)
  <2>1. r # None /\ r \in Request
    BY <1>0, <1>16 DEF WriteLocked, At
  <2>2. /\ req' = [req EXCEPT ![d].add = r.want \ roles[r.person], ![d].drop = Surplus(r),
                              ![d].phase = "commit"]
        /\ roles' = roles
    BY <1>16 DEF WriteLocked
  <2>3. /\ req'[d].want = r.want /\ req'[d].person = r.person /\ req'[d].drop = Surplus(r)
        /\ req'[d].add = r.want \ roles[r.person] /\ req'[d].phase = "commit"
    BY <1>0, <2>1, <2>2 DEF TypeOK, Request
  <2>. QED
    BY <2>2, <2>3 DEF Leaves, Surplus
<1>. QED
  BY <1>8, <1>9, <1>10, <1>11, <1>12, <1>13, <1>14, <1>15, <1>16 DEF Continue

\* The steps that are watched are those of the requests, with the watch.
LEMMA WatchNextIs == WatchNext <=> Next /\ Watch
  BY DEF WatchNext, Next, Continue

LEMMA WatchKeeps ==
    ASSUME AccessInv, WatchInv, [WatchNext]_watched
    PROVE  WatchInv'
<1>1. CASE UNCHANGED watched
  <2>1. UNCHANGED <<roles, roster, req, crossed>>
    BY <1>1 DEF watched, vars
  <2>. QED
    BY <2>1 DEF WatchInv, Wants, Writes, At, Locked, Leaves
<1>2. CASE WatchNext
  <2>1. Next /\ [Next]_vars /\ Watch /\ TypeOK
    BY <1>2, WatchNextIs DEF AccessInv
  <2>2. crossed' \subseteq Clients
    BY <2>1 DEF Watch
  <2>3. Wants'
    BY <2>1, WantsStay DEF WatchInv
  <2>4. ASSUME NEW d \in Clients, d \notin crossed', Writes(d)'
        PROVE  Leaves(d)'
    <3>1. /\ d \notin crossed
          /\ Writes(d) /\ ~Acts(d) => roles'[req[d].person] = roles[req[d].person]
      BY <2>1, <2>4 DEF Watch
    <3>2. Writes(d) => Leaves(d)
      BY <3>1 DEF WatchInv
    <3>3. CASE Acts(d)
      BY <2>1, <2>4, <3>2, <3>3, Doer, WriteLeaves
    <3>4. CASE ~Acts(d)
      <4>1. req'[d] = req[d]
        BY <3>4 DEF Acts
      <4>2. req[d] # None
        BY <2>4, <4>1 DEF Writes, At
      <4>3. Writes(d)
        BY <2>1, <2>4, <3>4, <4>1, <4>2, LockStays DEF Writes, At
      <4>4. Leaves(d) /\ roles'[req[d].person] = roles[req[d].person]
        BY <3>1, <3>2, <3>4, <4>3
      <4>. QED
        BY <4>1, <4>4 DEF Leaves
    <3>. QED
      BY <3>3, <3>4
  <2>. QED
    BY <2>2, <2>3, <2>4 DEF WatchInv
<1>. QED
  BY <1>1, <1>2

\* Who takes the last role of a person: a removal, or a write that was crossed.
LEMMA LastTaken ==
    ASSUME AccessInv, WatchInv, [Next]_vars, NEW p \in People, roles[p] # {}, roles'[p] = {}
    PROVE  \E c \in Clients : /\ Acts(c)
                              /\ req[c].person = p
                              /\ c \in crossed \/ (At(c, "commit") /\ req[c].want = {})
<1>0. TypeOK
  BY DEF AccessInv
<1>1. PICK c \in Clients : AddRole(c) \/ DropRole(c) \/ Commit(c)
  BY ZenonT(40) DEF Next, Revoke, Expire, Invite, SetAccess, RemoveAccess, Accept, ChangeOther, Continue,
     Lose, Claim, SignUp, Grant, FailGrant, GiveBack, FindRoles, Lock, ReadHeld, CountAdmins,
     ReadRoles, WriteLocked, vars
<1>2. PICK r \in Request : r = req[c] /\ r # None /\ r.phase \in {"add", "drop", "commit"}
  BY <1>0, <1>1 DEF AddRole, DropRole, Commit, At, TypeOK
<1>3. p = r.person
  BY <1>0, <1>1, <1>2 DEF AddRole, DropRole, Commit, TypeOK
<1>4. ~AddRole(c)
  <2>1. ASSUME AddRole(c)
        PROVE  FALSE
    <3>1. PICK x : roles' = [roles EXCEPT ![r.person] = @ \cup {x}]
      BY <1>2, <2>1 DEF AddRole
    <3>2. x \in roles'[p]
      BY <1>0, <1>3, <3>1 DEF TypeOK
    <3>. QED
      BY <3>2
  <2>. QED
    BY <2>1
<1>5. ASSUME c \notin crossed, r.want # {}
      PROVE  FALSE
  <2>1. CASE DropRole(c)
    <3>1. r.want \subseteq roles[p] /\ r.drop \cap r.want = {}
      BY <1>2, <1>3, <1>5, <2>1 DEF DropRole, At, WatchInv, Writes, Leaves
    <3>2. PICK x \in r.drop : roles' = [roles EXCEPT ![r.person] = @ \ {x}]
      BY <1>2, <2>1 DEF DropRole
    <3>3. roles'[p] = roles[p] \ {x}
      BY <1>0, <1>3, <3>2 DEF TypeOK
    <3>. QED
      BY <1>5, <3>1, <3>3
  <2>2. CASE Commit(c)
    <3>1. r.want \subseteq (roles[p] \ r.drop) \cup r.add
      BY <1>2, <1>3, <1>5, <2>2 DEF Commit, At, WatchInv, Writes, Leaves
    <3>2. roles'[p] = (roles[p] \ r.drop) \cup r.add
      BY <1>0, <1>2, <1>3, <2>2 DEF Commit, TypeOK
    <3>. QED
      BY <1>5, <3>1, <3>2
  <2>. QED
    BY <1>1, <1>4, <2>1, <2>2
<1>6. ASSUME DropRole(c)
      PROVE  r.want # {}
  <2>1. StepFits(r) /\ r.phase = "drop"
    BY <1>2, <1>6 DEF AccessInv, DropRole, At
  <2>2. r.op # "remove"
    BY <2>1 DEF StepFits
  <2>. QED
    BY <1>2, <2>2 DEF WatchInv, Wants
<1>7. Acts(c)
  <2>1. CASE Commit(c)
    BY <1>0, <1>2, <2>1, AnswerStep DEF Commit, Acts
  <2>2. CASE DropRole(c)
    <3>1. PICK x \in r.drop : Answer(c) \/ req' = [req EXCEPT ![c].drop = @ \ {x}]
      BY <1>2, <2>2 DEF DropRole
    <3>2. CASE Answer(c)
      BY <1>0, <1>2, <3>2, AnswerStep DEF Acts
    <3>3. CASE req' = [req EXCEPT ![c].drop = @ \ {x}]
      <4>1. req'[c].drop = r.drop \ {x}
        BY <1>0, <1>2, <3>3 DEF TypeOK, Request
      <4>. QED
        BY <1>2, <3>1, <4>1 DEF Acts
    <3>. QED
      BY <3>1, <3>2, <3>3
  <2>. QED
    BY <1>1, <1>4, <2>1, <2>2
<1>8. Commit(c) => At(c, "commit")
  BY DEF Commit
<1>. QED
  BY <1>1, <1>2, <1>3, <1>4, <1>5, <1>6, <1>7, <1>8

-----------------------------------------------------------------------------
(* The theorems.                                                           *)

\* However many people join, change and remove one another at once: rows are well
\* typed, an invitation sets up one account at a time, and what the transaction that
\* holds the roster's lock has read stays true until it commits.
THEOREM AccessAlwaysSound == Spec => []AccessInv
<1>. QED
  BY InitKeeps, NextKeeps, PTL DEF Spec

\* A website never loses its last administrator to changes and removals that run at
\* once, for any number of them (replaceRolesKeepingAdministrator).
THEOREM AdminAlwaysKept == Spec => []AdminKept
<1>1. Init => AdminKept
  BY DEF Init, AdminKept, Admins
<1>2. AccessInv /\ AdminKept /\ [Next]_vars => AdminKept'
  BY AdminStays
<1>. QED
  BY <1>1, <1>2, AccessAlwaysSound, PTL DEF Spec

\* The watched writes leave what they should, between any two statements and however
\* the requests that are not crossed by others fail.
LEMMA WritesWatched == WatchSpec => [](AccessInv /\ WatchInv)
<1>1. WatchSpec => Spec
  <2>1. [WatchNext]_watched => [Next]_vars
    BY WatchNextIs DEF watched
  <2>. QED
    BY <2>1, PTL DEF WatchSpec, WatchInit, Spec
<1>2. WatchInit => WatchInv
  BY DEF WatchInit, WatchInv, Wants, Writes, At, Init
<1>. QED
  BY <1>1, <1>2, WatchKeeps, AccessAlwaysSound, PTL DEF WatchSpec

\* No step of an invitation, an acceptance or a change of roles takes the last role of a
\* person, under the lock or statement by statement, failing or not: only a removal does,
\* or a write during which somebody else changed that person's roles (writeRoles).
THEOREM RolesNeverNone == WatchSpec => NeverNone
<1>. DEFINE Last == \A p \in People : roles[p] # {} /\ roles'[p] = {} =>
        \E c \in Clients : /\ Acts(c)
                           /\ req[c].person = p
                           /\ c \in crossed \/ (At(c, "commit") /\ req[c].want = {})
<1>1. AccessInv /\ WatchInv /\ [WatchNext]_watched => [Last]_watched
  <2>1. [WatchNext]_watched => [Next]_vars
    BY WatchNextIs DEF watched
  <2>. QED
    BY <2>1, LastTaken
<1>. QED
  BY <1>1, WritesWatched, PTL DEF WatchSpec, NeverNone
=============================================================================
