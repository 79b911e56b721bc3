----------------------------- MODULE RateLimit -----------------------------
(***************************************************************************)
(* The limiter in front of public and costly operations (src/lib/rate-      *)
(* limit): an attempt is checked against its budgets one after another, each *)
(* a counter of a fixed window in a store that may be full, fail, or answer *)
(* after the limiter gave up waiting.                                       *)
(*                                                                         *)
(* Time is relative: a window has `left` units to go.  A counter past its   *)
(* limit decides nothing more, so hits are counted up to Limit + 1.         *)
(***************************************************************************)
EXTENDS Integers, FiniteSets, Sequences, SequencesExt, FiniteSetsExt

CONSTANTS
    Clients,        \* attempts under way at once
    Policies,       \* budgets
    Subjects,       \* whom a budget is counted for
    Unresolved,     \* a client whose address is not known
    Limit, Window,  \* of each policy
    FailsOpen,      \* the policies whose onBackendFailure is `allow`
    Skips,          \* the policies whose onUnresolvedClient is `skip`
    Attempts,       \* the composites callers ask for: sequences of checks
    MaxBuckets,     \* counters the store holds
    BurnCap,        \* bound of the observed charges; more are not told apart
    None            \* no attempt, no counter, no late hit

Check == [policy: Policies, subject: Subjects \cup {Unresolved}]
\* The counters that are asked for.
Keys  == {k \in UNION {Range(a) : a \in Attempts} : k.subject # Unresolved}

\* whom an attempt's later budgets are charged by: the subject of the first one.
Origin(a) == Head(a).subject
Origins   == {Origin(a) : a \in Attempts} \ {Unresolved}
\* Budgets that are asked for after another one.
Later     == {k \in Keys : \A a \in Attempts : Head(a) # k}

Counter == [hits: Nat, left: Nat]
\* A hit that is sent: whose counter it is for, and who caused it.
Charge  == [key: Keys, origin: Origins \cup {Unresolved}]
Request == [attempt: Attempts, at: Nat, phase: {"check", "ahead"},
            counted: SUBSET Policies]

ASSUME LimitConstants ==
    /\ Limit \in [Policies -> Nat \ {0}]
    /\ Window \in [Policies -> Nat \ {0}]
    /\ FailsOpen \subseteq Policies
    /\ Skips \subseteq Policies
    /\ Attempts \subseteq Seq(Check) \ {<<>>}
    /\ MaxBuckets \in Nat
    /\ IsFiniteSet(Keys) /\ IsFiniteSet(Clients)
    /\ BurnCap \in Nat
    /\ \A p \in Policies : BurnCap > 2 * Limit[p] + 2 * Cardinality(Clients)
    /\ Unresolved \notin Subjects
    /\ None \notin Request \cup Counter \cup Charge

VARIABLES
    buckets,  \* key -> [hits, left], or None
    req,      \* client -> the checks of its attempt and how far they are, or None
    late,     \* client -> the hit it gave up on last, which may still be counted, or None
    recent,   \* key -> t -> how many hits within the limit were counted in the last
              \* t units of time; observes the store
    burnt,    \* later key -> who caused how many of the hits of its window; observes the store
    refused   \* the keys of which the last decision was a refusal

vars == <<buckets, req, late, recent, burnt, refused>>

TypeOK ==
    /\ buckets \in [Keys -> Counter \cup {None}]
    /\ \A k \in Keys : buckets[k] # None =>
          /\ buckets[k].hits \in 1..(Limit[k.policy] + 1)
          /\ buckets[k].left <= Window[k.policy]
    /\ Cardinality({k \in Keys : buckets[k] # None}) <= MaxBuckets
    /\ req \in [Clients -> Request \cup {None}]
    /\ \A c \in Clients : req[c] # None => req[c].at \in DOMAIN req[c].attempt
    /\ late \in [Clients -> Charge \cup {None}]
    /\ recent = [k \in Keys |-> recent[k]]
    /\ \A k \in Keys : recent[k] \in [1..Window[k.policy] -> Nat]
    /\ burnt \in [Later -> [Origins -> 0..BurnCap]]
    /\ refused \subseteq Keys

Init ==
    /\ buckets = [k \in Keys |-> None]
    /\ req = [c \in Clients |-> None]
    /\ late = [c \in Clients |-> None]
    /\ recent = [k \in Keys |-> [t \in 1..Window[k.policy] |-> 0]]
    /\ burnt = [k \in Later |-> [o \in Origins |-> 0]]
    /\ refused = {}

-----------------------------------------------------------------------------
(* The store: one step counts a hit and reads its window.                  *)

Finished(b) == b.left = 0

\* Mutant: a full table forgets every counter.
DroppedAll(bs) == [k \in Keys |-> None]
\* dropFinished: a counter whose window runs stays.
Dropped(bs) == [k \in Keys |-> IF bs[k] # None /\ Finished(bs[k]) THEN None ELSE bs[k]]

Size(bs)  == Cardinality({k \in Keys : bs[k] # None})
Table(k)  == IF buckets[k] = None /\ Size(buckets) >= MaxBuckets
             THEN Dropped(buckets) ELSE buckets

IsFull(k) == buckets[k] = None /\ Size(Table(k)) >= MaxBuckets

\* Mutant: every hit starts the window again.
LeftRestarted(k, b) == Window[k.policy]
\* A running window is left alone (EXPIRE NX).
Left(k, b) == b.left

Starts(k) == buckets[k] = None \/ Finished(buckets[k])
Bucket(k) ==
    IF Starts(k) THEN [hits |-> 1, left |-> Window[k.policy]]
    ELSE [hits |-> Min({buckets[k].hits + 1, Limit[k.policy] + 1}),
          left |-> Left(k, buckets[k])]

\* Mutant: one more than the limit.
IsWithinOneMore(k, hits) == hits <= Limit[k.policy] + 1
IsWithin(k, hits) == hits <= Limit[k.policy]

\* The store counts a hit.
Hit(h) ==
    LET k == h.key
        o == h.origin
    IN
    /\ buckets' = [Table(k) EXCEPT ![k] = Bucket(k)]
    /\ recent' = IF IsWithin(k, Bucket(k).hits)
                 THEN [recent EXCEPT ![k] = [t \in DOMAIN @ |-> @[t] + 1]]
                 ELSE recent
    /\ burnt' = IF k \notin Later THEN burnt
                ELSE [burnt EXCEPT ![k] = [x \in Origins |->
                        Min({BurnCap, (IF Starts(k) THEN 0 ELSE @[x]) + (IF x = o THEN 1 ELSE 0)})]]

-----------------------------------------------------------------------------
(* The limiter.                                                            *)

\* checkAll refuses a composite that uses a policy twice, and an empty one.
IsComposite(a) == IsInjective([i \in DOMAIN a |-> a[i].policy])

At(c, ph)  == req[c] # None /\ req[c].phase = ph
Current(c) == req[c].attempt[req[c].at]
Policy(c)  == Current(c).policy
Sent(c)    == At(c, "check") /\ Current(c).subject # Unresolved
HitOf(c)   == [key |-> Current(c), origin |-> Origin(req[c].attempt)]
IsLast(c)  == req[c].at = Len(req[c].attempt)

\* The first refusal ends the attempt.
Refuse(c) == [req EXCEPT ![c] = None]

\* The next check, or the attempt goes ahead.
Pass(c, seen) ==
    IF IsLast(c) THEN [req EXCEPT ![c].phase = "ahead", ![c].counted = @ \cup seen]
    ELSE [req EXCEPT ![c].at = @ + 1, ![c].counted = @ \cup seen]

Begin(c, a) ==
    /\ req[c] = None
    /\ IsComposite(a)
    /\ req' = [req EXCEPT ![c] = [attempt |-> a, at |-> 1, phase |-> "check",
                                  counted |-> {}]]
    /\ UNCHANGED <<buckets, late, recent, burnt, refused>>

\* unresolvedClient: no counter is shared by those whose address is unknown.
SkipUnresolved(c) ==
    /\ At(c, "check")
    /\ Current(c).subject = Unresolved
    /\ req' = IF Policy(c) \in Skips THEN Pass(c, {}) ELSE Refuse(c)
    /\ UNCHANGED <<buckets, late, recent, burnt, refused>>

\* backendFailed: the policy says what happens.
BackendFailed(c) == IF Policy(c) \in FailsOpen THEN Pass(c, {}) ELSE Refuse(c)

\* Mutant: the checks after a refusal are run all the same.
DeniedLater(c) == Pass(c, {})
\* What a spent budget answers.
Denied(c) == Refuse(c)

\* The hit is counted, and answered in time.
CheckBudget(c) ==
    /\ Sent(c)
    /\ ~IsFull(Current(c))
    /\ Hit(HitOf(c))
    /\ IF IsWithin(Current(c), Bucket(Current(c)).hits)
       THEN /\ req' = Pass(c, {Policy(c)})
            /\ refused' = refused \ {Current(c)}
       ELSE /\ req' = Denied(c)
            /\ refused' = refused \cup {Current(c)}
    /\ UNCHANGED late

\* The store has no room for another counter.
RejectHit(c) ==
    /\ Sent(c)
    /\ IsFull(Current(c))
    /\ buckets' = Table(Current(c))
    /\ req' = BackendFailed(c)
    /\ UNCHANGED <<late, recent, burnt, refused>>

\* The limiter waits no longer, or the store fails: the hit was counted and the answer
\* lost, or it is abandoned, not cancelled, and may be counted yet.
GiveUp(c) ==
    /\ Sent(c)
    /\ req' = BackendFailed(c)
    /\ \/ /\ ~IsFull(Current(c))
          /\ Hit(HitOf(c))
          /\ UNCHANGED late
       \/ /\ late' = [late EXCEPT ![c] = HitOf(c)]
          /\ UNCHANGED <<buckets, recent, burnt>>
    /\ UNCHANGED refused

CountLate(c) ==
    /\ late[c] # None
    /\ ~IsFull(late[c].key)
    /\ Hit(late[c])
    /\ late' = [late EXCEPT ![c] = None]
    /\ UNCHANGED <<req, refused>>

LoseLate(c) ==
    /\ late[c] # None
    /\ late' = [late EXCEPT ![c] = None]
    /\ UNCHANGED <<buckets, req, recent, burnt, refused>>

-----------------------------------------------------------------------------

Tick ==
    /\ buckets' = [k \in Keys |->
          IF buckets[k] = None THEN None ELSE [buckets[k] EXCEPT !.left = Max({@ - 1, 0})]]
    /\ recent' = [k \in Keys |->
          [t \in 1..Window[k.policy] |-> IF t = 1 THEN 0 ELSE recent[k][t - 1]]]
    /\ UNCHANGED <<req, late, burnt, refused>>

\* The operation runs.
Finish(c) ==
    /\ At(c, "ahead")
    /\ req' = [req EXCEPT ![c] = None]
    /\ UNCHANGED <<buckets, late, recent, burnt, refused>>

Works(c) == SkipUnresolved(c) \/ CheckBudget(c) \/ RejectHit(c) \/ Finish(c)

Next ==
    \/ Tick
    \/ \E c \in Clients :
        \/ \E a \in Attempts : Begin(c, a)
        \/ Works(c) \/ GiveUp(c) \/ CountLate(c) \/ LoseLate(c)

Spec == Init /\ [][Next]_vars

-----------------------------------------------------------------------------
(* Properties                                                              *)

\* In no span of a window's length do more than twice the limit pass, wherever the
\* windows begin and however attempts race or are counted late
\* ("up to twice `limit` attempts can pass across a window boundary", create-rate-limiter.ts):
\* those of the window that runs, and of one before it if the span begins that early.
Counted(k)  == IF buckets[k] = None THEN Limit[k.policy]
               ELSE Min({buckets[k].hits, Limit[k.policy]})
Reaches(k, t) == buckets[k] # None /\ t > Window[k.policy] - buckets[k].left
TwiceAtMost ==
    \A k \in Keys : \A t \in 1..Window[k.policy] :
        recent[k][t] <= Counted(k) + (IF Reaches(k, t) THEN Limit[k.policy] ELSE 0)

\* A flood of new keys never resets a counter whose window runs: it is neither
\* dropped from a full table nor set back (hit of the in-memory store).
LiveCountersKept ==
    [][\A k \in Keys : buckets[k] # None /\ ~Finished(buckets[k]) =>
          buckets'[k] # None /\ buckets'[k].hits >= buckets[k].hits]_vars

\* One address burns no more of an account's budget than its own budget lets through, twice
\* that across a boundary, and the hits on their way (enforceAll stops at a refusal).
Guarded(k) ==
    \A a \in Attempts : k \in Range(a) =>
        /\ Head(a).policy \notin FailsOpen /\ Window[Head(a).policy] >= Window[k.policy]
        /\ \A b \in Attempts : k \in Range(b) /\ Origin(b) = Origin(a) => Head(b) = Head(a)
BudgetOfOthers ==
    \A k \in Later, a \in Attempts :
        k \in Range(a) /\ Guarded(k) /\ Origin(a) # Unresolved =>
            burnt[k][Origin(a)] <= 2 * Limit[Head(a).policy] + 2 * Cardinality(Clients)

\* While a window runs, what an origin burnt of it and what is on its way was let through
\* by the origin's own budget since the window began, or was on its way then.
Heading(k, o) ==
    {c \in Clients : At(c, "check") /\ Origin(req[c].attempt) = o /\ req[c].at > 1
                        /\ \E i \in DOMAIN req[c].attempt :
                              i >= req[c].at /\ req[c].attempt[i] = k}
Waiting(k, o) == {c \in Clients : late[c] = [key |-> k, origin |-> o]}
OnTheWay(k, o) == Cardinality(Heading(k, o)) + Cardinality(Waiting(k, o))
Age(k) == Window[k.policy] - buckets[k].left + 1
BurntIsPassed ==
    \A k \in Later, a \in Attempts :
        k \in Range(a) /\ Guarded(k) /\ Origin(a) # Unresolved
          /\ buckets[k] # None /\ ~Finished(buckets[k]) =>
            burnt[k][Origin(a)] + OnTheWay(k, Origin(a))
                <= recent[Head(a)][Age(k)] + 2 * Cardinality(Clients)

\* A check that an attempt is past has counted it, within the limit, unless its budget
\* fails open, whatever failed on the way (backendFailed, unresolvedClient).
NoFreePass ==
    \A c \in Clients : req[c] # None =>
        \A i \in DOMAIN req[c].attempt : i < req[c].at \/ At(c, "ahead") =>
            LET k == req[c].attempt[i]
            IN  \/ k.policy \in req[c].counted
                \/ k.policy \in IF k.subject = Unresolved THEN Skips ELSE FailsOpen

\* An attempt asks for each budget once.
AttemptsFit == \A c \in Clients : req[c] # None => IsComposite(req[c].attempt)

\* Counters are well typed and within the table's bound, and neither a boundary nor a
\* failure lets more attempts pass than the policies say.
RateInv == TypeOK /\ AttemptsFit /\ TwiceAtMost /\ NoFreePass /\ BurntIsPassed

\* Time passes, an attempt goes on, and callers keep asking for each composite.
FairSpec ==
    /\ Spec
    /\ WF_vars(Tick)
    /\ \A c \in Clients : WF_vars(Works(c))
    /\ \A a \in Attempts : SF_vars(\E c \in Clients : Begin(c, a))

\* From some time on the store answers in time and has room.
AnswersInTheEnd ==
    <>[][\A c \in Clients : (GiveUp(c) => CheckBudget(c)) /\ ~RejectHit(c)]_vars

\* A client that keeps hammering is released when the window ends: refused attempts do not
\* extend it (create-rate-limiter.ts).
Released == AnswersInTheEnd => \A k \in Keys : k \in refused ~> k \notin refused
=============================================================================
