-------------------------- MODULE EditorProperties --------------------------
(* What an editing session guarantees, and what the code says of it.        *)
EXTENDS Editor

ASSUME NoneApart == None \notin Document \cup Drag \cup Target \cup NodeId \cup Types \cup OldTypes

Open == {s \in Stores : docs[s] # None}

\* Every variable has its type; no history is longer than MAX_HISTORY_ENTRIES, nor is it
\* with what there is to redo (document-history.ts).
TypeOK ==
    /\ docs \in [Stores -> Document \cup {None}]
    /\ docs[1] # None
    /\ \A s \in Open : Len(docs[s].past) + Len(docs[s].future) <= MaxHistory
    /\ shown \in Open
    /\ drag \in Drag \cup {None}
    /\ session \in Sessions
    /\ edits \in 0..session.edits
    /\ revisions \in Seq(Trees) /\ revisions # <<>>
    /\ requests \subseteq Request
    /\ \A r \in requests : r.store \in Open \cup {0}

\* What an editor takes for saved is the revision whose version it will send, whatever
\* was edited, undone, discarded or lost while a save was under way (markSaved: "edits
\* made while the save was in flight must stay dirty").
BaselineIsRevision ==
    \A s \in Open : /\ docs[s].version \in DOMAIN revisions
                    /\ docs[s].saved = revisions[docs[s].version]

\* What the catalog does not allow on the pages as they were stored: a component removed from
\* the catalog since, or one that may stand elsewhere only by now.  (A session never looks at
\* another's page: with one session in Sessions, this is what its own page held.)
OldFaults == UNION {Faults(e.page) : e \in Sessions}

\* Every tree an editor can come back to has unique ids, keeps the limits on nodes and on
\* depth, and holds nothing where the catalog does not allow it, but what a page held there
\* when it was opened; over inserts, copies, moves, undo and redo (tree-operations.ts).
TreesOf(d) == {d.past[i] : i \in DOMAIN d.past} \cup {d.present}
                  \cup {d.future[i] : i \in DOMAIN d.future}
SoundTrees ==
    \A s \in Open : \A tree \in TreesOf(docs[s]) :
        HasUniqueIds(tree) /\ WithinLimits(tree) /\ Faults(tree) \subseteq OldFaults

\* Every document is well typed, its histories are bounded, and its trees are sound.
EditorInv == TypeOK /\ SoundTrees

\* Undoing leads back to the tree the session began with, as long as there were no more
\* edits than the history holds: no undo step is overwritten in place by a burst of typing
\* that an undo, a redo or another edit interrupts (updatePropsInPlace).
Timeline(d) == d.past \o <<d.present>> \o d.future
UndoReachesStart == edits <= MaxHistory => Timeline(docs[1])[1] = revisions[1]

\* A save that reaches the server before anybody else's is refused for three reasons only.
\* The page is too large, which no edit checks; and, from a session that may change the
\* structure, it holds twins (duplicateNode does not look, and the page may have held them),
\* or still what the catalog did not allow on the page as it was opened.  "The editor refuses
\* what a save would reject" (checkTreeLimits) holds of everything else, and a restricted
\* session is never locked out of a page by what somebody else put on it (checkStructure).
RefusedFor(r) ==
    \/ Content(r.tree) > MaxContent
    \/ session.full /\ HasTwins(r.tree)
    \/ session.full /\ Faults(r.tree) # {} /\ Faults(r.tree) \subseteq OldFaults

FewSavesRefused ==
    \A r \in requests :
        r.phase = "check" /\ IsCurrent(r) => Acceptable(r) \/ RefusedFor(r)

\* Where the node of a finished drag stands: at the target that was shown.
Lands(tree, id, target) ==
    LET at == IndexOf(tree, id)
        to == IndexOf(tree, target.id)
    IN  /\ id \in Ids(tree)
        /\ ParentAt(tree, at) = target.parent
        /\ target.kind = "before" => SiblingIndex(tree, at) + 1 = SiblingIndex(tree, to)
        /\ target.kind = "after"  => SiblingIndex(tree, at) = SiblingIndex(tree, to) + 1

Moved == IF drag.id = None THEN <<Seed, 1>> ELSE drag.id

\* A drop puts the component where the indicator was, also when an undo, a redo or another
\* edit changed the page under it since (resolvePlacement), and no move loses a node, also
\* not one into a container that an undo put inside the dragged node (moveNode).
DropLands ==
    [][edits' # edits /\ drag # None /\ drag' = None =>
         /\ Lands(docs'[1].present, Moved, drag.target)
         /\ drag.id # None => Ids(docs'[1].present) = Ids(docs[1].present)]_vars
=============================================================================
