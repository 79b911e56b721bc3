------------------------------- MODULE Editor -------------------------------
(***************************************************************************)
(* One editing session of the page builder: the document with its undo     *)
(* history (domain/history), the thunks that edit it (presentation/state), *)
(* drag and drop (presentation/dnd), saving over a network that loses      *)
(* requests and answers, and leaving the page, which discards the document *)
(* and starts a new store while the old one may still be used.             *)
(* Which node is selected is left out: an operation takes any node.        *)
(***************************************************************************)
EXTENDS DocumentTree

CONSTANTS
    Sessions,      \* the sessions looked at: the page, whether its structure may
                   \* be changed, what is done, and how many edits at most
    MaxHistory,    \* MAX_HISTORY_ENTRIES
    MaxRevisions,  \* bound of the revisions stored
    MaxRequests    \* bound of the saves under way, lost ones among them

ASSUME EditorConstants ==
    /\ \A e \in Sessions :
         /\ e \in [page: Trees, full: BOOLEAN, edits: Nat,
                   does: SUBSET {"arrange", "drag", "fill", "save"}]
         /\ Parses(e.page) /\ IsForest(e.page)
         /\ \A i \in DOMAIN e.page : e.page[i].id[1] = 0
    /\ MaxHistory \in Nat \ {0}
    /\ MaxRevisions \in Nat \ {0} /\ MaxRequests \in Nat \ {0}

Stores == 1..2

VARIABLES
    docs,       \* store -> its document: DocumentHistory, version, saving; or None
    shown,      \* the store of the session; the drag controller keeps the first
    drag,       \* the drag under way, or None
    session,    \* whose: full if the editor may change the structure (page.restructure)
    edits,      \* edits made; their number is the seed of the next ids; the page's is 0
    revisions,  \* the revisions of the page, by version
    requests    \* saves under way; those of store 0 have lost their editor

vars == <<docs, shown, drag, session, edits, revisions, requests>>

Document == [past: Seq(Trees), present: Trees, future: Seq(Trees), typing: BOOLEAN,
             saved: Trees, version: Nat \ {0}, saving: BOOLEAN]
Target   == [kind: Positions \cup {"root"}, id: NodeId \cup {None},
             parent: NodeId \cup {None}, index: Nat]
Drag     == [id: NodeId \cup {None}, type: Types \cup OldTypes, keyboard: BOOLEAN,
             target: Target \cup {None}]
Request  == [store: Stores \cup {0}, version: Nat \ {0}, tree: Trees,
             phase: {"check", "write", "saved", "refused"}]

\* createDocumentState with createHistory.
NewDocument(tree, version) ==
    [past |-> <<>>, present |-> tree, future |-> <<>>, typing |-> FALSE,
     saved |-> tree, version |-> version, saving |-> FALSE]

Init == /\ session \in Sessions
        /\ revisions = <<session.page>>
        /\ docs = [s \in Stores |-> IF s = 1 THEN NewDocument(revisions[1], 1) ELSE None]
        /\ shown = 1
        /\ drag = None
        /\ edits = 0
        /\ requests = {}

Present(s) == docs[s].present
Tree       == Present(shown)
Seed       == edits + 1
IsDirty(d) == d.present # d.saved

\* What this session looks at; keeps the instances small.
Does(what) == what \in session.does

-----------------------------------------------------------------------------
(* The history of a document.                                              *)

\* pushPast: the newest MaxHistory entries.
Pushed(past, tree) ==
    SubSeq(Append(past, tree), IF Len(past) < MaxHistory THEN 1 ELSE 2, Len(past) + 1)

\* commitSnapshot.
Committed(d, tree) ==
    [d EXCEPT !.past = Pushed(@, d.present), !.present = tree, !.future = <<>>,
              !.typing = FALSE]

\* updatePropsInPlace: the first keystroke of a burst opens the undo step.
Updated(d, tree) ==
    IF d.typing THEN [d EXCEPT !.present = tree]
                ELSE [Committed(d, tree) EXCEPT !.typing = TRUE]

\* Mutant: an undo leaves the burst open.
UndoneTyping(d) ==
    IF d.past = <<>> THEN d
    ELSE [d EXCEPT !.past = SubSeq(@, 1, Len(@) - 1), !.present = d.past[Len(d.past)],
                   !.future = <<d.present>> \o @]
\* undoEdit.
Undone(d) ==
    IF d.past = <<>> THEN d
    ELSE [d EXCEPT !.past = SubSeq(@, 1, Len(@) - 1), !.present = d.past[Len(d.past)],
                   !.future = <<d.present>> \o @, !.typing = FALSE]

\* redoEdit.
Redone(d) ==
    IF d.future = <<>> THEN d
    ELSE [d EXCEPT !.past = Pushed(@, d.present), !.present = d.future[1],
                   !.future = Tail(@), !.typing = FALSE]

\* Mutant: the tree of the editor becomes the baseline when the answer comes.
MarkedCurrent(d, r) ==
    [d EXCEPT !.saved = d.present, !.version = r.version + 1, !.saving = FALSE]
\* saveSucceeded, with markSaved: the tree that was sent.
Marked(d, r) ==
    [d EXCEPT !.saved = r.tree, !.version = r.version + 1, !.saving = FALSE]

-----------------------------------------------------------------------------
(* Editing (editing-thunks.ts, props-thunks.ts).                           *)

\* commit: a refused edit only raises a notice.
Commit(s, tree) ==
    /\ edits < session.edits
    /\ tree # None
    /\ docs' = [docs EXCEPT ![s] = Committed(@, tree)]
    /\ edits' = edits + 1

\* Mutant: controls of the structure are there for everybody.
MayRestructureAlways == TRUE
\* canEditStructure: palette, node actions and drags are for a full session only.
MayRestructure == session.full

\* insertComponent: at the end of the page, or else of the selected container.
Insert(type) ==
    /\ Does("arrange") /\ MayRestructure
    /\ \E parent \in IF type \in RootTypes THEN {None} ELSE Ids(Tree) :
         Commit(shown, InsertNew(Tree, type, Seed, parent, MaxNodes))
    /\ UNCHANGED <<shown, drag, session, revisions, requests>>

Remove(id) ==
    /\ Does("arrange") /\ MayRestructure
    /\ Commit(shown, RemoveNode(Tree, id))
    /\ UNCHANGED <<shown, drag, session, revisions, requests>>

Duplicate(id) ==
    /\ Does("arrange") /\ MayRestructure
    /\ Commit(shown, DuplicateNode(Tree, id, Seed))
    /\ UNCHANGED <<shown, drag, session, revisions, requests>>

\* moveNodeBy.
MoveBy(id, step) ==
    /\ Does("arrange") /\ MayRestructure
    /\ Commit(shown, StepNode(Tree, id, step))
    /\ UNCHANGED <<shown, drag, session, revisions, requests>>

\* A keystroke in a field of a node (editNodeProps).  A restricted session shows the
\* fields the component lists only, and what is not registered has no fields.
Type(id) ==
    /\ Does("fill")
    /\ Tree[IndexOf(Tree, id)].type \in IF session.full THEN Types ELSE Municipal
    /\ docs[shown].typing \/ edits < session.edits
    /\ docs' = [docs EXCEPT ![shown] = Updated(@, WithText(Tree, id))]
    /\ edits' = IF docs[shown].typing THEN edits ELSE edits + 1
    /\ UNCHANGED <<shown, drag, session, revisions, requests>>

\* setNodeVisibility: a toggle closes the undo step it is in.
Toggle(id) ==
    /\ Does("fill")
    /\ docs[shown].typing \/ edits < session.edits
    /\ docs' = [docs EXCEPT ![shown] =
                  [Updated(@, WithVisible(Tree, id)) EXCEPT !.typing = FALSE]]
    /\ edits' = IF docs[shown].typing THEN edits ELSE edits + 1
    /\ UNCHANGED <<shown, drag, session, revisions, requests>>

\* propsEditFinished: the field loses the focus.
FinishTyping ==
    /\ docs[shown].typing
    /\ docs' = [docs EXCEPT ![shown].typing = FALSE]
    /\ UNCHANGED <<shown, drag, session, edits, revisions, requests>>

Undo == /\ docs' = [docs EXCEPT ![shown] = Undone(@)]
        /\ UNCHANGED <<shown, drag, session, edits, revisions, requests>>

Redo == /\ docs' = [docs EXCEPT ![shown] = Redone(@)]
        /\ UNCHANGED <<shown, drag, session, edits, revisions, requests>>

\* discard (builder-session-provider.tsx), on leaving with unsaved changes: a new
\* store from what the old one knows to be saved.
Discard ==
    /\ shown = 1
    /\ IsDirty(docs[1])
    /\ docs' = [docs EXCEPT ![2] = NewDocument(docs[1].saved, docs[1].version)]
    /\ shown' = 2
    /\ UNCHANGED <<drag, session, edits, revisions, requests>>

-----------------------------------------------------------------------------
(* Dragging (canvas-drag-controller.ts).  The controller is made once: it  *)
(* reads the first store and its drops go there.                           *)

Dragged(id, type, keyboard) ==
    drag' = [id |-> id, type |-> type, keyboard |-> keyboard, target |-> None]

BeginNodeDrag(id, keyboard) ==
    /\ Does("drag") /\ MayRestructure
    /\ drag = None
    /\ id \in Ids(Present(1))
    /\ Dragged(id, Present(1)[IndexOf(Present(1), id)].type, keyboard)
    /\ UNCHANGED <<docs, shown, session, edits, revisions, requests>>

BeginPaletteDrag(type) ==
    /\ Does("drag") /\ MayRestructure
    /\ drag = None
    /\ Dragged(None, type, FALSE)
    /\ UNCHANGED <<docs, shown, session, edits, revisions, requests>>

\* movePointer: over a node of the canvas, or below the last one.
Hover ==
    /\ drag # None /\ ~drag.keyboard
    /\ \/ \E i \in DOMAIN Present(1) :
            /\ Present(1)[i].id \in Ids(Tree)
            /\ \E position \in PositionsOn(Present(1), i) :
                 drag' = [drag EXCEPT !.target = TargetOn(Present(1), drag, i, position)]
       \/ drag' = [drag EXCEPT !.target = TargetAtEnd(Present(1), drag)]
    /\ UNCHANGED <<docs, shown, session, edits, revisions, requests>>

\* stepKeyboardTarget: from the target shown, or from the node itself.
Arrow(step) ==
    /\ drag # None /\ drag.keyboard
    /\ LET from == IF drag.target = None THEN drag.id ELSE drag.target.id
           next == StepTarget(Present(1), drag, from, step)
       IN  next # None /\ drag' = [drag EXCEPT !.target = next]
    /\ UNCHANGED <<docs, shown, session, edits, revisions, requests>>

Drop ==
    /\ drag # None /\ drag.target # None
    /\ drag' = None
    /\ Commit(1, ApplyDrop(Present(1), drag, drag.target, Seed))
    /\ UNCHANGED <<shown, session, revisions, requests>>

\* Escape, a pointer let go elsewhere, or a drop the tree refuses.
Cancel ==
    /\ drag # None
    /\ drag' = None
    /\ UNCHANGED <<docs, shown, session, edits, revisions, requests>>

-----------------------------------------------------------------------------
(* Saving (save-thunk.ts, save-page-config.ts).                            *)

SaveDraft ==
    /\ Does("save")
    /\ ~docs[shown].saving
    /\ IsDirty(docs[shown])
    /\ Cardinality(requests) < MaxRequests
    /\ docs' = [docs EXCEPT ![shown].saving = TRUE]
    /\ requests' = requests \cup {[store |-> shown, version |-> docs[shown].version,
                                   tree |-> Tree, phase |-> "check"]}
    /\ UNCHANGED <<shown, drag, session, edits, revisions>>

Becomes(r, phase) == requests' = (requests \ {r}) \cup {[r EXCEPT !.phase = phase]}

\* validate: the config is parsed, judged against the page as it is stored now, and must
\* compose if the editor may change the structure.
Accepts(stored, tree, full) ==
    Parses(tree) /\ InEditScope(stored, tree, full) /\ (full => Composes(tree))

Acceptable(r) == Accepts(revisions[Len(revisions)], r.tree, session.full)

CheckSave(r) ==
    /\ r.phase = "check"
    /\ Becomes(r, IF Acceptable(r) THEN "write" ELSE "refused")
    /\ UNCHANGED <<docs, shown, drag, session, edits, revisions>>

\* saveConfig compares and swaps the version.
IsCurrent(r) == r.version = Len(revisions)

WriteSave(r) ==
    /\ r.phase = "write"
    /\ IF IsCurrent(r) THEN /\ Len(revisions) < MaxRevisions
                            /\ revisions' = Append(revisions, r.tree)
                            /\ Becomes(r, "saved")
                       ELSE /\ UNCHANGED revisions
                            /\ Becomes(r, "refused")
    /\ UNCHANGED <<docs, shown, drag, session, edits>>

\* saveSucceeded, or saveFailed with what the server answered.
Answer(r) ==
    /\ r.phase \in {"saved", "refused"}
    /\ requests' = requests \ {r}
    /\ docs' = IF r.store = 0 THEN docs
               ELSE [docs EXCEPT ![r.store] =
                       IF r.phase = "saved" THEN Marked(@, r) ELSE [@ EXCEPT !.saving = FALSE]]
    /\ UNCHANGED <<shown, drag, session, edits, revisions>>

\* The action rejects; the request may be on its way, or done, or never arrive.
LoseAnswer(r) ==
    /\ r.store # 0
    /\ requests' = (requests \ {r}) \cup {[r EXCEPT !.store = 0]}
    /\ docs' = [docs EXCEPT ![r.store].saving = FALSE]
    /\ UNCHANGED <<shown, drag, session, edits, revisions>>

LoseRequest(r) ==
    /\ r.store = 0
    /\ requests' = requests \ {r}
    /\ UNCHANGED <<docs, shown, drag, session, edits, revisions>>

\* Somebody else saves: a component is removed, or its text changed.
OtherSaves ==
    /\ Does("save")
    /\ Len(revisions) < MaxRevisions
    /\ LET now == revisions[Len(revisions)]
       IN  \E id \in Ids(now) : \E tree \in {RemoveNode(now, id), WithText(now, id)} :
             /\ \E full \in BOOLEAN : Accepts(now, tree, full)
             /\ revisions' = Append(revisions, tree)
    /\ UNCHANGED <<docs, shown, drag, session, edits, requests>>

-----------------------------------------------------------------------------

Next ==
    \/ \E type \in Types : Insert(type) \/ BeginPaletteDrag(type)
    \/ \E id \in Ids(Tree) :
         \/ Remove(id) \/ Duplicate(id) \/ Type(id) \/ Toggle(id)
         \/ \E step \in {-1, 1} : MoveBy(id, step)
         \/ \E keyboard \in BOOLEAN : BeginNodeDrag(id, keyboard)
    \/ FinishTyping \/ Undo \/ Redo \/ Discard
    \/ Hover \/ Drop \/ Cancel
    \/ \E step \in {-1, 1} : Arrow(step)
    \/ SaveDraft \/ OtherSaves
    \/ \E r \in requests :
         CheckSave(r) \/ WriteSave(r) \/ Answer(r) \/ LoseAnswer(r) \/ LoseRequest(r)

Spec == Init /\ [][Next]_vars
=============================================================================
