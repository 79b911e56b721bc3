---------------------------- MODULE DocumentTree ----------------------------
(***************************************************************************)
(* The page tree of the builder and the operations on it                   *)
(* (domain/tree/tree-operations.ts, drop-placement.ts) with what a save    *)
(* may contain (domain/rules/page-save-checks.ts).                         *)
(*                                                                         *)
(* A forest is the sequence of its nodes in render order, each with its    *)
(* depth: what flattenNodes makes of it.  The subtree of a node is the run *)
(* of deeper nodes after it.  An operation the code refuses returns None.  *)
(***************************************************************************)
EXTENDS Integers, Sequences, FiniteSets, FiniteSetsExt

CONSTANTS
    Types,         \* the registered component types
    OldTypes,      \* types no longer registered that stored pages may still hold
    RootTypes,     \* isAllowedAtRoot
    ChildTypes,    \* ChildTypes[t]: allowedChildTypes
    Containers,    \* acceptsChildren
    Singletons,    \* isSingleton
    Municipal,     \* types whose text a restricted editor may change
    Blueprint,     \* Blueprint[t]: the nodes of a new t, in order: [type, depth]
    MaxNodes,      \* PAGE_TREE_LIMITS.maxNodes
    MaxDepth,      \* PAGE_TREE_LIMITS.maxDepth
    MaxContent,    \* PAGE_TREE_LIMITS.maxContentLength, in texts
    None           \* no parent, no node, no tree

ASSUME TreeConstants ==
    /\ Types \cap OldTypes = {}
    /\ RootTypes \cup Containers \cup Singletons \cup Municipal \subseteq Types
    /\ ChildTypes \in [Types -> SUBSET Types]
    /\ \A t \in Types : ChildTypes[t] # {} => t \in Containers
    /\ Blueprint \in [Types -> Seq([type: Types, depth: Nat])]
    /\ \A t \in Types : Blueprint[t] # <<>> /\ Blueprint[t][1] = [type |-> t, depth |-> 0]
    /\ MaxNodes \in Nat /\ MaxDepth \in Nat /\ MaxContent \in Nat

Positions == {"before", "after", "inside"}

\* PageNode; an id is derived from a seed and the node's place in what was added.  Of the
\* props, the visibility and whether a text was written.
NodeId == Nat \X Nat
Node   == [id: NodeId, type: Types \cup OldTypes, depth: Nat, text: 0..1, visible: BOOLEAN]
Trees  == Seq(Node)

Ids(tree) == {tree[i].id : i \in DOMAIN tree}

\* locateNode: where `id` stands.
IndexOf(tree, id) == CHOOSE i \in DOMAIN tree : tree[i].id = id

\* The last node of the subtree of the i-th.
EndOf(tree, i) ==
    Max({j \in i..Len(tree) : \A k \in i+1..j : tree[k].depth > tree[i].depth})

SubtreeAt(tree, i) == SubSeq(tree, i, EndOf(tree, i))

\* A sequence of nodes is a forest if none is more than one deeper than the one before.
IsForest(tree) ==
    \A i \in DOMAIN tree : tree[i].depth <= IF i = 1 THEN 0 ELSE tree[i-1].depth + 1

\* The parent of the i-th node: the last one before it that is less deep.
Above(tree, i)    == {j \in 1..i-1 : tree[j].depth < tree[i].depth}
ParentAt(tree, i) == IF Above(tree, i) = {} THEN None ELSE tree[Max(Above(tree, i))].id

\* A new component is one tree, nested the way the catalog allows.
ASSUME BlueprintsNest ==
    \A t \in Types :
        LET new == Blueprint[t]
        IN  /\ IsForest(new)
            /\ \A i \in 2..Len(new) :
                 /\ Above(new, i) # {}
                 /\ new[i].type \in ChildTypes[new[Max(Above(new, i))].type]

\* childrenOf: the indexes of the nodes under `parent`.
ChildrenOf(tree, parent) == {i \in DOMAIN tree : ParentAt(tree, i) = parent}

\* The place of the i-th node among its siblings, from 0.
SiblingIndex(tree, i) ==
    Cardinality({j \in 1..i-1 : ParentAt(tree, j) = ParentAt(tree, i)})

Exists(tree, parent) == parent = None \/ parent \in Ids(tree)

TypeOfParent(tree, parent) ==
    IF parent = None THEN None ELSE tree[IndexOf(tree, parent)].type

-----------------------------------------------------------------------------
(* Rules: the catalog, the limits, and the checks of a save.               *)

\* canNest; what is not registered nests nowhere, and takes nothing in.
CanNest(parentType, type) ==
    IF parentType = None THEN type \in RootTypes
    ELSE parentType \in Types /\ type \in ChildTypes[parentType]

\* checkTreeLimits; depth counts from zero.
WithinLimits(tree) ==
    /\ Len(tree) <= MaxNodes
    /\ \A i \in DOMAIN tree : tree[i].depth < MaxDepth

Limited(tree) == IF WithinLimits(tree) THEN tree ELSE None

\* What stands where the catalog does not allow it: the type over it, and its own.
Faults(tree) ==
    {pair \in {<<TypeOfParent(tree, ParentAt(tree, i)), tree[i].type>> : i \in DOMAIN tree} :
        ~CanNest(pair[1], pair[2])}

\* checkSingletons.
HasTwins(tree) ==
    \E i, j \in DOMAIN tree : i # j /\ tree[i].type = tree[j].type
                              /\ tree[i].type \in Singletons

\* checkComposition.
Composes(tree) == Faults(tree) = {} /\ ~HasTwins(tree)

HasUniqueIds(tree) == Cardinality(Ids(tree)) = Len(tree)

\* The length of what is written on the page (jsonWeight).
Content(tree) == Cardinality({i \in DOMAIN tree : tree[i].text = 1})

\* parsePageConfig: the ids are unique and the limits kept, that of the content too, which
\* no operation on a tree looks at.
Parses(tree) == HasUniqueIds(tree) /\ WithinLimits(tree) /\ Content(tree) <= MaxContent

\* hasSameStructure: the ids fix the rest but for the order and the nesting.
SameStructure(old, new) ==
    /\ Len(old) = Len(new)
    /\ \A i \in DOMAIN old : /\ old[i].id = new[i].id /\ old[i].type = new[i].type
                             /\ ParentAt(old, i) = ParentAt(new, i)

\* checkEditScope.
InEditScope(old, new, full) ==
    full \/ /\ SameStructure(old, new)
            /\ \A i \in DOMAIN new :
                 new[i].text # old[i].text => new[i].type \in Municipal

-----------------------------------------------------------------------------
(* Editing.                                                                *)

Shifted(nodes, by) == [i \in DOMAIN nodes |-> [nodes[i] EXCEPT !.depth = @ + by]]

\* insertItem clamps the index: the place before the sibling there, or after the last.
PlaceFor(tree, parent, index) ==
    IF index < Cardinality(ChildrenOf(tree, parent))
    THEN (CHOOSE i \in ChildrenOf(tree, parent) : SiblingIndex(tree, i) = index) - 1
    ELSE IF parent = None THEN Len(tree) ELSE EndOf(tree, IndexOf(tree, parent))

DepthUnder(tree, parent) ==
    IF parent = None THEN 0 ELSE tree[IndexOf(tree, parent)].depth + 1

Spliced(tree, sub, at) == SubSeq(tree, 1, at) \o sub \o SubSeq(tree, at + 1, Len(tree))

\* insertAt; under a parent that is not there it changes nothing.
InsertAt(tree, sub, parent, index) ==
    IF Exists(tree, parent)
    THEN Spliced(tree, Shifted(sub, DepthUnder(tree, parent) - sub[1].depth),
                 PlaceFor(tree, parent, index))
    ELSE tree

RemoveAt(tree, i) == SubSeq(tree, 1, i - 1) \o SubSeq(tree, EndOf(tree, i) + 1, Len(tree))

\* withDerivedIds: ids from the seed, in pre-order.
Seeded(nodes, seed) == [i \in DOMAIN nodes |-> [nodes[i] EXCEPT !.id = <<seed, i>>]]

\* createNodeFromBlueprint.
Fresh(type, seed) ==
    [i \in DOMAIN Blueprint[type] |->
        [id |-> <<seed, i>>, type |-> Blueprint[type][i].type,
         depth |-> Blueprint[type][i].depth, text |-> 0, visible |-> TRUE]]

\* insertNewComponent with insertNode.
InsertNew(tree, type, seed, parent, index) ==
    IF \/ type \in Singletons /\ \E i \in DOMAIN tree : tree[i].type = type
       \/ ~Exists(tree, parent)
       \/ ~CanNest(TypeOfParent(tree, parent), type)
    THEN None
    ELSE Limited(InsertAt(tree, Fresh(type, seed), parent, index))

RemoveNode(tree, id) ==
    IF id \in Ids(tree) THEN RemoveAt(tree, IndexOf(tree, id)) ELSE None

\* The target is the node itself or inside it.
IsCycle(sub, parent) == parent \in Ids(sub)

\* The node is lifted out, and its index counts what is left.
Placed(tree, i, parent, index) ==
    Limited(InsertAt(RemoveAt(tree, i), SubtreeAt(tree, i), parent, index))

MoveFound(tree, i, parent, index) ==
    IF \/ IsCycle(SubtreeAt(tree, i), parent)
       \/ ~CanNest(TypeOfParent(tree, parent), tree[i].type)
    THEN None
    ELSE Placed(tree, i, parent, index)

MoveNode(tree, id, parent, index) ==
    IF id \in Ids(tree) /\ Exists(tree, parent)
    THEN MoveFound(tree, IndexOf(tree, id), parent, index)
    ELSE None

\* stepPlacement and moveNodeBy: one step among the siblings, if there is one.
StepNode(tree, id, step) ==
    LET i == IndexOf(tree, id)
        parent == ParentAt(tree, i)
        index == SiblingIndex(tree, i) + step
    IN  IF id \in Ids(tree) /\ index \in 0..Cardinality(ChildrenOf(tree, parent)) - 1
        THEN MoveNode(tree, id, parent, index)
        ELSE None

\* Mutant: a copy keeps the ids below its root.
CopyOfRoot(nodes, seed) == [nodes EXCEPT ![1].id = <<seed, 1>>]
\* duplicateNode: right after the original; a new seed never collides.
Copy(nodes, seed) == Seeded(nodes, seed)

DuplicateNode(tree, id, seed) ==
    LET i == IndexOf(tree, id)
    IN  IF id \in Ids(tree)
        THEN Limited(InsertAt(tree, Copy(SubtreeAt(tree, i), seed),
                              ParentAt(tree, i), SiblingIndex(tree, i) + 1))
        ELSE None

\* updateNodeProps with one field.
WithText(tree, id)    == [tree EXCEPT ![IndexOf(tree, id)].text = 1 - @]
WithVisible(tree, id) == [tree EXCEPT ![IndexOf(tree, id)].visible = ~@]

-----------------------------------------------------------------------------
(* Drag and drop.                                                          *)

\* `active` is what is dragged: a node, or a component fresh from the palette (id None).

\* isOwnSubtree.
IsOwnSubtree(tree, active, id) ==
    /\ active.id # None
    /\ \/ active.id \notin Ids(tree)
       \/ id \in Ids(SubtreeAt(tree, IndexOf(tree, active.id)))

\* relativeTarget: before or after the i-th node, if its parent takes the type.
RelativeTarget(tree, active, i, position) ==
    LET parent == ParentAt(tree, i)
    IN  IF CanNest(TypeOfParent(tree, parent), active.type)
        THEN [kind |-> position, id |-> tree[i].id, parent |-> parent, index |-> 0]
        ELSE None

\* insideTarget: at the end of a container.
InsideTarget(tree, active, i) ==
    IF CanNest(tree[i].type, active.type)
    THEN [kind |-> "inside", id |-> tree[i].id, parent |-> tree[i].id,
          index |-> Cardinality(ChildrenOf(tree, tree[i].id))]
    ELSE None

\* resolveDropPosition: what the pointer's height on the node may come to.
PositionsOn(tree, i) ==
    IF tree[i].type \notin Containers THEN {"before", "after"}
    ELSE IF EndOf(tree, i) = i THEN {"inside"}
    ELSE Positions

\* resolveDropTargetForNode.
TargetOn(tree, active, i, position) ==
    IF IsOwnSubtree(tree, active, tree[i].id) THEN None
    ELSE IF position = "inside" THEN InsideTarget(tree, active, i)
    ELSE RelativeTarget(tree, active, i, position)

\* resolveDropTargetAtCanvasEnd: after the last root, or the start of an empty page.
TargetAtEnd(tree, active) ==
    IF tree = <<>>
    THEN IF CanNest(None, active.type)
         THEN [kind |-> "root", id |-> None, parent |-> None, index |-> 0] ELSE None
    ELSE LET last == Max(ChildrenOf(tree, None))
         IN  IF tree[last].id = active.id THEN None
             ELSE RelativeTarget(tree, active, last, "after")

\* stepDropTarget: the next legal one in render order, or None.
StepTarget(tree, active, from, step) ==
    LET position == IF step = 1 THEN "after" ELSE "before"
        ahead == {i \in DOMAIN tree : (i - IndexOf(tree, from)) * step > 0}
        legal == {i \in ahead : /\ ~IsOwnSubtree(tree, active, tree[i].id)
                                /\ RelativeTarget(tree, active, i, position) # None}
    IN  IF from \notin Ids(tree) \/ legal = {} THEN None
        ELSE RelativeTarget(tree, active,
                            IF step = 1 THEN Min(legal) ELSE Max(legal), position)

\* Mutant: lifting the node out is not reckoned with.
LiftedNever(tree, active, at) == 0
\* A node that stood before the target among its siblings leaves a gap.
Lifted(tree, active, at) ==
    IF /\ active.id \in Ids(tree)
       /\ ParentAt(tree, IndexOf(tree, active.id)) = ParentAt(tree, at)
       /\ IndexOf(tree, active.id) < at
    THEN 1 ELSE 0

\* resolvePlacement: the index for `target`, on the tree as it is at the drop.
IndexFor(tree, active, target) ==
    IF target.kind \in {"root", "inside"} THEN target.index
    ELSE LET at == IndexOf(tree, target.id)
         IN  SiblingIndex(tree, at) + (IF target.kind = "after" THEN 1 ELSE 0)
                 - Lifted(tree, active, at)

\* Whether the target still stands where it was shown.
IsPlaced(tree, target) ==
    \/ target.kind \in {"root", "inside"}
    \/ /\ target.id \in Ids(tree)
       /\ ParentAt(tree, IndexOf(tree, target.id)) = target.parent

\* applyDrop.
ApplyDrop(tree, active, target, seed) ==
    IF ~IsPlaced(tree, target) THEN None
    ELSE IF active.id = None
         THEN InsertNew(tree, active.type, seed, target.parent,
                        IndexFor(tree, active, target))
         ELSE MoveNode(tree, active.id, target.parent, IndexFor(tree, active, target))
=============================================================================
