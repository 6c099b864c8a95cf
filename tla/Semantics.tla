------------------------------ MODULE Semantics -----------------------------
(***************************************************************************)
(* The accessibility tree: core/src/ui/semantics.cpp collects it from the  *)
(* views at the end of each frame and sends what changed to the platform;  *)
(* platform/android/java/com/estarx/vulkan/SemanticsA11yBridge.java keeps  *)
(* the copy the screen reader works on and sends its actions back.         *)
(*                                                                         *)
(* A page has slots for containers, and a container has leaves: texts, and *)
(* views that are only there for their callbacks.  An action is a callback *)
(* that its view has: onClick, onLongPress.  A view is named by its        *)
(* address, which a later view may get again; what the code keeps as a     *)
(* ViewRef is an address that becomes Dead with its view.                  *)
(***************************************************************************)
EXTENDS Integers, Sequences, FiniteSets, SequencesExt

CONSTANTS
  Slot,         \* places in the page, 1 .. n
  Address,      \* addresses of views
  Labels,       \* what containers may be labelled with
  OwnActions,   \* the sets of actions that containers may have
  LeafActions,  \* the sets of actions that leaves may have; a text has none
  MaxLeaves,    \* bound on the leaves of a container
  MaxIds        \* bound on nextId_

None == "none"
Dead == "dead"
NoView == [addr |-> None]

Actions == UNION (OwnActions \cup LeafActions)
LeafView == [addr : Address, actions : LeafActions]
Rows == {row \in UNION {[1 .. n -> LeafView] : n \in 0 .. MaxLeaves} :
           \A i, j \in DOMAIN row : row[i].addr = row[j].addr => i = j}
Containers == [addr : Address, label : Labels \cup {None}, actions : OwnActions,
               visible : BOOLEAN, leaves : Rows]

VARIABLES
  page,        \* the views: container of each slot, or NoView
  enabled, nodes, views, actionViews, ids, nextId,    \* SemanticsOwner
  surface,     \* a VulkanSurfaceView is up: sActiveView and the listener are set
  talkBack,    \* the system's touch exploration
  snapshot,    \* sNodes
  built,       \* since the views last changed: "no" frame was built, or one that
               \* "sent" an update, or found the tree "unchanged"
  sent         \* an update was sent since the surface is up

ownerVars == <<enabled, nodes, views, actionViews, ids, nextId>>
platformVars == <<surface, talkBack, snapshot>>
vars == <<page, ownerVars, platformVars, built, sent>>

Node == [id : 0 .. MaxIds, label : Labels \cup {None, "text"}, actions : SUBSET Actions,
         children : Seq(1 .. MaxIds)]

TypeOK ==
  /\ page \in [Slot -> Containers \cup {NoView}]
  /\ enabled \in BOOLEAN /\ surface \in BOOLEAN /\ talkBack \in BOOLEAN
  /\ built \in {"no", "sent", "unchanged"} /\ sent \in BOOLEAN
  /\ \A n \in nodes \cup snapshot : n \in Node
  /\ DOMAIN views \subseteq 1 .. MaxIds /\ Range(views) \subseteq Address \cup {Dead}
  /\ DOMAIN actionViews \subseteq DOMAIN views
  /\ Range(actionViews) \subseteq Address \cup {Dead}
  /\ DOMAIN ids \subseteq Address /\ Range(ids) \subseteq 1 .. MaxIds
  /\ nextId \in 1 .. MaxIds + 1

Nil == [i \in {} |-> 0]

-----------------------------------------------------------------------------
(* The views *)

AddrsOf(row) == {row[i].addr : i \in DOMAIN row}
ViewsOf(c) == IF c = NoView THEN {} ELSE {c.addr} \cup AddrsOf(c.leaves)
Used(slots) == UNION {ViewsOf(page[s]) : s \in slots}

\* What performSemanticsAction of the view at an address answers: the actions it
\* has a callback for.
Answers(addr, a) ==
  \E s \in Slot :
    /\ page[s] # NoView
    /\ \/ page[s].addr = addr /\ a \in page[s].actions
       \/ \E leaf \in Range(page[s].leaves) : leaf.addr = addr /\ a \in leaf.actions

WithoutRefs(refs, gone) == [i \in DOMAIN refs |-> IF refs[i] \in gone THEN Dead ELSE refs[i]]

\* The views at the addresses in gone are destroyed, and slot s holds c.
Rebuild(s, c, gone) ==
  /\ page' = [page EXCEPT ![s] = c]
  /\ views' = WithoutRefs(views, gone)
  /\ actionViews' = WithoutRefs(actionViews, gone)
  /\ built' = "no"
  /\ UNCHANGED <<enabled, nodes, ids, nextId, platformVars, sent>>

\* A rebuild goes view by view, and the frame comes after all of it or after a part.
\* A container leaves, or comes, visible and empty ...
Unmount(s) ==
  /\ surface
  /\ page[s] # NoView
  /\ Rebuild(s, NoView, ViewsOf(page[s]))

Mount(s) ==
  /\ surface
  /\ page[s] = NoView
  /\ \E addr \in Address \ Used(Slot), label \in Labels \cup {None}, actions \in OwnActions :
       Rebuild(s, [addr |-> addr, label |-> label, actions |-> actions, visible |-> TRUE,
                   leaves |-> << >>], {})

\* ... and so does a leaf.
UnmountLeaf(s) ==
  /\ surface
  /\ page[s] # NoView
  /\ \E i \in DOMAIN page[s].leaves :
       Rebuild(s, [page[s] EXCEPT !.leaves = RemoveAt(@, i)], {page[s].leaves[i].addr})

MountLeaf(s) ==
  /\ surface
  /\ page[s] # NoView /\ Len(page[s].leaves) < MaxLeaves
  /\ \E i \in 1 .. Len(page[s].leaves) + 1, leaf \in LeafView :
       /\ leaf.addr \notin Used(Slot)
       /\ Rebuild(s, [page[s] EXCEPT !.leaves = InsertAt(@, i, leaf)], {})

\* updateRenderObject of a GestureDetector that is a leaf: a text stays a text.
UpdateLeaf(s) ==
  /\ surface
  /\ page[s] # NoView
  /\ \E i \in DOMAIN page[s].leaves, actions \in LeafActions :
       /\ page[s].leaves[i].actions # {} /\ actions # {}
       /\ Rebuild(s, [page[s] EXCEPT !.leaves[i].actions = actions], {})

\* updateRenderObject of Semantics and of GestureDetector, and setVisible.
Update(s) ==
  \E label \in Labels \cup {None}, actions \in OwnActions, visible \in BOOLEAN :
    /\ surface
    /\ page[s] # NoView
    /\ Rebuild(s, [page[s] EXCEPT !.label = label, !.actions = actions, !.visible = visible],
               {})

-----------------------------------------------------------------------------
(* Collecting *)

\* absorbLeafActions: the leaves that are nothing but their actions.
Absorbed(c) == SelectSeq(c.leaves, LAMBDA leaf : leaf.actions # {})
Texts(c) == SelectSeq(c.leaves, LAMBDA leaf : leaf.actions = {})

\* A node declares the actions of its view and of every leaf it absorbs ...
Merged(c) == c.actions \cup UNION {leaf.actions : leaf \in Range(Absorbed(c))}

\* Slip: every leaf that is absorbed becomes the target.
RouteToLast(c) == IF Absorbed(c) = << >> THEN None ELSE Last(Absorbed(c)).addr

\* ... but the first of these leaves is asked for all of them.
Route(c) == IF Absorbed(c) = << >> THEN None ELSE Head(Absorbed(c)).addr

\* collectFrom of a leaf, and of a container: what becomes a node, in the order
\* of the ids.  A container that says nothing hands its leaves up to the root.
LeafEntry(leaf, parent) ==
  [addr |-> leaf.addr, label |-> IF leaf.actions = {} THEN "text" ELSE None,
   actions |-> leaf.actions, absorbed |-> None, parent |-> parent]
LeafEntries(row, parent) == [i \in DOMAIN row |-> LeafEntry(row[i], parent)]

Worthy(c) == c.label # None \/ c.actions # {}
Entries(c) ==
  IF c = NoView THEN << >> ELSE IF ~c.visible THEN << >>
  ELSE IF ~Worthy(c) THEN LeafEntries(c.leaves, None)
  ELSE << [addr |-> c.addr, label |-> c.label, actions |-> Merged(c),
           absorbed |-> Route(c), parent |-> None] >>
       \o LeafEntries(Texts(c), c.addr)

Collected == FlattenSeq([s \in Slot |-> Entries(page[s])])

\* An address that had an id in the last frame keeps it.
IdOf(e, k) ==
  IF e[k].addr \in DOMAIN ids THEN ids[e[k].addr]
  ELSE nextId + Cardinality({j \in 1 .. k - 1 : e[j].addr \notin DOMAIN ids})

ChildIds(e, parent) ==
  LET own(k) == e[k].parent = parent
  IN [i \in DOMAIN SelectSeq([k \in DOMAIN e |-> k], own) |->
        IdOf(e, SelectSeq([k \in DOMAIN e |-> k], own)[i])]

Fresh(e) ==
  {[id |-> 0, label |-> None, actions |-> {}, children |-> ChildIds(e, None)]}
    \cup {[id |-> IdOf(e, k), label |-> e[k].label, actions |-> e[k].actions,
           children |-> ChildIds(e, e[k].addr)] : k \in DOMAIN e}

\* The references, by the id of their node.
RefsOf(e, field) ==
  LET with == {k \in DOMAIN e : e[k][field] # None}
  IN [i \in {IdOf(e, k) : k \in with} |->
        e[CHOOSE k \in with : IdOf(e, k) = i][field]]

\* Slip: the comparison of two nodes leaves out the label.
DiffersButForLabels(fresh) ==
  {[n EXCEPT !.label = None] : n \in fresh} # {[n EXCEPT !.label = None] : n \in nodes}

\* The diff, node by node, with what was sent last.
Differs(fresh) == fresh # nodes

\* applyUpdate: dropped when no view is registered.
Applied(update) == IF surface THEN update ELSE snapshot

\* onFrameBuilt, at the end of buildFrame.
Frame ==
  /\ surface
  /\ IF ~enabled
     THEN built' = "unchanged" /\ UNCHANGED <<ownerVars, platformVars, sent>>
     ELSE LET e == Collected
              fresh == Fresh(e)
              new == Cardinality({k \in DOMAIN e : e[k].addr \notin DOMAIN ids})
          IN /\ nextId + new <= MaxIds + 1
             /\ nextId' = nextId + new
             /\ ids' = [a \in {e[k].addr : k \in DOMAIN e} |->
                          IdOf(e, CHOOSE k \in DOMAIN e : e[k].addr = a)]
             /\ IF Differs(fresh)
                THEN /\ nodes' = fresh
                     /\ views' = RefsOf(e, "addr")
                     /\ actionViews' = RefsOf(e, "absorbed")
                     /\ snapshot' = Applied(fresh)
                     /\ sent' = TRUE
                     /\ built' = "sent"
                ELSE /\ built' = "unchanged"
                     /\ UNCHANGED <<nodes, views, actionViews, snapshot, sent>>
             /\ UNCHANGED <<enabled, surface, talkBack>>
  /\ UNCHANGED page

-----------------------------------------------------------------------------
(* The switch *)

\* Slip: the ids start again but the addresses keep theirs.
DisableKeepsIds(up) ==
  /\ enabled' = FALSE
  /\ nodes' = {} /\ views' = Nil /\ actionViews' = Nil
  /\ nextId' = 1
  /\ snapshot' = IF up THEN {} ELSE snapshot
  /\ UNCHANGED ids

\* setEnabled(false): forgets everything and sends an empty tree.
Disable(up) ==
  /\ enabled' = FALSE
  /\ nodes' = {} /\ views' = Nil /\ actionViews' = Nil /\ ids' = Nil
  /\ nextId' = 1
  /\ snapshot' = IF up THEN {} ELSE snapshot

SetEnabled(on, up) ==
  \/ on = enabled /\ UNCHANGED ownerVars
  \/ on /\ ~enabled /\ enabled' = TRUE
        /\ UNCHANGED <<nodes, views, actionViews, ids, nextId>>

\* pushEnabled, from the listener for touch exploration.
SwitchTalkBack ==
  /\ talkBack' = ~talkBack
  /\ IF ~surface
     THEN UNCHANGED <<ownerVars, snapshot, built>>
     ELSE /\ built' = "no"
          /\ \/ ~talkBack' /\ enabled /\ Disable(TRUE)
             \/ (talkBack' \/ ~enabled) /\ SetEnabled(talkBack', TRUE) /\ UNCHANGED snapshot
  /\ UNCHANGED <<page, surface, sent>>

-----------------------------------------------------------------------------
(* The surface *)

\* surfaceDestroyed: the application shuts down, and with it go its views; the
\* SemanticsOwner is told nothing.  Then onSurfaceDestroyed.
SurfaceDestroyed ==
  /\ surface
  /\ surface' = FALSE
  /\ page' = [s \in Slot |-> NoView]
  /\ views' = WithoutRefs(views, Used(Slot))
  /\ actionViews' = WithoutRefs(actionViews, Used(Slot))
  /\ snapshot' = {}
  /\ sent' = FALSE
  /\ built' = "no"
  /\ UNCHANGED <<enabled, nodes, ids, nextId, talkBack>>

\* surfaceCreated: runApp, whose page is filled by Mount, and onSurfaceReady,
\* which empties the copy and pushes what TalkBack is now.
SurfaceCreated ==
  /\ ~surface
  /\ surface' = TRUE
  /\ \/ ~talkBack /\ enabled /\ Disable(TRUE)
     \/ (talkBack \/ ~enabled) /\ SetEnabled(talkBack, TRUE) /\ snapshot' = {}
  /\ built' = "no"
  /\ UNCHANGED <<page, talkBack, sent>>

-----------------------------------------------------------------------------
(* Actions of the screen reader *)

\* Slip: the node's own view is asked before the one it absorbed.
OwnViewFirst(id) == IF id \in DOMAIN views THEN views[id] ELSE Dead

\* performAction: the view that answers for a node.
Target(id) ==
  IF id \in DOMAIN actionViews /\ actionViews[id] # Dead THEN actionViews[id]
  ELSE IF id \in DOMAIN views THEN views[id] ELSE Dead

Performs(id, a) ==
  /\ \E n \in nodes : n.id = id /\ a \in n.actions
  /\ Target(id) # Dead
  /\ Answers(Target(id), a)

-----------------------------------------------------------------------------

Init ==
  /\ page = [s \in Slot |-> NoView]
  /\ enabled = FALSE /\ surface = FALSE /\ talkBack \in BOOLEAN
  /\ nodes = {} /\ views = Nil /\ actionViews = Nil /\ ids = Nil /\ nextId = 1
  /\ snapshot = {} /\ built = "no" /\ sent = FALSE

Next ==
  \/ \E s \in Slot : \/ Unmount(s) \/ Mount(s) \/ Update(s)
                  \/ UnmountLeaf(s) \/ MountLeaf(s) \/ UpdateLeaf(s)
  \/ Frame \/ SwitchTalkBack \/ SurfaceDestroyed \/ SurfaceCreated

Spec == Init /\ [][Next]_vars

-----------------------------------------------------------------------------
(* Properties *)

\* What the core keeps is a tree: ids are not given twice, whatever addresses are
\* used again and however often the switch turns, and every node but the root is
\* the child of exactly one node.
NodesAreATree ==
  LET known == {n.id : n \in nodes}
  IN /\ Cardinality(known) = Cardinality(nodes)
     /\ \A n \in nodes : Range(n.children) \subseteq known \ {0}
     /\ \A i \in known \ {0} :
          Cardinality({n \in nodes : i \in Range(n.children)}) = 1

\* After a frame, the copy the screen reader works on is the tree of the views as
\* they are now, unless nothing was sent to this surface yet.
ReaderSeesThePage ==
  enabled /\ surface /\ built # "no" /\ sent => snapshot = nodes /\ nodes = Fresh(Collected)

\* An action of a container, or of a leaf, that went into a node whose first absorbed
\* leaf does not have it.
MergedAway(id, a) ==
  \E s \in Slot : /\ page[s] # NoView /\ id \in DOMAIN views /\ views[id] = page[s].addr
                  /\ Absorbed(page[s]) # << >> /\ a \notin Head(Absorbed(page[s])).actions

\* After a frame that sent an update, the page answers the actions the screen reader
\* is offered, all but those that were merged into a node and routed past the view
\* that has the callback: absorbLeafActions collects the actions of a whole subtree
\* and keeps one target for them.
SentActionsAreAnswered ==
  enabled /\ surface /\ built = "sent" =>
    \A n \in snapshot : \A a \in n.actions : Performs(n.id, a) <=> ~MergedAway(n.id, a)

\* What semantics.h promises at line 9, that the actions of a node can be performed:
\* after a frame that sent an update, every one of them is answered.  Merged actions
\* break this.
MergedActionsAreAnswered ==
  enabled /\ surface /\ built = "sent" =>
    \A n \in snapshot : \A a \in n.actions : Performs(n.id, a)

\* What semantics.cpp promises at line 335, that an action is lost only between a
\* change and the next frame: once a frame is built, every action the screen reader
\* is offered is answered.
ActionsAreAnswered ==
  enabled /\ surface /\ built # "no" =>
    \A n \in snapshot : \A a \in n.actions : Performs(n.id, a)

\* What SemanticsA11yBridge.java promises at line 85, that an emptied copy is filled
\* again: after a frame the screen reader has the tree, also on a new surface.
NewSurfaceIsTold == enabled /\ surface /\ built # "no" => snapshot = nodes
=============================================================================
