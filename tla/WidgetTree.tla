----------------------------- MODULE WidgetTree -----------------------------
(***************************************************************************)
(* The element tree of one page (core/src/ui/widget_tree.cpp), the views   *)
(* it keeps in step with it (render_view.cpp, layout/flex_layout.cpp) and  *)
(* the subscriptions of its States (event_bus.cpp).                        *)
(*                                                                         *)
(* The page is a stateful widget, the host, which builds a Flex.  A slot   *)
(* of the Flex is empty or holds one widget, wrapped in Expanded or not: a *)
(* leaf that has a view, or a stateful widget, the Counter, that builds    *)
(* one of the leaves from its State and listens to an event.  A rebuild is *)
(* synchronous, so it is one step; handlers of an event run one by one,    *)
(* and each may rebuild the host, its own subtree or another's, cover the  *)
(* page or emit the event again.  What goes on before build (initState),   *)
(* after it (didMount) and in build itself does not call setState.         *)
(***************************************************************************)
EXTENDS Integers, Sequences, FiniteSets, SequencesExt, FiniteSetsExt

CONSTANTS
  Leaf,         \* the types of the widgets with a view and no children
  FirstLeaf,    \* what a new State builds
  Lists,        \* the lists of children the host may build
  MaxSlots,     \* the longest of them
  MaxStates,    \* bound on the States mounted or still known to the bus
  MaxDepth      \* bound on emissions nested in handlers

Counter == "Counter"
Nothing == [flex |-> FALSE, kind |-> "nothing"]    \* the null widget
Widgets == [flex : BOOLEAN, kind : Leaf \cup {Counter}] \cup {Nothing}

ASSUME WidgetTreeAssumption ==
  /\ FirstLeaf \in Leaf /\ Counter \notin Leaf
  /\ MaxSlots \in Nat /\ MaxStates \in Nat /\ MaxDepth \in Nat
  /\ \A list \in Lists : Len(list) <= MaxSlots /\ Range(list) \subseteq Widgets

ViewId == 1 .. MaxSlots
NoView == 0
StateId == 1 .. MaxStates
NoState == 0
Default == 0    \* FlexParentData a child has not been given, or has by default
Stretch == 1    \* what Expanded declares

Empty == [flex |-> FALSE, kind |-> Nothing.kind, view |-> NoView, state |-> NoState]

VARIABLES
  tree,         \* the elements, their views and States, the bus
  shown,        \* the page is visible
  emissions     \* the emissions under way, innermost first

vars == <<tree, shown, emissions>>

Init ==
  /\ tree = [slots |-> << >>,                              \* children_ of the element
             children |-> << >>, parentData |-> << >>,     \* of the Flex
             shows |-> [s \in StateId |-> FirstLeaf],      \* what each State builds
             entries |-> << >>]                            \* g_entries
  /\ shown = TRUE
  /\ emissions = << >>

-----------------------------------------------------------------------------
(* Views *)

Place(t, view) == SelectInSeq(t.children, LAMBDA v : v = view)

\* Slip: the data of the children after a removed one stays where it was.
Kept(parentData, i) == parentData

\* FlexView::handleChildRemoved.
Erased(parentData, i) == IF i \in DOMAIN parentData THEN RemoveAt(parentData, i) ELSE parentData

\* The view is removed and destroyed, the references to it expire.
RemoveView(t, view) ==
  LET Expired(entry) == IF entry.scope = view THEN [entry EXCEPT !.scope = NoView] ELSE entry
  IN  [t EXCEPT !.children = RemoveAt(@, Place(t, view)),
                !.parentData = Erased(@, Place(t, view)),
                !.entries = [n \in DOMAIN t.entries |-> Expired(t.entries[n])]]

NewView(t) == Min(ViewId \ Range(t.children))
AddView(t, view) == [t EXCEPT !.children = Append(@, view)]

Resized(parentData, size) ==
  parentData \o [n \in 1 .. Max({0, size - Len(parentData)}) |-> Default]

\* Slip: the data goes to the place after the child's.
SetFlexAfter(t, view, data) ==
  LET i == Place(t, view) + 1
  IN  [t EXCEPT !.parentData = [Resized(t.parentData, i) EXCEPT ![i] = data]]

SetFlexChild(t, view, data) ==
  LET i == Place(t, view)
  IN  [t EXCEPT !.parentData = [Resized(t.parentData, i) EXCEPT ![i] = data]]

-----------------------------------------------------------------------------
(* Elements *)

States(t) == {t.slots[i].state : i \in DOMAIN t.slots} \ {NoState}

\* A State the page, the bus and the emissions under way know nothing of.
Known(t) ==
  UNION {States(t), {t.entries[n].state : n \in DOMAIN t.entries},
         UNION {Range(emissions[n].todo) \cup {emissions[n].running} : n \in DOMAIN emissions}}
NewState(t) == Min(StateId \ Known(t))

Listen(t, state, view) ==
  [t EXCEPT !.entries = Append(@, [state |-> state, scope |-> view, active |-> TRUE])]

\* Slip: the subscriptions outlive their State.
CancelNothing(t, state) == t

Cancel(t, state) ==
  LET Ended(entry) == IF entry.state = state THEN [entry EXCEPT !.active = FALSE] ELSE entry
  IN  [t EXCEPT !.entries = [n \in DOMAIN t.entries |-> Ended(t.entries[n])]]

\* First the views of the subtree, then dispose and detach.
Unmount(t, element) ==
  IF element = Empty THEN t ELSE Cancel(RemoveView(t, element.view), element.state)

MountLeaf(t, i, widget) ==
  LET view == NewView(t)
  IN  [AddView(t, view) EXCEPT
         !.slots[i] = [flex |-> widget.flex, kind |-> widget.kind, view |-> view, state |-> NoState]]

\* createState, attach, initState, build, didMount.
MountCounter(t, i, widget) ==
  LET view == NewView(t)
      state == NewState(t)
      built == [AddView(t, view) EXCEPT
                  !.shows[state] = FirstLeaf,
                  !.slots[i] = [flex |-> widget.flex, kind |-> Counter,
                                view |-> view, state |-> state]]
  IN  Listen(built, state, view)

Mount(t, i, widget) ==
  IF widget.kind = Counter THEN MountCounter(t, i, widget) ELSE MountLeaf(t, i, widget)

CanUpdate(element, widget) ==
  element # Empty /\ element.flex = widget.flex /\ element.kind = widget.kind

\* An update of the same types reaches the leaf, whose view stays.
UpdateChild(t, i, widget) ==
  IF widget = Nothing THEN [Unmount(t, t.slots[i]) EXCEPT !.slots[i] = Empty]
  ELSE IF CanUpdate(t.slots[i], widget) THEN t
  ELSE Mount(Unmount(t, t.slots[i]), i, widget)

ConfigureChild(t, i) ==
  LET element == t.slots[i]
  IN  IF element = Empty THEN t
      ELSE SetFlexChild(t, element.view, IF element.flex THEN Stretch ELSE Default)

\* Slip: what the new list leaves out is dropped without being unmounted.
ShrunkOnly(t, count) == [t EXCEPT !.slots = SubSeq(@, 1, count)]

Shrunk(t, count) ==
  LET gone == SubSeq(t.slots, count + 1, Len(t.slots))
  IN  [FoldLeft(Unmount, t, gone) EXCEPT !.slots = SubSeq(@, 1, count)]

Grown(t, count) ==
  LET missing == Max({0, count - Len(t.slots)})
  IN  [t EXCEPT !.slots = @ \o [n \in 1 .. missing |-> Empty]]

\* RenderObjectElement::updateChildren.
Updated(t, widgets) ==
  LET Update(acc, i) == ConfigureChild(UpdateChild(acc, i, widgets[i]), i)
  IN  Shrunk(FoldLeftDomain(Update, Grown(t, Len(widgets)), widgets), Len(widgets))

\* A State that builds another leaf has its view replaced; the Flex is not
\* asked to configure the new one.
Rebuilt(t, i, leaf) ==
  LET state == t.slots[i].state
      bare == RemoveView(t, t.slots[i].view)
      view == NewView(bare)
  IN  IF t.shows[state] = leaf THEN t
      ELSE [AddView(bare, view) EXCEPT !.slots[i].view = view, !.shows[state] = leaf]

-----------------------------------------------------------------------------
(* What an application does, from its own callbacks or from a handler *)

HostSetState ==
  \E widgets \in Lists :
    /\ Cardinality(StateId \ Known(tree)) >= Cardinality({i \in DOMAIN widgets :
         widgets[i].kind = Counter})
    /\ tree' = Updated(tree, widgets)
    /\ UNCHANGED shown

CounterSetState ==
  \E i \in DOMAIN tree.slots, leaf \in Leaf :
    /\ tree.slots[i].state # NoState
    /\ tree' = Rebuilt(tree, i, leaf)
    /\ UNCHANGED shown

\* Navigation covers the page with another, or comes back to it.
SetVisible == shown' = ~shown /\ UNCHANGED tree

\* Late results for a State that is gone are dropped by setState.
SetStateUnmounted == UNCHANGED <<tree, shown>>

Act == HostSetState \/ CounterSetState \/ SetVisible \/ SetStateUnmounted

-----------------------------------------------------------------------------
(* The event bus *)

Idle == emissions = << >>
Current == Head(emissions)
WithCurrent(frame) == <<frame>> \o Tail(emissions)

Application == Idle /\ Act /\ UNCHANGED emissions

\* EventBus::emit up to its loop: what is inactive is erased, the rest copied.
Emit ==
  /\ ~Idle => Current.running # NoState /\ Len(emissions) < MaxDepth
  /\ LET active == SelectSeq(tree.entries, LAMBDA entry : entry.active)
     IN  /\ tree' = [tree EXCEPT !.entries = active]
         /\ emissions' = <<[todo |-> [n \in DOMAIN active |-> active[n].state],
                            running |-> NoState]>> \o emissions
  /\ UNCHANGED shown

\* Slip: a page that is covered hears its events.
HearsCovered(state) ==
  \E n \in DOMAIN tree.entries :
    LET entry == tree.entries[n] IN entry.state = state /\ entry.active /\ entry.scope # NoView

\* active, and scopeVisible.
Hears(state) ==
  /\ shown
  /\ \E n \in DOMAIN tree.entries :
       LET entry == tree.entries[n]
       IN  entry.state = state /\ entry.active /\ entry.scope # NoView

Deliver ==
  /\ ~Idle /\ Current.running = NoState /\ Current.todo # << >>
  /\ Hears(Head(Current.todo))
  /\ emissions' = WithCurrent([todo |-> Tail(Current.todo), running |-> Head(Current.todo)])
  /\ UNCHANGED <<tree, shown>>

Skip ==
  /\ ~Idle /\ Current.running = NoState /\ Current.todo # << >>
  /\ ~Hears(Head(Current.todo))
  /\ emissions' = WithCurrent([Current EXCEPT !.todo = Tail(@)])
  /\ UNCHANGED <<tree, shown>>

Handle ==
  /\ ~Idle /\ Current.running # NoState
  /\ Act
  /\ emissions' = WithCurrent([Current EXCEPT !.running = NoState])

\* emit returns, to the application or to the handler that called it.
EmitReturns ==
  /\ ~Idle /\ Current.running = NoState /\ Current.todo = << >>
  /\ emissions' = [n \in 1 .. Len(emissions) - 1 |->
                     IF n = 1 THEN [emissions[2] EXCEPT !.running = NoState] ELSE emissions[n + 1]]
  /\ UNCHANGED <<tree, shown>>

Next == Application \/ Emit \/ Deliver \/ Skip \/ Handle \/ EmitReturns

Spec == Init /\ [][Next]_vars

-----------------------------------------------------------------------------
(* Properties *)

TypeOK ==
  /\ Len(tree.slots) <= MaxSlots
  /\ \A i \in DOMAIN tree.slots : tree.slots[i].kind \in Leaf \cup {Counter, Empty.kind}
  /\ Len(tree.parentData) <= Len(tree.children)
  /\ Range(tree.parentData) \subseteq {Default, Stretch}
  /\ tree.shows \in [StateId -> Leaf]
  /\ Range(tree.entries) \subseteq [state : StateId, scope : ViewId \cup {NoView}, active : BOOLEAN]
  /\ Len(emissions) <= MaxDepth

\* The views of the Flex are those of its slots, each of them once: no rebuild,
\* of the host or of a State, leaves a view behind or takes one too many.
ChildrenAreSlots ==
  LET full == {i \in DOMAIN tree.slots : tree.slots[i] # Empty}
  IN  /\ Len(tree.children) = Cardinality(full)
      /\ Range(tree.children) = {tree.slots[i].view : i \in full}

\* Only a child that is wrapped in Expanded stretches: the data, kept beside the
\* children by position, never passes from one child to another.
DataIsOwn ==
  \A n \in DOMAIN tree.parentData : tree.parentData[n] = Stretch =>
    \E i \in DOMAIN tree.slots : tree.slots[i].view = tree.children[n] /\ tree.slots[i].flex

\* The bus holds one live subscription for every State that is mounted, whatever
\* rebuilt or removed it and whichever emission was under way, and no other.
SubscriptionsAreOfStates ==
  LET active == {n \in DOMAIN tree.entries : tree.entries[n].active}
  IN  /\ {tree.entries[n].state : n \in active} = States(tree)
      /\ Cardinality(active) = Cardinality(States(tree))

\* A handler starts only on a page that is shown and for a State that is mounted
\* at that moment, not when the emission began.
OnlyShownHear ==
  [][~Idle /\ Len(emissions') = Len(emissions)
     /\ Current.running = NoState /\ Head(emissions').running # NoState
     => shown /\ Head(emissions').running \in States(tree)]_vars

\* Flex and Stack place their children in the order of the list they are given.
ViewsFollowSlots ==
  \A i, j \in DOMAIN tree.slots :
    i < j /\ tree.slots[i] # Empty /\ tree.slots[j] # Empty
      => Place(tree, tree.slots[i].view) < Place(tree, tree.slots[j].view)
=============================================================================
