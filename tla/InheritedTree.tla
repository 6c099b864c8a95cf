---------------------------- MODULE InheritedTree ---------------------------
(***************************************************************************)
(* Data that an ancestor hands down: core/src/ui/inherited_widget.cpp on   *)
(* the elements of core/src/ui/widget_tree.cpp.                            *)
(*                                                                         *)
(* The elements below a stateful host are one chain: themes, nested or     *)
(* none, then readers, each of which builds the next.  A reader is a       *)
(* stateful widget that reads the nearest theme when its State says so; a  *)
(* label is a stateless one that always does.  A rebuild is synchronous    *)
(* and builds are pure, so it is one step.                                 *)
(***************************************************************************)
EXTENDS Integers, Sequences, FiniteSets, SequencesExt, FiniteSetsExt

CONSTANTS
  Data,         \* what a theme may carry
  MaxThemes,    \* nested themes the host may build
  MaxReaders,   \* bound on the chain
  MaxElements   \* bound on the elements alive

Unread == "unread"
ElementId == 1 .. MaxElements
Nobody == [e \in {} |-> 0]

VARIABLES
  elements,     \* the chain below the host
  themes,       \* State of the host: the data of the themes it builds
  dangling      \* a destroyed element was used

vars == <<elements, themes, dangling>>

\* An element with all that one kind or the other keeps: the widget's data,
\* dependents_ and notifyEpoch_ of a theme; State and inheritedElements_ of a
\* reader, with the data its last build has read.
Element == [id : ElementId, kind : {"theme", "reader", "label", "leaf"},
            data : Data \cup {Unread}, reads : BOOLEAN,
            child : {"reader", "label", "leaf"},
            inherited : SUBSET ElementId, seen : Data \cup {Unread}]

TypeOK ==
  /\ \A i \in DOMAIN elements :
       LET e == elements[i]
       IN /\ [f \in DOMAIN e \ {"dependents", "epoch"} |-> e[f]] \in Element
          /\ DOMAIN e.dependents \subseteq ElementId
          /\ \A d \in DOMAIN e.dependents : e.dependents[d] \in 0 .. e.epoch
          /\ e.epoch \in 0 .. 1
  /\ themes \in SeqOf(Data, MaxThemes)
  /\ dangling \in BOOLEAN

-----------------------------------------------------------------------------
(* t stands for [els |-> elements, dangling |-> dangling] in a rebuild *)

\* dependOnInherited: up the parents to the nearest theme, which notes the reader.
Nearest(t, i) == Max({j \in 1 .. i - 1 : t.els[j].kind = "theme"} \cup {0})

Register(theme, id) ==
  [theme EXCEPT !.dependents = [d \in DOMAIN theme.dependents \cup {id} |->
     IF d = id THEN theme.epoch ELSE theme.dependents[d]]]

\* Slip: the element reads without being noted down.
ReadUnnoted(t, i) ==
  IF Nearest(t, i) = 0 THEN [t EXCEPT !.els[i].seen = Unread]
  ELSE [t EXCEPT !.els[i].inherited = @ \cup {t.els[Nearest(t, i)].id},
                 !.els[i].seen = t.els[Nearest(t, i)].data]

Read(t, i) ==
  LET j == Nearest(t, i)
  IN IF j = 0 THEN [t EXCEPT !.els[i].seen = Unread]
     ELSE [t EXCEPT !.els[j] = Register(t.els[j], t.els[i].id),
                    !.els[i].inherited = t.els[i].inherited \cup {t.els[j].id},
                    !.els[i].seen = t.els[j].data]

Place(t, id) == SelectInSeq(t.els, LAMBDA e : e.id = id)

\* Slip: the element leaves without a word to the themes it read.
UnmountSilently(t) == [t EXCEPT !.els = Front(@)]

\* Element::unmount of the last of the chain: it is taken from the themes it has
\* registered with, all above it and so still there.
UnmountLast(t) ==
  LET gone == t.els[Len(t.els)]
      Without(e) == [e EXCEPT !.dependents =
                       [d \in DOMAIN e.dependents \ {gone.id} |-> e.dependents[d]]]
  IN [els |-> [i \in 1 .. Len(t.els) - 1 |->
                 IF t.els[i].id \in gone.inherited THEN Without(t.els[i]) ELSE t.els[i]],
      dangling |-> t.dangling \/ \E id \in gone.inherited : Place(t, id) = 0]

\* unmount of the elements from i on: children first.
Unmount(t, i) ==
  LET count == Len(t.els) - i + 1
      after[n \in 0 .. count] == IF n = 0 THEN t ELSE UnmountLast(after[n - 1])
  IN IF count <= 0 THEN t ELSE after[count]

NewId(t) == Min(ElementId \ {t.els[i].id : i \in DOMAIN t.els})

\* createElement and, for a reader, createState.
New(t, widget) ==
  [id |-> NewId(t), kind |-> widget.kind, data |-> widget.data,
   dependents |-> Nobody, epoch |-> 0, reads |-> TRUE, child |-> "leaf",
   inherited |-> {}, seen |-> Unread]

Widget(kind) == [kind |-> kind, data |-> Unread]
Theme(data) == [kind |-> "theme", data |-> data]

\* What the element at i hands to updateChild: the child its widget came with,
\* or what it builds.
Built(t, i, new) ==
  IF t.els[i].kind = "theme"
  THEN IF i < Len(new) THEN Theme(new[i + 1]) ELSE Widget("reader")
  ELSE Widget(IF t.els[i].kind = "label" THEN "leaf" ELSE t.els[i].child)

Reads(e) == e.kind = "label" \/ (e.kind = "reader" /\ e.reads)

RECURSIVE Rebuild(_, _, _)

\* Those not reached since the epoch went on.
Stale(theme) == {d \in DOMAIN theme.dependents : theme.dependents[d] < theme.epoch}

\* notifyStaleDependents: the list is taken before the first is rebuilt; an element
\* of it that is gone by then would be used after its end.
Notify(t, i, new) ==
  LET RebuildOne(acc, id) ==
        IF Place(acc, id) = 0 THEN [acc EXCEPT !.dangling = TRUE]
        ELSE Rebuild(acc, Place(acc, id), new)
  IN FoldLeft(RebuildOne, t, SetToSeq(Stale(t.els[i])))

\* Slip: a widget that is not a theme is left alone, and the rest of the chain with
\* it, although nobody is notified.
UpdatePruned(t, i, widget, new) ==
  LET put == [t EXCEPT !.els[i].data = widget.data]
  IN IF t.els[i].kind = "theme" THEN Rebuild(put, i, new) ELSE put

\* Element::update; a theme with other data begins an epoch (kept modulo the one
\* rebuild: every dependent is brought to epoch 0 again at the end).
Update(t, i, widget, new) ==
  LET notify == t.els[i].kind = "theme" /\ t.els[i].data # widget.data
      put == [t EXCEPT !.els[i].data = widget.data,
                       !.els[i].epoch = IF notify THEN 1 ELSE 0]
      done == Rebuild(put, i, new)
      told == IF notify THEN Notify(done, i, new) ELSE done
  IN [told EXCEPT !.els[i].epoch = 0,
                  !.els[i].dependents = [d \in DOMAIN told.els[i].dependents |-> 0]]

\* Element::updateChild at place i.
UpdateChild(t, i, widget, new) ==
  IF i <= Len(t.els) /\ t.els[IF i <= Len(t.els) THEN i ELSE 1].kind = widget.kind
  THEN Update(t, i, widget, new)
  ELSE LET bare == Unmount(t, i)
       IN Rebuild([bare EXCEPT !.els = Append(@, New(bare, widget))], i, new)

\* rebuild of the element at i, whichever its kind.
Rebuild(t, i, new) ==
  IF t.els[i].kind = "leaf" THEN t
  ELSE LET built == IF Reads(t.els[i]) THEN Read(t, i)
                    ELSE [t EXCEPT !.els[i].seen = Unread]
       IN UpdateChild(built, i + 1, Built(built, i, new), new)

-----------------------------------------------------------------------------

Tree == [els |-> elements, dangling |-> dangling]
Becomes(t) == elements' = t.els /\ dangling' = t.dangling

Root(new) == IF new = << >> THEN Widget("reader") ELSE Theme(new[1])

Init ==
  /\ themes = << >>
  /\ elements = UpdateChild([els |-> << >>, dangling |-> FALSE], 1, Root(<< >>), << >>).els
  /\ dangling = FALSE

\* setState of the host.
HostSetState ==
  \E new \in SeqOf(Data, MaxThemes) :
    /\ themes' = new
    /\ Becomes(UpdateChild(Tree, 1, Root(new), new))

\* setState of a reader: what it reads and what it builds.
ReaderSetState ==
  \E i \in DOMAIN elements, reads \in BOOLEAN, child \in {"reader", "label", "leaf"} :
    /\ elements[i].kind = "reader"
    /\ child # "leaf" => i < MaxThemes + MaxReaders
    /\ Becomes(Rebuild([Tree EXCEPT !.els[i].reads = reads, !.els[i].child = child],
                       i, themes))
    /\ UNCHANGED themes

Next == HostSetState \/ ReaderSetState

Spec == Init /\ [][Next]_vars

-----------------------------------------------------------------------------
(* Properties *)

\* Whoever reads has read what the nearest theme carries now, whatever chain of
\* rebuilds brought the two together.
ReadersAreCurrent ==
  \A i \in DOMAIN elements :
    LET j == Nearest(Tree, i)
    IN Reads(elements[i]) =>
         elements[i].seen = IF j = 0 THEN Unread ELSE elements[j].data

\* The dependents a theme notes are elements of the tree below it, and it is among
\* those they will sign off from; no destroyed element is ever called.
DependentsAreAlive ==
  /\ ~dangling
  /\ \A i \in DOMAIN elements, d \in ElementId :
       d \in DOMAIN elements[i].dependents <=>
         \E k \in i + 1 .. Len(elements) :
           elements[k].id = d /\ elements[i].id \in elements[k].inherited
=============================================================================
