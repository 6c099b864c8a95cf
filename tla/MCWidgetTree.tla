---------------------------- MODULE MCWidgetTree ----------------------------
(* Two leaf types; lists that grow, shrink, leave gaps, change the type of *)
(* a slot before one that is kept, and move Expanded from slot to slot.    *)
EXTENDS WidgetTree

Plain(kind) == [flex |-> FALSE, kind |-> kind]
Expanded(kind) == [flex |-> TRUE, kind |-> kind]

MCLeaf == {"text", "box"}
MCLists ==
  { << >>,
    << Plain(Counter) >>,
    << Plain("text"), Expanded(Counter), Plain("text") >>,
    << Nothing, Expanded(Counter), Plain(Counter) >>,
    << Plain(Counter), Expanded("text") >>,
    << Expanded(Counter), Nothing, Plain("text") >> }
=============================================================================
