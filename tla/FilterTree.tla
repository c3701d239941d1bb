----------------------------- MODULE FilterTree -----------------------------
(***************************************************************************)
(* The filter list of one attribute: StringCacheTreeModel with its         *)
(* StringCacheTreeItems, the LogEntryRemoveFilter it feeds, and the        *)
(* context menu of the FilterListView that shows it.  The strings of the   *)
(* attribute, as the cache of the source meets them, are split into the    *)
(* parts of a path; the user selects and deselects items of the tree, and  *)
(* the strings of deselected items are filtered out of the table.          *)
(*                                                                         *)
(* An item is its path; an item is in the tree when a received string goes *)
(* through it, and has an original string when a received string ends      *)
(* there ("Undefined" otherwise).  The parts are numbers, sorted by the    *)
(* view like the names they stand for.                                     *)
(***************************************************************************)
EXTENDS Naturals, Sequences, FiniteSets

CONSTANT Strings  \* the strings of the attribute, as paths

ASSUME StringsAssumption ==
  \A s \in Strings : s \in Seq(Nat) /\ s # <<>>

VARIABLES
  received,      \* the strings newStringElement has been called with
  checkedSelf,   \* m_checkedSelf of every item
  checkedChilds, \* m_checkedChilds of every item
  removeStrings, \* m_removeStrings of the filter
  menu           \* the index an open context menu acts on, NoMenu if none is open

treeVars == <<checkedSelf, checkedChilds>>
vars == <<received, treeVars, removeStrings, menu>>

Check == {"Inherit", "Checked", "Unchecked"}

Root == <<>>

\* The paths from the first item below the root down to s.
PathTo(s) == {SubSeq(s, 1, n) : n \in 1..Len(s)}

Paths == UNION {PathTo(s) : s \in Strings}

Items == UNION {PathTo(s) : s \in received}

Above(i) == {Root} \cup (PathTo(i) \ {i})

Parent(i) == SubSeq(i, 1, Len(i) - 1)

Below(i) == {j \in Items : j # i /\ i \in PathTo(j)}

Siblings(i) == {j \in Items : j # i /\ Parent(j) = Parent(i)}

NoMenu == [parent |-> Root, row |-> 0]

TypeOK ==
  /\ received \subseteq Strings
  /\ checkedSelf \in [Paths \cup {Root} -> Check]
  /\ checkedChilds \in [Paths \cup {Root} -> Check]
  /\ removeStrings \subseteq received
  /\ menu \in [parent : Items \cup {Root}, row : Nat]

Init ==
  /\ received = {}
  /\ checkedSelf = [i \in Paths \cup {Root} |-> "Inherit"]
  /\ checkedChilds = [i \in Paths \cup {Root} |-> "Inherit"]
  /\ removeStrings = {}
  /\ menu = NoMenu

-----------------------------------------------------------------------------
(* StringCacheTreeItem::getCheckState.  The loop from the parent up to the *)
(* root overwrites: the topmost item that does not inherit decides.        *)

Forcing(i) == {a \in Above(i) : checkedChilds[a] # "Inherit"}

Forced(i) == Forcing(i) # {}

IsChecked(i) ==
  IF Forced(i)
    THEN \E a \in Forcing(i) : /\ \A b \in Forcing(i) : Len(a) <= Len(b)
                               /\ checkedChilds[a] = "Checked"
    ELSE checkedSelf[i] # "Unchecked"

\* Faulty variant: items that only have deselected children are not noticed.
SelfDeselects(i) == checkedSelf[i] = "Unchecked"

\* An item that makes the items above it show a partial check mark.
Deselects(i) ==
  \/ checkedSelf[i] = "Unchecked"
  \/ checkedChilds[i] = "Unchecked" /\ Below(i) # {}

\* The recursion goes down through the items whose children inherit.
IsPartial(i) ==
  /\ ~Forced(i) /\ checkedChilds[i] = "Inherit"
  /\ \E d \in Below(i) :
       Deselects(d) /\ \A m \in Above(d) \cap Below(i) : checkedChilds[m] = "Inherit"

-----------------------------------------------------------------------------
(* StringCacheTreeModel::updateFilters, the last step of every change.     *)

Deselected == {s \in received : ~IsChecked(s)}

UpdateFilters ==
  removeStrings' = (removeStrings \ (received' \ Deselected')) \cup Deselected'

\* Faulty variant: a new string is put into the tree only.
NewStringUnfiltered(s) ==
  /\ s \in Strings \ received
  /\ received' = received \cup {s}
  /\ UNCHANGED <<treeVars, removeStrings, menu>>

\* newStringElement, called by the cache once for each string: items on the way that
\* are not in the tree yet are made and inherit.  It may come while a menu is open.
NewStringElement(s) ==
  /\ s \in Strings \ received
  /\ received' = received \cup {s}
  /\ UNCHANGED <<treeVars, menu>>
  /\ UpdateFilters

-----------------------------------------------------------------------------
(* The operations of setData on item i.                                    *)

\* Qt::CheckStateRole: a click on the check box of an item that is not forced.
NextChecked(i) ==
  LET next == IF checkedSelf[i] = "Checked" THEN "Unchecked"
              ELSE IF checkedSelf[i] = "Unchecked" THEN "Inherit"
              ELSE IF IsPartial(i) THEN "Checked" ELSE "Unchecked"
  IN IF Forced(i) THEN UNCHANGED treeVars
     ELSE /\ checkedSelf' = [checkedSelf EXCEPT ![i] = next]
          /\ checkedChilds' = [checkedChilds EXCEPT ![i] = next]

SetCheckedSelf(i, check) ==
  /\ checkedSelf' = [checkedSelf EXCEPT ![i] = check]
  /\ UNCHANGED checkedChilds

RecursiveSetTree(i, self, child) ==
  /\ checkedSelf' = [j \in DOMAIN checkedSelf |->
                       IF j \in {i} \cup Below(i) THEN self ELSE checkedSelf[j]]
  /\ checkedChilds' = [j \in DOMAIN checkedChilds |->
                         IF j \in {i} \cup Below(i) THEN child ELSE checkedChilds[j]]

\* Faulty variant: only the siblings of the item itself are deselected.
CheckOnlyAmongSiblings(i, includeTreepath) ==
  /\ checkedSelf' = [j \in DOMAIN checkedSelf |->
       IF j = i THEN "Checked"
       ELSE IF j \in Siblings(i) THEN "Unchecked"
       ELSE IF j \in PathTo(i) THEN IF includeTreepath THEN "Inherit" ELSE "Unchecked"
       ELSE checkedSelf[j]]
  /\ checkedChilds' = [j \in DOMAIN checkedChilds |->
       IF j = i THEN "Checked"
       ELSE IF j \in Siblings(i) THEN "Unchecked"
       ELSE IF j \in PathTo(i) THEN "Inherit"
       ELSE checkedChilds[j]]

\* From the item up: the items of the path inherit or are deselected, the siblings of
\* each are deselected.
CheckOnlyThisElement(i, includeTreepath) ==
  LET aside == UNION {Siblings(j) : j \in PathTo(i)} IN
    /\ checkedSelf' = [j \in DOMAIN checkedSelf |->
         IF j = i THEN "Checked"
         ELSE IF j \in aside THEN "Unchecked"
         ELSE IF j \in PathTo(i) THEN IF includeTreepath THEN "Inherit" ELSE "Unchecked"
         ELSE checkedSelf[j]]
    /\ checkedChilds' = [j \in DOMAIN checkedChilds |->
         IF j = i THEN "Checked"
         ELSE IF j \in aside THEN "Unchecked"
         ELSE IF j \in PathTo(i) THEN "Inherit"
         ELSE checkedChilds[j]]

\* getRootElement()->recursiveSetTree(Inherit), the root included.
ResetAll ==
  /\ checkedSelf' = [j \in DOMAIN checkedSelf |-> "Inherit"]
  /\ checkedChilds' = [j \in DOMAIN checkedChilds |-> "Inherit"]

\* The entries of the context menu.
SelectThis(i) == SetCheckedSelf(i, "Checked")
DeselectThis(i) == SetCheckedSelf(i, "Unchecked")
SelectOnlyThisWithPath(i) == CheckOnlyThisElement(i, TRUE)
SelectOnlyThisWithoutPath(i) == CheckOnlyThisElement(i, FALSE)
CheckTree(i) == RecursiveSetTree(i, "Inherit", "Inherit")
UncheckTree(i) == RecursiveSetTree(i, "Unchecked", "Inherit")

-----------------------------------------------------------------------------
(* The view.  Its sorted proxy numbers the children of an item by name;    *)
(* the index a menu was opened with is such a number.                      *)

Row(i) == 1 + Cardinality({j \in Siblings(i) : j[Len(j)] < i[Len(i)]})

ItemAt(index) == CHOOSE i \in Items : Parent(i) = index.parent /\ Row(i) = index.row

\* A click on a check box.
Toggle(i) ==
  /\ menu = NoMenu
  /\ NextChecked(i)
  /\ UNCHANGED <<received, menu>>
  /\ UpdateFilters

OpenMenu(i) ==
  /\ menu = NoMenu
  /\ menu' = [parent |-> Parent(i), row |-> Row(i)]
  /\ UNCHANGED <<received, treeVars, removeStrings>>

\* exec() of the menu returns with an entry, and setData gets the old index.
ContextMenuPopup ==
  /\ menu # NoMenu
  /\ LET i == ItemAt(menu) IN
       \/ SelectThis(i)
       \/ DeselectThis(i)
       \/ SelectOnlyThisWithPath(i)
       \/ SelectOnlyThisWithoutPath(i)
       \/ ResetAll
       \/ CheckTree(i)
       \/ UncheckTree(i)
  /\ menu' = NoMenu
  /\ UNCHANGED received
  /\ UpdateFilters

CloseMenu ==
  /\ menu # NoMenu
  /\ menu' = NoMenu
  /\ UNCHANGED <<received, treeVars, removeStrings>>

Next ==
  \/ \E s \in Strings : NewStringElement(s)
  \/ \E i \in Items : Toggle(i) \/ OpenMenu(i)
  \/ ContextMenuPopup
  \/ CloseMenu

Spec == Init /\ [][Next]_vars

-----------------------------------------------------------------------------
(* Properties.                                                             *)

\* The filter refuses exactly the strings whose items are deselected, whether by the
\* item itself or by one above it, before the string was seen or after.
FilterMatchesTree == removeStrings = Deselected

\* The check mark tells the truth about the items below: where children inherit, it is
\* partial if and only if an item below is deselected.
PartialTellsTruth ==
  \A i \in Items : ~Forced(i) /\ checkedChilds[i] = "Inherit" =>
    (IsPartial(i) <=> \E d \in Below(i) : ~IsChecked(d))

\* "Selects only this element including the path to this element": all that stays
\* selected is the item, what is below it, and the path if it is to be included.
OnlyThisIsSelected ==
  [][\A i \in Items, path \in BOOLEAN :
       CheckOnlyThisElement(i, path) =>
         {j \in Items : IsChecked(j)'} =
           {i} \cup Below(i) \cup (IF path THEN PathTo(i) ELSE {})]_vars
=============================================================================
