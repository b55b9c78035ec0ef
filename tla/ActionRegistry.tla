--------------------------- MODULE ActionRegistry ---------------------------
(***************************************************************************)
(* The action space of a page. A page is the elements of its document in   *)
(* order, of which those that are scanned become a list of actions that is *)
(* cut to MaxActions. An element is [kind, id, name, enabled, visible,     *)
(* onScreen, options]; id and name may be NoName. An action's index is its *)
(* position, counted from 0.                                               *)
(***************************************************************************)
EXTENDS Integers, Sequences, FiniteSets, SequencesExt

CONSTANTS
  MaxActions,   \* MAX_ACTIONS
  NoName        \* an id or a name the element does not have

NoElement == 0

Kinds == {"link", "button", "submit", "push", "toggle", "select", "textarea", "text",
          "other", "anchor", "plain"}

\* "submit", "push" (type=button), "toggle", "text" and "other" (hidden, file,
\* ...) are all <input>; an "anchor" is an <a> without href.
TagOf(kind) ==
  CASE kind \in {"link", "anchor"} -> "a"
    [] kind \in {"button", "select", "textarea", "plain"} -> kind
    [] OTHER -> "input"

\* SCAN_SELECTOR, and scan_page_elements: what is scanned of a document.
IsScanned(e) == e.kind \notin {"anchor", "plain"}

ScannedOf(elements) == {n \in 1 .. Len(elements) : IsScanned(elements[n])}

\* The place of an element in the scan.
IndexOf(elements, n) == Cardinality({k \in ScannedOf(elements) : k <= n})

-----------------------------------------------------------------------------
(* Selectors.                                                              *)

\* Fault: the position is counted among the elements that can be used.
SelectorAmongUsable(elements, n) ==
  LET e == elements[n]
      usable == {k \in ScannedOf(elements) :
                   k <= n /\ elements[k].enabled /\ elements[k].visible}
  IN IF e.id # NoName THEN <<"id", e.id>>
     ELSE IF e.name # NoName THEN <<"name", TagOf(e.kind), e.name>>
     ELSE <<"nth", Cardinality(usable)>>

\* _selector_for: by id, else by tag and name, else by position in the scan.
SelectorFor(elements, n) ==
  LET e == elements[n]
  IN IF e.id # NoName THEN <<"id", e.id>>
     ELSE IF e.name # NoName THEN <<"name", TagOf(e.kind), e.name>>
     ELSE <<"nth", IndexOf(elements, n)>>

\* A selector is looked for in the whole document, not only among what was scanned.
Matches(elements, n, selector) ==
  CASE selector[1] = "id" -> elements[n].id = selector[2]
    [] selector[1] = "name" -> /\ TagOf(elements[n].kind) = selector[2]
                               /\ elements[n].name = selector[3]
    [] selector[1] = "nth" -> /\ IsScanned(elements[n])
                              /\ IndexOf(elements, n) = selector[2]

\* page.locator(selector).first; NoElement is the timeout.
FirstMatch(elements, selector) ==
  LET matching == {n \in DOMAIN elements : Matches(elements, n, selector)}
  IN IF matching = {} THEN NoElement
     ELSE CHOOSE n \in matching : \A k \in matching : n <= k

-----------------------------------------------------------------------------
(* build_action_specs.                                                     *)

Spec0(action) ==
  [action |-> action, element |-> NoElement, selector |-> <<>>, value |-> "none"]

\* _fixed_action_specs: the actions every page has, NO_OP first.
FixedActionSpecs ==
  <<Spec0("NO_OP"), Spec0("SCROLL"), Spec0("SCROLL"), Spec0("RESIZE_VIEWPORT"),
    Spec0("RESIZE_VIEWPORT"), Spec0("RESIZE_VIEWPORT"), Spec0("BROWSER_BACK"),
    Spec0("BROWSER_FORWARD"), Spec0("REFRESH")>>

\* [x for x in list if x in wanted]
Filter(list, wanted) ==
  LET kept[n \in 0 .. Len(list)] ==
        IF n = 0 THEN <<>>
        ELSE IF list[n] \in wanted THEN Append(kept[n - 1], list[n]) ELSE kept[n - 1]
  IN kept[Len(list)]

\* The scanned elements that can be used, those on screen first.
OrderedElements(elements) ==
  LET positions == [n \in 1 .. Len(elements) |-> n]
      usable == {n \in ScannedOf(elements) : elements[n].enabled /\ elements[n].visible}
      onScreen == {n \in usable : elements[n].onScreen}
  IN Filter(positions, onScreen) \o Filter(positions, usable \ onScreen)

\* generate_input_value: every type of field has a value of each category; the
\* values themselves do not matter.
TypicalValue == <<"valid_typical">>
EdgeValues == <<"boundary_min", "boundary_max", "empty_string", "type_mismatch">>

Bucket(elements, kinds, action, values) ==
  LET offered == {n \in 1 .. Len(elements) :
                     /\ elements[n].kind \in kinds
                     /\ action = "SELECT" => elements[n].options}
      Specs(n) == [v \in DOMAIN values |->
                     [action |-> action, element |-> n,
                      selector |-> SelectorFor(elements, n), value |-> values[v]]]
      chosen == Filter(OrderedElements(elements), offered)
  IN FlattenSeq([k \in DOMAIN chosen |-> Specs(chosen[k])])

\* Clicks, then one typical value for every field, selects and rapid clicks,
\* and last the values at the edge of what a field takes.
DynamicActionSpecs(elements) ==
  Bucket(elements, {"link", "button", "submit", "push", "toggle"}, "CLICK", <<"none">>)
    \o Bucket(elements, {"text", "textarea"}, "TYPE", TypicalValue)
    \o Bucket(elements, {"select"}, "SELECT", <<"last_option">>)
    \o Bucket(elements, {"button", "submit"}, "RAPID_CLICK", <<"none">>)
    \o Bucket(elements, {"text", "textarea"}, "TYPE", EdgeValues)

Upto(list, n) == SubSeq(list, 1, IF Len(list) < n THEN Len(list) ELSE n)

\* Fault: what does not fit is not dropped.
BuildActionSpecsAll(elements) == FixedActionSpecs \o DynamicActionSpecs(elements)

BuildActionSpecs(elements) ==
  FixedActionSpecs
    \o Upto(DynamicActionSpecs(elements), MaxActions - Len(FixedActionSpecs))

-----------------------------------------------------------------------------
(* The use of the list.                                                    *)

\* action_mask: the valid actions are the leading ones.
ActionMask(count) ==
  {a \in 0 .. MaxActions - 1 : a < count}

\* _resolve_action: an index past the list is a no-op.
ResolveAction(specs, a) ==
  IF a < Len(specs) THEN specs[a + 1] ELSE Spec0("NO_OP")
=============================================================================
