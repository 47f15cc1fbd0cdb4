------------------------------- MODULE Sigma -------------------------------
(***************************************************************************)
(* The rule evaluator (orchestrator/detection.py).                          *)
(*                                                                          *)
(* An event maps field names to values.  A text is the sequence of those of *)
(* its pieces that some rule names: it contains each of them, ends with the *)
(* last one and starts with the first; letter case never counts.  A field   *)
(* that is None is left out of the event, as event.get does not tell them   *)
(* apart.  A pattern such as "selection_*" stands for the names it fits.    *)
(***************************************************************************)
EXTENDS Naturals, Sequences

\* _field_match, and the boolean targets of _matches_selection.
FieldMatch(v, op, target) ==
    CASE op = "is"         -> v = <<target>>
      [] op = "endswith"   -> v # << >> /\ v[Len(v)] = target
      [] op = "startswith" -> v # << >> /\ Head(v) = target
      [] op = "contains"   -> \E i \in DOMAIN v : v[i] = target
      [] op = "gt"         -> v > target
      [] op = "gte"        -> v >= target
      [] op = "lt"         -> v < target
      [] op = "lte"        -> v <= target
      [] op = "bool"       -> (v # << >>) = target

\* The entries of a selection: the field with its modifiers, and the targets.
Item(field, op, all, targets) == [field |-> field, op |-> op, all |-> all, targets |-> targets]
Is(field, targets) == Item(field, "is", FALSE, targets)
Ends(field, targets) == Item(field, "endswith", FALSE, targets)
Has(field, targets) == Item(field, "contains", FALSE, targets)
HasAll(field, targets) == Item(field, "contains", TRUE, targets)
Over(field, n) == Item(field, "gt", FALSE, {n})

\* An entry of a selection: any of its targets, or with |all each one.
MatchesItem(event, i) ==
    /\ i.field \in DOMAIN event
    /\ IF i.all THEN \A t \in i.targets : FieldMatch(event[i.field], i.op, t)
                ELSE \E t \in i.targets : FieldMatch(event[i.field], i.op, t)

\* _matches_selection: every entry.
MatchesSelection(event, selection) == \A i \in selection : MatchesItem(event, i)

-----------------------------------------------------------------------------
\* The parts of a condition: "name", "1 of ..." and "all of ...".
Name(n) == [of |-> "name", names |-> {n}]
OneOf(names) == [of |-> "one", names |-> names]
AllOf(names) == [of |-> "all", names |-> names]

\* A mutation of EvalAtom: "1 of" asks for every selection.
EvalAtomEvery(m, atom) ==
    LET fits == atom.names \cap DOMAIN m
    IN  fits # {} /\ \A n \in fits : m[n]

\* _eval_atom: m tells which selections matched; a name m lacks is no match.
EvalAtom(m, atom) ==
    LET fits == atom.names \cap DOMAIN m
    IN  IF atom.of = "all" THEN fits # {} /\ \A n \in fits : m[n]
                           ELSE \E n \in fits : m[n]

\* evaluate: of the bare names only "selection" is a condition.
Evaluate(rule, event) ==
    LET m == [n \in DOMAIN rule.selections |-> MatchesSelection(event, rule.selections[n])]
        c == rule.condition
    IN  CASE c.op = "alone" -> /\ c.base.of = "name" => c.base.names = {"selection"}
                               /\ EvalAtom(m, c.base)
          [] c.op = "and_not" -> EvalAtom(m, c.base) /\ ~EvalAtom(m, c.filter)
          [] c.op = "or" -> \E a \in c.parts : EvalAtom(m, a)
          [] c.op = "count" -> EvalAtom(m, c.base)     \* the count is assumed met
          [] OTHER -> FALSE

-----------------------------------------------------------------------------
\* The shapes the simulator's own rules have.
Plain(items) ==
    [selections |-> [selection |-> items], condition |-> [op |-> "alone", base |-> Name("selection")]]
OneOfSelections(selections) ==
    [selections |-> selections, condition |-> [op |-> "alone", base |-> OneOf(DOMAIN selections)]]
Filtered(items, filter) ==
    [selections |-> [selection |-> items, filter |-> filter],
     condition |-> [op |-> "and_not", base |-> Name("selection"), filter |-> Name("filter")]]
Either(selections) ==
    [selections |-> selections,
     condition |-> [op |-> "or", parts |-> {Name(n) : n \in DOMAIN selections}]]
Counted(items) ==
    [selections |-> [selection |-> items], condition |-> [op |-> "count", base |-> Name("selection")]]

\* evaluate_many: the events the rule matches, by index.
EvaluateMany(rule, events) == {i \in DOMAIN events : Evaluate(rule, events[i])}
=============================================================================
