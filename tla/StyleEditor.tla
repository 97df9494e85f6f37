------------------------------- MODULE StyleEditor -------------------------------
(***************************************************************************)
(* The style of a layer, in the field collector's web console.             *)
(*                                                                         *)
(*   apps/fc-web/src/components/style/StyleEditor.tsx, RuleEditor.tsx,     *)
(*   IconPicker.tsx, StylePreview.tsx, lib/style-engine.ts                 *)
(*   services/fc-api/internal/service/style_service.go, model Validate     *)
(*                                                                         *)
(* A style has a default look, rules that override it for the features     *)
(* they match, and a label.  Looks are numbers, 0 is one that is not set;  *)
(* a rule asks one field of a feature, whose values are numbers, 0 is no   *)
(* value.  An icon is "lucide", "geo" or "custom"; of an SVG only its presence *)
(* is kept.                                                                *)
(***************************************************************************)
EXTENDS Naturals, Sequences, SequencesExt

CONSTANTS
  Routes,
  Operators,     \* operators of RuleEditor.tsx that are used
  Values,        \* values of the field, and the ones rules compare with
  Colors,        \* colours, numbers above 0
  MaxRules,      \* bound: rules of a style
  MaxEdits,      \* bound: changes made in the editor
  MaxSaves       \* bound: saves

VARIABLES
  route,
  styles,        \* styles the server had, the last is the one it has
  serverStyle,   \* the one the editor fetched last, 0 before
  layer,         \* the layer as it was fetched: linked to a source table or not
  editor,        \* state of StyleEditor
  picker,        \* what IconPicker is open for: 0 the default, a rule, or nothing
  edits,         \* changes made so far
  saving         \* the styles that are being saved

styleVars == <<styles, serverStyle, layer, editor, picker, edits,
               saving>>
vars == <<route, styleVars>>

Icons == {"none", "lucide", "geo", "custom"}
Whens == [field : BOOLEAN, op : Operators, value : Values]
RuleType == [when : Whens, color : Colors \union {0}, icon : BOOLEAN]
StyleType == [color : Colors, icon : Icons, svg : BOOLEAN, rules : BoundedSeq(RuleType, MaxRules),
              label : {"none", "field", "nofield"}]
FirstStyle == [color |-> CHOOSE c \in Colors : TRUE, icon |-> "none", svg |-> FALSE,
               rules |-> << >>, label |-> "none"]
FirstRules ==
  {<< >>} \union {<<[when |-> [field |-> TRUE, op |-> op, value |-> v], color |-> c,
                    icon |-> FALSE]>> : op \in Operators, v \in Values, c \in Colors}
NoEditor == [style |-> FirstStyle, loaded |-> FALSE]
Closed == MaxRules + 1

Init ==
  /\ route \in Routes
  /\ \E rs \in FirstRules : styles = <<[FirstStyle EXCEPT !.rules = rs]>>
  /\ serverStyle = 0 /\ layer = "unknown"
  /\ editor = NoEditor /\ picker = Closed /\ edits = 0 /\ saving = {}

IsGeoLinked == layer = "linked"

-----------------------------------------------------------------------------
(* The style engine: the default, and the rules that match merged into it. *)

NoValue == 0
Compare(left, op, right) ==
  CASE op = "is_null" -> left = NoValue
    [] op = "is_not_null" -> left # NoValue
    [] left = NoValue -> FALSE
    [] op = "eq" -> left = right
    [] op = "neq" -> left # right
    [] op = "gt" -> left > right
    [] op = "lt" -> left < right
    [] op = "gte" -> left >= right
    [] op = "lte" -> left <= right

(* A rule without a field matches nothing. *)
EvaluateClause(when, value) == when.field /\ Compare(value, when.op, when.value)

MergeRule_First(look, rule) ==
  [color |-> IF look.ruled \/ rule.color = 0 THEN look.color ELSE rule.color, ruled |-> TRUE]
MergeRule(look, rule) ==
  [color |-> IF rule.color = 0 THEN look.color ELSE rule.color, ruled |-> TRUE]

ComputeFeatureStyle(style, value) ==
  LET rules == style.rules
      look[i \in 0..Len(rules)] ==
        IF i = 0 THEN [color |-> style.color, ruled |-> FALSE]
        ELSE IF EvaluateClause(rules[i].when, value) THEN MergeRule(look[i - 1], rules[i])
        ELSE look[i - 1]
  IN look[Len(rules)]

-----------------------------------------------------------------------------
(* Fetching the style and the layer.  A new style replaces what is edited. *)

StyleReturns ==
  /\ serverStyle # Len(styles)
  /\ serverStyle' = Len(styles)
  /\ editor' = [editor EXCEPT !.style = styles[Len(styles)], !.loaded = TRUE]
  /\ UNCHANGED <<styles, layer, picker, edits, saving>>

LayerReturns ==
  /\ layer = "unknown" /\ layer' \in {"plain", "linked"}
  /\ UNCHANGED <<styles, serverStyle, editor, picker, edits, saving>>

-----------------------------------------------------------------------------
(* The editor.  The rules have a tab unless the layer is known as linked.  *)

Edits == editor.loaded /\ picker = Closed
EditsRules == Edits /\ ~IsGeoLinked
SetStyle(s) == editor' = [editor EXCEPT !.style = s] /\ edits < MaxEdits /\ edits' = edits + 1
MoreUnchanged == UNCHANGED <<styles, serverStyle, layer, picker, saving>>

Reset ==
  /\ Edits /\ SetStyle(styles[serverStyle])
  /\ MoreUnchanged

UpdateColor(c) ==
  /\ Edits /\ SetStyle([editor.style EXCEPT !.color = c])
  /\ MoreUnchanged

(* What is typed or uploaded is not blank: two changes are made of the     *)
(* style as it was rendered, the SVG and the icon, and the last one counts.*)
TypeSvg ==
  /\ Edits
  /\ LET rendered == editor.style
         withSvg == [rendered EXCEPT !.svg = TRUE]
         withIcon == [rendered EXCEPT !.icon = "custom"]
     IN SetStyle(withIcon)
  /\ MoreUnchanged

ClearSvg ==
  /\ Edits /\ editor.style.svg
  /\ SetStyle([editor.style EXCEPT !.svg = FALSE])
  /\ MoreUnchanged

UpdateLabel(l) ==
  /\ Edits /\ SetStyle([editor.style EXCEPT !.label = l])
  /\ MoreUnchanged

Rules == editor.style.rules
SetRules(rs) == SetStyle([editor.style EXCEPT !.rules = rs])

AddRule ==
  /\ EditsRules /\ Len(Rules) < MaxRules
  /\ \E op \in Operators, v \in Values :
       SetRules(Append(Rules, [when |-> [field |-> FALSE, op |-> op, value |-> v],
                               color |-> CHOOSE c \in Colors : TRUE, icon |-> FALSE]))
  /\ MoreUnchanged

UpdateRule(i, when, color) ==
  /\ EditsRules /\ i \in DOMAIN Rules
  /\ SetRules([Rules EXCEPT ![i].when = when, ![i].color = color])
  /\ MoreUnchanged

RemoveRule(i) ==
  /\ EditsRules /\ i \in DOMAIN Rules /\ SetRules(RemoveAt(Rules, i))
  /\ MoreUnchanged

MoveRule(i, j) ==
  /\ EditsRules /\ {i, j} \subseteq DOMAIN Rules /\ (j = i + 1 \/ i = j + 1)
  /\ SetRules([Rules EXCEPT ![i] = Rules[j], ![j] = Rules[i]])
  /\ MoreUnchanged

-----------------------------------------------------------------------------
(* IconPicker, for the default or for the rule at a place. *)

OtherUnchanged == UNCHANGED <<styles, serverStyle, layer, saving>>
OpenPicker(i) ==
  /\ IF i = 0 THEN Edits ELSE EditsRules /\ i \in DOMAIN Rules
  /\ picker' = i /\ UNCHANGED <<editor, edits>> /\ OtherUnchanged

ClosePicker ==
  /\ picker # Closed /\ picker' = Closed
  /\ UNCHANGED <<editor, edits>> /\ OtherUnchanged

(* The place may be gone since the picker opened, when the style was       *)
(* fetched again: the handler throws, and nothing changes.                 *)
Picked(icon, svg) ==
  IF picker = 0
  THEN /\ SetStyle([editor.style EXCEPT !.icon = icon,
                      !.svg = IF svg THEN TRUE ELSE IF icon = "geo" THEN FALSE ELSE @])
       /\ picker' = Closed
  ELSE IF picker \in DOMAIN Rules
  THEN /\ SetRules([Rules EXCEPT ![picker].icon = TRUE])
       /\ picker' = Closed
  ELSE UNCHANGED <<editor, edits, picker>>

(* A symbol of the server, an icon of the list, or one that was uploaded;  *)
(* the last two are not offered for a linked layer.                        *)
HandleIconSelected(icon) ==
  /\ picker # Closed /\ (icon # "geo" => ~IsGeoLinked)
  /\ Picked(icon, FALSE) /\ OtherUnchanged

(* An SVG that was pasted, or read from a file. *)
HandleSvgSelected ==
  /\ picker # Closed /\ Picked("custom", TRUE) /\ OtherUnchanged

-----------------------------------------------------------------------------
(* Saving: the server refuses a rule without a field, a label without one. *)

Validate(s) == s.label # "nofield" /\ \A i \in DOMAIN s.rules : s.rules[i].when.field

Save ==
  /\ Edits /\ saving = {} /\ Len(styles) <= MaxSaves
  /\ saving' = {editor.style}
  /\ UNCHANGED <<styles, serverStyle, layer, editor, picker, edits>>

SaveReturns(s) ==
  /\ s \in saving /\ saving' = {}
  /\ styles' = IF Validate(s) /\ s # styles[Len(styles)] THEN Append(styles, s) ELSE styles
  /\ UNCHANGED <<serverStyle, layer, editor, picker, edits>>

SaveFails ==
  /\ saving # {} /\ saving' = {}
  /\ UNCHANGED <<styles, serverStyle, layer, editor, picker, edits>>

-----------------------------------------------------------------------------
EditStep ==
  \/ \E c \in Colors : UpdateColor(c)
  \/ \E l \in {"none", "field", "nofield"} : UpdateLabel(l)
  \/ Reset \/ TypeSvg \/ ClearSvg \/ AddRule
  \/ \E i \in 1..MaxRules, w \in Whens, c \in Colors \union {0} : UpdateRule(i, w, c)
  \/ \E i \in 1..MaxRules : RemoveRule(i)
  \/ \E i, j \in 1..MaxRules : MoveRule(i, j)

PickerStep ==
  \/ \E i \in 0..MaxRules : OpenPicker(i)
  \/ \E icon \in {"geo", "lucide", "custom"} : HandleIconSelected(icon)
  \/ ClosePicker \/ HandleSvgSelected

(* The tab shows this page, and goes on showing it. *)
Here == route = "style" /\ UNCHANGED route

Next ==
  /\ Here
  /\ \/ StyleReturns \/ LayerReturns \/ EditStep \/ PickerStep
     \/ Save \/ SaveFails \/ \E s \in saving : SaveReturns(s)

Spec == Init /\ [][Next]_vars

-----------------------------------------------------------------------------
TypeOK ==
  /\ route \in Routes
  /\ Range(styles) \union saving \union {editor.style} \subseteq StyleType
  /\ serverStyle \in 0..Len(styles) /\ layer \in {"unknown", "plain", "linked"}
  /\ editor.loaded \in BOOLEAN
  /\ edits \in 0..MaxEdits
  /\ picker \in 0..Closed

(* A feature has the colour of the last rule that matches it and sets one, *)
(* of the default when there is none, however the rules were edited and    *)
(* moved (computeFeatureStyle; "rules are evaluated in order, all matching *)
(* rules merge" of StyleEditor.tsx).                                       *)
RulesMergeInOrder ==
  \A v \in Values \union {NoValue} :
    LET setting == {i \in DOMAIN Rules : EvaluateClause(Rules[i].when, v) /\ Rules[i].color # 0}
    IN ComputeFeatureStyle(editor.style, v).color =
         IF setting = {} THEN editor.style.color
         ELSE Rules[CHOOSE i \in setting : \A j \in setting : j <= i].color
=============================================================================
