------------------------------- MODULE FormEditing -------------------------------
(***************************************************************************)
(* Editing and publishing a form in the field collector's web console.     *)
(*                                                                         *)
(*   apps/fc-web/src/pages/FormBuilderPage.tsx with the components of      *)
(*     components/form-builder, pages/FormDetailPage.tsx,                  *)
(*   components/layer/LayerFieldsTab.tsx, LayerFieldEditDrawer.tsx,        *)
(*     LayerPublishBanner.tsx                                              *)
(*   services/fc-api/internal/service/form_service.go (Update, Publish)    *)
(*                                                                         *)
(* A form is a sequence of versions, each a schema.  Of a field the id is  *)
(* kept, a number, 0 when it was cleared; what else a field lacks makes    *)
(* the server refuse a schema, which it may do for any.  The pages share   *)
(* one cached copy of the form, known by its version.                      *)
(***************************************************************************)
EXTENDS Naturals, FiniteSets, Sequences, SequencesExt

CONSTANTS
  Routes,
  MaxId,         \* ids are 0..MaxId
  CounterGap,    \* the counter starts that far after the loaded fields (10)
  MaxCounter,    \* bound: the counter
  MaxFields,     \* bound: fields of a form
  MaxVersions,   \* bound: versions stored
  MaxOut,        \* bound: saves and publications out at a time
  Texts          \* contents of the text area of the import dialog

VARIABLES
  route,
  versions,      \* the server's versions of the form: schema and draft flag
  cached,        \* version the pages have, 0 before the first fetch
  refetch,       \* the fetch that is out: the version it answers with
  page,          \* which of the three pages is shown
  builder,       \* state of FormBuilderPage
  fieldCounter,  \* its counter, which survives the page
  importer,      \* state of FormImportDialog
  drawer,        \* state of LayerFieldEditDrawer
  updates,       \* schemas that are being saved
  publishing     \* versions that are being published

formVars == <<versions, cached, refetch, page, builder, fieldCounter, importer, drawer,
              updates, publishing>>
vars == <<route, formVars>>

FieldIds == 0..MaxId
Schemas == BoundedSeq(FieldIds, MaxFields)
NoField == MaxId + 1
NoBuilder == [fields |-> << >>, selected |-> NoField]
NoImporter == [open |-> FALSE, mode |-> "csv", text |-> CHOOSE t \in Texts : TRUE,
               parsed |-> << >>, reading |-> FALSE]
NoDrawer == [field |-> 0, draft |-> 0]

Init ==
  /\ route \in Routes
  /\ versions = <<[schema |-> <<1>>, draft |-> TRUE]>>
  /\ cached = 0 /\ refetch = 0 /\ page = "detail"
  /\ builder = NoBuilder /\ fieldCounter = 0 /\ importer = NoImporter
  /\ drawer = NoDrawer /\ updates = {} /\ publishing = {}

Latest == Len(versions)
Stored(v) == IF v = 0 THEN << >> ELSE versions[v].schema

-----------------------------------------------------------------------------
(* The cached form, and the effect of the builder that loads it: what is   *)
(* on screen is replaced whenever the copy is a new one.                   *)

Loads(v) ==
  /\ builder' = [builder EXCEPT !.fields = Stored(v)]
  /\ fieldCounter' = Len(Stored(v)) + CounterGap

Ask == refetch' = Latest
FetchReturns ==
  /\ refetch # 0 /\ refetch' = 0 /\ cached' = refetch
  /\ IF page = "builder" /\ refetch # cached THEN Loads(refetch)
     ELSE UNCHANGED <<builder, fieldCounter>>
  /\ UNCHANGED <<versions, page, importer, drawer, updates, publishing>>

FetchFails ==
  /\ refetch # 0 /\ refetch' = 0
  /\ UNCHANGED <<versions, cached, page, builder, fieldCounter, importer, drawer, updates,
                 publishing>>

(* Leaving a page drops its state; entering one fetches the form. *)
GoTo(p) ==
  /\ page # p /\ page' = p /\ Ask
  /\ drawer' = NoDrawer /\ importer' = NoImporter
  /\ IF p = "builder" /\ cached # 0
     THEN /\ builder' = [NoBuilder EXCEPT !.fields = Stored(cached)]
          /\ fieldCounter' = Len(Stored(cached)) + CounterGap
     ELSE builder' = NoBuilder /\ UNCHANGED fieldCounter
  /\ UNCHANGED <<versions, cached, updates, publishing>>

-----------------------------------------------------------------------------
(* FormBuilderPage. *)

Building == page = "builder" /\ ~importer.open
SelectedIs(f) == builder.selected = f
MayAsk == Cardinality(updates) + Cardinality(publishing) < MaxOut
RestUnchanged == UNCHANGED <<versions, cached, refetch, page, drawer, updates, publishing>>

(* A field dragged from the palette. *)
AddField ==
  /\ Building /\ Len(builder.fields) < MaxFields /\ fieldCounter < MaxId
  /\ fieldCounter' = fieldCounter + 1
  /\ builder' = [builder EXCEPT
       !.fields = Append(@, fieldCounter + 1),
       !.selected = fieldCounter + 1]
  /\ UNCHANGED importer /\ RestUnchanged

SelectField(i) ==
  /\ Building /\ i \in DOMAIN builder.fields
  /\ builder' = [builder EXCEPT !.selected = builder.fields[i]]
  /\ UNCHANGED <<fieldCounter, importer>> /\ RestUnchanged

(* FieldSettingsPanel hands back the field changed; every field with the   *)
(* selected id becomes it.                                                 *)
ChangeField(f) ==
  /\ Building /\ \E i \in DOMAIN builder.fields : SelectedIs(builder.fields[i])
  /\ builder' = [builder EXCEPT
       !.fields = [i \in DOMAIN @ |-> IF SelectedIs(@[i]) THEN f ELSE @[i]],
       !.selected = f]
  /\ UNCHANGED <<fieldCounter, importer>> /\ RestUnchanged

(* filter: the fields with other ids, in their order. *)
Without(fields, id) ==
  LET stay == {i \in DOMAIN fields : fields[i] # id}
      nth(n) == CHOOSE i \in stay : Cardinality({j \in stay : j <= i}) = n
  IN  [n \in 1..Cardinality(stay) |-> fields[nth(n)]]

DeleteField(id) ==
  /\ Building /\ \E i \in DOMAIN builder.fields : builder.fields[i] = id
  /\ builder' = [builder EXCEPT !.fields = Without(@, id),
                                !.selected = IF @ = id THEN NoField ELSE @]
  /\ UNCHANGED <<fieldCounter, importer>> /\ RestUnchanged

(* arrayMove; dropped on the canvas itself, a field goes to the end. *)
MoveField(from, to) ==
  /\ Building /\ {from, to} \subseteq DOMAIN builder.fields
  /\ builder' = [builder EXCEPT
       !.fields = InsertAt(RemoveAt(@, from), to, @[from])]
  /\ UNCHANGED <<fieldCounter, importer>> /\ RestUnchanged

(* updateForm, with the fields on screen when Save is pressed.  Only one   *)
(* save of the builder is out.                                             *)
Save ==
  /\ Building /\ MayAsk /\ \A u \in updates : u.from # "builder"
  /\ updates' = updates \union {[from |-> "builder", schema |-> builder.fields]}
  /\ UNCHANGED <<versions, cached, refetch, page, builder, fieldCounter, importer, drawer,
                 publishing>>

-----------------------------------------------------------------------------
(* FormImportDialog: what is parsed is shown, then appended. *)

OpenImport ==
  /\ Building /\ importer' = [NoImporter EXCEPT !.open = TRUE]
  /\ UNCHANGED <<builder, fieldCounter>> /\ RestUnchanged

CloseImport ==
  /\ importer.open /\ importer' = NoImporter
  /\ UNCHANGED <<builder, fieldCounter>> /\ RestUnchanged

SetText(t, m) == importer' = [importer EXCEPT !.text = t, !.mode = m, !.parsed = << >>]

(* Typing, loading a template, or switching the format. *)
ChangeText(t, m) ==
  /\ importer.open /\ SetText(t, m)
  /\ UNCHANGED <<builder, fieldCounter>> /\ RestUnchanged

ReadFile ==
  /\ importer.open /\ ~importer.reading
  /\ importer' = [importer EXCEPT !.reading = TRUE]
  /\ UNCHANGED <<builder, fieldCounter>> /\ RestUnchanged

(* FileReader.onload, whenever the file is read. *)
FileRead(t, m) ==
  /\ importer.open /\ importer.reading
  /\ importer' = [importer EXCEPT !.text = t, !.mode = m, !.parsed = << >>, !.reading = FALSE]
  /\ UNCHANGED <<builder, fieldCounter>> /\ RestUnchanged

Parse ==
  /\ importer.open /\ importer.parsed = << >>
  /\ importer' = [importer EXCEPT !.parsed = <<importer.text, importer.mode>>]
  /\ UNCHANGED <<builder, fieldCounter>> /\ RestUnchanged

(* The imported ids are those of the text, taken already or not. *)
ImportFields(new) ==
  /\ importer.open /\ importer.parsed # << >>
  /\ Len(builder.fields) + Len(new) <= MaxFields /\ fieldCounter + Len(new) <= MaxCounter
  /\ builder' = [builder EXCEPT !.fields = @ \o new]
  /\ fieldCounter' = fieldCounter + Len(new)
  /\ importer' = NoImporter
  /\ RestUnchanged

-----------------------------------------------------------------------------
(* LayerFieldsTab and its drawer, which changes one field. *)

EditField(i) ==
  /\ page = "fields" /\ drawer.field = 0 /\ i \in DOMAIN Stored(cached)
  /\ drawer' = [field |-> i, draft |-> Stored(cached)[i]]
  /\ UNCHANGED <<versions, cached, refetch, page, builder, fieldCounter, importer, updates,
                 publishing>>

ChangeDraft(f) ==
  /\ drawer.field # 0 /\ drawer' = [drawer EXCEPT !.draft = f]
  /\ UNCHANGED <<versions, cached, refetch, page, builder, fieldCounter, importer, updates,
                 publishing>>

CloseDrawer ==
  /\ drawer.field # 0 /\ drawer' = NoDrawer
  /\ UNCHANGED <<versions, cached, refetch, page, builder, fieldCounter, importer, updates,
                 publishing>>

(* The field whose id is the draft's is replaced, in the copy at hand. *)
SaveField ==
  /\ drawer.field # 0 /\ MayAsk /\ \A u \in updates : u.from # "drawer"
  /\ LET old == Stored(cached) IN
     updates' = updates \union
       {[from |-> "drawer",
         schema |-> [i \in DOMAIN old |-> IF old[i] = drawer.draft THEN drawer.draft
                                          ELSE old[i]]]}
  /\ UNCHANGED <<versions, cached, refetch, page, builder, fieldCounter, importer, drawer,
                 publishing>>

-----------------------------------------------------------------------------
(* The server: Update stores a schema that is valid as the next version, a *)
(* draft; Publish makes one version the published one.                     *)

Valid_NoDuplicates(schema) == \A i \in DOMAIN schema : schema[i] # 0
Valid(schema) ==
  /\ \A i \in DOMAIN schema : schema[i] # 0
  /\ \A i, j \in DOMAIN schema : schema[i] = schema[j] => i = j

Update(schema) ==
  /\ Latest < MaxVersions
  /\ versions' = Append(versions, [schema |-> schema, draft |-> TRUE])

UpdateReturns(u) ==
  /\ u \in updates /\ updates' = updates \ {u}
  /\ Valid(u.schema) /\ Update(u.schema)
  /\ refetch' = Len(versions')
  /\ drawer' = IF u.from = "drawer" THEN NoDrawer ELSE drawer
  /\ UNCHANGED <<cached, page, builder, fieldCounter, importer, publishing>>

UpdateFails(u) ==
  /\ u \in updates /\ updates' = updates \ {u}
  /\ UNCHANGED <<versions, cached, refetch, page, builder, fieldCounter, importer, drawer,
                 publishing>>

(* Publish of FormDetailPage names a version; the banner of a layer        *)
(* publishes the latest.                                                   *)
PublishVersion(v) ==
  /\ v \in 1..Latest /\ versions[v].draft /\ MayAsk
  /\ IF page = "detail" THEN publishing = {} ELSE page = "fields" /\ v = Latest
  /\ publishing' = publishing \union {v}
  /\ UNCHANGED <<versions, cached, refetch, page, builder, fieldCounter, importer, drawer,
                 updates>>

PublishReturns(v) ==
  /\ v \in publishing /\ publishing' = publishing \ {v}
  /\ versions' = [versions EXCEPT ![v].draft = FALSE] \/ UNCHANGED versions
  /\ Ask
  /\ UNCHANGED <<cached, page, builder, fieldCounter, importer, drawer, updates>>

-----------------------------------------------------------------------------
BuilderStep ==
  \/ AddField
  \/ \E f \in FieldIds : ChangeField(f)
  \/ \E i \in 1..MaxFields : SelectField(i)
  \/ \E id \in FieldIds : DeleteField(id)
  \/ \E i, j \in 1..MaxFields : MoveField(i, j)
  \/ Save

ImportStep ==
  \/ OpenImport \/ CloseImport \/ ReadFile \/ Parse
  \/ \E t \in Texts, m \in {"csv", "json"} : ChangeText(t, m) \/ FileRead(t, m)
  \/ \E f \in FieldIds : ImportFields(<<f>>)

DrawerStep ==
  \/ \E i \in 1..MaxFields : EditField(i)
  \/ \E f \in FieldIds : ChangeDraft(f)
  \/ CloseDrawer \/ SaveField

(* The tab shows this page, and goes on showing it. *)
Here == route = "form" /\ UNCHANGED route

Next ==
  /\ Here
  /\ \/ \E p \in {"detail", "builder", "fields"} : GoTo(p)
     \/ FetchReturns \/ FetchFails
     \/ BuilderStep \/ ImportStep \/ DrawerStep
     \/ \E u \in updates : UpdateReturns(u) \/ UpdateFails(u)
     \/ \E v \in 1..MaxVersions : PublishVersion(v) \/ PublishReturns(v)

Spec == Init /\ [][Next]_vars

-----------------------------------------------------------------------------
TypeOK ==
  /\ route \in Routes
  /\ versions \in Seq([schema : Schemas, draft : BOOLEAN])
  /\ cached \in 0..Latest /\ refetch \in 0..Latest
  /\ page \in {"detail", "builder", "fields"}
  /\ builder.fields \in Schemas /\ builder.selected \in FieldIds \union {NoField}
  /\ fieldCounter \in Nat
  /\ importer.text \in Texts /\ importer.mode \in {"csv", "json"}
  /\ drawer.field \in 0..MaxFields /\ drawer.draft \in FieldIds
  /\ updates \subseteq [from : {"builder", "drawer"}, schema : Schemas]
  /\ publishing \subseteq 1..Latest

(* No version of a form has two fields of one id, although the builder can *)
(* hold them: its counter starts again from the number of fields, ids are  *)
(* typed, and imported ones may be taken (Update and ValidateFormSchema,   *)
(* generateFieldId of FormBuilderPage.tsx).                                *)
StoredIdsDistinct ==
  \A v \in DOMAIN versions : \A i, j \in DOMAIN versions[v].schema :
    versions[v].schema[i] = versions[v].schema[j] => i = j
=============================================================================
