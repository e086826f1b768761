----------------------------- MODULE CustomViews -----------------------------
(***************************************************************************)
(* Named custom views of the results table (domain/named_custom_views,     *)
(* ui/compact_window, ui/preferences_window): up to MaxViews saved layouts *)
(* for each of two families of sources, one preset for the window, a table *)
(* header every manual change of which is saved into the active view, and  *)
(* the Customize View dialog with its draft.                               *)
(*                                                                         *)
(* A layout is the set of user-owned columns it shows and of those with a  *)
(* width of their own; columns that are always shown, or shown by the      *)
(* history settings, are never part of it.  Source "file" stands for an    *)
(* app list and for no source at all, which the code treats alike.         *)
(***************************************************************************)
EXTENDS Naturals, FiniteSets

CONSTANTS
  Columns,      \* user-owned columns
  Applies,      \* the columns that apply to each source
  Ids, Names,
  MaxViews,     \* MAX_VIEWS_PER_FAMILY
  MaxEdits      \* bound: changes of the header, steps in dialogs

Sources  == {"file", "device", "local"}
Families == {"phone", "local"}
NoView   == "none"

VARIABLES
  saved,        \* settings: schema of the layouts, preset, active view and views by family
  old,          \* layouts an earlier version saved, {} for none
  running, source,
  header,       \* shown columns and those with a width of their own
  pending,      \* "scan" of a phone or "discovery" of a folder in flight, or "none"
  dialog,       \* Customize View
  edits,
  dropped       \* history: the source went away without a new presentation

vars == <<saved, old, running, source, header, pending, dialog, edits, dropped>>

Family(s)      == IF s = "local" THEN "local" ELSE "phone"          \* custom_layout_family
UserColumns(f) == UNION {Applies[s] : s \in {t \in Sources : Family(t) = f}}
Basic(s)       == {c \in Applies[s] : \A t \in Sources : c \in Applies[t]}
BuiltIn(p, s)  == IF p = "Technical" THEN Applies[s] ELSE Basic(s)  \* visible_columns

Layout(columns, wide) == [columns |-> columns, wide |-> wide]
View(name, layout)    == [name |-> name, columns |-> layout.columns, wide |-> layout.wide]
NoViews == [v \in {} |-> View("", Layout({}, {}))]
With(views, id, view) == [v \in DOMAIN views \cup {id} |-> IF v = id THEN view ELSE views[v]]
Without(views, id)    == [v \in DOMAIN views \ {id} |-> views[v]]

Supported(st) == st.schema = "v2"                                  \* is_supported
HasActive(st, f) == Supported(st) /\ st.active[f] \in DOMAIN st.views[f]
ActiveId(st, f)  == IF HasActive(st, f) THEN st.active[f] ELSE NoView

\* _visible_column_order
Visible(st, s) ==
  IF st.preset # "Custom" THEN BuiltIn(st.preset, s)
  ELSE IF HasActive(st, Family(s))
  THEN LET f == Family(s) IN st.views[f][st.active[f]].columns \cap Applies[s]
  ELSE Basic(s)

Header(visible, wide) == [visible |-> visible, wide |-> wide]

\* _apply_established_source_defaults and _restore_custom_table_layout: the active view, or
\* the preset with default widths.
Presented(st, s) ==
  Header(Visible(st, s),
         IF st.preset = "Custom" /\ HasActive(st, Family(s))
         THEN st.views[Family(s)][st.active[Family(s)]].wide ELSE {})

\* _apply_column_visibility(reset_order=False)
Reapplied(st, s, h) == Header(Visible(st, s), h.wide)

\* A plausible mistake: the header replaces the view as a whole.
CapturedWhole(view, h, s) == View(view.name, Layout(h.visible \cap Applies[s], h.wide \cap Applies[s]))

\* _persist_current_custom_layout: of the view, what does not apply to the source stays; so
\* do the widths of columns that are not shown.
Captured(view, h, s) ==
  LET shown == h.visible \cap Applies[s]
  IN  View(view.name, Layout((view.columns \ Applies[s]) \cup shown,
                             (view.wide \ shown) \cup (h.wide \cap shown)))

Persisted(st, h, s) ==
  LET f == Family(s)
  IN  IF st.preset = "Custom" /\ HasActive(st, f)
      THEN [st EXCEPT !.views[f] = With(@, st.active[f], Captured(@[st.active[f]], h, s))]
      ELSE st

-----------------------------------------------------------------------------
(* The draft of a dialog is its own copy of active views and views. *)

Closed   == [open |-> FALSE]
NoDialog == running /\ ~dialog.open        \* the dialog is modal
Edit     == edits < MaxEdits /\ edits' = edits + 1

DuplicateName(views, id, name) == \E v \in DOMAIN views \ {id} : views[v].name = name
Chosen == IF dialog.id \in DOMAIN dialog.views THEN {dialog.views[dialog.id]} ELSE {}

\* editor_payload: ticked columns and what the view has for the family's other source; the
\* widths of the view, or of the table for a new one
Payload ==
  Layout(dialog.checks \cup UNION {v.columns \ Applies[dialog.source] : v \in Chosen},
         IF Chosen # {} THEN UNION {v.wide : v \in Chosen}
         ELSE header.wide \cap header.visible \cap UserColumns(dialog.family))

\* load_selected_view
Checks(views, id) ==
  IF id \in DOMAIN views THEN views[id].columns \cap Applies[dialog.source] ELSE dialog.basis

\* _show_display_settings, up to the dialog
OpenDialog ==
  /\ NoDialog /\ Edit
  /\ LET f == Family(source)
         id == IF saved.preset = "Custom" THEN ActiveId(saved, f) ELSE NoView
     IN  dialog' = [open |-> TRUE, family |-> f, source |-> source, initial |-> ActiveId(saved, f),
                    active |-> saved.active[f], views |-> saved.views[f], id |-> id, dirty |-> FALSE,
                    basis |-> Visible(saved, source),
                    checks |-> IF id \in DOMAIN saved.views[f]
                               THEN saved.views[f][id].columns \cap Applies[source]
                               ELSE Visible(saved, source)]
  /\ UNCHANGED <<saved, old, running, source, header, pending, dropped>>

InDialog == running /\ dialog.open /\ Edit
            /\ UNCHANGED <<saved, old, running, source, header, pending, dropped>>

Choose(id) ==
  /\ InDialog /\ id \in DOMAIN dialog.views \cup {NoView} /\ id # dialog.id
  /\ dialog' = [dialog EXCEPT !.id = id, !.checks = Checks(dialog.views, id)]

Tick(c) ==
  /\ InDialog /\ c \in Applies[dialog.source]
  /\ dialog' = [dialog EXCEPT !.checks = IF c \in @ THEN @ \ {c} ELSE @ \cup {c}]

ResetControls ==
  /\ InDialog
  /\ dialog' = [dialog EXCEPT !.checks = Basic(dialog.source)]

\* new_view and create_view; the id is new
New(id, name) ==
  /\ InDialog /\ Supported(saved)
  /\ id \in Ids \ (DOMAIN dialog.views \cup DOMAIN saved.views[dialog.family])
  /\ Cardinality(DOMAIN dialog.views) < MaxViews
  /\ ~DuplicateName(dialog.views, id, name)
  /\ dialog' = [dialog EXCEPT !.views = With(@, id, View(name, Payload)), !.id = id, !.dirty = TRUE,
                              !.checks = Payload.columns \cap Applies[dialog.source]]

MayRename(id, name) == id \in DOMAIN dialog.views /\ ~DuplicateName(dialog.views, id, name)

Rename(name) ==
  /\ InDialog /\ MayRename(dialog.id, name)
  /\ dialog' = [dialog EXCEPT !.views[dialog.id].name = name, !.dirty = TRUE]

Delete ==
  /\ InDialog /\ dialog.id \in DOMAIN dialog.views
  /\ dialog' = [dialog EXCEPT !.views = Without(@, dialog.id), !.id = NoView, !.dirty = TRUE,
                              !.active = IF @ = dialog.id THEN NoView ELSE @,
                              !.checks = dialog.basis]

Cancel ==
  /\ running /\ dialog.open
  /\ dialog' = Closed
  /\ UNCHANGED <<saved, old, running, source, header, pending, edits, dropped>>

\* A plausible mistake: the table is presented for the source the dialog was opened with.
AfterSaveOfOpened(st) == Presented(st, dialog.source)

AfterSave(st) ==
  IF HasActive(st, Family(source)) THEN Presented(st, source) ELSE Reapplied(st, source, header)

\* The chosen view is updated, selected and shown.
SaveChosen ==
  /\ running /\ dialog.open /\ Supported(saved) /\ dialog.id \in DOMAIN dialog.views
  /\ saved' = [saved EXCEPT
       !.views[dialog.family] = With(dialog.views, dialog.id, View(dialog.views[dialog.id].name, Payload)),
       !.active[dialog.family] = dialog.id, !.preset = "Custom"]
  /\ header' = AfterSave(saved')
  /\ dialog' = Closed /\ dropped' = FALSE
  /\ UNCHANGED <<old, running, source, pending, edits>>

\* No view is chosen: the draft is saved as it is; without the active view Basic is shown.
SaveDraft ==
  /\ running /\ dialog.open /\ ~(dialog.id \in DOMAIN dialog.views)
  /\ LET lost == dialog.initial # NoView /\ dialog.active \notin DOMAIN dialog.views
     IN  IF dialog.dirty /\ Supported(saved)
         THEN /\ saved' = [saved EXCEPT !.views[dialog.family] = dialog.views,
                                        !.active[dialog.family] = dialog.active,
                                        !.preset = IF lost THEN "Basic" ELSE @]
              /\ header' = IF lost THEN Presented(saved', source) ELSE header
              /\ dropped' = (dropped /\ ~lost)
         ELSE UNCHANGED <<saved, header, dropped>>
  /\ dialog' = Closed
  /\ UNCHANGED <<old, running, source, pending, edits>>

-----------------------------------------------------------------------------
(* The table and the menu. *)

\* sectionMoved and sectionResized, by the user
TouchHeader(c, widen) ==
  /\ NoDialog /\ Edit /\ c \in header.visible
  /\ header' = [header EXCEPT !.wide = IF widen THEN @ \cup {c} ELSE @ \ {c}]
  /\ saved' = Persisted(saved, header', source)
  /\ UNCHANGED <<old, running, source, pending, dialog, dropped>>

ResetLayout ==
  /\ NoDialog /\ Edit
  /\ header' = Header(Visible(saved, source), {})
  /\ saved' = Persisted(saved, header', source)
  /\ dropped' = FALSE
  /\ UNCHANGED <<old, running, source, pending, dialog>>

SelectPreset(p) ==
  /\ NoDialog /\ p # saved.preset
  /\ saved' = [saved EXCEPT !.preset = p]
  /\ header' = Presented(saved', source) /\ dropped' = FALSE
  /\ UNCHANGED <<old, running, source, pending, dialog, edits>>

\* _select_custom_view
SelectView(id) ==
  /\ NoDialog /\ Supported(saved) /\ id \in DOMAIN saved.views[Family(source)]
  /\ saved' = [saved EXCEPT !.active[Family(source)] = id, !.preset = "Custom"]
  /\ header' = Presented(saved', source) /\ dropped' = FALSE
  /\ UNCHANGED <<old, running, source, pending, dialog, edits>>

\* An audit ends, local files were changed, or settings that concern columns were saved.
Reapply ==
  /\ running
  /\ header' = Reapplied(saved, source, header) /\ dropped' = FALSE
  /\ UNCHANGED <<saved, old, running, source, pending, dialog, edits>>

-----------------------------------------------------------------------------
(* Sources come and go; phone scans and folder discoveries end while the   *)
(* dialog is open.                                                         *)

\* _establish_source_presentation
Establish(s) ==
  /\ source' = s /\ pending' = "none"
  /\ header' = Presented(saved, s) /\ dropped' = FALSE
  /\ UNCHANGED <<saved, old, running, dialog, edits>>

LoadFile   == NoDialog /\ Establish("file")
ChooseApks == NoDialog /\ Establish("local")
RemoveLastApk == NoDialog /\ pending = "none" /\ source = "local" /\ Establish("file")
ScanDone   == running /\ pending = "scan" /\ Establish("device")
DiscoveryDone == running /\ pending = "discovery" /\ \E s \in {"local", "file"} : Establish(s)

ScanPhone ==
  /\ NoDialog
  /\ pending' = "scan"
  /\ IF source = "local"
     THEN source' = "file" /\ header' = Presented(saved, "file") /\ dropped' = FALSE
     ELSE UNCHANGED <<source, header, dropped>>
  /\ UNCHANGED <<saved, old, running, dialog, edits>>

StartDiscovery ==
  /\ NoDialog /\ pending' = "discovery"
  /\ UNCHANGED <<saved, old, running, source, header, dialog, edits, dropped>>

\* _on_local_apk_discovery_failed, and _stop_audit during a discovery: the source is given up,
\* the table stays as it is.
EndDiscovery ==
  /\ running /\ pending = "discovery"
  /\ pending' = "none" /\ source' = "file"
  /\ dropped' = (dropped \/ source # "file")
  /\ UNCHANGED <<saved, old, running, header, dialog, edits>>

-----------------------------------------------------------------------------
(* Start of the program. *)

\* _migrate_legacy_custom_layout: a layout of an earlier version becomes the view "Custom 1".
Custom1(f) == IF old[f] \cap UserColumns(f) = {} THEN NoViews
              ELSE With(NoViews, CHOOSE v \in Ids : TRUE,
                        View(CHOOSE n \in Names : TRUE, Layout(old[f] \cap UserColumns(f), {})))

Migrated(st) ==
  IF st.schema = "v1" \/ (st.schema = "none" /\ \E f \in Families : old[f] # {})
  THEN [st EXCEPT !.schema = "v2", !.views = [f \in Families |-> Custom1(f)],
                  !.active = [f \in Families |-> IF Custom1(f) = NoViews THEN NoView
                                                 ELSE CHOOSE v \in Ids : TRUE]]
  ELSE IF st.schema = "none"
  THEN [st EXCEPT !.schema = "v2", !.preset = IF @ = "Custom" THEN "Basic" ELSE @]
  ELSE st

\* _restore_table_layout
Start ==
  /\ ~running
  /\ running' = TRUE /\ source' = "file" /\ pending' = "none" /\ dialog' = Closed
  /\ saved' = Migrated(saved)
  /\ header' = Presented(saved', "file") /\ dropped' = FALSE
  /\ UNCHANGED <<old, edits>>

\* Nothing is saved on the way out.
Quit ==
  /\ running
  /\ running' = FALSE
  /\ UNCHANGED <<saved, old, source, header, pending, dialog, edits, dropped>>

Init ==
  /\ old \in [Families -> {{}, Columns}]
  /\ \E schema \in {"none", "v1", "v2", "other"}, preset \in {"Basic", "Custom"} :
       /\ schema = "none" => old["phone"] = old["local"]
       /\ schema \in {"v2", "other"} => \A f \in Families : old[f] = {}
       /\ saved = [schema |-> schema, preset |-> preset, active |-> [f \in Families |-> NoView],
                   views |-> [f \in Families |-> NoViews]]
  /\ running = FALSE /\ source = "file" /\ pending = "none"
  /\ header = Header({}, {}) /\ dialog = Closed
  /\ edits = 0 /\ dropped = FALSE

DialogStep ==
  \/ OpenDialog \/ ResetControls \/ Delete \/ Cancel \/ SaveChosen \/ SaveDraft
  \/ \E id \in Ids \cup {NoView} : Choose(id)
  \/ \E c \in Columns : Tick(c)
  \/ \E name \in Names : Rename(name) \/ \E id \in Ids : New(id, name)

SourceStep ==
  \/ LoadFile \/ ChooseApks \/ RemoveLastApk \/ ScanPhone \/ ScanDone
  \/ StartDiscovery \/ DiscoveryDone \/ EndDiscovery

Next ==
  \/ Start \/ Quit \/ DialogStep \/ SourceStep \/ ResetLayout \/ Reapply
  \/ \E c \in Columns, widen \in BOOLEAN : TouchHeader(c, widen)
  \/ \E p \in {"Basic", "Technical"} : SelectPreset(p)
  \/ \E id \in Ids : SelectView(id)

Spec == Init /\ [][Next]_vars

-----------------------------------------------------------------------------
(* Properties. *)

(***************************************************************************)
(* Whatever came between - a dialog, a scan that ended while it was open,  *)
(* another family's source - the table shows the columns of the preset or  *)
(* of the family's active view.  Left out is a source given up without a   *)
(* new presentation; see HeaderChoosesNoColumns.                           *)
(***************************************************************************)
TableShowsTheView ==
  running /\ ~dropped => header.visible = Visible(saved, source)

(***************************************************************************)
(* "Inapplicable fields stay hidden without rewriting saved layouts"       *)
(* (README.md:74): a view loses no column that applies only to the other   *)
(* source of its family, by the header or by a dialog of the other source. *)
(***************************************************************************)
KeepsOtherSource ==
  \A f \in Families : \A v \in DOMAIN saved.views[f] \cap DOMAIN saved'.views[f] :
    LET by == IF dialog.open THEN dialog.source ELSE source
    IN  saved.views[f][v].columns \ Applies[by] = saved'.views[f][v].columns \ Applies[by]

OtherSourceIsKept == [][KeepsOtherSource]_vars

(***************************************************************************)
(* What is saved can be loaded again (_family_records), and an active view *)
(* exists: otherwise all views of both families are out of reach.          *)
(***************************************************************************)
SavedViewsLoad ==
  \A f \in Families :
    /\ Cardinality(DOMAIN saved.views[f]) <= MaxViews
    /\ \A v \in DOMAIN saved.views[f] : ~DuplicateName(saved.views[f], v, saved.views[f][v].name)
    /\ saved.active[f] \in DOMAIN saved.views[f] \cup {NoView}

(***************************************************************************)
(* "Restore the correct saved layout when the source family changes        *)
(* without rewriting the other layout" (docs/PROJECT_DECISIONS.md:215):    *)
(* moving or resizing a column does not change which columns views have.   *)
(***************************************************************************)
ColumnsOf(st) == [f \in Families |-> [v \in DOMAIN st.views[f] |-> st.views[f][v].columns]]
HeaderChoosesNoColumns ==
  [][\A c \in Columns, widen \in BOOLEAN :
       TouchHeader(c, widen) => ColumnsOf(saved') = ColumnsOf(saved)]_vars

\* The views are there, now and after the next start, and the table shows them.
ViewsAreKept == TableShowsTheView /\ SavedViewsLoad
=============================================================================
