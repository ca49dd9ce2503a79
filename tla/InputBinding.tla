----------------------------- MODULE InputBinding -----------------------------
(***************************************************************************)
(* A text field or a choice picker of the HarmonyOS renderer whose value is  *)
(* bound to the data model.  The user edits on the main thread, and the      *)
(* component changes what it shows before it sends the change to the worker  *)
(* thread; the agent changes the same data there.  What the data then says   *)
(* comes back as a report to the main looper, and overwrites what is shown.  *)
(*                                                                          *)
(* A value is the set of the options that are picked; a text is a set of     *)
(* one item, or the empty set.                                               *)
(***************************************************************************)
EXTENDS Integers, Sequences, FiniteSets

CONSTANTS InputKinds,       \* a subset of {"text", "single", "multiple"}
          Items,            \* the texts, or the options of a picker
          Patterns,         \* values of validationRegexp; NoPattern among them
          NoPattern,
          Matches,          \* the values each pattern matches
          MaxEdits,         \* bound: edits and clicks
          MaxAgentUpdates   \* bound: messages of the agent

Values(kind) == IF kind = "multiple" THEN SUBSET Items ELSE {{}} \cup {{i} : i \in Items}

ASSUME InputAssumption ==
    /\ InputKinds \subseteq {"text", "single", "multiple"}
    /\ NoPattern \in Patterns /\ Matches \in [Patterns -> SUBSET SUBSET Items]
    /\ Matches[NoPattern] = SUBSET Items
    /\ MaxEdits \in Nat /\ MaxAgentUpdates \in Nat

VARIABLES field,    \* the component, on the main thread
          core,     \* the bound value, the attributes and the snapshot, on the worker thread
          tasks,    \* the worker's queue
          notices,  \* property updates in the main looper
          done      \* the bounded calls made

inputVars == <<field, core, tasks, notices, done>>
\* field.value     m_currentText, or m_properties["value"] of a picker
\* field.rejected  the user's last edit was not sent (not in the code: what
\*                 m_localValidationFailed said at that edit)
\* core.required   the checks of the component ask for a value

\* The snapshot of a component: what its attributes are at the end of a task.
Shows(value, pattern, required) ==
    [value |-> value, pattern |-> pattern, checks |-> ~required \/ value # {}]

InputInit ==
    \E kind \in InputKinds, required \in BOOLEAN : \E value \in Values(kind) :
        LET first == Shows(value, NoPattern, required) IN
        /\ field = [kind |-> kind, value |-> value, pattern |-> NoPattern, checks |-> first.checks,
                    edited |-> FALSE, failed |-> FALSE, rejected |-> FALSE]
        /\ core = [required |-> required, value |-> value, pattern |-> NoPattern, snapshot |-> first]
        /\ tasks = <<>> /\ notices = <<>> /\ done = [edits |-> 0, updates |-> 0]
-----------------------------------------------------------------------------
(* The main thread. *)

\* refreshLocalValidationState()
Validated(f) == [f EXCEPT !.failed = f.edited /\ f.value \notin Matches[f.pattern]]

\* syncState() and SurfaceManager::submitUIDataModel().
SyncState(value) == tasks' = Append(tasks, [op |-> "sync", to |-> value])

Edits == done.edits < MaxEdits /\ done' = [done EXCEPT !.edits = @ + 1] /\ UNCHANGED <<core, notices>>

\* TextFieldComponent::handleTextChanged(): a text that the pattern rejects is
\* shown, with an error, and not sent.
HandleTextChanged(text) ==
    /\ field.kind = "text" /\ Edits
    /\ LET f == Validated([field EXCEPT !.value = text, !.edited = TRUE])
       IN  /\ field' = [f EXCEPT !.rejected = f.failed]
           /\ IF f.failed THEN UNCHANGED tasks ELSE SyncState(text)

\* updateChoicePickerValue(), as handleOptionClick() calls it.
Picked(option) ==
    CASE field.kind = "single" -> {option}
      [] field.kind = "multiple" -> IF option \in field.value THEN field.value \ {option}
                                    ELSE field.value \cup {option}

\* ChoicePickerComponent::handleOptionClick(). A picker whose checks fail is
\* disabled, also when the check is about its own value.
HandleOptionClick(option) ==
    /\ field.kind \in {"single", "multiple"} /\ field.checks /\ Edits
    /\ field' = [field EXCEPT !.value = Picked(option)]
    /\ SyncState(Picked(option))

Given(notice, key, old) == IF key \in DOMAIN notice THEN notice[key] ELSE old

\* Mutant: a text the user is editing is not overwritten.
TextFieldUpdated_KeepsEdited(f, notice) ==
    Validated([f EXCEPT !.pattern = Given(notice, "pattern", @),
                        !.value = IF f.edited THEN @ ELSE Given(notice, "value", @),
                        !.edited = f.edited /\ "value" \notin DOMAIN notice,
                        !.rejected = f.rejected /\ "value" \notin DOMAIN notice])

\* onUpdateProperties() of the text field: applyValidationConfig(), applyValue()
\* (the change event it causes is ignored) and refreshLocalValidationState().
TextFieldUpdated(f, notice) ==
    Validated([f EXCEPT !.pattern = Given(notice, "pattern", @),
                        !.value = Given(notice, "value", @),
                        !.edited = f.edited /\ "value" \notin DOMAIN notice,
                        !.rejected = f.rejected /\ "value" \notin DOMAIN notice])

\* onUpdateProperties() of the picker builds it anew from m_properties.
PickerUpdated(f, notice) ==
    [f EXCEPT !.value = Given(notice, "value", @), !.pattern = Given(notice, "pattern", @)]

\* A report in the main looper: updateProperties() merges it into m_properties.
RunNotice ==
    /\ notices # <<>>
    /\ notices' = Tail(notices)
    /\ LET notice == Head(notices)
           f == [field EXCEPT !.checks = Given(notice, "checks", @)]
       IN  field' = IF f.kind = "text" THEN TextFieldUpdated(f, notice) ELSE PickerUpdated(f, notice)
    /\ UNCHANGED <<core, tasks, done>>
-----------------------------------------------------------------------------
(* The worker thread. *)

\* updateDataModel and updateComponents of the agent.
AgentSends(op, to) ==
    /\ done.updates < MaxAgentUpdates
    /\ done' = [done EXCEPT !.updates = @ + 1]
    /\ tasks' = Append(tasks, [op |-> op, to |-> to])
    /\ UNCHANGED <<field, core, notices>>

\* checkSnapshotChanged() and notifyComponentUpdate(): a report has the fields
\* that changed, and there is none when nothing did.
ChangedKeys(old, new) == {key \in DOMAIN new : new[key] # old[key]}
Diff(old, new) == [key \in ChangedKeys(old, new) |-> new[key]]
Reported(queue, old, new) == IF ChangedKeys(old, new) = {} THEN queue ELSE Append(queue, Diff(old, new))

\* A task and the end of its batch: Surface::syncUIToData() and
\* DataModel::updateData(), or the agent's message.
RunTask ==
    /\ tasks # <<>>
    /\ tasks' = Tail(tasks)
    /\ LET task == Head(tasks)
           value == IF task.op \in {"sync", "data"} THEN task.to ELSE core.value
           pattern == IF task.op = "pattern" THEN task.to ELSE core.pattern
           now == Shows(value, pattern, core.required)
       IN  /\ core' = [core EXCEPT !.value = value, !.pattern = pattern, !.snapshot = now]
           /\ notices' = Reported(notices, core.snapshot, now)
    /\ UNCHANGED <<field, done>>

InputNext ==
    \/ \E text \in Values("text") : HandleTextChanged(text)
    \/ \E option \in Items : HandleOptionClick(option)
    \/ \E value \in Values(field.kind) : AgentSends("data", value)
    \/ field.kind = "text" /\ \E pattern \in Patterns : AgentSends("pattern", pattern)
    \/ RunTask \/ RunNotice

InputSpec == InputInit /\ [][InputNext]_inputVars
-----------------------------------------------------------------------------
InputTypeOK ==
    /\ field.kind \in InputKinds /\ {field.value, core.value} \subseteq Values(field.kind)
    /\ {field.pattern, core.pattern} \subseteq Patterns
    /\ \A n \in DOMAIN tasks : tasks[n].to \in Values(field.kind) \cup Patterns
    /\ \A n \in DOMAIN notices : DOMAIN notices[n] \subseteq {"value", "pattern", "checks"}

\* Once no change is under way, in either direction, the component shows what
\* the data model holds, whoever changed it last: the exception is a text the
\* user typed last and the pattern rejected, which stays in the field and not
\* in the data, also when a later pattern would have it. The type invariant is
\* part of it.
InputsAgree ==
    /\ InputTypeOK
    /\ tasks = <<>> /\ notices = <<>> =>
          /\ field.value = core.value \/ field.rejected
          /\ field.checks = (~core.required \/ core.value # {})
          /\ field.pattern = core.pattern
=============================================================================
