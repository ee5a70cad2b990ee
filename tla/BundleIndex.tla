---------------------------- MODULE BundleIndex -----------------------------
(***************************************************************************)
(* The routine sets on the screen (App.tsx) and the editor over them       *)
(* (BundleEditor.tsx).  A set is the product in one of its slots.  Every   *)
(* editor is shown and hidden by the same modal id, an answer may come     *)
(* after its editor was dismissed, and lists replace each other in the     *)
(* order in which they arrive.  What a slot of the editor offers depends   *)
(* on nothing else, and is modelled apart.                                 *)
(***************************************************************************)
EXTENDS SequencesExt, FiniteSets

CONSTANTS
  SetCount, ProductCount,   \* routine sets, and products for the slot
  MaxLists,                 \* bound: list requests under way
  MaxEditors                \* bound: editors opened

ASSUME IndexAssumption == {SetCount, ProductCount, MaxLists, MaxEditors} \subseteq Nat \ {0}

ScreenSets == 1..SetCount
SlotProducts == 1..ProductCount
NoItem == 0      \* there is no such set

VARIABLES
  sets,       \* the server: the product of each set
  lists,      \* list requests under way, as they were sent; old: it was read before the
              \* last change; awaited: the starter button waits for it
  index,      \* the screen: loading, ready or failed, and the sets it lists
  action,     \* the button under way: none, starter, prepare or reload
  editor,     \* the editor on screen: its number (0: none), set, and whether it
              \* waits for an answer
  editors,    \* editors opened so far
  changing,   \* requests of the editors under way
  incidents     \* history, what happened on the way: overtaken, the list shown was read before
              \* the last change; lost, an answer did not arrive; dismissed, an
              \* editor was closed while it waited; surprised, an editor was closed by
              \* another's answer or an error shown nowhere
indexVars == <<sets, lists, index, action, editor, editors, changing, incidents>>

NoSets == [s \in ScreenSets |-> NoItem]
ListRequest(awaited) == [at |-> "asked", rows |-> NoSets, old |-> FALSE, awaited |-> awaited]
Closed == [n |-> 0, set |-> 0, waits |-> FALSE]

\* The page mounts, and loads.
IndexInit ==
  /\ sets = [s \in ScreenSets |-> 1]
  /\ lists = <<ListRequest(FALSE)>>
  /\ index = [state |-> "loading", rows |-> NoSets]
  /\ action = "none" /\ editor = Closed /\ editors = 0 /\ changing = {}
  /\ incidents = {}

editorPart == <<editor, editors, changing>>

-----------------------------------------------------------------------------
(* The list.                                                               *)

Happened(what, occurs) == incidents' = IF occurs THEN incidents \cup {what} ELSE incidents

Load(awaited) ==
  /\ Len(lists) < MaxLists
  /\ lists' = Append(lists, ListRequest(awaited))
  /\ index' = [state |-> "loading", rows |-> NoSets]

ReadList(l) ==
  /\ lists[l].at = "asked"
  /\ lists' = [lists EXCEPT ![l].at = "read", ![l].rows = sets]
  /\ UNCHANGED <<sets, index, action, editorPart, incidents>>

\* Whichever list arrives is the one shown, even when load has begun again.
ShowList(l) ==
  /\ lists[l].at = "read"
  /\ index' = [state |-> "ready", rows |-> lists[l].rows]
  /\ lists' = RemoveAt(lists, l)
  /\ action' = IF lists[l].awaited THEN "none" ELSE action
  /\ incidents' = IF lists[l].old THEN incidents \cup {"overtaken"} ELSE incidents \ {"overtaken"}
  /\ UNCHANGED <<sets, editorPart>>

ListFails(l) ==
  /\ index' = [state |-> "failed", rows |-> NoSets]
  /\ lists' = RemoveAt(lists, l)
  /\ action' = IF lists[l].awaited THEN "none" ELSE action
  /\ UNCHANGED <<sets, editorPart, incidents>>

TryAgain ==
  /\ index.state = "failed" /\ Load(FALSE)
  /\ UNCHANGED <<sets, action, editorPart, incidents>>

\* The server changes the sets: lists already read are old.
Altered(to) ==
  /\ sets' = to
  /\ lists' = [l \in DOMAIN lists |->
                 [lists[l] EXCEPT !.old = @ \/ (lists[l].at = "read" /\ to # sets)]]

-----------------------------------------------------------------------------
(* The two buttons of the page: each disables both.                        *)

PressAction(kind) ==
  /\ action = "none" /\ action' = kind
  /\ UNCHANGED <<sets, lists, index, editorPart, incidents>>

\* createStarterBundle, on the server.
MakeSet(s, p) ==
  /\ action = "starter" /\ sets[s] = NoItem
  /\ Altered([sets EXCEPT ![s] = p]) /\ action' = "made"
  /\ UNCHANGED <<index, editorPart, incidents>>

\* Answered: a toast, and after a new set the list.
ActionDone ==
  /\ \/ action = "made" /\ Load(TRUE) /\ action' = "reload"
     \/ action = "prepare" /\ action' = "none" /\ UNCHANGED <<lists, index>>
  /\ UNCHANGED <<sets, editorPart, incidents>>

\* A banner, and the list stays.
ActionFails ==
  /\ action \in {"starter", "made", "prepare"}
  /\ Happened("lost", action = "made")
  /\ action' = "none"
  /\ UNCHANGED <<sets, lists, index, editorPart>>

-----------------------------------------------------------------------------
(* The editor.                                                             *)

OpenEditor(s) ==
  /\ editor = Closed /\ editors < MaxEditors
  /\ index.state = "ready" /\ index.rows[s] # NoItem
  /\ editors' = editors + 1
  /\ editor' = [n |-> editors + 1, set |-> s, waits |-> FALSE]
  /\ UNCHANGED <<sets, lists, index, action, changing, incidents>>

\* onSave, and onDelete after its question (a save of NoItem).
Send(p) ==
  /\ editor.n # 0 /\ ~editor.waits
  /\ editor' = [editor EXCEPT !.waits = TRUE]
  /\ changing' = changing \cup {[n |-> editor.n, set |-> editor.set, to |-> p, at |-> "asked"]}
  /\ UNCHANGED <<sets, lists, index, action, editors, incidents>>

\* The server carries it out, or refuses it; of a set that is gone it always does.
Carry(x) ==
  /\ x \in changing /\ x.at = "asked"
  /\ \E at \in {"ok", "refused"} :
       /\ at = "ok" => sets[x.set] # NoItem
       /\ changing' = (changing \ {x}) \cup {[x EXCEPT !.at = at]}
       /\ IF at = "ok" THEN Altered([sets EXCEPT ![x.set] = x.to]) ELSE UNCHANGED <<sets, lists>>
  /\ UNCHANGED <<index, action, editor, editors, incidents>>

\* Mutation: a deletion does not load the list again.
MutReloads(x) == x.to # NoItem

\* onChanged loads the list, after a save and after a deletion.
Reloads(x) == TRUE

\* onChanged, then close: the modal that is on screen is hidden, and onHide closes
\* its editor.
Saved(x) ==
  /\ x \in changing /\ x.at = "ok"
  /\ changing' = changing \ {x}
  /\ IF Reloads(x) THEN Load(FALSE) ELSE UNCHANGED <<lists, index>>
  /\ editor' = Closed
  /\ Happened("surprised", editor.n \notin {0, x.n})
  /\ UNCHANGED <<sets, action, editors>>

\* Refused, or the answer is lost: the error is set on the editor that asked.
SaveFails(x) ==
  /\ x \in changing /\ x.at \in {"ok", "refused"}
  /\ changing' = changing \ {x}
  /\ editor' = IF editor.n = x.n THEN [editor EXCEPT !.waits = FALSE] ELSE editor
  /\ incidents' = incidents \cup (IF x.at = "ok" THEN {"lost"} ELSE {})
                        \cup (IF editor.n = x.n THEN {} ELSE {"surprised"})
  /\ UNCHANGED <<sets, lists, index, action, editors>>

\* Cancel, disabled while the editor waits; or the modal's own close, which is not.
Dismiss ==
  /\ editor.n # 0 /\ editor' = Closed
  /\ Happened("dismissed", editor.waits)
  /\ UNCHANGED <<sets, lists, index, action, editors, changing>>

IndexNext ==
  \/ \E l \in DOMAIN lists : ReadList(l) \/ ShowList(l) \/ ListFails(l)
  \/ TryAgain \/ ActionDone
  \/ \E kind \in {"starter", "prepare"} : PressAction(kind)
  \/ \E s \in ScreenSets : OpenEditor(s) \/ \E p \in SlotProducts : MakeSet(s, p)
  \/ ActionFails \/ Dismiss
  \/ \E p \in SlotProducts \cup {NoItem} : Send(p)
  \/ \E x \in changing : Carry(x) \/ Saved(x) \/ SaveFails(x)
IndexSpec == IndexInit /\ [][IndexNext]_indexVars

-----------------------------------------------------------------------------
(* A slot of the editor, and the candidates that App fetches for it.       *)

VARIABLES
  picker,      \* whether the candidates are there, and those for the slot
  fetching,    \* requests for them under way
  slot,        \* the editor: the set's product as listed and the one selected;
               \* NoItem: closed
  opened,      \* editors opened so far
  refetched    \* history: the candidates were asked for twice
pickerVars == <<picker, fetching, slot, opened, refetched>>

PickerInit ==
  /\ picker = [there |-> FALSE, offers |-> {}] /\ fetching = 0
  /\ slot = [was |-> NoItem, value |-> NoItem] /\ opened = 0 /\ refetched = FALSE

\* openEditor fetches the candidates unless they are there: they may be asked for
\* again before they have come.
OpenSlot(p) ==
  /\ slot.was = NoItem /\ opened < MaxEditors
  /\ opened' = opened + 1
  /\ slot' = [was |-> p, value |-> p]
  /\ fetching' = IF picker.there THEN fetching ELSE fetching + 1
  /\ refetched' = (refetched \/ (~picker.there /\ fetching > 0))
  /\ UNCHANGED picker

\* listCandidateProducts answers with what the catalog then has, up to its cap.
CandidatesArrive(offers) ==
  /\ fetching > 0 /\ fetching' = fetching - 1
  /\ picker' = [there |-> TRUE, offers |-> offers]
  /\ UNCHANGED <<slot, opened, refetched>>

CandidatesFail ==
  /\ fetching > 0 /\ fetching' = fetching - 1
  /\ UNCHANGED <<picker, slot, opened, refetched>>

\* StepSelect: the products offered, and the one in the slot unless the selected
\* one is among them.
Options == picker.offers \cup (IF slot.value \in picker.offers THEN {} ELSE {slot.was})

Select(p) ==
  /\ slot.was # NoItem /\ picker.there /\ p \in Options
  /\ slot' = [slot EXCEPT !.value = p]
  /\ UNCHANGED <<picker, fetching, opened, refetched>>

CloseSlot ==
  /\ slot.was # NoItem /\ slot' = [was |-> NoItem, value |-> NoItem]
  /\ UNCHANGED <<picker, fetching, opened, refetched>>

PickerNext ==
  \/ \E p \in SlotProducts : OpenSlot(p) \/ Select(p)
  \/ \E offers \in SUBSET SlotProducts : CandidatesArrive(offers)
  \/ CandidatesFail \/ CloseSlot
PickerSpec == PickerInit /\ [][PickerNext]_pickerVars

-----------------------------------------------------------------------------
AtRest == changing = {} /\ action = "none" /\ lists = <<>>

\* What the screen leaves behind.  With nothing under way the list is the sets as
\* they are, unless an older list arrived last or an answer was lost; no editor is
\* closed over the merchant's head and no error goes unseen, unless an editor was
\* dismissed while it waited; and what a slot has selected is always among its
\* options, unless the candidates were asked for twice.
ScreenKeepsFaith ==
  /\ AtRest /\ index.state = "ready" => index.rows = sets \/ incidents \cap {"overtaken", "lost"} # {}
  /\ "surprised" \in incidents => "dismissed" \in incidents
  /\ slot.was # NoItem => slot.value \in Options \/ refetched
=============================================================================
