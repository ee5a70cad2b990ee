---------------------------- MODULE ScreenProofs ----------------------------
(***************************************************************************)
(* Proofs about what runs in a browser: the sets on the app's screen, the  *)
(* storefront's builder, product page, search, cart and bulk ordering.     *)
(***************************************************************************)
EXTENDS BundleIndex, BundleBuilder, ProductPage, StoreSearch, CatalogReport,
        CartPage, BulkOrder, FiniteSetTheorems, SequenceTheorems, TLAPS

(* BundleIndex: lists that have been read and not outdated are the sets as *)
(* they are, and an editor that waits is the one whose answer will come.   *)

Request == [at : {"asked", "read"}, rows : [ScreenSets -> Nat], old : BOOLEAN, awaited : BOOLEAN]

\* A list that arrives is up to date, unless it is known to be old.
ListsRight ==
  /\ lists \in Seq(Request)
  /\ sets \in [ScreenSets -> Nat] /\ index \in [state : {"loading", "ready", "failed"}, rows : [ScreenSets -> Nat]]
  /\ \A l \in DOMAIN lists : lists[l].at = "read" => lists[l].old \/ lists[l].rows = sets

\* The list shown is the sets as they are, or something will replace it.
IndexRight ==
  index.state = "ready" =>
    \/ lists # <<>> \/ index.rows = sets \/ action = "made"
    \/ \E x \in changing : x.at = "ok"
    \/ incidents \cap {"overtaken", "lost"} # {}

\* An answer closes, or tells, the editor that waits for it: while no editor was
\* dismissed, at most one change is under way, that of the editor on screen.
EditorRight ==
  \/ "dismissed" \in incidents
  \/ /\ "surprised" \notin incidents
     /\ \A x \in changing : changing = {x} /\ x.n = editor.n /\ editor.n # 0 /\ editor.waits

EditorTyped ==
  /\ editor \in [n : Nat, set : ScreenSets \cup {0}, waits : BOOLEAN] /\ editors \in Nat
  /\ changing \subseteq [n : Nat, set : ScreenSets \cup {0}, to : Nat, at : {"asked", "ok", "refused"}]

IndexInv == ListsRight /\ IndexRight /\ EditorTyped /\ EditorRight

\* Removing an entry of a sequence leaves entries of it.
LEMMA RemoveAtEntries ==
  ASSUME NEW S, NEW s \in Seq(S), NEW i \in DOMAIN s
  PROVE  /\ RemoveAt(s, i) \in Seq(S)
         /\ \A k \in DOMAIN RemoveAt(s, i) : \E m \in DOMAIN s : RemoveAt(s, i)[k] = s[m]
<1> DEFINE a == SubSeq(s, 1, i - 1)
           b == SubSeq(s, i + 1, Len(s))
<1>0. i \in 1..Len(s) /\ Len(s) \in Nat /\ i - 1 \in Int /\ i + 1 \in Int
  OBVIOUS
<1>1. a \in Seq(S) /\ Len(a) = i - 1 /\ \A k \in 1..(i - 1) : a[k] = s[k]
  BY <1>0
<1>2. b \in Seq(S) /\ Len(b) = Len(s) - i /\ \A k \in 1..(Len(s) - i) : b[k] = s[k + i]
  BY <1>0
<1>3. RemoveAt(s, i) = a \o b
  BY DEF RemoveAt
<1> HIDE DEF a, b
<1>4. a \o b \in Seq(S) /\ Len(a \o b) = Len(s) - 1
  BY <1>0, <1>1, <1>2
<1>5. ASSUME NEW k \in DOMAIN (a \o b)
      PROVE  \E m \in DOMAIN s : (a \o b)[k] = s[m]
  <2>0. k \in 1..(Len(s) - 1)
    BY <1>0, <1>4, <1>5
  <2>1. CASE k <= i - 1
    <3>1. (a \o b)[k] = s[k] /\ k \in DOMAIN s
      BY <1>0, <1>1, <1>2, <2>0, <2>1
    <3> QED BY <3>1
  <2>2. CASE k > i - 1
    <3>a. a \in Seq(S) /\ b \in Seq(S) /\ Len(a) = i - 1 /\ Len(b) = Len(s) - i
      BY <1>1, <1>2
    <3>c. i \in Nat /\ Len(s) \in Nat /\ k \in Nat /\ k <= Len(s) - 1 /\ k > i - 1
      BY <1>0, <2>0, <2>2
    <3>d. k - (i - 1) \in 1..(Len(s) - i) /\ k \in 1..((i - 1) + (Len(s) - i)) /\ ~(k <= i - 1)
      BY <3>c
    <3>0. k - (i - 1) \in 1..(Len(s) - i) /\ k \in 1..(Len(a) + Len(b)) /\ ~(k <= Len(a))
      BY <3>a, <3>d
    <3>b. (a \o b)[k] = b[k - Len(a)]
      BY <3>0, <3>a
    <3>1. (a \o b)[k] = b[k - (i - 1)] /\ k - (i - 1) \in 1..(Len(s) - i)
      BY <1>1, <3>0, <3>b
    <3>2. b[k - (i - 1)] = s[(k - (i - 1)) + i]
      BY <1>2, <3>1
    <3>3. (k - (i - 1)) + i = k + 1 /\ k + 1 \in DOMAIN s
      BY <1>0, <2>0
    <3> QED BY <3>1, <3>2, <3>3
  <2> QED BY <1>0, <2>0, <2>1, <2>2
<1> QED BY <1>3, <1>4, <1>5

\* A list is asked for.
LEMMA LoadKeeps ==
  ASSUME ListsRight, NEW awaited \in BOOLEAN, Load(awaited), UNCHANGED sets
  PROVE  ListsRight' /\ lists' # <<>> /\ index'.state = "loading"
<1>1. NoSets \in [ScreenSets -> Nat] /\ ListRequest(awaited) \in Request
  BY DEF NoSets, NoItem, ListRequest, Request
<1>2. lists' = Append(lists, ListRequest(awaited)) /\ index' = [state |-> "loading", rows |-> NoSets]
  BY DEF Load
<1> DEFINE new == ListRequest(awaited)
<1> HIDE DEF new
<1>0. lists \in Seq(Request) /\ new \in Request /\ lists' = Append(lists, new)
  BY <1>1, <1>2 DEF ListsRight, new
<1>3. lists' \in Seq(Request) /\ lists' # <<>>
  BY <1>0
<1>4. \A l \in DOMAIN lists' : lists'[l].at = "read" => l \in DOMAIN lists /\ lists'[l] = lists[l]
  BY <1>1, <1>2 DEF ListsRight, ListRequest
<1> QED BY <1>1, <1>2, <1>3, <1>4 DEF ListsRight

\* The server changes the sets: a list read before is old.
LEMMA AlteredKeeps ==
  ASSUME ListsRight, NEW to \in [ScreenSets -> Nat], Altered(to), UNCHANGED index
  PROVE  ListsRight' /\ (lists' = <<>> <=> lists = <<>>)
<1>1. /\ sets' = to
      /\ lists' = [l \in DOMAIN lists |->
                    [lists[l] EXCEPT !.old = @ \/ (lists[l].at = "read" /\ to # sets)]]
  BY DEF Altered
<1>2. ASSUME NEW l \in DOMAIN lists
      PROVE  /\ lists'[l] \in Request /\ lists'[l].at = lists[l].at /\ lists'[l].rows = lists[l].rows
             /\ lists[l].old \/ (lists[l].at = "read" /\ to # sets) => lists'[l].old
  <2>1. lists[l] \in Request
    BY DEF ListsRight
  <2> DEFINE o == lists[l].old \/ (lists[l].at = "read" /\ to # sets)
  <2>2. lists'[l] = [lists[l] EXCEPT !.old = o]
    BY <1>1
  <2>3. o \in BOOLEAN
    BY <2>1 DEF Request
  <2> HIDE DEF o
  <2>4. lists'[l] \in Request /\ lists'[l].at = lists[l].at /\ lists'[l].rows = lists[l].rows
        /\ lists'[l].old = o
    BY <2>1, <2>2, <2>3 DEF Request
  <2> QED BY <2>4 DEF o
<1>3. Len(lists) \in Nat /\ DOMAIN lists = 1..Len(lists) /\ DOMAIN lists' = 1..Len(lists)
  BY <1>1 DEF ListsRight
<1>5. lists' \in [1..Len(lists) -> Request]
  BY <1>1, <1>2, <1>3
<1>4. lists' \in Seq(Request) /\ Len(lists') = Len(lists)
  BY <1>3, <1>5, SeqDef
<1>6. lists' = <<>> <=> lists = <<>>
  BY <1>4 DEF ListsRight
<1>7. \A l \in DOMAIN lists' : lists'[l].at = "read" => lists'[l].old \/ lists'[l].rows = sets'
  <2> SUFFICES ASSUME NEW l \in DOMAIN lists', lists'[l].at = "read", ~lists'[l].old
               PROVE  lists'[l].rows = sets'
    OBVIOUS
  <2>1. l \in DOMAIN lists
    BY <1>3
  <2>2. lists[l].at = "read" /\ ~lists[l].old /\ lists[l].rows = lists'[l].rows /\ to = sets
    BY <1>2, <2>1
  <2> QED BY <1>1, <2>1, <2>2 DEF ListsRight
<1> QED BY <1>1, <1>4, <1>6, <1>7 DEF ListsRight

LEMMA IndexInvStep == IndexInv /\ [IndexNext]_indexVars => IndexInv'
<1> SUFFICES ASSUME IndexInv, [IndexNext]_indexVars PROVE IndexInv'
  OBVIOUS
<1> USE DEF IndexInv
<1>1. CASE UNCHANGED indexVars
  BY <1>1 DEF indexVars, ListsRight, IndexRight, EditorTyped, EditorRight
<1>2. ASSUME NEW l \in DOMAIN lists, ReadList(l)
      PROVE  IndexInv'
  <2>1. lists' = [lists EXCEPT ![l].at = "read", ![l].rows = sets]
        /\ UNCHANGED <<sets, index, action, editorPart, incidents>>
    BY <1>2 DEF ReadList
  <2>2. lists[l] \in Request /\ sets \in [ScreenSets -> Nat]
    BY DEF ListsRight
  <2> DEFINE x == [lists[l] EXCEPT !.at = "read", !.rows = sets]
  <2>3. x \in Request /\ x.rows = sets
    BY <2>2 DEF Request
  <2>4. lists' = [lists EXCEPT ![l] = x]
    BY <2>1
  <2> HIDE DEF x
  <2>5. lists' \in Seq(Request) /\ lists' # <<>>
    BY <2>3, <2>4 DEF ListsRight
  <2>6. ListsRight'
    BY <2>1, <2>3, <2>4, <2>5 DEF ListsRight
  <2> QED BY <2>1, <2>5, <2>6 DEF IndexRight, EditorTyped, EditorRight, editorPart
<1>3. ASSUME NEW l \in DOMAIN lists, ShowList(l)
      PROVE  IndexInv'
  <2>1. /\ lists[l].at = "read" /\ index' = [state |-> "ready", rows |-> lists[l].rows]
        /\ lists' = RemoveAt(lists, l) /\ UNCHANGED <<sets, editorPart>>
        /\ incidents' = IF lists[l].old THEN incidents \cup {"overtaken"}
                                       ELSE incidents \ {"overtaken"}
    BY <1>3 DEF ShowList
  <2>2. lists' \in Seq(Request) /\ \A k \in DOMAIN lists' : \E m \in DOMAIN lists : lists'[k] = lists[m]
    BY <2>1, RemoveAtEntries DEF ListsRight
  <2>3. lists[l] \in Request
    BY DEF ListsRight
  <2>4. index' \in [state : {"loading", "ready", "failed"}, rows : [ScreenSets -> Nat]]
    BY <2>1, <2>3 DEF Request
  <2>5. ListsRight'
    <3>1. \A k \in DOMAIN lists' : lists'[k].at = "read" => lists'[k].old \/ lists'[k].rows = sets
      BY <2>2 DEF ListsRight
    <3>2. sets' = sets /\ sets \in [ScreenSets -> Nat]
      BY <2>1 DEF ListsRight
    <3> QED BY <2>2, <2>4, <3>1, <3>2 DEF ListsRight
  <2>6. IndexRight'
    BY <2>1 DEF ListsRight, IndexRight
  <2> QED BY <2>1, <2>5, <2>6 DEF EditorTyped, EditorRight, editorPart
<1>4. ASSUME NEW l \in DOMAIN lists, ListFails(l)
      PROVE  IndexInv'
  <2>1. /\ index' = [state |-> "failed", rows |-> NoSets]
        /\ lists' = RemoveAt(lists, l) /\ UNCHANGED <<sets, editorPart, incidents>>
    BY <1>4 DEF ListFails
  <2>2. lists' \in Seq(Request) /\ \A k \in DOMAIN lists' : \E m \in DOMAIN lists : lists'[k] = lists[m]
    BY <2>1, RemoveAtEntries DEF ListsRight
  <2>3. ListsRight'
    BY <2>1, <2>2 DEF ListsRight, NoSets, NoItem
  <2> QED BY <2>1, <2>3 DEF IndexRight, EditorTyped, EditorRight, editorPart
<1>5. CASE TryAgain
  BY <1>5, LoadKeeps DEF TryAgain, IndexRight, EditorTyped, EditorRight, editorPart
<1>6. ASSUME NEW kind \in {"starter", "prepare"}, PressAction(kind)
      PROVE  IndexInv'
  BY <1>6 DEF PressAction, ListsRight, IndexRight, EditorTyped, EditorRight, editorPart
<1>7. ASSUME NEW s \in ScreenSets, NEW p \in SlotProducts, MakeSet(s, p)
      PROVE  IndexInv'
  <2>1. p \in Nat /\ [sets EXCEPT ![s] = p] \in [ScreenSets -> Nat]
    BY IndexAssumption DEF SlotProducts, ListsRight
  <2> QED BY <1>7, <2>1, AlteredKeeps DEF MakeSet, IndexRight, EditorTyped, EditorRight, editorPart
<1>8. CASE ActionDone
  <2>1. CASE action = "made" /\ Load(TRUE) /\ action' = "reload"
    BY <1>8, <2>1, LoadKeeps DEF ActionDone, IndexRight, EditorTyped, EditorRight, editorPart
  <2>2. CASE action = "prepare" /\ action' = "none" /\ UNCHANGED <<lists, index>>
    BY <1>8, <2>2 DEF ActionDone, ListsRight, IndexRight, EditorTyped, EditorRight, editorPart
  <2> QED BY <1>8, <2>1, <2>2 DEF ActionDone
<1>9. CASE ActionFails
  BY <1>9 DEF ActionFails, Happened, ListsRight, IndexRight, EditorTyped, EditorRight, editorPart
<1>10. ASSUME NEW s \in ScreenSets, OpenEditor(s)
       PROVE  IndexInv'
  BY <1>10 DEF OpenEditor, Closed, ListsRight, IndexRight, EditorTyped, EditorRight
<1>11. ASSUME NEW p \in SlotProducts \cup {NoItem}, Send(p)
       PROVE  IndexInv'
  <2>0. p \in Nat
    BY IndexAssumption DEF SlotProducts, NoItem
  <2> DEFINE y == [n |-> editor.n, set |-> editor.set, to |-> p, at |-> "asked"]
  <2>1. /\ editor.n # 0 /\ ~editor.waits /\ editor' = [editor EXCEPT !.waits = TRUE]
        /\ changing' = changing \cup {y}
        /\ UNCHANGED <<sets, lists, index, action, editors, incidents>>
    BY <1>11 DEF Send
  <2>2. EditorTyped'
    <3>1. editor \in [n : Nat, set : ScreenSets \cup {0}, waits : BOOLEAN]
      BY DEF EditorTyped
    <3>2. editor' \in [n : Nat, set : ScreenSets \cup {0}, waits : BOOLEAN]
      BY <2>1, <3>1
    <3>3. y \in [n : Nat, set : ScreenSets \cup {0}, to : Nat, at : {"asked", "ok", "refused"}]
      BY <2>0, <3>1
    <3> QED BY <2>1, <3>2, <3>3 DEF EditorTyped
  <2>3. EditorRight'
    <3>1. editor' = [n |-> editor.n, set |-> editor.set, waits |-> TRUE]
      BY <2>1 DEF EditorTyped
    <3>2. y.n = editor.n
      OBVIOUS
    <3> HIDE DEF y
    <3> QED BY <2>1, <3>1, <3>2 DEF EditorRight
  <2> QED BY <2>1, <2>2, <2>3 DEF ListsRight, IndexRight
<1>12. ASSUME NEW x \in changing, Carry(x)
       PROVE  IndexInv'
  <2>1. PICK way \in {"ok", "refused"} :
          /\ changing' = (changing \ {x}) \cup {[x EXCEPT !.at = way]}
          /\ IF way = "ok" THEN Altered([sets EXCEPT ![x.set] = x.to]) ELSE UNCHANGED <<sets, lists>>
    BY <1>12 DEF Carry
  <2>2. x.at = "asked" /\ UNCHANGED <<index, action, editor, editors, incidents>>
    BY <1>12 DEF Carry
  <2> DEFINE y == [x EXCEPT !.at = way]
  <2>3. y \in [n : Nat, set : ScreenSets \cup {0}, to : Nat, at : {"asked", "ok", "refused"}]
        /\ y.n = x.n /\ y.at = way /\ x.to \in Nat
    BY DEF EditorTyped
  <2> HIDE DEF y
  <2>4. changing' = (changing \ {x}) \cup {y}
    BY <2>1 DEF y
  <2>5. EditorTyped' /\ EditorRight'
    BY <2>2, <2>3, <2>4 DEF EditorTyped, EditorRight
  <2>6. CASE way = "ok"
    <3>1. [sets EXCEPT ![x.set] = x.to] \in [ScreenSets -> Nat]
      BY <2>3 DEF ListsRight
    <3>2. ListsRight'
      BY <2>1, <2>2, <2>6, <3>1, AlteredKeeps
    <3>3. IndexRight'
      BY <2>3, <2>4, <2>6 DEF IndexRight
    <3> QED BY <2>5, <3>2, <3>3
  <2>7. CASE way # "ok"
    <3>1. \A z \in changing : z.at = "ok" => z \in changing'
      BY <2>2, <2>4
    <3> QED BY <2>1, <2>2, <2>5, <2>7, <3>1 DEF ListsRight, IndexRight
  <2> QED BY <2>6, <2>7
<1>13. ASSUME NEW x \in changing, Saved(x)
       PROVE  IndexInv'
  <2>1. ListsRight' /\ IndexRight'
    BY <1>13, LoadKeeps DEF Saved, Reloads, IndexRight
  <2>2. EditorTyped'
    BY <1>13 DEF Saved, EditorTyped, Closed
  <2>3. EditorRight'
    BY <1>13 DEF Saved, EditorRight, Happened, Closed
  <2> QED BY <2>1, <2>2, <2>3
<1>14. ASSUME NEW x \in changing, SaveFails(x)
       PROVE  IndexInv'
  <2>1. ListsRight' /\ IndexRight'
    BY <1>14 DEF SaveFails, ListsRight, IndexRight
  <2>2. EditorTyped'
    BY <1>14 DEF SaveFails, EditorTyped
  <2>3. EditorRight'
    BY <1>14 DEF SaveFails, EditorRight
  <2> QED BY <2>1, <2>2, <2>3
<1>15. CASE Dismiss
  <2>1. ListsRight' /\ IndexRight'
    BY <1>15 DEF Dismiss, Happened, ListsRight, IndexRight
  <2>2. EditorTyped' /\ EditorRight'
    BY <1>15 DEF Dismiss, Happened, EditorTyped, EditorRight, Closed
  <2> QED BY <2>1, <2>2
<1> QED BY <1>1, <1>2, <1>3, <1>4, <1>5, <1>6, <1>7, <1>8, <1>9, <1>10, <1>11, <1>12, <1>13,
           <1>14, <1>15 DEF IndexNext

-----------------------------------------------------------------------------
\* The candidates that are there are the only ones asked for, so that what was
\* selected among them stays among them.
PickerInv ==
  /\ fetching \in Nat /\ slot \in [was : Nat, value : Nat]
  /\ picker \in [there : BOOLEAN, offers : SUBSET SlotProducts]
  /\ ~refetched =>
       /\ picker.there => fetching = 0
       /\ fetching <= 1
       /\ slot.was # NoItem => slot.value \in Options /\ (~picker.there => slot.value = slot.was)

LEMMA PickerInvStep == PickerInv /\ [PickerNext]_pickerVars => PickerInv'
<1> SUFFICES ASSUME PickerInv, [PickerNext]_pickerVars PROVE PickerInv'
  OBVIOUS
<1> USE DEF PickerInv, Options
<1>1. CASE UNCHANGED pickerVars
  BY <1>1 DEF pickerVars
<1>2. ASSUME NEW p \in SlotProducts, OpenSlot(p)
      PROVE  PickerInv'
  <2>1. p \in Nat
    BY IndexAssumption DEF SlotProducts
  <2>2. slot' = [was |-> p, value |-> p] /\ UNCHANGED picker
    BY <1>2 DEF OpenSlot
  <2>3. CASE picker.there
    BY <1>2, <2>1, <2>2, <2>3 DEF OpenSlot
  <2>4. CASE ~picker.there
    <3>1. fetching' = fetching + 1 /\ refetched' = (refetched \/ fetching > 0)
      BY <1>2, <2>4 DEF OpenSlot
    <3>2. CASE refetched \/ fetching > 0
      <4>1. refetched'
        BY <3>1, <3>2, Zenon
      <4>2. fetching' \in Nat
        BY <3>1
      <4> QED BY <2>1, <2>2, <4>1, <4>2
    <3>3. CASE ~refetched /\ ~(fetching > 0)
      <4>1. fetching = 0 /\ fetching' = 1
        BY <3>1, <3>3
      <4> QED BY <2>1, <2>2, <2>4, <4>1
    <3> QED BY <3>2, <3>3
  <2> QED BY <2>3, <2>4
<1>3. ASSUME NEW p \in SlotProducts, Select(p)
      PROVE  PickerInv'
  <2>1. p \in Nat
    BY IndexAssumption DEF SlotProducts
  <2> QED BY <1>3, <2>1 DEF Select
<1>4. ASSUME NEW offers \in SUBSET SlotProducts, CandidatesArrive(offers)
      PROVE  PickerInv'
  BY <1>4 DEF CandidatesArrive
<1>5. CASE CandidatesFail
  BY <1>5 DEF CandidatesFail
<1>6. CASE CloseSlot
  BY <1>6 DEF CloseSlot, NoItem
<1> QED BY <1>1, <1>2, <1>3, <1>4, <1>5, <1>6 DEF PickerNext

\* What the screen leaves behind: with nothing under way it lists the sets as they
\* are, no editor was closed over the merchant's head and no error went unseen, and
\* a slot has selected one of its options, but for what the property excepts.
THEOREM ScreenIsFaithful == IndexSpec /\ PickerSpec => []ScreenKeepsFaith
<1>1. IndexInit => IndexInv
  <2> SUFFICES ASSUME IndexInit PROVE IndexInv
    OBVIOUS
  <2> USE IndexAssumption DEF IndexInit, ListRequest, NoSets, NoItem, Closed
  <2>1. ListsRight
    BY DEF ListsRight, Request
  <2> QED BY <2>1 DEF IndexInv, IndexRight, EditorTyped, EditorRight
<1>2. PickerInit => PickerInv
  <2> SUFFICES ASSUME PickerInit PROVE PickerInv
    OBVIOUS
  <2>1. picker \in [there : BOOLEAN, offers : SUBSET SlotProducts] /\ ~picker.there
    BY DEF PickerInit
  <2>2. slot \in [was : Nat, value : Nat] /\ slot.was = NoItem
    BY DEF PickerInit, NoItem
  <2> QED BY <2>1, <2>2 DEF PickerInit, PickerInv
<1>3. IndexInv /\ PickerInv => ScreenKeepsFaith
  BY DEF IndexInv, PickerInv, IndexRight, EditorRight, AtRest, ScreenKeepsFaith
<1> QED BY <1>1, <1>2, <1>3, IndexInvStep, PickerInvStep, PTL DEF IndexSpec, PickerSpec

-----------------------------------------------------------------------------
(* BundleBuilder: what is known of a click whose answers all came.         *)

CartLine == [click : Nat, step : BuilderSteps]

Clicks == [n : Nat, at : {"idle", "asked", "landed", "discarding", "removing", "reporting"},
           answer : {"", "ok", "unreadable", "500", "422"},
           keys : SUBSET CartLine, asked : SUBSET BuilderSteps]

BuilderTypes ==
  /\ lines \subseteq CartLine /\ shelf \subseteq BuilderSteps
  /\ click \in Clicks

\* A number is used by one click, and what may still land was given up.
ClicksRight ==
  /\ \A x \in lines : x.click <= click.n
  /\ \A n \in sold \cup adrift : n \in 1..click.n
  /\ adrift \subseteq wronged
  /\ \A x \in click.keys : x.click = click.n
  /\ click.at # "idle" => click.n # 0

Full(n) == \A s \in BuilderSteps : [click |-> n, step |-> s] \in lines
None(n) == \A x \in lines : x.click # n

EndedRight(n) == (n \in sold => Full(n)) /\ (n \notin sold => None(n))

\* What the click under way has in the cart.
RunningRight ==
  /\ click.n \notin sold
  /\ click.at \in {"asked", "reporting"} => None(click.n)
  /\ click.at = "landed" /\ click.answer = "ok" => Full(click.n)
  /\ click.at = "removing" => LinesOf(click.n) \subseteq click.keys

AllRight ==
  \A n \in 1..click.n : n \notin wronged =>
    IF n = click.n /\ click.at # "idle" THEN RunningRight ELSE EndedRight(n)

LastRight ==
  click.n # 0 /\ click.n \notin wronged =>
    IF click.at # "idle" THEN RunningRight ELSE EndedRight(click.n)

BuilderInv == BuilderTypes /\ ClicksRight /\ AllRight

\* Earlier clicks stay as they are when only the last one's lines change, and lines
\* of clicks that were given up.
LEMMA EarlierStay ==
  ASSUME BuilderInv, BuilderTypes', ClicksRight',
         click'.n = click.n, wronged \subseteq wronged',
         \A n \in 1..click.n : n # click.n /\ n \notin wronged =>
           /\ n \in sold <=> n \in sold'
           /\ \A s \in BuilderSteps : [click |-> n, step |-> s] \in lines
                                   => [click |-> n, step |-> s] \in lines'
           /\ \A x \in lines' : x.click = n => x \in lines,
         LastRight'
  PROVE  BuilderInv'
<1>1. click.n \in Nat
  BY DEF BuilderInv, BuilderTypes, Clicks
<1>2. ASSUME NEW n \in 1..click.n, n # click.n, n \notin wronged'
      PROVE  EndedRight(n)'
  <2>1. EndedRight(n) /\ n \notin wronged
    BY <1>2 DEF BuilderInv, AllRight
  <2> QED BY <1>2, <2>1 DEF EndedRight, Full, None
<1>3. AllRight'
  BY <1>1, <1>2 DEF AllRight, LastRight
<1> QED BY <1>3 DEF BuilderInv

LEMMA TheLastClick == BuilderInv => LastRight /\ click \in Clicks /\ click.n \in Nat
                                    /\ \A x \in click.keys : x.click = click.n
<1> SUFFICES ASSUME BuilderInv
             PROVE  LastRight /\ click.n \in Nat
  BY DEF BuilderInv, BuilderTypes, ClicksRight
<1>1. click.n \in Nat
  BY DEF BuilderInv, BuilderTypes, Clicks
<1>2. click.n # 0 => click.n \in 1..click.n
  BY <1>1
<1> QED BY <1>1, <1>2 DEF BuilderInv, AllRight, LastRight

\* Only the click moves, and the cart stays.
LEMMA OnlyClickMoves ==
  ASSUME BuilderInv, UNCHANGED <<lines, shelf, adrift>>, wronged \subseteq wronged',
         click' \in Clicks, click'.n = click.n, \A x \in click'.keys : x.click = click.n,
         click.at # "idle", sold' \in {sold, sold \cup {click.n}},
         LastRight'
  PROVE  BuilderInv'
<1>0. click.n \in 1..click.n
  BY TheLastClick DEF BuilderInv, ClicksRight
<1>1. BuilderTypes'
  BY DEF BuilderInv, BuilderTypes
<1>2. ClicksRight'
  BY <1>0 DEF BuilderInv, ClicksRight
<1> QED BY <1>1, <1>2, EarlierStay

\* The shopper, and other customers, leave cart and click alone.
LEMMA ClickAlone ==
  ASSUME BuilderInv, UNCHANGED <<lines, click, adrift, wronged, sold>>, shelf' \subseteq shelf
  PROVE  BuilderInv'
  BY DEF BuilderInv, BuilderTypes, ClicksRight, AllRight, RunningRight, EndedRight, Full, None, LinesOf

\* A handler that ends with no line left tells no success.
LEMMA ReportKeeps ==
  ASSUME BuilderInv, click.at = "reporting", NEW reason, Report(reason)
  PROVE  BuilderInv'
<1> DEFINE y == [click EXCEPT !.at = "idle"]
<1>1. click' = y /\ UNCHANGED <<lines, shelf, adrift, wronged, sold>>
  BY DEF Report, builderWorld
<1>2. y \in Clicks /\ y.n = click.n /\ y.at = "idle" /\ y.keys = click.keys /\ click.n \in Nat
  BY DEF BuilderInv, BuilderTypes, Clicks
<1> HIDE DEF y
<1>3. \A x \in click.keys : x.click = click.n
  BY DEF BuilderInv, ClicksRight
<1>4. LastRight /\ click.n # 0
  BY TheLastClick DEF BuilderInv, ClicksRight
<1>5. LastRight'
  BY <1>1, <1>2, <1>4 DEF LastRight, RunningRight, EndedRight, None
<1> QED BY <1>1, <1>2, <1>3, <1>5, OnlyClickMoves

\* Lines that land, for the click under way or for one that was given up.
LEMMA Landed ==
  ASSUME BuilderInv, NEW n \in 1..click.n, AddLines(n)
  PROVE  /\ lines' \subseteq CartLine
         /\ \A x \in lines' : x \in lines \/ x.click = n
         /\ lines \subseteq lines'
         /\ Landing = BuilderSteps => \A s \in BuilderSteps : [click |-> n, step |-> s] \in lines'
<1>1. lines' = lines \cup {[click |-> n, step |-> s] : s \in Landing}
  BY DEF AddLines
<1>2. Landing \subseteq BuilderSteps /\ n \in Nat
  BY DEF Landing, BuilderInv, BuilderTypes
<1> QED BY <1>1, <1>2 DEF CartLine, BuilderInv, BuilderTypes

LEMMA BuilderInvStep == BuilderInv /\ [BuilderNext]_builderVars => BuilderInv'
<1> SUFFICES ASSUME BuilderInv, [BuilderNext]_builderVars PROVE BuilderInv'
  OBVIOUS
<1>t. click \in Clicks /\ click.n \in Nat /\ LastRight
  BY TheLastClick
<1>k. \A x \in click.keys : x.click = click.n
  BY DEF BuilderInv, ClicksRight
<1>1. CASE UNCHANGED builderVars
  BY <1>1, ClickAlone DEF builderVars
<1>2. ASSUME NEW step \in BuilderSteps, Choose(step)
      PROVE  BuilderInv'
  BY <1>2, ClickAlone DEF Choose, builderWorld
<1>3. ASSUME NEW step \in BuilderSteps, LoseProduct(step)
      PROVE  BuilderInv'
  BY <1>3, ClickAlone DEF LoseProduct
<1>4. CASE Submit
  <2>1. CASE chosen # BuilderSteps
    BY <1>4, <2>1, ClickAlone DEF Submit, builderWorld
  <2>2. CASE chosen = BuilderSteps
    <3>1. click' = [n |-> click.n + 1, at |-> "asked", answer |-> "", keys |-> {}, asked |-> {}]
          /\ click.at = "idle" /\ UNCHANGED <<lines, shelf, adrift, wronged, sold>>
      BY <1>4, <2>2 DEF Submit, builderWorld
    <3>0. click.n + 1 \in Nat /\ \A l \in Nat : l <= click.n => l <= click.n + 1
      BY <1>t
    <3>2. BuilderTypes' /\ click'.n = click.n + 1 /\ click'.at = "asked" /\ click'.keys = {}
      BY <3>0, <3>1 DEF BuilderInv, BuilderTypes, Clicks
    <3>3. ClicksRight'
      <4>1. \A x \in lines : x.click \in Nat /\ x.click <= click.n
        BY DEF BuilderInv, ClicksRight, BuilderTypes, CartLine
      <4>2. \A x \in lines' : x.click <= click.n + 1
        BY <3>0, <3>1, <4>1
      <4>3. \A n \in 1..click.n : n \in 1..(click.n + 1)
        BY <1>t
      <4>4. \A n \in sold \cup adrift : n \in 1..(click.n + 1)
        BY <4>3 DEF BuilderInv, ClicksRight
      <4>5. click.n + 1 # 0
        BY <1>t
      <4> QED BY <3>1, <3>2, <4>2, <4>4, <4>5 DEF BuilderInv, ClicksRight
    <3>4. RunningRight'
      <4>1. \A x \in lines : x.click \in Nat /\ x.click <= click.n
        BY DEF BuilderInv, ClicksRight, BuilderTypes, CartLine
      <4>2. \A x \in lines : x.click # click.n + 1
        BY <1>t, <4>1
      <4>3. click.n + 1 \notin sold
        BY <1>t DEF BuilderInv, ClicksRight
      <4> QED BY <3>1, <3>2, <4>2, <4>3 DEF RunningRight, None
    <3>5. \A n \in 1..click.n : n \notin wronged => EndedRight(n)'
      BY <3>1 DEF BuilderInv, AllRight, EndedRight, Full, None
    <3>6. AllRight'
      <4> SUFFICES ASSUME NEW n \in 1..(click.n + 1), n \notin wronged
                   PROVE  IF n = click.n + 1 THEN RunningRight' ELSE EndedRight(n)'
        BY <3>1, <3>2 DEF AllRight
      <4>1. n = click.n + 1 \/ n \in 1..click.n
        BY <1>t
      <4> QED BY <3>4, <3>5, <4>1
    <3> QED BY <3>2, <3>3, <3>6 DEF BuilderInv
  <2> QED BY <2>1, <2>2
<1>z. click.at # "idle" => click.n \in 1..click.n
  BY <1>t DEF BuilderInv, ClicksRight
<1>5. CASE Land
  <2>1. click.at = "asked" /\ AddLines(click.n) /\ UNCHANGED <<adrift, wronged, sold, shelf>>
    BY <1>5 DEF Land, AddLines
  <2>2. PICK answer \in {"ok", "unreadable", "500", "422"} :
          /\ click' = [click EXCEPT !.at = "landed", !.answer = answer]
          /\ answer = "ok" => Landing = BuilderSteps
    BY <1>5 DEF Land
  <2>3. click' \in Clicks /\ click'.n = click.n /\ click'.at = "landed" /\ click'.answer = answer
        /\ click'.keys = click.keys
    BY <1>t, <2>2 DEF Clicks
  <2>4. /\ lines' \subseteq CartLine
        /\ \A x \in lines' : x \in lines \/ x.click = click.n
        /\ lines \subseteq lines'
        /\ answer = "ok" => \A s \in BuilderSteps : [click |-> click.n, step |-> s] \in lines'
    BY <1>z, <2>1, <2>2, Landed
  <2>5. BuilderTypes'
    BY <2>1, <2>3, <2>4 DEF BuilderInv, BuilderTypes
  <2>6. ClicksRight'
    BY <1>t, <2>1, <2>3, <2>4 DEF BuilderInv, ClicksRight
  <2>7. LastRight'
    BY <1>t, <2>1, <2>3, <2>4 DEF LastRight, RunningRight, Full
  <2> QED BY <2>1, <2>3, <2>4, <2>5, <2>6, <2>7, EarlierStay
<1>6. CASE Receive
  <2>1. click.at = "landed" /\ UNCHANGED <<lines, shelf, adrift, wronged>>
    BY <1>6 DEF Receive, builderWorld
  <2>2. CASE IsFailure(click.answer)
    <3>1. click' = [click EXCEPT !.at = "discarding"] /\ UNCHANGED sold
      BY <1>6, <2>2 DEF Receive
    <3>2. click' \in Clicks /\ click'.n = click.n /\ click'.at = "discarding" /\ click'.keys = click.keys
      BY <1>t, <3>1 DEF Clicks
    <3>3. LastRight'
      BY <1>t, <2>1, <3>1, <3>2 DEF LastRight, RunningRight
    <3> QED BY <1>k, <1>z, <2>1, <3>1, <3>2, <3>3, OnlyClickMoves
  <2>3. CASE ~IsFailure(click.answer)
    <3>1. click' = [click EXCEPT !.at = "idle"] /\ sold' = sold \cup {click.n} /\ click.answer = "ok"
      BY <1>6, <2>3 DEF Receive, IsFailure
    <3>2. click' \in Clicks /\ click'.n = click.n /\ click'.at = "idle" /\ click'.keys = click.keys
      BY <1>t, <3>1 DEF Clicks
    <3>3. LastRight'
      BY <1>t, <2>1, <3>1 DEF LastRight, RunningRight, EndedRight, Full
    <3> QED BY <1>k, <1>z, <2>1, <3>1, <3>2, <3>3, OnlyClickMoves
  <2> QED BY <2>2, <2>3
<1>7. CASE NetworkError
  <2>1. /\ click.at \in {"asked", "landed"} /\ click' = [click EXCEPT !.at = "idle"]
        /\ wronged' = wronged \cup {click.n} /\ UNCHANGED <<lines, shelf, sold>>
        /\ adrift' \in {adrift, adrift \cup {click.n}}
    BY <1>7 DEF NetworkError
  <2>2. click' \in Clicks /\ click'.n = click.n /\ click'.at = "idle" /\ click'.keys = click.keys
    BY <1>t, <2>1 DEF Clicks
  <2>3. BuilderTypes'
    BY <2>1, <2>2 DEF BuilderInv, BuilderTypes
  <2>4. ClicksRight'
    BY <1>t, <1>z, <2>1, <2>2 DEF BuilderInv, ClicksRight
  <2>5. LastRight'
    BY <2>1, <2>2 DEF LastRight
  <2> QED BY <2>1, <2>2, <2>3, <2>4, <2>5, EarlierStay
<1>8. ASSUME NEW n \in adrift, LandLate(n)
      PROVE  BuilderInv'
  <2>1. AddLines(n) /\ adrift' = adrift \ {n} /\ UNCHANGED <<click, wronged, sold, shelf>>
    BY <1>8 DEF LandLate, AddLines
  <2>2. n \in 1..click.n /\ n \in wronged
    BY DEF BuilderInv, ClicksRight
  <2>3. /\ lines' \subseteq CartLine
        /\ \A x \in lines' : x \in lines \/ x.click = n
        /\ lines \subseteq lines'
    BY <2>1, <2>2, Landed
  <2>4. BuilderTypes' /\ ClicksRight'
    BY <1>t, <2>1, <2>2, <2>3 DEF BuilderInv, BuilderTypes, ClicksRight
  <2>5. LastRight'
    <3> SUFFICES ASSUME click.n # 0, click.n \notin wronged
                 PROVE  IF click.at # "idle" THEN RunningRight' ELSE EndedRight(click.n)'
      BY <2>1 DEF LastRight
    <3>1. n # click.n /\ \A x \in lines' : x.click = click.n => x \in lines
      BY <2>2, <2>3
    <3>2. CASE click.at # "idle"
      BY <1>t, <2>1, <2>3, <3>1, <3>2 DEF LastRight, RunningRight, Full, None, LinesOf
    <3>3. CASE click.at = "idle"
      <4>1. EndedRight(click.n)
        BY <1>t, <3>3 DEF LastRight
      <4> QED BY <2>1, <2>3, <3>1, <3>3, <4>1 DEF EndedRight, Full, None
    <3> QED BY <3>2, <3>3
  <2> QED BY <2>1, <2>2, <2>3, <2>4, <2>5, EarlierStay
<1>9. CASE ReadCart
  <2>1. /\ click.at = "discarding" /\ UNCHANGED <<lines, shelf, adrift, wronged, sold>>
        /\ click' = [click EXCEPT !.keys = LinesOf(click.n),
                                  !.at = IF LinesOf(click.n) = {} THEN "reporting" ELSE "removing"]
    BY <1>9 DEF ReadCart, Discarded, builderWorld
  <2>2. LinesOf(click.n) \subseteq CartLine
    BY DEF LinesOf, BuilderInv, BuilderTypes
  <2>3. click' \in Clicks /\ click'.n = click.n /\ click'.keys = LinesOf(click.n)
        /\ click'.at = IF LinesOf(click.n) = {} THEN "reporting" ELSE "removing"
    BY <1>t, <2>1, <2>2 DEF Clicks
  <2>4. LastRight'
    BY <1>t, <2>1, <2>3 DEF LastRight, RunningRight, None, LinesOf
  <2>5. \A x \in click'.keys : x.click = click.n
    BY <2>3 DEF LinesOf
  <2> QED BY <2>1, <2>3, <2>4, <2>5, OnlyClickMoves
<1>10. ASSUME click.at \in {"discarding", "removing"}, click' = [click EXCEPT !.at = "reporting"],
              wronged' \in {wronged, wronged \cup {click.n}},
              lines' \in {lines, lines \ click.keys},
              click.n \in wronged' \/ (click.at = "removing" /\ lines' = lines \ click.keys),
              UNCHANGED <<shelf, adrift, sold>>
       PROVE  BuilderInv'
  <2>1. click' \in Clicks /\ click'.n = click.n /\ click'.at = "reporting" /\ click'.keys = click.keys
    BY <1>t, <1>10 DEF Clicks
  <2>2. BuilderTypes' /\ ClicksRight'
    BY <1>t, <1>10, <2>1 DEF BuilderInv, BuilderTypes, ClicksRight
  <2>3. LastRight'
    BY <1>t, <1>10, <2>1 DEF LastRight, RunningRight, None, LinesOf
  <2>4. \A n \in 1..click.n : n # click.n =>
          /\ \A s \in BuilderSteps : [click |-> n, step |-> s] \in lines
                                  => [click |-> n, step |-> s] \in lines'
          /\ \A x \in lines' : x.click = n => x \in lines
    BY <1>k, <1>10
  <2> QED BY <1>10, <2>1, <2>2, <2>3, <2>4, EarlierStay
<1>11. CASE RemoveLines
  BY <1>10, <1>11 DEF RemoveLines
<1>12. CASE DiscardFails
  BY <1>10, <1>12 DEF DiscardFails
<1>13. CASE Unclassified
  BY <1>13, ReportKeeps DEF Unclassified
<1>14. ASSUME NEW step \in BuilderSteps, Classify(step)
       PROVE  BuilderInv'
  <2>1. CASE \E reason \in {"variant_missing", "unavailable", "generic", "stock_claimed"} : Report(reason)
    BY <1>14, <2>1, ReportKeeps DEF Classify
  <2>2. CASE click' = [click EXCEPT !.asked = @ \cup {step}]
             /\ UNCHANGED <<chosen, builderWorld, says, cartLink, wronged, sold>>
    <3>1. click' \in Clicks /\ click'.n = click.n /\ click'.at = "reporting" /\ click'.keys = click.keys
      BY <1>14, <1>t, <2>2 DEF Classify, Clicks
    <3>2. click.at = "reporting" /\ UNCHANGED <<lines, shelf, adrift, wronged, sold>>
      BY <1>14, <2>2 DEF Classify, builderWorld
    <3>3. LastRight'
      BY <1>t, <3>1, <3>2 DEF LastRight, RunningRight, None
    <3> QED BY <1>k, <3>1, <3>2, <3>3, OnlyClickMoves
  <2> QED BY <1>14, <2>1, <2>2 DEF Classify
<1> QED BY <1>1, <1>2, <1>3, <1>4, <1>5, <1>6, <1>7, <1>8, <1>9, <1>11, <1>12, <1>13, <1>14
        DEF BuilderNext

\* All or nothing: once a click has ended its lines are all in the cart or none is,
\* and all of them exactly if it said so, unless an answer was lost.
THEOREM RoutinesAreWhole == BuilderSpec => []WholeOrNothing
<1>1. BuilderInit => BuilderInv
  <2> SUFFICES ASSUME BuilderInit PROVE BuilderInv
    OBVIOUS
  <2>1. BuilderTypes /\ click.n = 0 /\ click.at = "idle" /\ click.keys = {}
    BY DEF BuilderInit, BuilderTypes, Clicks
  <2>2. ClicksRight
    BY <2>1 DEF BuilderInit, ClicksRight
  <2>3. AllRight
    BY <2>1 DEF AllRight
  <2> QED BY <2>1, <2>2, <2>3 DEF BuilderInv
<1>2. BuilderInv => WholeOrNothing
  <2> SUFFICES ASSUME BuilderInv, NEW n \in 1..click.n, n = click.n => click.at = "idle", n \notin wronged
               PROVE  LET steps == {x.step : x \in LinesOf(n)} IN
                        steps \in {{}, BuilderSteps} /\ (n \in sold <=> steps = BuilderSteps)
    BY DEF WholeOrNothing
  <2> DEFINE steps == {x.step : x \in LinesOf(n)}
  <2>1. EndedRight(n) /\ lines \subseteq CartLine
    BY DEF BuilderInv, BuilderTypes, AllRight
  <2>2. CASE n \in sold
    <3>1. ASSUME NEW s \in BuilderSteps
          PROVE  s \in steps
      <4>1. [click |-> n, step |-> s] \in LinesOf(n)
        BY <2>1, <2>2 DEF EndedRight, Full, LinesOf
      <4> QED BY <4>1
    <3>2. steps \subseteq BuilderSteps
      BY <2>1 DEF LinesOf, CartLine
    <3>3. steps = BuilderSteps
      BY <3>1, <3>2
    <3> QED BY <2>2, <3>3
  <2>3. CASE n \notin sold
    <3>1. steps = {}
      BY <2>1, <2>3 DEF EndedRight, None, LinesOf
    <3> QED BY <2>3, <3>1, BuilderAssumption
  <2> QED BY <2>2, <2>3
<1> QED BY <1>1, <1>2, BuilderInvStep, PTL DEF BuilderSpec

-----------------------------------------------------------------------------
(* ProductPage: one request for a variant at a time, and it is the last.   *)

AnyVariant == ProductVariants \cup {NoVariant}
RuleSheet  == [variant : ProductVariants, items : Nat]
Additions  == [n : Nat, variant : ProductVariants, qty : Nat, at : {"sent", "added", "refused"}]
SheetCalls == [n : Nat, variant : AnyVariant, read : BOOLEAN, items : Nat, old : BOOLEAN]

ProductTypes ==
  /\ selected \in AnyVariant /\ formVariant \in AnyVariant /\ selections \in Nat /\ adds \in Nat
  /\ button \in [disabled : BOOLEAN, aria : BOOLEAN]
  /\ inCart \in [ProductVariants -> Nat] /\ notices \in Nat
  /\ adding \subseteq Additions
  /\ rules \in RuleSheet
  /\ variantCalls \subseteq SheetCalls
  /\ rulesAsked \in Nat /\ rulesCalls \subseteq {c \in SheetCalls : c.variant # NoVariant}

\* The request under way is the last one's: the others were cancelled.
CallsRight ==
  /\ \A c \in variantCalls : c.n = selections /\ c.variant = selected
  /\ \A c, d \in variantCalls : c = d
  /\ ~button.disabled => formVariant = selected /\ formVariant # NoVariant
  /\ ~button.aria => adding = {}
  /\ \A a, b \in adding : a = b

\* A promise that is pending is the one held, and its request is under way.
PromisesRight ==
  /\ DOMAIN promises = 1..selections
  /\ pendingPromise # 0 => pendingPromise = selections /\ variantCalls # {}
  /\ \A m \in 1..selections :
       /\ promises[m] # "misled"
       /\ promises[m] = "pending" => m = pendingPromise

\* What was read of the cart is so, or old.
SheetHolds(c, cart) ==
  IF c.variant = NoVariant THEN c.read ELSE c.read /\ ~c.old => c.items = cart[c.variant]
SheetRight(c) == SheetHolds(c, inCart)

\* The rules will be asked for, or an answer will come that is not old.
RulesComing ==
  \/ notices # 0
  \/ \E a \in adding : a.at = "added"
  \/ \E c \in rulesCalls : c.variant = formVariant /\ ~c.old

ItemsCounted ==
  rules.variant = formVariant => rules.items = inCart[formVariant] \/ "cart" \in late \/ RulesComing

RulesRight ==
  /\ \A c \in variantCalls \cup rulesCalls : SheetRight(c)
  /\ ItemsCounted
  /\ rules.variant = formVariant \/ formVariant = NoVariant \/ "rules" \in late

PickupRight ==
  pickupCalls = {} => pickup \in {NoVariant, PickupError, formVariant} \/ "pickup" \in late

ProductInv == ProductTypes /\ CallsRight /\ PromisesRight /\ RulesRight /\ PickupRight

LEMMA TypedVariants == ProductVariants \subseteq Nat /\ NoVariant \notin ProductVariants /\ RuleMax \in Nat
  BY ProductAssumption

\* A request as it is made, and once Shopify has read the cart for it.
LEMMA NewCall ==
  ASSUME NEW n \in Nat, NEW v \in AnyVariant
  PROVE  /\ Call(n, v) \in SheetCalls /\ Call(n, v).n = n /\ Call(n, v).variant = v
         /\ ~Call(n, v).old /\ SheetRight(Call(n, v))
BY DEF Call, SheetCalls, SheetRight, SheetHolds

LEMMA CallRead ==
  ASSUME ProductTypes, NEW c \in SheetCalls, c.variant # NoVariant
  PROVE  /\ ReadFor(c) \in SheetCalls /\ ReadFor(c).n = c.n /\ ReadFor(c).variant = c.variant
         /\ ReadFor(c).old = c.old /\ SheetRight(ReadFor(c))
<1> DEFINE i == inCart[c.variant]
           d == [c EXCEPT !.read = TRUE, !.items = i]
<1>1. i \in Nat
  BY DEF ProductTypes, SheetCalls, AnyVariant
<1>2. ReadFor(c) = d
  BY DEF ReadFor
<1> HIDE DEF i
<1>3. d \in SheetCalls /\ d.n = c.n /\ d.variant = c.variant /\ d.old = c.old /\ d.items = i
  BY <1>1 DEF SheetCalls
<1> HIDE DEF d
<1> QED BY <1>2, <1>3 DEF SheetRight, SheetHolds, i

\* The cart changes: what that does to a request c.
Elder(c, v, qty) == [c EXCEPT !.old = @ \/ (c.read /\ c.variant = v /\ qty # inCart[v])]

LEMMA ElderRight ==
  ASSUME ProductTypes, NEW v \in ProductVariants, NEW qty \in Nat,
         NEW cart, cart = [inCart EXCEPT ![v] = qty], NEW c \in SheetCalls, SheetRight(c)
  PROVE  LET d == Elder(c, v, qty) IN
           /\ d \in SheetCalls /\ d.n = c.n /\ d.variant = c.variant /\ SheetHolds(d, cart)
<1> DEFINE b == c.old \/ (c.read /\ c.variant = v /\ qty # inCart[v])
           d == [c EXCEPT !.old = b]
<1>1. b \in BOOLEAN /\ c.variant \in AnyVariant /\ c.read \in BOOLEAN
  BY DEF SheetCalls
<1>2. Elder(c, v, qty) = d
  BY DEF Elder
<1>3. IF c.variant = NoVariant THEN c.read ELSE c.read /\ ~b => c.items = cart[c.variant]
  BY <1>1 DEF SheetRight, SheetHolds, ProductTypes, AnyVariant
<1> HIDE DEF b
<1>4. /\ d \in SheetCalls /\ d.n = c.n /\ d.variant = c.variant /\ d.read = c.read
      /\ d.items = c.items /\ (d.old <=> b)
  BY <1>1 DEF SheetCalls
<1> HIDE DEF d
<1>5. SheetHolds(d, cart)
  BY <1>3, <1>4 DEF SheetHolds
<1> QED BY <1>2, <1>4, <1>5

LEMMA CartMakesOld ==
  ASSUME ProductTypes, CallsRight, RulesRight, NEW v \in ProductVariants, NEW qty \in Nat,
         CartBecomes(v, qty)
  PROVE  /\ inCart' \in [ProductVariants -> Nat]
         /\ variantCalls' \subseteq SheetCalls
         /\ rulesCalls' \subseteq {c \in SheetCalls : c.variant # NoVariant}
         /\ \A c \in variantCalls' : c.n = selections /\ c.variant = selected
         /\ \A c, d \in variantCalls' : c = d
         /\ variantCalls # {} => variantCalls' # {}
         /\ \A c \in variantCalls' \cup rulesCalls' : SheetRight(c)'
<1>1. /\ inCart' = [inCart EXCEPT ![v] = qty]
      /\ variantCalls' = {Elder(c, v, qty) : c \in variantCalls}
      /\ rulesCalls' = {Elder(c, v, qty) : c \in rulesCalls}
  BY DEF CartBecomes, Elder
<1>2. \A c \in variantCalls \cup rulesCalls :
        LET d == Elder(c, v, qty) IN
          d \in SheetCalls /\ d.n = c.n /\ d.variant = c.variant /\ SheetHolds(d, inCart')
  <2> SUFFICES ASSUME NEW c \in variantCalls \cup rulesCalls
               PROVE  LET d == Elder(c, v, qty) IN
                        d \in SheetCalls /\ d.n = c.n /\ d.variant = c.variant /\ SheetHolds(d, inCart')
    OBVIOUS
  <2>1. c \in SheetCalls /\ SheetRight(c)
    BY DEF ProductTypes, RulesRight
  <2> QED BY <1>1, <2>1, ElderRight
<1>3. inCart' \in [ProductVariants -> Nat]
  BY <1>1 DEF ProductTypes
<1>4. /\ variantCalls' \subseteq SheetCalls
      /\ \A c \in variantCalls' : c.n = selections /\ c.variant = selected
      /\ \A c, d \in variantCalls' : c = d
      /\ variantCalls # {} => variantCalls' # {}
  BY <1>1, <1>2 DEF CallsRight
<1>5. rulesCalls' \subseteq {c \in SheetCalls : c.variant # NoVariant}
  BY <1>1, <1>2 DEF ProductTypes
<1>6. \A c \in variantCalls' \cup rulesCalls' : SheetRight(c)'
  <2> SUFFICES ASSUME NEW d \in variantCalls' \cup rulesCalls' PROVE SheetRight(d)'
    OBVIOUS
  <2>1. PICK c \in variantCalls \cup rulesCalls : d = Elder(c, v, qty)
    BY <1>1
  <2> QED BY <1>2, <2>1 DEF SheetRight
<1> QED BY <1>3, <1>4, <1>5, <1>6

\* cartUpdate asks for the rules of the variant in the form.
LEMMA FetchKeeps ==
  ASSUME ProductTypes, RulesRight, FetchQuantityRules,
         UNCHANGED <<variantCalls, formVariant, inCart, rules, late>>
  PROVE  /\ rulesAsked' \in Nat
         /\ rulesCalls' \subseteq {c \in SheetCalls : c.variant # NoVariant}
         /\ RulesRight'
<1>1. CASE formVariant = NoVariant
  <2>1. UNCHANGED <<rulesCalls, rulesAsked>>
    BY <1>1 DEF FetchQuantityRules, asking
  <2>2. rules.variant # formVariant
    BY <1>1, TypedVariants DEF ProductTypes, RuleSheet
  <2> QED BY <1>1, <2>1, <2>2 DEF ProductTypes, RulesRight, ItemsCounted, SheetRight, SheetHolds
<1>2. CASE formVariant # NoVariant
  <2> DEFINE d == Call(rulesAsked + 1, formVariant)
  <2>1. rulesCalls' = rulesCalls \cup {d} /\ rulesAsked' = rulesAsked + 1
    BY <1>2 DEF FetchQuantityRules
  <2>2. d \in SheetCalls /\ d.variant = formVariant /\ ~d.old /\ SheetRight(d)
    BY NewCall DEF ProductTypes
  <2> HIDE DEF d
  <2>3. RulesComing'
    BY <2>1, <2>2 DEF RulesComing
  <2>4. \A c \in variantCalls' \cup rulesCalls' : SheetRight(c)'
    BY <2>1, <2>2 DEF RulesRight, SheetRight, SheetHolds
  <2>5. RulesRight'
    BY <2>3, <2>4 DEF RulesRight, ItemsCounted
  <2> QED BY <1>2, <2>1, <2>2, <2>5 DEF ProductTypes
<1> QED BY <1>1, <1>2

\* Nothing that the rules depend on moves.
LEMMA RulesStay ==
  ASSUME RulesRight, UNCHANGED <<variantCalls, formVariant, inCart, notices, rules, rulesCalls>>,
         \A a \in adding : a.at = "added" => a \in adding',
         "cart" \in late => "cart" \in late', "rules" \in late => "rules" \in late'
  PROVE  RulesRight'
<1>1. RulesComing => RulesComing'
  BY DEF RulesComing
<1>2. \A c \in variantCalls' \cup rulesCalls' : SheetRight(c)'
  BY DEF RulesRight, SheetRight, SheetHolds
<1> QED BY <1>1, <1>2 DEF RulesRight, ItemsCounted

LEMMA ProductInvStep == ProductInv /\ [ProductNext]_productVars => ProductInv'
<1> SUFFICES ASSUME ProductInv, [ProductNext]_productVars PROVE ProductInv'
  OBVIOUS
<1> USE DEF ProductInv
<1>1. CASE UNCHANGED productVars
  BY <1>1, RulesStay DEF productVars, ProductTypes, CallsRight, PromisesRight, PickupRight
<1>2. ASSUME NEW v \in AnyVariant, SelectOptions(v)
      PROVE  ProductInv'
  <2> DEFINE d == Call(selections + 1, v)
  <2>1. /\ selected' = v /\ selections' = selections + 1
        /\ variantCalls' = {d}
        /\ button' = [button EXCEPT !.disabled = TRUE]
        /\ UNCHANGED <<formVariant, inCart, adding, adds, others, sheet, asking, pickupPart, late>>
    BY <1>2 DEF SelectOptions, Aborted
  <2>2. /\ pendingPromise' = IF variantCalls # {} THEN 0 ELSE selections + 1
        /\ promises' = [m \in 1..(selections + 1) |->
             IF m = selections + 1 THEN (IF variantCalls # {} THEN "rejected" ELSE "pending")
             ELSE IF m = pendingPromise THEN "replaced" ELSE promises[m]]
    BY <1>2 DEF SelectOptions, Aborted
  <2>3. selections \in Nat /\ selections + 1 \in Nat /\ selections + 1 # 0
        /\ \A m \in 1..(selections + 1) : m # selections + 1 => m \in 1..selections
    BY DEF ProductTypes
  <2>4. d \in SheetCalls /\ d.n = selections + 1 /\ d.variant = v /\ SheetRight(d)
    BY <2>3, NewCall
  <2> HIDE DEF d
  <2>5. ProductTypes'
    BY <2>1, <2>3, <2>4 DEF ProductTypes, others, sheet, asking
  <2>6. CallsRight'
    BY <2>1, <2>4 DEF CallsRight, ProductTypes
  <2>7. PromisesRight'
    BY <2>1, <2>2, <2>3 DEF PromisesRight
  <2>8. RulesRight'
    <3>1. RulesComing => RulesComing'
      BY <2>1 DEF RulesComing, others, asking
    <3>2. \A c \in variantCalls' \cup rulesCalls' : SheetRight(c)'
      BY <2>1, <2>4 DEF RulesRight, SheetRight, SheetHolds, asking
    <3> QED BY <2>1, <3>1, <3>2 DEF RulesRight, ItemsCounted, sheet
  <2> QED BY <2>1, <2>5, <2>6, <2>7, <2>8 DEF PickupRight, pickupPart
<1>3. ASSUME NEW c \in variantCalls, NEW how \in {"resolved", "misled", "rejected"},
             how = "misled" => pendingPromise # c.n,
             SettlePromise(how), variantCalls' = variantCalls \ {c}, UNCHANGED selections
      PROVE  PromisesRight'
  <2>1. c.n = selections /\ selections \in Nat
    BY DEF CallsRight, ProductTypes
  <2>2. CASE pendingPromise = 0
    BY <1>3, <2>2 DEF SettlePromise, PromisesRight
  <2>3. CASE pendingPromise # 0
    <3>1. how # "misled" /\ pendingPromise = selections
      BY <1>3, <2>1, <2>3 DEF PromisesRight
    <3> QED BY <1>3, <2>1, <2>3, <3>1 DEF SettlePromise, PromisesRight
  <2> QED BY <2>2, <2>3
<1>4. ASSUME NEW c \in variantCalls, NEW v \in {c.variant, NoVariant}, NEW available \in BOOLEAN,
             VariantArrives(c, v, available)
      PROVE  ProductInv'
  <2>0. /\ c.variant = selected /\ selected \in AnyVariant /\ variantCalls' = {}
        /\ c \in SheetCalls /\ c.read /\ SheetRight(c) /\ v \in {selected, NoVariant}
    BY <1>4 DEF VariantArrives, CallsRight, ProductTypes, RulesRight
  <2>1. PromisesRight'
    <3>1. PICK how \in {"resolved", "misled"} :
            SettlePromise(how) /\ (how = "misled" => pendingPromise # c.n)
      BY <1>4 DEF VariantArrives
    <3> QED BY <1>3, <1>4, <3>1 DEF VariantArrives
  <2>2. /\ formVariant' = v
        /\ UNCHANGED <<selected, selections, inCart, adding, adds, others, asking>>
        /\ button' = [button EXCEPT !.disabled = ~(available /\ v # NoVariant)]
    BY <1>4 DEF VariantArrives
  <2>3. CallsRight'
    BY <2>0, <2>2 DEF CallsRight, ProductTypes
  <2>4. PickupRight'
    BY <1>4, <2>0 DEF VariantArrives, PickupRight
  <2>5. CASE v = NoVariant
    <3>1. UNCHANGED <<rules, limits, late>>
      BY <1>4, <2>5 DEF VariantArrives, sheet
    <3>2. ProductTypes'
      BY <2>0, <2>2, <2>5, <3>1 DEF ProductTypes, AnyVariant, others, asking
    <3>3. rules'.variant # formVariant'
      BY <2>2, <2>5, <3>1, TypedVariants DEF ProductTypes, RuleSheet
    <3>4. RulesRight'
      BY <2>0, <2>2, <2>5, <3>3 DEF RulesRight, ItemsCounted, SheetRight, SheetHolds, asking
    <3> QED BY <2>1, <2>3, <2>4, <3>2, <3>4
  <2>6. CASE v # NoVariant
    <3>1. rules' = [variant |-> c.variant, items |-> c.items] /\ late' = LateAfter(c, v)
      BY <1>4, <2>6 DEF VariantArrives, TakeRules, SheetOf
    <3>2. c.variant = v /\ v \in ProductVariants /\ c.items \in Nat
      BY <2>0, <2>6 DEF AnyVariant, SheetCalls
    <3>3. ProductTypes'
      BY <2>0, <2>2, <3>1, <3>2 DEF ProductTypes, RuleSheet, AnyVariant, others, asking
    <3>4. c.items = inCart[v] \/ "cart" \in late'
      BY <2>0, <2>6, <3>1, <3>2 DEF SheetRight, SheetHolds, LateAfter
    <3>5. ItemsCounted'
      BY <2>2, <3>1, <3>4 DEF ItemsCounted
    <3>6. RulesRight'
      BY <2>0, <2>2, <3>1, <3>2, <3>5 DEF RulesRight, SheetRight, SheetHolds, asking
    <3> QED BY <2>1, <2>3, <2>4, <3>3, <3>6
  <2> QED BY <2>5, <2>6
<1>5. ASSUME NEW c \in variantCalls, VariantRead(c)
      PROVE  ProductInv'
  <2> DEFINE d == ReadFor(c)
  <2>1. /\ variantCalls' = (variantCalls \ {c}) \cup {d} /\ ~c.read
        /\ UNCHANGED <<selecting, formVariant, button, inCart, adding, adds, others, sheet, asking,
                       pickupPart, late>>
    BY <1>5 DEF VariantRead
  <2>2. variantCalls = {c} /\ c \in SheetCalls
    BY DEF CallsRight, ProductTypes
  <2>3. c.variant # NoVariant
    BY <2>1, <2>2 DEF RulesRight, SheetRight, SheetHolds
  <2>4. /\ d \in SheetCalls /\ d.n = c.n /\ d.variant = c.variant /\ SheetRight(d)
    BY <2>2, <2>3, CallRead
  <2> HIDE DEF d
  <2>5. variantCalls' = {d}
    BY <2>1, <2>2
  <2>6. ProductTypes' /\ CallsRight' /\ PromisesRight'
    BY <2>1, <2>4, <2>5 DEF ProductTypes, CallsRight, PromisesRight, selecting, others, sheet, asking
  <2>7. RulesRight'
    <3>1. RulesComing => RulesComing'
      BY <2>1 DEF RulesComing, others, asking
    <3>2. \A e \in variantCalls' \cup rulesCalls' : SheetRight(e)'
      BY <2>1, <2>4, <2>5 DEF RulesRight, SheetRight, SheetHolds, asking
    <3> QED BY <2>1, <3>1, <3>2 DEF RulesRight, ItemsCounted, sheet
  <2> QED BY <2>1, <2>6, <2>7 DEF PickupRight, pickupPart
<1>6. ASSUME NEW c \in variantCalls, VariantFails(c)
      PROVE  ProductInv'
  <2>1. PromisesRight'
    BY <1>3, <1>6 DEF VariantFails
  <2>2. /\ variantCalls' = {}
        /\ UNCHANGED <<selected, selections, formVariant, button, inCart, adding, adds, others, sheet,
                       asking, pickupPart, late>>
    BY <1>6 DEF VariantFails, CallsRight
  <2>3. ProductTypes' /\ PickupRight' /\ CallsRight'
    BY <2>2 DEF ProductTypes, PickupRight, CallsRight, others, sheet, asking, pickupPart
  <2>4. RulesRight'
    <3>1. RulesComing => RulesComing'
      BY <2>2 DEF RulesComing, others, asking
    <3> QED BY <2>2, <3>1 DEF RulesRight, SheetRight, SheetHolds, ItemsCounted, sheet, asking
  <2> QED BY <2>1, <2>3, <2>4
<1>7. ASSUME NEW qty \in Allowed, SubmitForm(qty)
      PROVE  ProductInv'
  <2> DEFINE y == [n |-> adds + 1, variant |-> formVariant, qty |-> qty, at |-> "sent"]
  <2>1. /\ ~button.disabled /\ ~button.aria /\ adding' = adding \cup {y}
        /\ button' = [button EXCEPT !.aria = TRUE] /\ adds' = adds + 1
        /\ UNCHANGED <<selecting, variantCalls, formVariant, inCart, others, sheet, asking,
                       pickupPart, late>>
    BY <1>7 DEF SubmitForm, CanSubmit
  <2>2. y \in Additions /\ adds + 1 \in Nat
    BY <2>1, TypedVariants DEF Allowed, Additions, CallsRight, ProductTypes, AnyVariant
  <2> HIDE DEF y
  <2>3. ProductTypes' /\ CallsRight'
    BY <2>1, <2>2 DEF ProductTypes, CallsRight, selecting, others, sheet, asking
  <2>4. RulesRight'
    BY <2>1, RulesStay DEF others, sheet, asking
  <2> QED BY <2>1, <2>3, <2>4 DEF PromisesRight, PickupRight, selecting, pickupPart
<1>8. ASSUME NEW a \in adding, AddToCart(a)
      PROVE  ProductInv'
  <2> DEFINE total == inCart[a.variant] + a.qty
             fits == RuleMax = NoMax \/ total <= RuleMax
             way == IF fits THEN "added" ELSE "refused"
             y == [a EXCEPT !.at = way]
  <2>1. /\ a.at = "sent" /\ adding' = (adding \ {a}) \cup {y}
        /\ UNCHANGED <<selecting, formVariant, button, adds, others, sheet, rulesAsked, pickupPart, late>>
    BY <1>8 DEF AddToCart
  <2>2. a.variant \in ProductVariants /\ total \in Nat
    BY DEF ProductTypes, Additions
  <2>3. way \in {"added", "refused"} /\ (fits => way = "added")
    OBVIOUS
  <2>4. IF fits THEN CartBecomes(a.variant, total) ELSE UNCHANGED <<inCart, variantCalls, rulesCalls>>
    BY <1>8 DEF AddToCart
  <2> HIDE DEF total, fits, way
  <2>5. y \in Additions /\ y.at = way
    BY <2>3 DEF ProductTypes, Additions
  <2> HIDE DEF y
  <2>6. adding' \subseteq Additions /\ (\A b, d \in adding' : b = d) /\ button'.aria
    BY <2>1, <2>5 DEF ProductTypes, CallsRight
  <2>7. CASE fits
    <3>1. /\ inCart' \in [ProductVariants -> Nat]
          /\ variantCalls' \subseteq SheetCalls
          /\ rulesCalls' \subseteq {c \in SheetCalls : c.variant # NoVariant}
          /\ \A c \in variantCalls' : c.n = selections /\ c.variant = selected
          /\ \A c, d \in variantCalls' : c = d
          /\ variantCalls # {} => variantCalls' # {}
          /\ \A c \in variantCalls' \cup rulesCalls' : SheetRight(c)'
      BY <2>2, <2>4, <2>7, CartMakesOld
    <3>2. ProductTypes' /\ CallsRight'
      BY <2>1, <2>6, <3>1 DEF ProductTypes, CallsRight, selecting, others, sheet
    <3>3. RulesComing'
      BY <2>1, <2>3, <2>5, <2>7 DEF RulesComing
    <3>4. RulesRight'
      BY <2>1, <3>1, <3>3 DEF RulesRight, ItemsCounted, sheet
    <3> QED BY <2>1, <3>1, <3>2, <3>4 DEF PromisesRight, PickupRight, selecting, pickupPart
  <2>8. CASE ~fits
    <3>1. UNCHANGED <<inCart, variantCalls, rulesCalls>>
      BY <2>4, <2>8
    <3>2. ProductTypes' /\ CallsRight'
      BY <2>1, <2>6, <3>1 DEF ProductTypes, CallsRight, selecting, others, sheet
    <3>3. RulesRight'
      BY <2>1, <3>1, RulesStay DEF others, sheet
    <3> QED BY <2>1, <3>1, <3>2, <3>3 DEF PromisesRight, PickupRight, selecting, pickupPart
  <2> QED BY <2>7, <2>8
<1>9. ASSUME NEW a \in adding, AddEnds(a)
      PROVE  ProductInv'
  <2>1. /\ adding' = adding \ {a} /\ button' = [button EXCEPT !.aria = FALSE]
        /\ UNCHANGED <<selecting, variantCalls, formVariant, inCart, adds, others, sheet, pickupPart>>
    BY <1>9 DEF AddEnds
  <2>2. adding' = {}
    BY <2>1 DEF CallsRight
  <2>3. CallsRight' /\ PromisesRight'
    BY <2>1, <2>2 DEF CallsRight, PromisesRight, ProductTypes, selecting
  <2>4. CASE a.at = "added" /\ FetchQuantityRules /\ UNCHANGED late
    <3>1. /\ rulesAsked' \in Nat /\ RulesRight'
          /\ rulesCalls' \subseteq {c \in SheetCalls : c.variant # NoVariant}
      BY <2>1, <2>4, FetchKeeps DEF sheet
    <3>2. ProductTypes' /\ PickupRight'
      BY <2>1, <2>2, <2>4, <3>1 DEF ProductTypes, PickupRight, selecting, others, sheet, pickupPart
    <3> QED BY <2>3, <3>1, <3>2
  <2>5. CASE a.at = "added" /\ late' = late \cup {"cart"} /\ UNCHANGED asking
    <3>1. ProductTypes' /\ PickupRight'
      BY <2>1, <2>2, <2>5 DEF ProductTypes, PickupRight, selecting, others, sheet, asking, pickupPart
    <3>2. RulesRight'
      BY <2>1, <2>5 DEF RulesRight, ItemsCounted, SheetRight, SheetHolds, sheet, asking
    <3> QED BY <2>3, <3>1, <3>2
  <2>6. CASE a.at # "added" /\ UNCHANGED <<asking, late>>
    <3>1. ProductTypes' /\ PickupRight'
      BY <2>1, <2>2, <2>6 DEF ProductTypes, PickupRight, selecting, others, sheet, asking, pickupPart
    <3>2. RulesRight'
      BY <2>1, <2>6, RulesStay DEF others, sheet, asking
    <3> QED BY <2>3, <3>1, <3>2
  <2> QED BY <1>9, <2>4, <2>5, <2>6 DEF AddEnds
<1>10. ASSUME NEW v \in ProductVariants, NEW qty \in 0..RuleMax + 1, OthersChange(v, qty)
       PROVE  ProductInv'
  <2>1. /\ CartBecomes(v, qty)
        /\ \/ notices' = notices + 1 /\ UNCHANGED late
           \/ late' = late \cup {"cart"} /\ UNCHANGED notices
        /\ UNCHANGED <<selecting, formVariant, button, adding, adds, sheet, rulesAsked, pickupPart>>
    BY <1>10 DEF OthersChange
  <2>2. qty \in Nat /\ notices' \in Nat /\ (notices' # 0 \/ "cart" \in late')
    BY <2>1, TypedVariants DEF ProductTypes
  <2>3. /\ inCart' \in [ProductVariants -> Nat]
        /\ variantCalls' \subseteq SheetCalls
        /\ rulesCalls' \subseteq {c \in SheetCalls : c.variant # NoVariant}
        /\ \A c \in variantCalls' : c.n = selections /\ c.variant = selected
        /\ \A c, d \in variantCalls' : c = d
        /\ variantCalls # {} => variantCalls' # {}
        /\ \A c \in variantCalls' \cup rulesCalls' : SheetRight(c)'
    BY <2>1, <2>2, CartMakesOld
  <2>4. ProductTypes' /\ CallsRight'
    BY <2>1, <2>2, <2>3 DEF ProductTypes, CallsRight, selecting, sheet
  <2>5. RulesRight'
    BY <2>1, <2>2, <2>3 DEF RulesRight, ItemsCounted, RulesComing, sheet
  <2>6. PickupRight'
    BY <2>1 DEF PickupRight, pickupPart
  <2> QED BY <2>1, <2>3, <2>4, <2>5, <2>6 DEF PromisesRight, selecting
<1>11. CASE HearOfChange
  <2>1. /\ notices > 0 /\ notices' = notices - 1 /\ FetchQuantityRules
        /\ UNCHANGED <<selecting, variantCalls, formVariant, button, inCart, adding, adds, changes,
                       sheet, pickupPart, late>>
    BY <1>11 DEF HearOfChange
  <2>2. /\ rulesAsked' \in Nat /\ RulesRight'
        /\ rulesCalls' \subseteq {c \in SheetCalls : c.variant # NoVariant}
    BY <2>1, FetchKeeps DEF sheet
  <2>3. ProductTypes'
    BY <2>1, <2>2 DEF ProductTypes, selecting, sheet
  <2> QED BY <2>1, <2>2, <2>3 DEF CallsRight, PromisesRight, PickupRight, selecting, pickupPart
<1>12. ASSUME NEW c \in rulesCalls, RulesRead(c)
       PROVE  ProductInv'
  <2> DEFINE d == ReadFor(c)
  <2>1. /\ rulesCalls' = (rulesCalls \ {c}) \cup {d}
        /\ UNCHANGED <<selecting, variantCalls, formVariant, button, inCart, adding, adds, others, sheet,
                       rulesAsked, pickupPart, late>>
    BY <1>12 DEF RulesRead
  <2>2. c \in SheetCalls /\ c.variant # NoVariant
    BY DEF ProductTypes
  <2>3. /\ d \in SheetCalls /\ d.variant = c.variant /\ d.old = c.old /\ SheetRight(d)
    BY <2>2, CallRead
  <2> HIDE DEF d
  <2>4. ProductTypes'
    BY <2>1, <2>2, <2>3 DEF ProductTypes, selecting, others, sheet
  <2>5. RulesRight'
    <3>1. RulesComing => RulesComing'
      BY <2>1, <2>3 DEF RulesComing, others
    <3>2. \A e \in variantCalls' \cup rulesCalls' : SheetRight(e)'
      BY <2>1, <2>3 DEF RulesRight, SheetRight, SheetHolds
    <3> QED BY <2>1, <3>1, <3>2 DEF RulesRight, ItemsCounted, sheet
  <2> QED BY <2>1, <2>4, <2>5 DEF CallsRight, PromisesRight, PickupRight, selecting, pickupPart
<1>13. ASSUME NEW c \in rulesCalls, RulesArrive(c)
       PROVE  ProductInv'
  <2>1. /\ c.read /\ rulesCalls' = rulesCalls \ {c}
        /\ rules' = [variant |-> c.variant, items |-> c.items] /\ late' = LateAfter(c, formVariant)
        /\ UNCHANGED <<selecting, variantCalls, formVariant, button, inCart, adding, adds, others,
                       rulesAsked, pickupPart>>
    BY <1>13 DEF RulesArrive, TakeRules, SheetOf
  <2>2. c \in SheetCalls /\ c.variant # NoVariant /\ SheetRight(c)
    BY DEF ProductTypes, RulesRight
  <2>3. ProductTypes'
    BY <2>1, <2>2 DEF ProductTypes, RuleSheet, SheetCalls, AnyVariant, selecting, others
  <2>4. c.items = inCart[c.variant] \/ "cart" \in late'
    BY <2>1, <2>2 DEF SheetRight, SheetHolds, LateAfter
  <2>5. ItemsCounted'
    BY <2>1, <2>4 DEF ItemsCounted
  <2>6. c.variant = formVariant \/ "rules" \in late'
    BY <2>1 DEF LateAfter
  <2>7. RulesRight'
    BY <2>1, <2>5, <2>6 DEF RulesRight, SheetRight, SheetHolds
  <2>8. PickupRight'
    BY <2>1 DEF PickupRight, pickupPart, LateAfter
  <2> QED BY <2>1, <2>3, <2>7, <2>8 DEF CallsRight, PromisesRight, selecting
<1>14. ASSUME NEW c \in rulesCalls, RulesFail(c)
       PROVE  ProductInv'
  <2>1. /\ rulesCalls' = rulesCalls \ {c} /\ late' = late \cup {"cart"}
        /\ UNCHANGED <<selecting, variantCalls, formVariant, button, inCart, adding, adds, others,
                       rulesAsked, rules, pickupPart>>
    BY <1>14 DEF RulesFail
  <2>2. ProductTypes' /\ PickupRight'
    BY <2>1 DEF ProductTypes, PickupRight, selecting, others, pickupPart
  <2>3. RulesRight'
    BY <2>1 DEF RulesRight, ItemsCounted, SheetRight, SheetHolds
  <2> QED BY <2>1, <2>2, <2>3 DEF CallsRight, PromisesRight, selecting
<1>15. ASSUME UNCHANGED <<selecting, variantCalls, formVariant, button, inCart, adding, adds, others,
                          sheet, asking>>,
              PickupRight', "rules" \in late => "rules" \in late', "cart" \in late => "cart" \in late'
       PROVE  ProductInv'
  <2>1. RulesRight'
    BY <1>15, RulesStay DEF others, sheet, asking
  <2> QED BY <1>15, <2>1 DEF ProductTypes, CallsRight, PromisesRight, selecting, others, sheet, asking
<1>16. ASSUME NEW c \in pickupCalls, PickupArrives(c)
       PROVE  ProductInv'
  BY <1>15, <1>16 DEF PickupArrives, PickupRight
<1>17. ASSUME NEW c \in pickupCalls, PickupFails(c)
       PROVE  ProductInv'
  BY <1>15, <1>17 DEF PickupFails, PickupRight
<1>18. CASE RetryPickup
  BY <1>15, <1>18 DEF RetryPickup, PickupRight
<1> QED BY <1>1, <1>2, <1>4, <1>5, <1>6, <1>7, <1>8, <1>9, <1>10, <1>11, <1>12, <1>13, <1>14,
           <1>16, <1>17, <1>18 DEF ProductNext, AnyVariant

\* A form that can be submitted holds the variant that the options show; a promise
\* resolves with its own selection's answer; rules, the items they count and pickup
\* are those of the form's variant and of the cart, but for what the property excepts.
THEOREM FormIsAsSelected == ProductSpec => []OffersWhatIsSelected
<1>1. ProductInit => ProductInv
  <2> SUFFICES ASSUME ProductInit PROVE ProductInv
    OBVIOUS
  <2> USE TypedVariants DEF ProductInit
  <2>1. ProductTypes
    BY DEF ProductTypes, RuleSheet, AnyVariant
  <2>2. CallsRight /\ PickupRight
    BY DEF CallsRight, PickupRight
  <2>3. PromisesRight
    BY DEF PromisesRight
  <2>4. RulesRight
    BY DEF RulesRight, ItemsCounted
  <2> QED BY <2>1, <2>2, <2>3, <2>4 DEF ProductInv
<1>2. ProductInv => OffersWhatIsSelected
  <2> SUFFICES ASSUME ProductInv PROVE OffersWhatIsSelected
    OBVIOUS
  <2>1. rulesCalls = {} /\ notices = 0 /\ (\A a \in adding : a.at # "added") => ~RulesComing
    BY DEF RulesComing
  <2>2. /\ rulesCalls = {} /\ notices = 0 /\ (\A a \in adding : a.at # "added") =>
             rules.variant # formVariant \/ rules.items = inCart[formVariant] \/ "cart" \in late
        /\ rules.variant = formVariant \/ formVariant = NoVariant \/ "rules" \in late
    BY <2>1 DEF ProductInv, RulesRight, ItemsCounted
  <2> QED BY <2>2 DEF ProductInv, ProductTypes, CallsRight, PromisesRight, PickupRight, CanSubmit,
                     OffersWhatIsSelected
<1> QED BY <1>1, <1>2, ProductInvStep, PTL DEF ProductSpec

-----------------------------------------------------------------------------
(* StoreSearch: the last answer asked for is shown, on its way or lost.    *)

FacetTypes ==
  /\ {form, searchParamsPrev} \subseteq FilterSets
  /\ pages \in Seq(FilterSets) /\ at \in 1..Len(pages)
  /\ rendersAsked \in Nat /\ facets \in BOOLEAN
  /\ filterCalls \subseteq [n : Nat, params : FilterSets]
  /\ filterData \subseteq [params : FilterSets, ok : BOOLEAN]

LastSection == \E c \in filterCalls : c.n = rendersAsked

CallsAreRight ==
  \A c \in filterCalls : c.n <= rendersAsked /\ (c.n = rendersAsked => c.params = searchParamsPrev)

\* With the filters there: no error page came, the address is what was asked for last,
\* and its products are shown or will be.
AddressRight == facets =>
  /\ \A page \in filterData : page.ok
  /\ searchParamsPrev = pages[at]
  /\ grid = searchParamsPrev \/ blemishes # {} \/ LastSection

\* What is ticked will be sent, or replaced by what was asked for.
FormRight == facets =>
  /\ form = grid \/ formWaits \/ LastSection \/ "failed" \in blemishes
  /\ spinning => LastSection \/ "failed" \in blemishes

FacetInv == FacetTypes /\ CallsAreRight /\ AddressRight /\ FormRight

\* renderSection: with the filters still there the page is the one given.
LEMMA SectionKeeps ==
  ASSUME FacetTypes, NEW page \in [params : FilterSets, ok : BOOLEAN], NEW old, NEW still, NEW spins,
         RenderSection(page, old, still, spins)
  PROVE  /\ form' \in FilterSets /\ facets' \in BOOLEAN
         /\ facets' => /\ facets /\ page.ok
                       /\ grid' = page.params /\ form' = page.params /\ ~spinning'
                       /\ old => blemishes' # {}
<1>1. CASE /\ ~Throws(page)
           /\ grid' = page.params /\ form' = page.params
           /\ spinning' = FALSE
           /\ blemishes' = IF old THEN {"overtaken"} ELSE {}
           /\ UNCHANGED facets
  BY <1>1 DEF FacetTypes, Throws
<1>2. CASE facets' = FALSE /\ form' \in FilterSets
  BY <1>2
<1>3. CASE ~facets /\ UNCHANGED <<form, facets>>
  BY <1>3 DEF FacetTypes
<1> QED BY <1>1, <1>2, <1>3 DEF RenderSection

\* renderPage, for an address that has become the current one.
LEMMA RenderKeeps ==
  ASSUME FacetInv, NEW params \in FilterSets, NEW still, RenderPage(params, still),
         pages' \in Seq(FilterSets), at' \in 1..Len(pages'), facets => pages'[at'] = params,
         \/ still = formWaits
         \/ params = form
  PROVE  FacetInv'
<1> USE DEF FacetInv
<1>0. /\ rendersAsked \in Nat /\ rendersAsked + 1 \in Nat
      /\ rendersAsked' = rendersAsked + 1 /\ searchParamsPrev' = params /\ UNCHANGED filterData
  BY DEF FacetTypes, RenderPage
<1>1. \A c \in filterCalls : c.n <= rendersAsked + 1 /\ c.n # rendersAsked + 1
  <2>1. \A l \in Nat : l <= rendersAsked => l <= rendersAsked + 1 /\ l # rendersAsked + 1
    BY <1>0
  <2> QED BY <2>1 DEF FacetTypes, CallsAreRight
<1>2. ASSUME NEW page \in filterData, page.params = params,
             RenderSection(page, FALSE, still, TRUE), UNCHANGED filterCalls
      PROVE  FacetInv'
  <2>1. page \in [params : FilterSets, ok : BOOLEAN]
    BY DEF FacetTypes
  <2>2. /\ form' \in FilterSets /\ facets' \in BOOLEAN
        /\ facets' => facets /\ page.ok /\ grid' = params /\ form' = params /\ ~spinning'
    BY <1>2, <2>1, SectionKeeps
  <2>3. FacetTypes' /\ CallsAreRight'
    BY <1>0, <1>1, <1>2, <2>2 DEF FacetTypes, CallsAreRight
  <2> QED BY <1>0, <1>2, <2>2, <2>3 DEF AddressRight, FormRight
<1>3. ASSUME filterCalls' = filterCalls \cup {[n |-> rendersAsked + 1, params |-> params]},
             UNCHANGED <<form, grid, facets, blemishes>>, formWaits' = still
      PROVE  FacetInv'
  <2> DEFINE c == [n |-> rendersAsked + 1, params |-> params]
  <2>1. filterCalls' = filterCalls \cup {c}
    BY <1>3
  <2>2. c \in [n : Nat, params : FilterSets] /\ c.n = rendersAsked + 1 /\ c.params = params
        /\ c.n <= rendersAsked + 1
    BY <1>0
  <2> HIDE DEF c
  <2>3. LastSection'
    BY <1>0, <2>1, <2>2 DEF LastSection
  <2>4. FacetTypes' /\ CallsAreRight'
    BY <1>0, <1>1, <1>3, <2>1, <2>2 DEF FacetTypes, CallsAreRight
  <2>5. AddressRight'
    BY <1>0, <1>3, <2>3 DEF AddressRight
  <2> QED BY <2>3, <2>4, <2>5 DEF FormRight
<1> QED BY <1>2, <1>3 DEF RenderPage

\* updateURLHash: with the filters there, the new address is the current one.
LEMMA PushKeeps ==
  ASSUME FacetTypes, AddressRight, NEW params \in FilterSets, PushState(params)
  PROVE  pages' \in Seq(FilterSets) /\ at' \in 1..Len(pages') /\ (facets => pages'[at'] = params)
<1> DEFINE kept == SubSeq(pages, 1, at)
<1>1. CASE UNCHANGED <<pages, at>> /\ ~facets
  BY <1>1 DEF FacetTypes
<1>2. CASE pages' = Append(kept, params) /\ at' = at + 1
  <2>1. at \in Nat /\ kept \in Seq(FilterSets) /\ Len(kept) = at
    BY DEF FacetTypes
  <2> HIDE DEF kept
  <2> QED BY <1>2, <2>1
<1> QED BY <1>1, <1>2 DEF PushState, AddressRight, Throws

LEMMA FacetInvStep == FacetInv /\ [FacetNext]_facetVars => FacetInv'
<1> SUFFICES ASSUME FacetInv, [FacetNext]_facetVars PROVE FacetInv'
  OBVIOUS
<1> USE DEF FacetInv
<1>1. CASE UNCHANGED facetVars
  BY <1>1 DEF facetVars, FacetTypes, CallsAreRight, AddressRight, FormRight, LastSection
<1>2. ASSUME NEW params \in FilterSets, Tick(params)
      PROVE  FacetInv'
  BY <1>2 DEF Tick, FacetTypes, CallsAreRight, AddressRight, FormRight, LastSection
<1>3. ASSUME NEW params \in FilterSets, RemoveFilter(params)
      PROVE  FacetInv'
  BY <1>3, RenderKeeps, PushKeeps DEF RemoveFilter
<1>4. CASE SubmitFilters
  <2>1. form \in FilterSets
    BY DEF FacetTypes
  <2> QED BY <1>4, <2>1, RenderKeeps, PushKeeps DEF SubmitFilters
<1>5. ASSUME NEW to \in DOMAIN pages, Travel(to)
      PROVE  FacetInv'
  <2>1. pages' = pages /\ at' = to /\ to \in 1..Len(pages) /\ pages[to] \in FilterSets
    BY <1>5 DEF Travel, FacetTypes
  <2>2. CASE pages[to] = searchParamsPrev
    BY <1>5, <2>1, <2>2 DEF Travel, FacetTypes, CallsAreRight, AddressRight, FormRight, LastSection
  <2>3. CASE pages[to] # searchParamsPrev
    <3>1. RenderPage(pages[to], formWaits)
      BY <1>5, <2>3 DEF Travel
    <3>2. pages' \in Seq(FilterSets) /\ at' \in 1..Len(pages') /\ pages'[at'] = pages[to]
      BY <2>1 DEF FacetTypes
    <3> QED BY <2>1, <3>1, <3>2, RenderKeeps
  <2> QED BY <2>2, <2>3
<1>6. ASSUME NEW c \in filterCalls, NEW ok \in BOOLEAN, SectionArrives(c, ok)
      PROVE  FacetInv'
  <2> DEFINE page == [params |-> c.params, ok |-> ok]
  <2>1. /\ filterCalls' = filterCalls \ {c}
        /\ filterData' \in {filterData, filterData \cup {page}}
        /\ UNCHANGED <<searchParamsPrev, pages, at, rendersAsked>>
    BY <1>6 DEF SectionArrives
  <2>2. page \in [params : FilterSets, ok : BOOLEAN] /\ page.params = c.params
    BY DEF FacetTypes
  <2>3. /\ form' \in FilterSets /\ facets' \in BOOLEAN
        /\ facets' => /\ facets /\ page.ok
                      /\ grid' = page.params /\ form' = page.params /\ ~spinning'
                      /\ c.n # rendersAsked => blemishes' # {}
    BY <1>6, <2>2, SectionKeeps DEF SectionArrives
  <2> HIDE DEF page
  <2>4. FacetTypes' /\ CallsAreRight'
    BY <2>1, <2>2, <2>3 DEF FacetTypes, CallsAreRight
  <2>5. AddressRight'
    BY <2>1, <2>2, <2>3 DEF AddressRight, CallsAreRight
  <2> QED BY <2>3, <2>4, <2>5 DEF FormRight
<1>7. ASSUME NEW c \in filterCalls, SectionFails(c)
      PROVE  FacetInv'
  <2>1. /\ filterCalls' = filterCalls \ {c}
        /\ blemishes' = IF c.n = rendersAsked THEN blemishes \cup {"failed"} ELSE blemishes
        /\ UNCHANGED <<form, formWaits, grid, filterData, searchParamsPrev, pages, at, rendersAsked,
                       spinning, facets>>
    BY <1>7 DEF SectionFails
  <2>2. LastSection => LastSection' \/ "failed" \in blemishes'
    BY <2>1 DEF LastSection
  <2> QED BY <2>1, <2>2 DEF FacetTypes, CallsAreRight, AddressRight, FormRight
<1> QED BY <1>1, <1>2, <1>3, <1>4, <1>5, <1>6, <1>7 DEF FacetNext

-----------------------------------------------------------------------------
LastSearch == \E s \in searches : s.n = asks

\* The term looked for is the one in the field or will be, and what the dropdown has
\* answers it, or that answer is on its way.
SearchInv ==
  /\ asks \in Nat
  /\ \A s \in searches : s.n \in Nat /\ s.n <= asks /\ (s.n = asks => s.term = searchTerm)
  /\ searchTerm = input \/ inputWaits \/ stuck
  /\ open => hasResults
  /\ hasResults => results = searchTerm \/ straggler \/ LastSearch \/ stuck

\* getSearchResults, for the term looked for.
LEMMA SearchKeeps ==
  ASSUME SearchInv, NEW t, NEW left, GetSearchResults(t, left), searchTerm' = t,
         (searchTerm = input \/ inputWaits \/ stuck)'
  PROVE  SearchInv'
<1> USE DEF SearchInv
<1>0. asks' = asks + 1 /\ asks \in Nat /\ asks + 1 \in Nat
  BY DEF GetSearchResults
<1>1. \A s \in searches : s.n <= asks + 1 /\ s.n # asks + 1
  BY <1>0
<1>2. CASE t \in cachedResults
  <2>1. results' = t /\ hasResults' /\ UNCHANGED searches
    BY <1>2 DEF GetSearchResults, ShowResults
  <2> QED BY <1>0, <1>1, <2>1
<1>3. CASE t \notin cachedResults
  <2> DEFINE s == [n |-> asks + 1, term |-> t]
  <2>1. searches' = searches \cup {s} /\ UNCHANGED <<hasResults, open, straggler>>
    BY <1>3 DEF GetSearchResults
  <2>2. s.n = asks + 1 /\ s.term = t
    OBVIOUS
  <2> HIDE DEF s
  <2>3. LastSearch'
    BY <1>0, <2>1, <2>2 DEF LastSearch
  <2>4. \A u \in searches' : u.n \in Nat /\ u.n <= asks' /\ (u.n = asks' => u.term = searchTerm')
    BY <1>0, <1>1, <2>1, <2>2
  <2> QED BY <1>0, <2>1, <2>3, <2>4
<1> QED BY <1>2, <1>3

LEMMA TermKeeps ==
  ASSUME SearchInv, TermChanges, UNCHANGED input
  PROVE  SearchInv'
<1> DEFINE left == IF searchTerm # Empty /\ IsPrefix(searchTerm, input) THEN results ELSE Empty
<1>1. CASE stuck' /\ UNCHANGED <<searchTerm, hasResults, open, searches, asks>>
  BY <1>1 DEF SearchInv
<1>2. CASE searchTerm' = input /\ input = Empty /\ ~open' /\ ~hasResults' /\ asks' = asks + 1
           /\ UNCHANGED searches
  <2>1. asks + 1 \in Nat /\ \A s \in searches : s.n <= asks + 1 /\ s.n # asks + 1
    BY DEF SearchInv
  <2> QED BY <1>2, <2>1 DEF SearchInv
<1>3. CASE searchTerm' = input /\ GetSearchResults(input, left)
  <2> HIDE DEF left
  <2> QED BY <1>3, SearchKeeps
<1> QED BY <1>1, <1>2, <1>3 DEF TermChanges

LEMMA SearchInvStep == SearchInv /\ [SearchNext]_searchVars => SearchInv'
<1> SUFFICES ASSUME SearchInv, [SearchNext]_searchVars PROVE SearchInv'
  OBVIOUS
<1>1. CASE UNCHANGED searchVars
  BY <1>1 DEF searchVars, SearchInv, LastSearch
<1>2. ASSUME NEW t \in SearchTerms \cup {Empty}, NEW keyed \in BOOLEAN, TypeTerm(t, keyed)
      PROVE  SearchInv'
  <2>1. inputWaits' /\ UNCHANGED <<searchTerm, results, searches, asks, straggler, stuck>>
    BY <1>2 DEF TypeTerm
  <2>2. (~open' /\ ~hasResults') \/ UNCHANGED <<open, hasResults>>
    BY <1>2 DEF TypeTerm
  <2> QED BY <2>1, <2>2 DEF SearchInv, LastSearch
<1>3. CASE SearchChange
  BY <1>3, TermKeeps DEF SearchChange
<1>4. CASE ResetSearch
  <2>1. searches' = {} /\ ~open' /\ ~hasResults' /\ searchTerm' = input' /\ UNCHANGED asks
    BY <1>4 DEF ResetSearch, Cancelled
  <2> QED BY <2>1 DEF SearchInv
<1>5. CASE Blur
  BY <1>5 DEF Blur, SearchInv, LastSearch
<1>6. CASE Focus
  <2>1. CASE searchTerm # input
    BY <1>6, <2>1, TermKeeps DEF Focus
  <2>2. CASE searchTerm = input /\ hasResults
    BY <1>6, <2>2 DEF Focus, SearchInv, LastSearch
  <2>3. CASE searchTerm = input /\ ~hasResults
    <3>1. GetSearchResults(searchTerm, results) /\ searchTerm' = searchTerm /\ UNCHANGED input
      BY <1>6, <2>3 DEF Focus
    <3> QED BY <3>1, <2>3, SearchKeeps
  <2> QED BY <2>1, <2>2, <2>3
<1>7. ASSUME NEW s \in searches, ResultsArrive(s)
      PROVE  SearchInv'
  <2>1. /\ searches' = searches \ {s} /\ results' = s.term /\ hasResults'
        /\ (s.n # asks => straggler') /\ UNCHANGED <<searchTerm, asks, input, inputWaits, stuck>>
    BY <1>7 DEF ResultsArrive, ShowResults
  <2> QED BY <2>1 DEF SearchInv
<1>8. ASSUME NEW s \in searches, ResultsFail(s)
      PROVE  SearchInv'
  <2>1. /\ searches' = searches \ {s} /\ ~open'
        /\ UNCHANGED <<searchTerm, results, hasResults, asks, input, inputWaits, stuck>>
        /\ (straggler \/ s.n = asks => straggler')
    BY <1>8 DEF ResultsFail
  <2>2. LastSearch => LastSearch' \/ straggler'
    BY <2>1 DEF LastSearch
  <2> QED BY <2>1, <2>2 DEF SearchInv
<1> QED BY <1>1, <1>2, <1>3, <1>4, <1>5, <1>6, <1>7, <1>8 DEF SearchNext

\* With nothing under way products, filters ticked and address are one choice and
\* nothing spins, until an error page takes the filters away, and a dropdown that is open
\* has the results of the term in the field, until a change of the field throws; but for
\* answers that were overtaken or did not come.
THEOREM PageAgrees == FacetSpec /\ SearchSpec => []SearchAgrees
<1>1. FacetInit => FacetInv
  <2> SUFFICES ASSUME FacetInit PROVE FacetInv
    OBVIOUS
  <2>1. pages \in Seq(FilterSets) /\ Len(pages) = 1 /\ pages[1] = form
    BY DEF FacetInit
  <2> QED BY <2>1 DEF FacetInit, FacetInv, FacetTypes, CallsAreRight, AddressRight, FormRight
<1>2. SearchInit => SearchInv
  BY DEF SearchInit, SearchInv
<1>3. FacetInv /\ SearchInv => SearchAgrees
  BY DEF FacetInv, SearchInv, AddressRight, FormRight, LastSection, LastSearch, SearchAgrees
<1> QED BY <1>1, <1>2, <1>3, FacetInvStep, SearchInvStep, PTL DEF FacetSpec, SearchSpec

-----------------------------------------------------------------------------
(* CatalogReport: what an answer says was so, and what was over stays so.  *)

\* What Max of the community modules is.
LEMMA MaxIsGreatest ==
  ASSUME NEW n \in Nat, NEW S \in SUBSET (0..n), S # {}
  PROVE  Max(S) \in S /\ \A y \in S : y <= Max(S)
<1> DEFINE R == {p \in Nat \X Nat : p[1] < p[2]}
           T == {n - x : x \in S}
<1>1. IsWellFoundedOn(R, Nat)
  BY NatLessThanWellFounded DEF OpToRel
<1>2. T \subseteq Nat /\ T # {}
  <2>1. \A x \in S : n - x \in Nat
    OBVIOUS
  <2>2. PICK x \in S : TRUE
    OBVIOUS
  <2>3. n - x \in T
    BY <2>2
  <2> QED BY <2>1, <2>3
<1>3. PICK t \in T : \A u \in T : <<u, t>> \notin R
  <2> HIDE DEF T, R
  <2> QED BY <1>1, <1>2, WFMin
<1>4. PICK x \in S : t = n - x
  OBVIOUS
<1>5. \A y \in S : y <= x
  <2> SUFFICES ASSUME NEW y \in S, y > x PROVE FALSE
    OBVIOUS
  <2>1. n - y \in T /\ n - y \in Nat /\ t \in Nat /\ n - y < t
    BY <1>4
  <2> QED BY <1>3, <2>1
<1> QED BY <1>5 DEF Max

Statuses == {"none", "running", "failed", "succeeded", "dead"}
Answers  == [kind : {"GET", "queue", "POST"}, job : Nat, status : Statuses \cup {"unread"},
             report : Nat, reported : BOOLEAN, torn : BOOLEAN, before : BOOLEAN]

ReportTypes ==
  /\ exports \in [ExportIds -> [status : Statuses, reported : BOOLEAN]]
  /\ polls \subseteq Answers
  /\ shown \in [job : Nat, status : Statuses, report : Nat, torn : BOOLEAN]
  /\ mine \in Nat

\* A report is an export's, and an export that has succeeded has written it.
ExportsRight ==
  /\ \A e \in ExportIds : exports[e].reported => exports[e].status # "none"
  /\ \A e \in ExportIds : exports[e].status = "succeeded" => exports[e].reported
  /\ mine <= Newest

\* An export that was over is over, or was put back.
Settled(job, status) ==
  /\ status = "none" => job = 0
  /\ status \in {"succeeded", "dead"} =>
       job \in ExportIds /\ (exports[job].status \in {"succeeded", "dead"} \/ job \in reopened)

\* What a request has read so far.
PollRight(x) ==
  /\ x.job <= Newest
  /\ Settled(x.job, x.status)
  /\ x.status = "succeeded" => exports[x.job].reported
  /\ x.reported /\ x.status = "unread" =>
       x.torn \/ \A e \in ExportIds : exports[e].reported => e <= x.report
  /\ x.reported /\ x.status = "succeeded" => x.torn \/ x.job <= x.report
  /\ x.status # "unread" => x.before \/ mine <= x.job

ShownRight ==
  /\ Settled(shown.job, shown.status)
  /\ shown.status = "succeeded" => shown.torn \/ shown.job <= shown.report
  /\ mine <= shown.job \/ overtaken

ReportInv == ReportTypes /\ ExportsRight /\ (\A x \in polls : PollRight(x)) /\ ShownRight

NewestRight ==
  /\ Newest \in {0} \cup Known /\ Newest \in Nat /\ \A e \in Known : e <= Newest
  /\ NewestReport \in Nat /\ \A e \in Known : exports[e].reported => e <= NewestReport

LEMMA NewestIsGreatest == NewestRight
<1> DEFINE S == {0} \cup Known
           T == {0} \cup {e \in Known : exports[e].reported}
<1>0. LastExport \in Nat
  BY ReportAssumption
<1>1. S \in SUBSET (0..LastExport) /\ S # {} /\ T \in SUBSET (0..LastExport) /\ T # {}
  BY <1>0 DEF Known, ExportIds
<1> HIDE DEF S, T
<1>2. Max(S) \in S /\ (\A y \in S : y <= Max(S)) /\ Max(T) \in T /\ \A y \in T : y <= Max(T)
  BY <1>0, <1>1, MaxIsGreatest
<1>3. Max(S) \in Nat /\ Max(T) \in Nat
  <2>1. \A y \in 0..LastExport : y \in Nat
    BY <1>0
  <2> QED BY <1>1, <1>2, <2>1
<1>4. Newest = Max(S) /\ NewestReport = Max(T)
  BY DEF Newest, NewestReport, S, T
<1> QED BY <1>2, <1>3, <1>4 DEF S, T, NewestRight

LEMMA NewestIsNext == NewestRight'
  BY NewestIsGreatest, PTL

\* Exports go on, and no report is written: what was read stays right.
LEMMA PollStays ==
  ASSUME ReportTypes, ReportTypes', NEW x \in Answers, PollRight(x), UNCHANGED mine,
         Newest <= Newest', reopened \subseteq reopened',
         \A e \in ExportIds :
           /\ exports[e].reported => exports'[e].reported
           /\ exports[e].status \in {"succeeded", "dead"} =>
                exports'[e].status \in {"succeeded", "dead"} \/ e \in reopened',
         \/ x.torn \/ ~x.reported \/ x.status # "unread"
         \/ \A e \in ExportIds : exports'[e].reported => exports[e].reported
  PROVE  PollRight(x)'
<1>1. x.job <= Newest'
  <2>1. x.job \in Nat /\ Newest \in Nat /\ Newest' \in Nat
    BY NewestIsGreatest, NewestIsNext DEF NewestRight, Answers
  <2> QED BY <2>1 DEF PollRight
<1>2. Settled(x.job, x.status)'
  BY DEF PollRight, Settled
<1> QED BY <1>1, <1>2 DEF PollRight, Settled

\* An export moves, and what was asked has read nothing new.
LEMMA ExportsMove ==
  ASSUME ReportInv, NEW e \in ExportIds, NEW y \in [status : Statuses, reported : BOOLEAN],
         exports' = [exports EXCEPT ![e] = y], UNCHANGED <<polls, shown, mine, overtaken>>,
         reopened \subseteq reopened', Newest <= Newest',
         y.reported <=> exports[e].reported,
         y.reported => y.status # "none", y.status = "succeeded" => y.reported,
         exports[e].status \in {"succeeded", "dead"} => e \in reopened'
  PROVE  ReportInv'
<1> USE DEF ReportInv
<1>1. /\ exports'[e] = y /\ \A d \in ExportIds : d # e => exports'[d] = exports[d]
      /\ ReportTypes'
  BY DEF ReportTypes
<1>2. ExportsRight'
  <2>1. mine \in Nat /\ Newest \in Nat /\ Newest' \in Nat /\ mine <= Newest
    BY NewestIsGreatest, NewestIsNext DEF NewestRight, ReportTypes, ExportsRight
  <2>2. mine' <= Newest'
    BY <2>1
  <2> QED BY <1>1, <2>2 DEF ExportsRight
<1>3. \A d \in ExportIds :
        /\ exports[d].reported => exports'[d].reported
        /\ exports'[d].reported => exports[d].reported
        /\ exports[d].status \in {"succeeded", "dead"} =>
             exports'[d].status \in {"succeeded", "dead"} \/ d \in reopened'
  BY <1>1
<1>4. \A x \in polls' : PollRight(x)'
  <2> SUFFICES ASSUME NEW x \in polls PROVE PollRight(x)'
    OBVIOUS
  <2>1. x \in Answers /\ PollRight(x) /\ ReportTypes
    BY DEF ReportTypes
  <2> QED BY <1>1, <1>3, <2>1, PollStays
<1>5. ShownRight'
  BY <1>3 DEF ShownRight, Settled
<1> QED BY <1>1, <1>2, <1>4, <1>5

\* Requests come and go.
LEMMA PollsMove ==
  ASSUME ReportInv, UNCHANGED <<exports, shown, mine, overtaken, reopened>>,
         polls' \subseteq Answers, \A x \in polls' : x \in polls \/ PollRight(x)
  PROVE  ReportInv'
<1>1. UNCHANGED <<Newest>>
  BY DEF Newest, Known
<1> QED BY <1>1 DEF ReportInv, ReportTypes, ExportsRight, PollRight, ShownRight, Settled

LEMMA ReportInvStep == ReportInv /\ [ReportNext]_reportVars => ReportInv'
<1> SUFFICES ASSUME ReportInv, [ReportNext]_reportVars PROVE ReportInv'
  OBVIOUS
<1> USE DEF ReportInv
<1>1. CASE UNCHANGED reportVars
  BY <1>1, PollsMove DEF reportVars, ReportTypes
<1>2. ASSUME NEW kind \in {"GET", "queue"}
      PROVE  Poll(kind) \in Answers /\ PollRight(Poll(kind))
  <2>1. 0 <= Newest
    BY NewestIsGreatest DEF NewestRight
  <2> QED BY <2>1 DEF Poll, Answers, PollRight, Settled
<1>3. CASE StartPoll
  BY <1>2, <1>3, PollsMove DEF StartPoll, ReportTypes
<1>4. CASE PressExport
  BY <1>2, <1>4, PollsMove DEF PressExport, ReportTypes
<1>5. ASSUME NEW x \in polls, NEW y \in Answers, PollRight(y), polls' = (polls \ {x}) \cup {y},
             UNCHANGED <<exports, shown, mine, overtaken, reopened>>
      PROVE  ReportInv'
  BY <1>5, PollsMove DEF ReportTypes
<1>6. ASSUME NEW x \in polls, Queue(x)
      PROVE  ReportInv'
  <2> DEFINE y == [x EXCEPT !.kind = "POST"]
  <2>0. x \in Answers /\ PollRight(x)
    BY DEF ReportTypes
  <2>1. polls' = (polls \ {x}) \cup {y} /\ UNCHANGED <<shown, pressed, mine, overtaken, reopened>>
    BY <1>6 DEF Queue
  <2>2. y \in Answers /\ PollRight(y)
    BY <2>0 DEF Answers, PollRight, Settled
  <2> HIDE DEF y
  <2>3. CASE UNCHANGED exports
    BY <1>5, <2>1, <2>2, <2>3
  <2>4. CASE Newest < LastExport /\ exports' = [exports EXCEPT ![Newest + 1].status = "running"]
    <3> DEFINE e == Newest + 1
    <3>0. Newest \in Nat /\ e \in ExportIds /\ e \notin Known /\ LastExport \in Nat
      <4>1. Newest \in Nat /\ (\A d \in Known : d <= Newest) /\ LastExport \in Nat
        BY NewestIsGreatest, ReportAssumption DEF NewestRight
      <4> QED BY <2>4, <4>1 DEF ExportIds
    <3> HIDE DEF e
    <3>1. exports' = [exports EXCEPT ![e].status = "running"]
      BY <2>4 DEF e
    <3>2. exports[e].status = "none" /\ ~exports[e].reported
      BY <3>0 DEF Known, ExportsRight
    <3>3. /\ exports'[e].status = "running" /\ (exports'[e].reported <=> exports[e].reported)
          /\ \A d \in ExportIds : d # e => exports'[d] = exports[d]
          /\ exports' \in [ExportIds -> [status : Statuses, reported : BOOLEAN]]
      BY <3>0, <3>1 DEF ReportTypes, Statuses
    <3>4. Newest <= Newest'
      <4>1. Known \subseteq Known'
        BY <3>0, <3>3 DEF Known
      <4>2. Newest \in {0} \cup Known' /\ Newest' \in Nat /\ \A d \in Known' : d <= Newest'
        BY <4>1, NewestIsGreatest, NewestIsNext DEF NewestRight
      <4> QED BY <4>2
    <3>5. \A d \in ExportIds :
            /\ exports[d].reported => exports'[d].reported
            /\ exports'[d].reported => exports[d].reported
            /\ exports[d].status \in {"succeeded", "dead"} =>
                 exports'[d].status \in {"succeeded", "dead"} \/ d \in reopened'
      BY <2>1, <3>2, <3>3
    <3>6. ReportTypes'
      BY <2>1, <2>2, <3>3 DEF ReportTypes
    <3>7. ExportsRight'
      <4>1. mine \in Nat /\ Newest \in Nat /\ Newest' \in Nat /\ mine <= Newest
        BY NewestIsGreatest, NewestIsNext DEF NewestRight, ReportTypes, ExportsRight
      <4>2. mine' <= Newest'
        BY <2>1, <3>4, <4>1
      <4> QED BY <3>2, <3>3, <4>2 DEF ExportsRight
    <3>8. \A z \in Answers : PollRight(z) => PollRight(z)'
      BY <2>1, <3>4, <3>5, <3>6, PollStays
    <3>9. \A z \in polls' : PollRight(z)'
      BY <2>1, <2>2, <3>8 DEF ReportTypes
    <3>10. ShownRight'
      BY <2>1, <3>5 DEF ShownRight, Settled
    <3> QED BY <3>6, <3>7, <3>9, <3>10
  <2> QED BY <1>6, <2>3, <2>4 DEF Queue
<1>7. ASSUME NEW x \in polls, ReadJob(x)
      PROVE  ReportInv'
  <2> DEFINE s == IF Newest = 0 THEN "none" ELSE exports[Newest].status
             y == [x EXCEPT !.job = Newest, !.status = s]
  <2>0. x \in Answers /\ PollRight(x) /\ x.status = "unread"
    BY <1>7 DEF ReadJob, ReportTypes
  <2>1. polls' = (polls \ {x}) \cup {y} /\ UNCHANGED <<exports, shown, mine, overtaken, reopened>>
    BY <1>7 DEF ReadJob
  <2>2. Newest \in Nat /\ (Newest # 0 => Newest \in ExportIds /\ exports[Newest].status # "none")
        /\ mine <= Newest /\ Newest <= Newest
    BY NewestIsGreatest DEF NewestRight, Known, ExportsRight
  <2>3. s \in Statuses /\ (s = "none" => Newest = 0)
        /\ (s \in {"succeeded", "dead"} => Newest \in ExportIds /\ exports[Newest].status = s)
    BY <2>2 DEF ReportTypes, Statuses
  <2> HIDE DEF s
  <2>4. /\ y \in Answers /\ y.job = Newest /\ y.status = s /\ y.report = x.report
        /\ (y.reported <=> x.reported) /\ (y.torn <=> x.torn)
    BY <2>0, <2>2, <2>3 DEF Answers
  <2> HIDE DEF y
  <2>5. Settled(y.job, y.status)
    BY <2>3, <2>4 DEF Settled
  <2>6. s = "succeeded" => exports[Newest].reported
    BY <2>3 DEF ExportsRight
  <2>7. s # "unread"
    BY <2>3 DEF Statuses
  <2>8. PollRight(y)
    BY <2>0, <2>2, <2>3, <2>4, <2>5, <2>6, <2>7 DEF PollRight
  <2> QED BY <1>5, <2>1, <2>4, <2>8
<1>8. ASSUME NEW x \in polls, ReadReport(x)
      PROVE  ReportInv'
  <2> DEFINE y == [x EXCEPT !.report = NewestReport, !.reported = TRUE]
  <2>0. x \in Answers /\ PollRight(x)
    BY DEF ReportTypes
  <2>1. polls' = (polls \ {x}) \cup {y} /\ UNCHANGED <<exports, shown, mine, overtaken, reopened>>
    BY <1>8 DEF ReadReport
  <2>2. NewestReport \in Nat /\ \A e \in ExportIds : exports[e].reported => e <= NewestReport
    BY NewestIsGreatest DEF NewestRight, Known, ExportsRight
  <2>3. /\ y \in Answers /\ y.job = x.job /\ y.status = x.status /\ y.report = NewestReport
        /\ (y.torn <=> x.torn) /\ (y.before <=> x.before)
    BY <2>0, <2>2 DEF Answers
  <2> HIDE DEF y
  <2>4. x.status = "succeeded" => x.job <= NewestReport
    BY <2>0, <2>2 DEF PollRight, Settled
  <2>5. PollRight(y)
    BY <2>0, <2>2, <2>3, <2>4 DEF PollRight
  <2> QED BY <1>5, <2>1, <2>3, <2>5
<1>9. ASSUME NEW x \in polls, PollFails(x)
      PROVE  ReportInv'
  BY <1>9, PollsMove DEF PollFails, ReportTypes
<1>10. ASSUME NEW x \in polls, Shows(x)
       PROVE  ReportInv'
  <2>0. x \in Answers /\ PollRight(x) /\ x.status # "unread" /\ x.reported
    BY <1>10 DEF Shows, ReportTypes
  <2>1. shown' = [job |-> x.job, status |-> x.status, report |-> x.report, torn |-> x.torn]
        /\ UNCHANGED <<exports, reopened>>
    BY <1>10 DEF Shows
  <2>2. shown' \in [job : Nat, status : Statuses, report : Nat, torn : BOOLEAN]
    BY <2>0, <2>1 DEF Answers
  <2>3. Newest' = Newest
    BY <2>1 DEF Newest, Known
  <2>4. Settled(shown.job, shown.status)'
    BY <2>0, <2>1 DEF PollRight, Settled
  <2>5. (shown.status = "succeeded" => shown.torn \/ shown.job <= shown.report)'
    BY <2>0, <2>1 DEF PollRight
  <2>6. CASE x.kind = "POST"
    <3>1. /\ mine' = x.job
          /\ polls' = {[y EXCEPT !.before = @ \/ y.status # "unread"] : y \in polls \ {x}}
      BY <1>10, <2>6 DEF Shows
    <3>2. ASSUME NEW y \in polls
          PROVE  LET z == [y EXCEPT !.before = @ \/ y.status # "unread"]
                 IN  z \in Answers /\ PollRight(z)'
      <4> DEFINE b == y.before \/ y.status # "unread"
                 z == [y EXCEPT !.before = b]
      <4>1. y \in Answers /\ PollRight(y) /\ b \in BOOLEAN
        BY DEF ReportTypes, Answers
      <4>2. y.status # "unread" => b
        OBVIOUS
      <4> HIDE DEF b
      <4>3. /\ z \in Answers /\ z.job = y.job /\ z.status = y.status /\ z.report = y.report
            /\ (z.reported <=> y.reported) /\ (z.torn <=> y.torn) /\ (z.before <=> b)
        BY <4>1 DEF Answers
      <4> HIDE DEF z
      <4>4. PollRight(z)'
        BY <2>1, <2>3, <4>1, <4>2, <4>3 DEF PollRight, Settled
      <4> QED BY <4>3, <4>4 DEF z, b
    <3>3. polls' \subseteq Answers /\ \A z \in polls' : PollRight(z)'
      BY <3>1, <3>2
    <3>4. ReportTypes'
      BY <2>0, <2>1, <2>2, <3>1, <3>3 DEF ReportTypes, Answers
    <3>5. ExportsRight'
      BY <2>0, <2>1, <2>3, <3>1 DEF ExportsRight, PollRight
    <3>6. ShownRight'
      <4>1. x.job \in Nat /\ mine' <= shown'.job
        BY <2>0, <2>1, <3>1 DEF Answers
      <4> QED BY <2>4, <2>5, <4>1 DEF ShownRight
    <3> QED BY <3>3, <3>4, <3>5, <3>6
  <2>7. CASE x.kind # "POST"
    <3>1. polls' = polls \ {x} /\ overtaken' = x.before /\ UNCHANGED mine
      BY <1>10, <2>7 DEF Shows
    <3>2. ReportTypes' /\ ExportsRight'
      BY <2>1, <2>2, <2>3, <3>1 DEF ReportTypes, ExportsRight
    <3>3. \A z \in polls' : PollRight(z)'
      BY <2>1, <2>3, <3>1 DEF PollRight, Settled
    <3>4. mine <= x.job \/ x.before
      BY <2>0 DEF PollRight
    <3>5. (mine <= shown.job \/ overtaken)'
      BY <2>1, <3>1, <3>4
    <3> QED BY <2>4, <2>5, <3>2, <3>3, <3>5 DEF ShownRight
  <2> QED BY <2>6, <2>7
<1>11. ASSUME NEW e \in ExportIds, exports[e].status # "none", NEW s \in Statuses \ {"none"},
              exports' = [exports EXCEPT ![e].status = s], s = "succeeded" => exports[e].reported,
              exports[e].status \in {"succeeded", "dead"} => e \in reopened',
              UNCHANGED <<polls, shown, mine, overtaken>>, reopened \subseteq reopened'
       PROVE  ReportInv'
  <2> DEFINE y == [exports[e] EXCEPT !.status = s]
  <2>1. exports' = [exports EXCEPT ![e] = y]
    BY <1>11
  <2>2. y \in [status : Statuses, reported : BOOLEAN] /\ y.status = s
        /\ (y.reported <=> exports[e].reported)
    BY DEF ReportTypes
  <2> HIDE DEF y
  <2>3. Known' = Known
    BY <1>11, <2>1, <2>2 DEF Known, ReportTypes
  <2>4. Newest <= Newest'
    <3>1. Newest' = Newest /\ Newest \in Nat
      BY <2>3, NewestIsGreatest DEF Newest, NewestRight
    <3> QED BY <3>1
  <2> QED BY <1>11, <2>1, <2>2, <2>4, ExportsMove
<1>12. ASSUME NEW e \in ExportIds, Reopen(e)
       PROVE  ReportInv'
  <2>1. /\ exports[e].status = "dead" /\ exports' = [exports EXCEPT ![e].status = "running"]
        /\ reopened' = reopened \cup {e} /\ UNCHANGED <<polls, shown, mine, overtaken>>
    BY <1>12 DEF Reopen
  <2>2. e \in reopened' /\ reopened \subseteq reopened'
    BY <2>1
  <2>3. "running" \in Statuses \ {"none"} /\ exports[e].status # "none" /\ "running" # "succeeded"
    BY <2>1 DEF Statuses
  <2> QED BY ONLY <1>11, <2>1, <2>2, <2>3
<1>13. ASSUME NEW e \in ExportIds, NEW status \in {"running", "failed", "dead", "succeeded"},
              WorkOn(e, status)
       PROVE  ReportInv'
  BY <1>11, <1>13 DEF WorkOn, Statuses
<1>14. ASSUME NEW e \in ExportIds, WriteReport(e)
       PROVE  ReportInv'
  <2>1. /\ exports[e].status = "running" /\ exports' = [exports EXCEPT ![e].reported = TRUE]
        /\ polls' = Torn /\ UNCHANGED <<shown, mine, overtaken, reopened>>
    BY <1>14 DEF WriteReport
  <2>2. /\ exports'[e].status = "running" /\ exports'[e].reported
        /\ \A d \in ExportIds : d # e => exports'[d] = exports[d]
        /\ exports' \in [ExportIds -> [status : Statuses, reported : BOOLEAN]]
    BY <2>1 DEF ReportTypes
  <2>3. Newest' = Newest
    <3>1. Known' = Known
      BY <2>1, <2>2 DEF Known
    <3> QED BY <3>1 DEF Newest
  <2>4. \A d \in ExportIds :
          /\ exports[d].reported => exports'[d].reported
          /\ exports[d].status \in {"succeeded", "dead"} =>
               exports'[d].status \in {"succeeded", "dead"} \/ d \in reopened'
    BY <2>1, <2>2
  <2>5. ASSUME NEW y \in polls
        PROVE  LET z == [y EXCEPT !.torn = @ \/ (y.reported /\ y.status = "unread")]
               IN  z \in Answers /\ PollRight(z) /\ (z.torn \/ ~z.reported \/ z.status # "unread")
    <3> DEFINE b == y.torn \/ (y.reported /\ y.status = "unread")
               z == [y EXCEPT !.torn = b]
    <3>1. y \in Answers /\ PollRight(y) /\ b \in BOOLEAN
      BY DEF ReportTypes, Answers
    <3>2. (y.torn => b) /\ (y.reported /\ y.status = "unread" => b)
      OBVIOUS
    <3> HIDE DEF b
    <3>3. /\ z \in Answers /\ z.job = y.job /\ z.status = y.status /\ z.report = y.report
          /\ (z.reported <=> y.reported) /\ (z.torn <=> b) /\ (z.before <=> y.before)
      BY <3>1 DEF Answers
    <3> HIDE DEF z
    <3>4. PollRight(z) /\ (z.torn \/ ~z.reported \/ z.status # "unread")
      BY <3>1, <3>2, <3>3 DEF PollRight
    <3> QED BY <3>3, <3>4 DEF z, b
  <2>6. polls' \subseteq Answers
        /\ \A z \in polls' : PollRight(z) /\ (z.torn \/ ~z.reported \/ z.status # "unread")
    BY <2>1, <2>5 DEF Torn
  <2>7. ReportTypes'
    BY <2>1, <2>2, <2>6 DEF ReportTypes
  <2>8. \A z \in polls' : PollRight(z)'
    <3> SUFFICES ASSUME NEW z \in polls' PROVE PollRight(z)'
      OBVIOUS
    <3>1. z \in Answers /\ PollRight(z) /\ (z.torn \/ ~z.reported \/ z.status # "unread")
      BY <2>6
    <3>2. Newest <= Newest'
      BY <2>3, NewestIsGreatest DEF NewestRight
    <3> QED BY <2>1, <2>4, <2>7, <3>1, <3>2, PollStays
  <2>9. ExportsRight'
    BY <2>1, <2>2, <2>3 DEF ExportsRight
  <2>10. ShownRight'
    BY <2>1, <2>4 DEF ShownRight, Settled
  <2> QED BY <2>7, <2>8, <2>9, <2>10
<1> QED BY <1>1, <1>3, <1>4, <1>6, <1>7, <1>8, <1>9, <1>10, <1>12, <1>13, <1>14 DEF ReportNext

\* Once the screen has stopped asking, the export it shows is over, its numbers are
\* that export's or newer, and it is the one this screen started or a later one, but
\* for what the property excepts.
THEOREM PollingStopsForCause == ReportSpec => []StopsForCause
<1>1. ReportInit => ReportInv
  <2> SUFFICES ASSUME ReportInit PROVE ReportInv
    OBVIOUS
  <2> USE DEF ReportInit
  <2>1. ReportTypes
    BY DEF ReportTypes, Statuses, Answers, Poll
  <2>2. ExportsRight /\ 0 <= Newest
    <3>1. 0 <= Newest
      BY <2>1, NewestIsGreatest DEF NewestRight
    <3>2. \A e \in ExportIds : exports[e].status = "succeeded" => exports[e].reported
      <4> SUFFICES ASSUME NEW e \in ExportIds PROVE exports[e].status = "succeeded" => exports[e].reported
        OBVIOUS
      <4>1. CASE e = 1
        BY <4>1
      <4>2. CASE e # 1
        BY <4>2
      <4> QED BY <4>1, <4>2
    <3> QED BY <3>1, <3>2 DEF ExportsRight
  <2>3. \A x \in polls : PollRight(x)
    BY <2>2 DEF PollRight, Settled, Poll
  <2>4. ShownRight
    BY DEF ShownRight, Settled
  <2> QED BY <2>1, <2>2, <2>3, <2>4 DEF ReportInv
<1>2. ReportInv => StopsForCause
  <2> SUFFICES ASSUME ReportInv, shown.job # 0, shown.status \notin {"running", "failed"}
               PROVE  /\ exports[shown.job].status \in {"succeeded", "dead"} \/ shown.job \in reopened
                      /\ shown.status = "succeeded" => shown.report >= shown.job \/ shown.torn
                      /\ shown.job >= mine \/ overtaken
    BY DEF StopsForCause, Running, InFlightStatus
  <2>1. ShownRight /\ shown.job \in Nat /\ shown.report \in Nat /\ mine \in Nat /\ shown.status \in Statuses
    BY DEF ReportInv, ReportTypes
  <2> QED BY <2>1 DEF ShownRight, Settled, Statuses
<1> QED BY <1>1, <1>2, ReportInvStep, PTL DEF ReportSpec

-----------------------------------------------------------------------------
(* CartPage: what explains that the page is not the cart.                  *)

LineSeq == Seq([item : CartGoods, qty : Nat])
EditRecord == [line : Nat, qty : Nat, item : CartGoods \cup {""},
               fresh : BOOLEAN, live : BOOLEAN]
CallRecord == [at : {"idle", "asked", "read"}, kind : {"", "change", "refetch"},
               edit : EditRecord, answer : {"", "none", "cart", "errors"},
               rows : LineSeq, old : BOOLEAN]

LinesTyped ==
  /\ lineItems \in LineSeq /\ shownRows \in LineSeq /\ typed \in [DOMAIN shownRows -> Nat]
  /\ edit \in EditRecord /\ cartCalls \in [1..MaxCartCalls -> CallRecord]
  /\ edit.live => edit.line \in DOMAIN shownRows

\* A cart that was read is the cart, or old.
Brings(c) == c.at = "read" /\ (c.kind = "refetch" \/ c.answer = "cart")
ReadsRight ==
  \A k \in 1..MaxCartCalls :
    Brings(cartCalls[k]) => cartCalls[k].old \/ cartCalls[k].rows = lineItems

\* A call that will render.
Renders(c) == (c.at = "asked" /\ c.kind = "refetch") \/ Brings(c)
LinesRight ==
  \/ shownRows = lineItems
  \/ mishaps \cap {"overtaken", "unheard"} # {}
  \/ \E k \in 1..MaxCartCalls : Renders(cartCalls[k])

\* An input that shows another quantity is about to be sent, or was.
Changing(c, l) == c.at # "idle" /\ c.kind = "change" /\ c.edit.line = l
InputsRight ==
  \/ mishaps \cap {"unheard", "dropped"} # {}
  \/ \A l \in DOMAIN shownRows :
       \/ typed[l] = shownRows[l].qty
       \/ edit.line = l
       \/ \E k \in 1..MaxCartCalls : Changing(cartCalls[k], l)

\* While the lines are numbered as they were, a line number means its item.
Meets(e) == e.fresh /\ e.line # 0 => e.line \in DOMAIN lineItems /\ lineItems[e.line].item = e.item
EditsMeet ==
  /\ Meets(edit)
  /\ \A k \in 1..MaxCartCalls :
       cartCalls[k].at = "asked" /\ cartCalls[k].kind = "change" => Meets(cartCalls[k].edit)

AstrayRight == "astray" \in mishaps => "crossed" \in mishaps

CartPageInv ==
  LinesTyped /\ ReadsRight /\ LinesRight /\ InputsRight /\ EditsMeet /\ AstrayRight

LEMMA SameItems ==
  ASSUME NEW a \in LineSeq, NEW b \in LineSeq, ItemsOf(a) = ItemsOf(b), NEW l \in DOMAIN a
  PROVE  l \in DOMAIN b /\ a[l].item = b[l].item
<1>1. DOMAIN ItemsOf(a) = DOMAIN a /\ DOMAIN ItemsOf(b) = DOMAIN b
  BY DEF ItemsOf
<1>2. ItemsOf(a)[l] = a[l].item
  BY DEF ItemsOf
<1>3. l \in DOMAIN b
  BY <1>1
<1>4. ItemsOf(b)[l] = b[l].item
  BY <1>3 DEF ItemsOf
<1> QED BY <1>2, <1>3, <1>4

\* The lines become rows: what that does to an edit f that was e.
Crosses(e, f, rows) ==
  /\ f \in EditRecord /\ f.line = e.line /\ f.item = e.item /\ f.live = e.live
  /\ f.fresh /\ f.line # 0 => e.fresh /\ ItemsOf(rows) = ItemsOf(lineItems)

LEMMA CrossedCrosses ==
  ASSUME NEW e \in EditRecord, NEW rows
  PROVE  Crosses(e, Crossed(e, rows), rows)
<1>1. CASE e.line = 0
  BY <1>1 DEF Crosses, Crossed, EditRecord
<1>2. CASE e.line # 0
  <2> DEFINE b == e.fresh /\ ItemsOf(rows) = ItemsOf(lineItems)
             f == [e EXCEPT !.fresh = b]
  <2>1. b \in BOOLEAN /\ (b => e.fresh /\ ItemsOf(rows) = ItemsOf(lineItems))
    BY DEF EditRecord
  <2>2. Crossed(e, rows) = f
    BY <1>2 DEF Crossed
  <2> HIDE DEF b
  <2>3. /\ f \in EditRecord /\ f.line = e.line /\ f.item = e.item /\ f.live = e.live
        /\ (f.fresh <=> b)
    BY <2>1 DEF EditRecord
  <2> HIDE DEF f
  <2> QED BY <2>1, <2>2, <2>3 DEF Crosses
<1> QED BY <1>1, <1>2

LEMMA CrossedMeets ==
  ASSUME NEW e \in EditRecord, NEW f, Crosses(e, f, lineItems'), Meets(e),
         lineItems \in LineSeq, lineItems' \in LineSeq
  PROVE  Meets(f)'
<1> SUFFICES ASSUME f.fresh, f.line # 0
             PROVE  f.line \in DOMAIN lineItems' /\ lineItems'[f.line].item = f.item
  BY DEF Meets
<1>1. e.fresh /\ e.line # 0 /\ ItemsOf(lineItems') = ItemsOf(lineItems) /\ f.line = e.line /\ f.item = e.item
  BY DEF Crosses
<1>2. e.line \in DOMAIN lineItems /\ lineItems[e.line].item = e.item
  BY <1>1 DEF Meets
<1> QED BY <1>1, <1>2, SameItems

\* What it does to a call y that was x.
Ages(x, y, rows) ==
  /\ y \in CallRecord /\ y.at = x.at /\ y.kind = x.kind /\ y.answer = x.answer /\ y.rows = x.rows
  /\ IF x.at = "asked" THEN Crosses(x.edit, y.edit, rows) ELSE y.edit = x.edit
  /\ x.at = "read" /\ ~y.old => ~x.old /\ rows = lineItems

LEMMA CallsAge ==
  ASSUME LinesTyped, NEW rows
  PROVE  /\ DOMAIN CallsAfter(cartCalls, rows) = 1..MaxCartCalls
         /\ CallsAfter(cartCalls, rows) \in [1..MaxCartCalls -> CallRecord]
         /\ \A k \in 1..MaxCartCalls : Ages(cartCalls[k], CallsAfter(cartCalls, rows)[k], rows)
<1> DEFINE c == CallsAfter(cartCalls, rows)
<1>1. ASSUME NEW k \in 1..MaxCartCalls
      PROVE  Ages(cartCalls[k], c[k], rows)
  <2> DEFINE x == cartCalls[k]
             b == x.old \/ (x.at = "read" /\ rows # lineItems)
             f == IF x.at = "asked" THEN Crossed(x.edit, rows) ELSE x.edit
             y == [x EXCEPT !.old = b, !.edit = f]
  <2>1. x \in CallRecord
    BY DEF LinesTyped
  <2>2. x.edit \in EditRecord /\ x.old \in BOOLEAN
    BY <2>1 DEF CallRecord
  <2>3. b \in BOOLEAN /\ (x.at = "read" /\ ~b => ~x.old /\ rows = lineItems)
    BY <2>2
  <2>4. f \in EditRecord /\ IF x.at = "asked" THEN Crosses(x.edit, f, rows) ELSE f = x.edit
    <3>1. CASE x.at = "asked"
      <4>1. Crosses(x.edit, Crossed(x.edit, rows), rows)
        BY <2>2, CrossedCrosses
      <4> QED BY <3>1, <4>1 DEF Crosses
    <3>2. CASE x.at # "asked"
      BY <2>2, <3>2
    <3> QED BY <3>1, <3>2
  <2>5. c[k] = y
    BY DEF CallsAfter, LinesTyped
  <2> HIDE DEF c, b, f, x
  <2>6. /\ y \in CallRecord /\ y.at = x.at /\ y.kind = x.kind /\ y.answer = x.answer
        /\ y.rows = x.rows /\ y.edit = f /\ (y.old <=> b)
    BY <2>1, <2>3, <2>4 DEF CallRecord
  <2> HIDE DEF y
  <2> QED BY <2>3, <2>4, <2>5, <2>6 DEF Ages, x
<1>2. DOMAIN c = 1..MaxCartCalls /\ c = [k \in 1..MaxCartCalls |-> c[k]]
  BY DEF CallsAfter, LinesTyped
<1> HIDE DEF c
<1> QED BY <1>1, <1>2 DEF Ages, c

LEMMA LinesStay ==
  /\ \A item \in CartGoods : lineItems \in LineSeq => Added(item) \in LineSeq
  /\ \A e \in EditRecord : lineItems \in LineSeq /\ e.line \in DOMAIN lineItems => Changed(e) \in LineSeq
<1>0. LineStock \in Nat /\ LineMin \in Nat
  BY CartAssumption
<1> DEFINE R == [item : CartGoods, qty : Nat]
<1>1. ASSUME NEW item \in CartGoods, lineItems \in LineSeq
      PROVE  Added(item) \in LineSeq
  <2>1. CASE \E l \in DOMAIN lineItems : lineItems[l].item = item
    <3> DEFINE n == Len(lineItems)
               r == [l \in 1..n |-> IF lineItems[l].item = item
                       THEN [lineItems[l] EXCEPT !.qty = LineStock] ELSE lineItems[l]]
    <3>0. lineItems \in Seq(R)
      BY <1>1 DEF LineSeq
    <3>1. n \in Nat /\ DOMAIN lineItems = 1..n /\ \A l \in 1..n : lineItems[l] \in R
      <4> HIDE DEF R
      <4> QED BY <3>0
    <3>2. Added(item) = r
      BY <2>1, <3>1 DEF Added
    <3>3. \A l \in 1..n : r[l] \in R
      BY <1>0, <3>1
    <3>4. r \in [1..n -> R]
      BY <3>3
    <3> HIDE DEF r, n
    <3>5. r \in Seq(R)
      <4> HIDE DEF R
      <4> QED BY <3>1, <3>4, SeqDef
    <3> QED BY <3>2, <3>5 DEF LineSeq
  <2>2. CASE ~(\E l \in DOMAIN lineItems : lineItems[l].item = item)
    <3>1. Added(item) = Append(lineItems, [item |-> item, qty |-> LineMin])
      BY <2>2 DEF Added
    <3>2. [item |-> item, qty |-> LineMin] \in R
      BY <1>0
    <3> QED BY <1>1, <3>1, <3>2 DEF LineSeq
  <2> QED BY <2>1, <2>2
<1>2. ASSUME NEW e \in EditRecord, lineItems \in LineSeq, e.line \in DOMAIN lineItems
      PROVE  Changed(e) \in LineSeq
  <2>1. CASE e.qty = 0
    <3>1. RemoveAt(lineItems, e.line) \in Seq(R)
      BY <1>2, RemoveAtEntries DEF LineSeq
    <3> QED BY <2>1, <3>1 DEF Changed, LineSeq
  <2>2. CASE e.qty # 0
    <3> DEFINE q == IF e.qty < LineStock THEN e.qty ELSE LineStock
    <3>1. q \in Nat
      BY <1>0, <1>2 DEF EditRecord
    <3>2. Changed(e) = [lineItems EXCEPT ![e.line].qty = q]
      BY <2>2 DEF Changed
    <3> HIDE DEF q
    <3>3. [lineItems EXCEPT ![e.line].qty = q] \in Seq(R)
      <4> DEFINE x == [lineItems[e.line] EXCEPT !.qty = q]
      <4>1. lineItems \in Seq(R)
        BY <1>2 DEF LineSeq
      <4>2. lineItems[e.line] \in R
        <5> HIDE DEF R
        <5> QED BY <1>2, <4>1
      <4>3. x \in R
        BY <3>1, <4>2
      <4>4. [lineItems EXCEPT ![e.line] = x] \in Seq(R)
        <5> HIDE DEF R, x
        <5> QED BY <1>2, <4>1, <4>3
      <4> QED BY <4>4
    <3> QED BY <3>2, <3>3 DEF LineSeq
  <2> QED BY <2>1, <2>2
<1> QED BY <1>1, <1>2

\* What the customer does to line l, with the lines numbered as shown.
LEMMA ActMeets ==
  ASSUME LinesTyped, NEW l \in DOMAIN shownRows, NEW qty \in Nat
  PROVE  LET e == Act(l, qty) IN e \in EditRecord /\ e.line = l /\ l # 0 /\ ~e.live /\ Meets(e)
<1> DEFINE b == ItemsOf(shownRows) = ItemsOf(lineItems)
           r == shownRows[l]
           e == [line |-> l, qty |-> qty, item |-> r.item, fresh |-> b, live |-> FALSE]
<1>1. shownRows \in Seq([item : CartGoods, qty : Nat]) /\ l \in Nat /\ l # 0
  BY DEF LinesTyped, LineSeq
<1>2. r \in [item : CartGoods, qty : Nat]
  <2> DEFINE R == [item : CartGoods, qty : Nat]
  <2> HIDE DEF R
  <2>1. shownRows \in Seq(R) /\ l \in DOMAIN shownRows
    BY <1>1 DEF R
  <2>2. shownRows[l] \in R
    BY <2>1
  <2> QED BY <2>2 DEF R
<1>3. b \in BOOLEAN
  OBVIOUS
<1>4. b => l \in DOMAIN lineItems /\ lineItems[l].item = r.item
  BY SameItems DEF LinesTyped
<1>5. Act(l, qty) = e
  BY DEF Act
<1> HIDE DEF b, r
<1>6. e \in EditRecord /\ e.line = l /\ e.item = r.item /\ (e.fresh <=> b) /\ ~e.live
  BY <1>1, <1>2, <1>3 DEF EditRecord
<1> HIDE DEF e
<1> QED BY <1>1, <1>4, <1>5, <1>6 DEF Meets

\* A change of line e.line is asked for.
LEMMA AskKeeps ==
  ASSUME CartPageInv, NEW k \in 1..MaxCartCalls, NEW e \in EditRecord, Meets(e), Ask(k, e),
         edit' = edit \/ (edit' = NoEdit /\ e.line = edit.line),
         UNCHANGED <<lineItems, shownRows, typed, mishaps>>
  PROVE  CartPageInv'
<1> DEFINE y == [NoCall EXCEPT !.at = "asked", !.kind = "change", !.edit = e]
<1>1. NoEdit \in EditRecord /\ NoEdit.line = 0 /\ ~NoEdit.live
  BY DEF NoEdit, EditRecord
<1>2. <<>> \in LineSeq
  BY DEF LineSeq
<1>3. NoCall \in CallRecord
  BY <1>1, <1>2 DEF NoCall, CallRecord
<1>4. /\ y \in CallRecord /\ y.at = "asked" /\ y.kind = "change" /\ y.edit = e
  BY <1>3 DEF CallRecord
<1>5. cartCalls[k].at = "idle" /\ cartCalls' = [cartCalls EXCEPT ![k] = y]
  BY DEF Ask
<1> HIDE DEF y
<1>6. /\ cartCalls \in [1..MaxCartCalls -> CallRecord] /\ cartCalls'[k] = y
      /\ \A j \in 1..MaxCartCalls : j # k => cartCalls'[j] = cartCalls[j]
  BY <1>5 DEF CartPageInv, LinesTyped
<1>7. LinesTyped'
  BY <1>1, <1>4, <1>5 DEF CartPageInv, LinesTyped
<1>8. ReadsRight'
  BY <1>4, <1>6 DEF CartPageInv, ReadsRight, Brings
<1>9. LinesRight'
  <2>1. \A j \in 1..MaxCartCalls : Renders(cartCalls[j]) => Renders(cartCalls'[j])
    BY <1>5, <1>6 DEF Renders, Brings
  <2>2. \A j \in 1..MaxCartCalls : Renders(cartCalls[j])' <=> Renders(cartCalls'[j])
    BY DEF Renders, Brings
  <2> QED BY <2>1, <2>2 DEF CartPageInv, LinesRight
<1>10. InputsRight'
  <2>1. CASE mishaps \cap {"unheard", "dropped"} # {}
    BY <2>1 DEF InputsRight
  <2>2. ASSUME mishaps \cap {"unheard", "dropped"} = {}, NEW l \in DOMAIN shownRows
        PROVE  typed[l] = shownRows[l].qty \/ edit'.line = l
               \/ \E j \in 1..MaxCartCalls : Changing(cartCalls'[j], l)
    <3>1. typed[l] = shownRows[l].qty \/ edit.line = l
          \/ \E j \in 1..MaxCartCalls : Changing(cartCalls[j], l)
      BY <2>2 DEF CartPageInv, InputsRight
    <3>2. edit.line = l => edit'.line = l \/ Changing(cartCalls'[k], l)
      BY <1>4, <1>6 DEF Changing
    <3>3. \A j \in 1..MaxCartCalls : Changing(cartCalls[j], l) => Changing(cartCalls'[j], l)
      BY <1>5, <1>6 DEF Changing
    <3> QED BY <3>1, <3>2, <3>3
  <2> QED BY <2>1, <2>2 DEF InputsRight, Changing
<1>11. EditsMeet'
  <2>1. Meets(e)' /\ Meets(NoEdit)' /\ Meets(edit)
    BY <1>1 DEF CartPageInv, EditsMeet, Meets
  <2>2. Meets(edit)'
    BY <2>1 DEF Meets
  <2>3. ASSUME NEW j \in 1..MaxCartCalls, cartCalls'[j].at = "asked", cartCalls'[j].kind = "change"
        PROVE  Meets(cartCalls[j].edit)'
    <3>1. CASE j = k
      BY <1>4, <1>6, <2>1, <3>1 DEF Meets
    <3>2. CASE j # k
      BY <1>6, <2>3, <3>2 DEF CartPageInv, EditsMeet, Meets
    <3> QED BY <3>1, <3>2
  <2> QED BY <2>2, <2>3 DEF EditsMeet
<1> QED BY <1>7, <1>8, <1>9, <1>10, <1>11 DEF CartPageInv, AstrayRight

\* The cart becomes rows, and one request moves with it.
LEMMA CartMoves ==
  ASSUME CartPageInv, NEW rows \in LineSeq, lineItems' = rows, edit' = Crossed(edit, rows),
         NEW k \in 1..MaxCartCalls, NEW y \in CallRecord, NEW moved \in BOOLEAN,
         cartCalls' = IF moved THEN [CallsAfter(cartCalls, rows) EXCEPT ![k] = y]
                      ELSE CallsAfter(cartCalls, rows),
         moved => /\ y.at = "asked" => y.kind = "refetch"
                  /\ Brings(y) => y.rows = rows
                  /\ Renders(cartCalls[k]) => Renders(y)
                  /\ \A l : Changing(cartCalls[k], l) => Changing(y, l),
         rows = lineItems \/ (moved /\ Renders(y)) \/ "unheard" \in mishaps',
         mishaps \subseteq mishaps', AstrayRight', UNCHANGED <<shownRows, typed>>
  PROVE  CartPageInv'
<1> DEFINE c == CallsAfter(cartCalls, rows)
<1>1. LinesTyped /\ edit \in EditRecord /\ cartCalls \in [1..MaxCartCalls -> CallRecord]
      /\ lineItems \in LineSeq
  BY DEF CartPageInv, LinesTyped
<1>2. /\ c \in [1..MaxCartCalls -> CallRecord]
      /\ \A j \in 1..MaxCartCalls : Ages(cartCalls[j], c[j], rows)
  BY <1>1, CallsAge
<1> HIDE DEF c
<1>3. /\ cartCalls' \in [1..MaxCartCalls -> CallRecord]
      /\ \A j \in 1..MaxCartCalls : (moved /\ j = k /\ cartCalls'[j] = y) \/ cartCalls'[j] = c[j]
      /\ moved => cartCalls'[k] = y
  BY <1>2 DEF c
<1>4. Crosses(edit, edit', rows)
  BY <1>1, CrossedCrosses
<1>5. LinesTyped'
  BY <1>1, <1>3, <1>4 DEF LinesTyped, Crosses
<1>6. ASSUME NEW j \in 1..MaxCartCalls
      PROVE  /\ Brings(cartCalls'[j]) => cartCalls'[j].old \/ cartCalls'[j].rows = rows
             /\ Renders(cartCalls[j]) => Renders(cartCalls'[j])
             /\ \A l : Changing(cartCalls[j], l) => Changing(cartCalls'[j], l)
             /\ cartCalls'[j].at = "asked" /\ cartCalls'[j].kind = "change" =>
                  cartCalls[j].at = "asked" /\ cartCalls[j].kind = "change"
                  /\ Crosses(cartCalls[j].edit, cartCalls'[j].edit, rows)
  <2>1. CASE cartCalls'[j] = c[j]
    <3>1. Ages(cartCalls[j], c[j], rows)
      BY <1>2
    <3>2. cartCalls[j] \in CallRecord /\ cartCalls[j].edit \in EditRecord
      BY <1>1 DEF CallRecord
    <3>3. c[j].edit.line = cartCalls[j].edit.line
      BY <3>1 DEF Ages, Crosses
    <3>4. Brings(cartCalls[j]) => cartCalls[j].old \/ cartCalls[j].rows = lineItems
      BY DEF CartPageInv, ReadsRight
    <3> QED BY <2>1, <3>1, <3>3, <3>4 DEF Ages, Renders, Brings, Changing
  <2>2. CASE moved /\ j = k /\ cartCalls'[j] = y
    BY <2>2
  <2> QED BY <1>3, <2>1, <2>2
<1>7. ReadsRight'
  BY <1>6 DEF ReadsRight, Brings
<1>8. LinesRight'
  <2>1. CASE mishaps \cap {"overtaken", "unheard"} # {} \/ "unheard" \in mishaps'
    BY <2>1 DEF LinesRight
  <2>2. CASE \E j \in 1..MaxCartCalls : Renders(cartCalls[j])
    BY <1>6, <2>2 DEF LinesRight, Renders, Brings
  <2>3. CASE moved /\ Renders(y)
    BY <1>3, <2>3 DEF LinesRight, Renders, Brings
  <2>4. CASE rows = lineItems /\ shownRows = lineItems
    BY <2>4 DEF LinesRight
  <2> QED BY <2>1, <2>2, <2>3, <2>4 DEF CartPageInv, LinesRight
<1>9. InputsRight'
  <2>1. CASE mishaps \cap {"unheard", "dropped"} # {}
    BY <2>1 DEF InputsRight
  <2>2. ASSUME mishaps \cap {"unheard", "dropped"} = {}, NEW l \in DOMAIN shownRows
        PROVE  typed[l] = shownRows[l].qty \/ edit'.line = l
               \/ \E j \in 1..MaxCartCalls : Changing(cartCalls'[j], l)
    <3>1. typed[l] = shownRows[l].qty \/ edit.line = l
          \/ \E j \in 1..MaxCartCalls : Changing(cartCalls[j], l)
      BY <2>2 DEF CartPageInv, InputsRight
    <3> QED BY <1>4, <1>6, <3>1 DEF Crosses
  <2> QED BY <2>1, <2>2 DEF InputsRight, Changing
<1>10. EditsMeet'
  <2>1. Meets(edit)'
    BY <1>1, <1>4, CrossedMeets DEF CartPageInv, EditsMeet
  <2>2. ASSUME NEW j \in 1..MaxCartCalls, cartCalls'[j].at = "asked", cartCalls'[j].kind = "change"
        PROVE  Meets(cartCalls[j].edit)'
    <3> DEFINE e == cartCalls[j].edit
               f == cartCalls'[j].edit
    <3>1. e \in EditRecord /\ Meets(e) /\ Crosses(e, f, rows)
      BY <1>1, <1>6, <2>2 DEF CartPageInv, EditsMeet, CallRecord
    <3>2. f.fresh /\ f.line # 0 => f.line \in DOMAIN lineItems' /\ lineItems'[f.line].item = f.item
      <4> HIDE DEF e, f
      <4> SUFFICES ASSUME f.fresh, f.line # 0
                   PROVE  f.line \in DOMAIN lineItems' /\ lineItems'[f.line].item = f.item
        OBVIOUS
      <4>2. ItemsOf(rows) = ItemsOf(lineItems) /\ e.fresh /\ f.line = e.line /\ f.item = e.item
        BY <3>1 DEF Crosses
      <4>3. e.line \in DOMAIN lineItems /\ lineItems[e.line].item = e.item
        BY <3>1, <4>2 DEF Meets
      <4> QED BY <1>1, <4>2, <4>3, SameItems
    <3> QED BY <3>2 DEF Meets
  <2> QED BY <2>1, <2>2 DEF EditsMeet
<1> QED BY <1>5, <1>7, <1>8, <1>9, <1>10 DEF CartPageInv

LEMMA NothingIsTyped ==
  /\ NoEdit \in EditRecord /\ NoEdit.line = 0 /\ NoEdit.fresh /\ ~NoEdit.live /\ Meets(NoEdit)
  /\ NoCall \in CallRecord /\ NoCall.at = "idle" /\ NoCall.edit = NoEdit
<1>1. NoEdit \in EditRecord /\ NoEdit.line = 0 /\ NoEdit.fresh /\ ~NoEdit.live
  BY DEF NoEdit, EditRecord
<1>2. <<>> \in LineSeq
  BY DEF LineSeq
<1> QED BY <1>1, <1>2 DEF NoCall, CallRecord, Meets

\* One request is over; others are as they were.
LEMMA FinishedLeaves ==
  ASSUME LinesTyped, NEW k \in 1..MaxCartCalls, Finished(k)
  PROVE  /\ cartCalls' \in [1..MaxCartCalls -> CallRecord]
         /\ cartCalls'[k] = NoCall
         /\ \A j \in 1..MaxCartCalls : j # k => cartCalls'[j] = cartCalls[j]
BY NothingIsTyped DEF LinesTyped, Finished

LEMMA RowsTyped ==
  ASSUME NEW rows \in LineSeq
  PROVE  /\ \A l \in DOMAIN rows : rows[l].qty \in Nat
         /\ Quantities(rows) \in [DOMAIN rows -> Nat]
         /\ \A l \in DOMAIN rows : Quantities(rows)[l] = rows[l].qty
<1> DEFINE R == [item : CartGoods, qty : Nat]
<1>1. \A l \in DOMAIN rows : rows[l] \in R
  <2> HIDE DEF R
  <2>1. rows \in Seq(R)
    BY DEF LineSeq, R
  <2> QED BY <2>1
<1> QED BY <1>1 DEF Quantities

LEMMA ResetTyped ==
  ASSUME LinesTyped, NEW l \in Nat
  PROVE  /\ ResetInput(l) \in [DOMAIN shownRows -> Nat]
         /\ \A m \in DOMAIN shownRows : m # l => ResetInput(l)[m] = typed[m]
         /\ l \in DOMAIN shownRows => ResetInput(l)[l] = shownRows[l].qty
<1>1. \A m \in DOMAIN shownRows : shownRows[m].qty \in Nat
  BY RowsTyped DEF LinesTyped
<1> QED BY <1>1 DEF LinesTyped, ResetInput

\* The edit that waits, with the value of its input.
LEMMA ReadKeeps ==
  ASSUME LinesTyped
  PROVE  /\ InputValue \in Nat
         /\ LET e == [edit EXCEPT !.qty = InputValue, !.live = FALSE] IN
              /\ e \in EditRecord /\ e.line = edit.line /\ ~e.live
              /\ Meets(edit) => Meets(e)
<1> DEFINE v == InputValue
           e == [edit EXCEPT !.qty = v, !.live = FALSE]
<1>1. edit \in EditRecord
  BY DEF LinesTyped
<1>2. v \in Nat
  <2>1. CASE edit.live
    BY <2>1 DEF LinesTyped, InputValue
  <2>2. CASE ~edit.live
    BY <1>1, <2>2 DEF InputValue, EditRecord
  <2> QED BY <2>1, <2>2
<1> HIDE DEF v
<1>3. /\ e \in EditRecord /\ e.line = edit.line /\ ~e.live
      /\ e.item = edit.item /\ e.fresh = edit.fresh
  BY <1>1, <1>2 DEF EditRecord
<1> HIDE DEF e
<1>4. Meets(edit) => Meets(e)
  BY <1>3 DEF Meets
<1> QED BY <1>2, <1>3, <1>4 DEF v, e

\* A request is over and its rows are rendered.
LEMMA RenderingKeeps ==
  ASSUME CartPageInv, NEW k \in 1..MaxCartCalls, Brings(cartCalls[k]), Rendered(k), Finished(k),
         lineItems' = lineItems
  PROVE  CartPageInv'
<1> DEFINE c == cartCalls[k]
<1>1. LinesTyped /\ c \in CallRecord
  BY DEF CartPageInv, LinesTyped
<1>2. c.rows \in LineSeq
  BY <1>1 DEF CallRecord
<1>3. shownRows' = c.rows /\ typed' = Quantities(c.rows)
  BY DEF Rendered
<1>3a. edit' \in EditRecord /\ edit'.line = edit.line /\ ~edit'.live /\ (Meets(edit) => Meets(edit'))
  BY <1>1, ReadKeeps DEF Rendered
<1>4. c.old \/ c.rows = lineItems
  BY DEF CartPageInv, ReadsRight
<1>5. (c.old => "overtaken" \in mishaps') /\ (AstrayRight => AstrayRight')
  BY DEF Rendered, AstrayRight
<1> HIDE DEF c
<1>6. /\ cartCalls' \in [1..MaxCartCalls -> CallRecord] /\ cartCalls'[k] = NoCall
      /\ \A j \in 1..MaxCartCalls : j # k => cartCalls'[j] = cartCalls[j]
  BY <1>1, FinishedLeaves
<1>7. LinesTyped'
  <2>1. typed' \in [DOMAIN shownRows' -> Nat]
    BY <1>2, <1>3, RowsTyped
  <2> QED BY <1>1, <1>2, <1>3, <1>3a, <1>6, <2>1 DEF LinesTyped
<1>8. ReadsRight'
  BY <1>6, NothingIsTyped DEF CartPageInv, ReadsRight, Brings
<1>9. LinesRight'
  BY <1>3, <1>4, <1>5 DEF LinesRight
<1>10. InputsRight'
  <2>1. \A l \in DOMAIN c.rows : Quantities(c.rows)[l] = c.rows[l].qty
    BY <1>2, RowsTyped
  <2> QED BY <1>3, <2>1 DEF InputsRight
<1>11. EditsMeet'
  <2>1. Meets(edit)'
    BY <1>3a DEF CartPageInv, EditsMeet, Meets
  <2> QED BY <1>6, <2>1, NothingIsTyped DEF CartPageInv, EditsMeet, Meets
<1> QED BY <1>5, <1>7, <1>8, <1>9, <1>10, <1>11 DEF CartPageInv

\* A request is over and nothing is rendered: an error text, and perhaps the input.
LEMMA SilenceKeeps ==
  ASSUME CartPageInv, NEW k \in 1..MaxCartCalls, Finished(k),
         \/ "unheard" \in mishaps' /\ typed' = typed
         \/ /\ ~Renders(cartCalls[k])
            /\ typed' = ResetInput(cartCalls[k].edit.line) /\ mishaps' = mishaps,
         mishaps \subseteq mishaps', AstrayRight', UNCHANGED <<lineItems, shownRows, edit>>
  PROVE  CartPageInv'
<1> DEFINE l == cartCalls[k].edit.line
<1>1. LinesTyped /\ l \in Nat
  BY DEF CartPageInv, LinesTyped, CallRecord, EditRecord
<1> HIDE DEF l
<1>2. /\ ResetInput(l) \in [DOMAIN shownRows -> Nat]
      /\ \A m \in DOMAIN shownRows : m # l => ResetInput(l)[m] = typed[m]
      /\ l \in DOMAIN shownRows => ResetInput(l)[l] = shownRows[l].qty
  BY <1>1, ResetTyped
<1>6. /\ cartCalls' \in [1..MaxCartCalls -> CallRecord] /\ cartCalls'[k] = NoCall
      /\ \A j \in 1..MaxCartCalls : j # k => cartCalls'[j] = cartCalls[j]
  BY <1>1, FinishedLeaves
<1>7. LinesTyped'
  BY <1>1, <1>2, <1>6 DEF LinesTyped, l
<1>8. ReadsRight'
  BY <1>6, NothingIsTyped DEF CartPageInv, ReadsRight, Brings
<1>9. LinesRight'
  BY <1>6 DEF CartPageInv, LinesRight, Renders, Brings
<1>10. InputsRight'
  <2>1. CASE mishaps' \cap {"unheard", "dropped"} # {}
    BY <2>1 DEF InputsRight
  <2>2. CASE mishaps' \cap {"unheard", "dropped"} = {}
    <3>1. typed' = ResetInput(l) /\ mishaps \cap {"unheard", "dropped"} = {}
      BY <2>2 DEF l
    <3>2. ASSUME NEW m \in DOMAIN shownRows
          PROVE  typed'[m] = shownRows[m].qty \/ edit.line = m
                 \/ \E j \in 1..MaxCartCalls : Changing(cartCalls'[j], m)
      <4>1. CASE m = l
        BY <1>2, <3>1, <4>1
      <4>2. CASE m # l
        <5>1. typed[m] = shownRows[m].qty \/ edit.line = m
              \/ \E j \in 1..MaxCartCalls : Changing(cartCalls[j], m)
          BY <3>1 DEF CartPageInv, InputsRight
        <5>2. ~Changing(cartCalls[k], m)
          BY <4>2 DEF Changing, l
        <5>3. \A j \in 1..MaxCartCalls : Changing(cartCalls[j], m) => Changing(cartCalls'[j], m)
          BY <1>6, <5>2
        <5> QED BY <1>2, <3>1, <4>2, <5>1, <5>3
      <4> QED BY <4>1, <4>2
    <3> QED BY <3>2 DEF InputsRight, Changing
  <2> QED BY <2>1, <2>2
<1>11. EditsMeet'
  BY <1>6, NothingIsTyped DEF CartPageInv, EditsMeet, Meets
<1> QED BY <1>7, <1>8, <1>9, <1>10, <1>11 DEF CartPageInv

LEMMA CartPageInvStep == CartPageInv /\ [CartPageNext]_cartPageVars => CartPageInv'
<1> SUFFICES ASSUME CartPageInv, [CartPageNext]_cartPageVars PROVE CartPageInv'
  OBVIOUS
<1>0. LinesTyped /\ edit \in EditRecord /\ lineItems \in LineSeq
  BY DEF CartPageInv, LinesTyped
<1>1. ASSUME NEW k \in 1..MaxCartCalls, NEW l \in 1..Cardinality(CartGoods), PressRemove(l, k)
      PROVE  CartPageInv'
  <2> DEFINE e == Act(l, 0)
  <2>1. e \in EditRecord /\ Meets(e)
    BY <1>0, <1>1, ActMeets DEF PressRemove
  <2>2. Ask(k, e) /\ UNCHANGED <<lineItems, shownRows, typed, mishaps>> /\ edit' = edit
    BY <1>1 DEF PressRemove
  <2> HIDE DEF e
  <2> QED BY <2>1, <2>2, AskKeeps
<1>2. ASSUME NEW l \in 1..Cardinality(CartGoods), NEW qty \in 0..LineMax + 1, Type(l, qty)
      PROVE  CartPageInv'
  <2> DEFINE a == Act(l, 0)
             e == [a EXCEPT !.live = TRUE]
  <2>0. LineMax \in Nat /\ qty \in Nat
    BY CartAssumption
  <2>1. e \in EditRecord /\ e.line = l /\ Meets(e)
    <3>1. a \in EditRecord /\ a.line = l /\ Meets(a)
      BY <1>0, <1>2, ActMeets DEF Type
    <3> HIDE DEF a
    <3> QED BY <3>1 DEF EditRecord, Meets
  <2>2. /\ l \in DOMAIN shownRows /\ typed' = [typed EXCEPT ![l] = qty] /\ edit' = e
        /\ mishaps' = IF edit.line \notin {0, l} THEN mishaps \cup {"dropped"} ELSE mishaps
        /\ UNCHANGED <<lineItems, shownRows, cartCalls>>
    BY <1>2 DEF Type
  <2> HIDE DEF e
  <2>3. LinesTyped'
    BY <1>0, <2>0, <2>1, <2>2 DEF LinesTyped
  <2>4. ReadsRight' /\ LinesRight' /\ AstrayRight'
    BY <2>2 DEF CartPageInv, ReadsRight, LinesRight, Renders, Brings, AstrayRight
  <2>5. EditsMeet'
    <3>1. Meets(edit)'
      BY <2>1, <2>2 DEF Meets
    <3> QED BY <2>2, <3>1 DEF CartPageInv, EditsMeet, Meets
  <2>6. InputsRight'
    <3>1. CASE mishaps' \cap {"unheard", "dropped"} # {}
      BY <3>1 DEF InputsRight
    <3>2. CASE mishaps' \cap {"unheard", "dropped"} = {}
      <4>1. mishaps \cap {"unheard", "dropped"} = {} /\ edit.line \in {0, l}
        BY <2>2, <3>2
      <4>2. ASSUME NEW m \in DOMAIN shownRows
            PROVE  typed'[m] = shownRows[m].qty \/ edit'.line = m
                   \/ \E j \in 1..MaxCartCalls : Changing(cartCalls[j], m)
        <5>1. CASE m = l
          BY <2>1, <2>2, <5>1
        <5>2. CASE m # l
          <6>0. m # 0
            BY <1>0 DEF LinesTyped, LineSeq
          <6>1. typed'[m] = typed[m] /\ edit.line # m
            BY <1>0, <2>2, <4>1, <5>2, <6>0 DEF LinesTyped
          <6> QED BY <4>1, <6>1 DEF CartPageInv, InputsRight
        <5> QED BY <5>1, <5>2
      <4> QED BY <2>2, <4>2 DEF InputsRight, Changing
    <3> QED BY <3>1, <3>2
  <2> QED BY <2>3, <2>4, <2>5, <2>6 DEF CartPageInv
<1>3. ASSUME NEW k \in 1..MaxCartCalls, Validate(k)
      PROVE  CartPageInv'
  <2>1. CASE ~Valid(InputValue)
    <3> DEFINE l == edit.line
    <3>1. l \in Nat
      BY <1>0 DEF EditRecord
    <3>2. /\ edit' = NoEdit /\ typed' = ResetInput(l)
          /\ UNCHANGED <<lineItems, shownRows, cartCalls, mishaps>>
      BY <1>3, <2>1 DEF Validate
    <3> HIDE DEF l
    <3>3. /\ ResetInput(l) \in [DOMAIN shownRows -> Nat]
          /\ \A m \in DOMAIN shownRows : m # l => ResetInput(l)[m] = typed[m]
          /\ l \in DOMAIN shownRows => ResetInput(l)[l] = shownRows[l].qty
      BY <1>0, <3>1, ResetTyped
    <3>4. LinesTyped'
      BY <1>0, <3>2, <3>3, NothingIsTyped DEF LinesTyped
    <3>5. ReadsRight' /\ LinesRight' /\ AstrayRight'
      BY <3>2 DEF CartPageInv, ReadsRight, LinesRight, Renders, Brings, AstrayRight
    <3>6. EditsMeet'
      <4>1. Meets(edit)'
        BY <3>2, NothingIsTyped DEF Meets
      <4> QED BY <3>2, <4>1 DEF CartPageInv, EditsMeet, Meets
    <3>7. InputsRight'
      <4>1. ASSUME NEW m \in DOMAIN shownRows, mishaps \cap {"unheard", "dropped"} = {}
            PROVE  typed'[m] = shownRows[m].qty
                   \/ \E j \in 1..MaxCartCalls : Changing(cartCalls[j], m)
        <5>1. CASE m = l
          BY <3>2, <3>3, <5>1
        <5>2. CASE m # l
          BY <3>2, <3>3, <4>1, <5>2 DEF CartPageInv, InputsRight, l
        <5> QED BY <5>1, <5>2
      <4> QED BY <3>2, <4>1 DEF InputsRight, Changing
    <3> QED BY <3>4, <3>5, <3>6, <3>7 DEF CartPageInv
  <2>2. CASE Valid(InputValue)
    <3> DEFINE e == [edit EXCEPT !.qty = InputValue, !.live = FALSE]
    <3>1. e \in EditRecord /\ e.line = edit.line /\ Meets(e)
      BY <1>0, ReadKeeps DEF CartPageInv, EditsMeet
    <3>2. /\ Ask(k, e) /\ edit' = NoEdit
          /\ UNCHANGED <<lineItems, shownRows, typed, mishaps>>
      BY <1>3, <2>2 DEF Validate
    <3> HIDE DEF e
    <3> QED BY <3>1, <3>2, AskKeeps
  <2> QED BY <2>1, <2>2
<1>4. ASSUME NEW k \in 1..MaxCartCalls, NEW item \in CartGoods, AddElsewhere(item, k)
      PROVE  CartPageInv'
  <2> DEFINE rows == Added(item)
             y == [NoCall EXCEPT !.at = "asked", !.kind = "refetch"]
  <2>1. rows \in LineSeq
    BY <1>0, LinesStay
  <2>2. /\ y \in CallRecord /\ y.at = "asked" /\ y.kind = "refetch"
    BY NothingIsTyped DEF CallRecord
  <2>3. Renders(y) /\ ~Brings(y)
    BY <2>2 DEF Renders, Brings
  <2>4. /\ lineItems' = rows /\ edit' = Crossed(edit, rows) /\ UNCHANGED <<shownRows, typed>>
        /\ \/ /\ cartCalls[k].at = "idle" /\ mishaps' = mishaps
              /\ cartCalls' = [CallsAfter(cartCalls, rows) EXCEPT ![k] = y]
           \/ /\ cartCalls' = CallsAfter(cartCalls, rows)
              /\ mishaps' = mishaps \cup {"unheard"}
    BY <1>4 DEF AddElsewhere, Hears
  <2> HIDE DEF rows, y
  <2>5. AstrayRight' /\ mishaps \subseteq mishaps'
    BY <2>4 DEF CartPageInv, AstrayRight
  <2>6. CASE /\ cartCalls[k].at = "idle"
             /\ cartCalls' = [CallsAfter(cartCalls, rows) EXCEPT ![k] = y]
    <3>1. ~Renders(cartCalls[k]) /\ \A l : ~Changing(cartCalls[k], l)
      BY <2>6 DEF Renders, Brings, Changing
    <3>2. TRUE \in BOOLEAN /\ cartCalls' = IF TRUE THEN [CallsAfter(cartCalls, rows) EXCEPT ![k] = y]
                                          ELSE CallsAfter(cartCalls, rows)
      BY <2>6
    <3> QED BY <2>1, <2>2, <2>3, <2>4, <2>5, <3>1, <3>2, CartMoves
  <2>7. CASE cartCalls' = CallsAfter(cartCalls, rows) /\ "unheard" \in mishaps'
    <3>1. FALSE \in BOOLEAN /\ cartCalls' = IF FALSE THEN [CallsAfter(cartCalls, rows) EXCEPT ![k] = y]
                                          ELSE CallsAfter(cartCalls, rows)
      BY <2>7
    <3> QED BY <2>1, <2>2, <2>4, <2>5, <2>7, <3>1, CartMoves
  <2> QED BY <2>4, <2>6, <2>7
<1>5. ASSUME NEW k \in 1..MaxCartCalls, CarryOut(k)
      PROVE  CartPageInv'
  <2> DEFINE x == cartCalls[k]
             e == x.edit
  <2>0. x \in CallRecord /\ e \in EditRecord
    BY <1>0 DEF LinesTyped, CallRecord
  <2>1. x.at = "asked" /\ x.kind = "change" /\ UNCHANGED <<shownRows, typed>>
    BY <1>5 DEF CarryOut
  <2>2. PICK rows \in LineSeq, answer \in {"none", "cart", "errors"} :
          /\ lineItems' = rows /\ edit' = Crossed(edit, rows)
          /\ cartCalls' = [CallsAfter(cartCalls, rows) EXCEPT
                ![k] = [x EXCEPT !.at = "read", !.answer = answer, !.rows = rows]]
          /\ answer = "cart" \/ rows = lineItems
    <3>1. e.line \in DOMAIN lineItems => Changed(e) \in LineSeq
      BY <1>0, <2>0, LinesStay
    <3> QED BY <1>0, <1>5, <3>1 DEF CarryOut
  <2> DEFINE y == [x EXCEPT !.at = "read", !.answer = answer, !.rows = rows]
             stray == e.line \in DOMAIN lineItems /\ lineItems[e.line].item # e.item
  <2>3. /\ y \in CallRecord /\ y.at = "read" /\ y.kind = "change" /\ y.answer = answer
        /\ y.rows = rows /\ y.edit = e
    BY <2>0, <2>1 DEF CallRecord
  <2>4. mishaps' = mishaps \cup (IF stray THEN {"astray"} ELSE {})
                           \cup (IF e.fresh THEN {} ELSE {"crossed"})
    BY <1>5 DEF CarryOut
  <2>5. stray => ~e.fresh
    <3>1. Meets(e) /\ 0 \notin DOMAIN lineItems
      BY <1>0, <2>1 DEF CartPageInv, EditsMeet, LineSeq
    <3> QED BY <3>1 DEF Meets
  <2> HIDE DEF y, stray
  <2>6. AstrayRight' /\ mishaps \subseteq mishaps'
    BY <2>4, <2>5 DEF CartPageInv, AstrayRight
  <2>7. /\ ~Renders(x) /\ \A l : Changing(x, l) => Changing(y, l)
        /\ y.at # "asked" /\ (answer = "cart" => Renders(y))
    BY <2>1, <2>3 DEF Renders, Brings, Changing
  <2>8. TRUE \in BOOLEAN /\ cartCalls' = IF TRUE THEN [CallsAfter(cartCalls, rows) EXCEPT ![k] = y]
                                         ELSE CallsAfter(cartCalls, rows)
    BY <2>2 DEF y
  <2> HIDE DEF x
  <2>9. lineItems' = rows /\ edit' = Crossed(edit, rows) /\ (rows = lineItems \/ Renders(y))
    BY <2>2, <2>7
  <2>10. ~Renders(cartCalls[k]) /\ \A l : Changing(cartCalls[k], l) => Changing(y, l)
    BY <2>7 DEF x
  <2> QED BY <2>1, <2>3, <2>6, <2>7, <2>8, <2>9, <2>10, CartMoves
<1>6. ASSUME NEW k \in 1..MaxCartCalls, ReadSection(k)
      PROVE  CartPageInv'
  <2> DEFINE x == cartCalls[k]
             y == [x EXCEPT !.at = "read", !.answer = "cart", !.rows = lineItems]
  <2>1. x \in CallRecord /\ x.at = "asked" /\ x.kind = "refetch"
        /\ UNCHANGED <<lineItems, shownRows, typed, edit, mishaps>>
    BY <1>0, <1>6 DEF ReadSection, LinesTyped
  <2>2. cartCalls' = [cartCalls EXCEPT ![k] = y]
    BY <1>0, <1>6 DEF ReadSection, LinesTyped
  <2>3. y \in CallRecord /\ y.at = "read" /\ y.kind = "refetch" /\ y.rows = lineItems
    BY <1>0, <2>1 DEF CallRecord
  <2> HIDE DEF y
  <2>4. /\ cartCalls' \in [1..MaxCartCalls -> CallRecord] /\ cartCalls'[k] = y
        /\ \A j \in 1..MaxCartCalls : j # k => cartCalls'[j] = cartCalls[j]
    BY <1>0, <2>2, <2>3 DEF LinesTyped
  <2>5. LinesTyped'
    BY <1>0, <2>1, <2>4 DEF LinesTyped
  <2>6. ReadsRight'
    BY <2>1, <2>3, <2>4 DEF CartPageInv, ReadsRight, Brings
  <2>7. LinesRight'
    BY <2>1, <2>3, <2>4 DEF CartPageInv, LinesRight, Renders, Brings
  <2>8. InputsRight'
    <3>1. \A l, j : j \in 1..MaxCartCalls /\ Changing(cartCalls[j], l) => Changing(cartCalls'[j], l)
      BY <2>1, <2>4 DEF Changing
    <3>2. CASE mishaps \cap {"unheard", "dropped"} # {}
      BY <2>1, <3>2 DEF InputsRight
    <3>3. CASE mishaps \cap {"unheard", "dropped"} = {}
      <4>1. \A l \in DOMAIN shownRows : \/ typed[l] = shownRows[l].qty \/ edit.line = l
                                        \/ \E j \in 1..MaxCartCalls : Changing(cartCalls'[j], l)
        BY <3>1, <3>3 DEF CartPageInv, InputsRight
      <4> QED BY <2>1, <4>1 DEF InputsRight, Changing
    <3> QED BY <3>2, <3>3
  <2>9. EditsMeet' /\ AstrayRight'
    BY <2>1, <2>3, <2>4 DEF CartPageInv, EditsMeet, Meets, AstrayRight
  <2> QED BY <2>5, <2>6, <2>7, <2>8, <2>9 DEF CartPageInv
<1>7. ASSUME NEW k \in 1..MaxCartCalls, ShowSection(k)
      PROVE  CartPageInv'
  <2>1. Brings(cartCalls[k]) /\ Rendered(k) /\ Finished(k) /\ lineItems' = lineItems
    BY <1>7 DEF ShowSection, Brings
  <2> QED BY <2>1, RenderingKeeps
<1>8. ASSUME NEW k \in 1..MaxCartCalls, ShowChange(k)
      PROVE  CartPageInv'
  <2>1. CASE cartCalls[k].answer = "cart"
    <3>1. Brings(cartCalls[k]) /\ Rendered(k) /\ Finished(k) /\ lineItems' = lineItems
      BY <1>8, <2>1 DEF ShowChange, Brings
    <3> QED BY <3>1, RenderingKeeps
  <2>2. CASE cartCalls[k].answer # "cart"
    <3>1. /\ ~Renders(cartCalls[k]) /\ typed' = ResetInput(cartCalls[k].edit.line)
          /\ Finished(k) /\ UNCHANGED <<lineItems, shownRows, edit, mishaps>>
      BY <1>8, <2>2 DEF ShowChange, Renders, Brings
    <3>2. AstrayRight'
      BY <3>1 DEF CartPageInv, AstrayRight
    <3> QED BY <3>1, <3>2, SilenceKeeps
  <2> QED BY <2>1, <2>2
<1>9. ASSUME NEW k \in 1..MaxCartCalls, CartCallFails(k)
      PROVE  CartPageInv'
  <2>1. /\ mishaps' = mishaps \cup {"unheard"} /\ Finished(k)
        /\ UNCHANGED <<lineItems, shownRows, typed, edit>>
    BY <1>9 DEF CartCallFails
  <2>2. AstrayRight'
    BY <2>1 DEF CartPageInv, AstrayRight
  <2> QED BY <2>1, <2>2, SilenceKeeps
<1>10. ASSUME NEW qty \in 0..LineMax + 1, TypeOn(qty)
       PROVE  CartPageInv'
  <2> DEFINE l == edit.line
  <2>0. LineMax \in Nat /\ qty \in Nat
    BY CartAssumption
  <2>1. l \in DOMAIN shownRows /\ typed' = [typed EXCEPT ![l] = qty]
        /\ UNCHANGED <<lineItems, shownRows, edit, cartCalls, mishaps>>
    BY <1>0, <1>10 DEF TypeOn, LinesTyped
  <2>2. LinesTyped'
    BY <1>0, <2>0, <2>1 DEF LinesTyped
  <2>3. /\ ReadsRight' /\ LinesRight' /\ AstrayRight' /\ EditsMeet'
    BY <2>1 DEF CartPageInv, ReadsRight, LinesRight, Renders, Brings, AstrayRight, EditsMeet, Meets
  <2>4. InputsRight'
    <3>1. ASSUME mishaps \cap {"unheard", "dropped"} = {}, NEW m \in DOMAIN shownRows
          PROVE  typed'[m] = shownRows[m].qty \/ l = m
                 \/ \E j \in 1..MaxCartCalls : Changing(cartCalls[j], m)
      BY <1>0, <2>1, <3>1 DEF CartPageInv, LinesTyped, InputsRight
    <3> QED BY <2>1, <3>1 DEF InputsRight, Changing
  <2> QED BY <2>2, <2>3, <2>4 DEF CartPageInv
<1>11. CASE UNCHANGED cartPageVars
  BY <1>11 DEF CartPageInv, cartPageVars, LinesTyped, ReadsRight, LinesRight, InputsRight, EditsMeet,
               AstrayRight, Meets, Changing, Renders, Brings
<1> QED BY <1>1, <1>2, <1>3, <1>4, <1>5, <1>6, <1>7, <1>8, <1>9, <1>10, <1>11 DEF CartPageNext

LEMMA CartPageInvInit == CartPageInit => CartPageInv
<1> SUFFICES ASSUME CartPageInit PROVE CartPageInv
  OBVIOUS
<1> DEFINE S == [item : CartGoods, qty : {q \in 1..LineStock : Valid(q)}]
           R == [item : CartGoods, qty : Nat]
<1>1. lineItems \in LineSeq
  <2>1. lineItems \in SeqOf(S, Cardinality(CartGoods))
    BY DEF CartPageInit
  <2>2. PICK n \in 0..Cardinality(CartGoods) : lineItems \in [1..n -> S]
    BY <2>1 DEF SeqOf
  <2>3. S \subseteq R
    BY CartAssumption
  <2> HIDE DEF S, R
  <2>4. lineItems \in [1..n -> R] /\ n \in Nat
    BY <2>2, <2>3
  <2>5. lineItems \in Seq(R)
    BY <2>4, SeqDef
  <2> QED BY <2>5 DEF LineSeq, R
<1>2. /\ shownRows = lineItems /\ typed = Quantities(lineItems) /\ edit = NoEdit /\ mishaps = {}
      /\ cartCalls = [k \in 1..MaxCartCalls |-> NoCall]
  BY DEF CartPageInit
<1>3. /\ typed \in [DOMAIN lineItems -> Nat]
      /\ \A l \in DOMAIN lineItems : typed[l] = lineItems[l].qty
  BY <1>1, <1>2, RowsTyped
<1>4. LinesTyped
  BY <1>1, <1>2, <1>3, NothingIsTyped DEF LinesTyped
<1>5. ReadsRight /\ LinesRight
  BY <1>2, NothingIsTyped DEF ReadsRight, Brings, LinesRight
<1>6. InputsRight
  BY <1>2, <1>3 DEF InputsRight
<1>7. EditsMeet /\ AstrayRight
  BY <1>2, NothingIsTyped DEF EditsMeet, AstrayRight
<1> QED BY <1>4, <1>5, <1>6, <1>7 DEF CartPageInv

\* At rest the page shows the cart and its inputs the quantities in it, and a change
\* meets the item whose line the customer changed (cart.js: updateQuantity,
\* onCartUpdate, validateQuantity), up to what mishaps names.
THEOREM PageIsTheCart == CartPageSpec => []PageShowsCart
<1>1. ASSUME CartPageInv PROVE PageShowsCart
  <2>1. ASSUME edit = NoEdit, \A k \in DOMAIN cartCalls : cartCalls[k].at = "idle"
        PROVE  /\ shownRows = lineItems \/ mishaps \cap {"overtaken", "unheard"} # {}
               /\ typed = Quantities(shownRows) \/ mishaps \cap {"unheard", "dropped"} # {}
    <3>1. \A k \in 1..MaxCartCalls : ~Renders(cartCalls[k]) /\ \A l : ~Changing(cartCalls[k], l)
      BY <1>1, <2>1 DEF CartPageInv, LinesTyped, Renders, Brings, Changing
    <3>2. shownRows = lineItems \/ mishaps \cap {"overtaken", "unheard"} # {}
      BY <1>1, <3>1 DEF CartPageInv, LinesRight
    <3>3. CASE mishaps \cap {"unheard", "dropped"} = {}
      <4>1. /\ shownRows \in LineSeq /\ typed \in [DOMAIN shownRows -> Nat]
            /\ 0 \notin DOMAIN shownRows
        BY <1>1 DEF CartPageInv, LinesTyped, LineSeq
      <4>2. \A l \in DOMAIN shownRows : typed[l] = shownRows[l].qty
        BY <1>1, <2>1, <3>1, <3>3, <4>1, NothingIsTyped DEF CartPageInv, InputsRight
      <4>3. typed = Quantities(shownRows)
        BY <4>1, <4>2 DEF Quantities
      <4> QED BY <3>2, <4>3
    <3> QED BY <3>2, <3>3
  <2> QED BY <1>1, <2>1 DEF PageShowsCart, CartPageInv, AstrayRight
<1> QED BY <1>1, CartPageInvInit, CartPageInvStep, PTL DEF CartPageSpec

-----------------------------------------------------------------------------
(* BulkOrder: where the last quantity asked for is, and what a row that is *)
(* not the cart waits for.                                                 *)

SomeItems == UNION {[D -> Nat] : D \in SUBSET BulkVariants}
AnswerRecord == [at : {"idle", "sent", "answered", "refused"}, items : SomeItems,
                 cart : {<<>>} \cup [BulkVariants -> Nat], old : BOOLEAN]
QueueEntry == [v : BulkVariants, qty : Nat]

BulkTypes ==
  /\ bulkKind \in {"list", "card"} /\ bulkCart \in [BulkVariants -> Nat]
  /\ inputs \in [BulkVariants -> [value : Nat, attr : Nat, inCart : BOOLEAN]]
  /\ waits \in [BulkVariants -> [qty : Nat, on : BOOLEAN, live : BOOLEAN]]
  /\ queue \in Seq(QueueEntry)
  /\ posts \in [1..MaxPosts -> AnswerRecord] /\ refresh \in AnswerRecord
  /\ asked \in [BulkVariants -> Nat]

Queued(v) == \E i \in DOMAIN queue : queue[i].v = v
LastAt(i, v) == queue[i].v = v /\ \A j \in DOMAIN queue : queue[j].v = v => j <= i
Cut(qty) == IF qty < BulkStock THEN qty ELSE BulkStock

\* What was asked for last is the last in the queue, or in a request, or in the cart.
LastWins(v) ==
  /\ Queued(v) => \E i \in DOMAIN queue : LastAt(i, v) /\ queue[i].qty = asked[v]
  /\ ~Queued(v) => \A k \in 1..MaxPosts :
       posts[k].at = "sent" /\ v \in DOMAIN posts[k].items => posts[k].items[v] = asked[v]
  /\ ~Queued(v) /\ (\A k \in 1..MaxPosts : posts[k].at \in {"sent", "refused"} => v \notin DOMAIN posts[k].items)
       => bulkCart[v] = Cut(asked[v])
OrderRight == \A v \in BulkVariants \ excused : LastWins(v)

\* Only what goes past the queue can overlap.
QueueGates ==
  "bypassed" \notin slips =>
    /\ "overlap" \notin slips
    /\ \A k \in 1..MaxPosts : posts[k].at # "idle" =>
         requestStarted /\ \A j \in 1..MaxPosts : posts[j].at # "idle" => j = k

\* A cart in an answer is the cart, or old.
Current(r) == r.at = "answered" => r.cart \in [BulkVariants -> Nat] /\ (r.old \/ r.cart = bulkCart)
AnswersRight == Current(refresh) /\ \A k \in 1..MaxPosts : Current(posts[k])

\* hasPendingQuantityUpdate stands for something to come.
PendingRight ==
  hasPendingQuantityUpdate =>
    /\ bulkKind = "list"
    /\ (\E u \in BulkVariants : waits[u].on) \/ queue # <<>> \/ "invalid" \in slips

\* A row that shows another quantity has a reason, or waits.
NetPending == queue # <<>> \/ refresh.at # "idle" \/ \E k \in 1..MaxPosts : posts[k].at # "idle"
Reason ==
  \/ NetPending \/ slips \cap {"overtaken", "lost", "unheard"} # {}
  \/ "skipped" \in slips /\ ("invalid" \in slips \/ \E u \in BulkVariants : waits[u].on)
RowsRight ==
  \A v \in BulkVariants :
    /\ inputs[v].attr = bulkCart[v] \/ Reason
    /\ inputs[v].value = bulkCart[v] \/ waits[v].on \/ Reason

BulkInv ==
  BulkTypes /\ OrderRight /\ QueueGates /\ AnswersRight /\ PendingRight /\ RowsRight

LEMMA NoAnswerTyped ==
  NoAnswer \in AnswerRecord /\ NoAnswer.at = "idle" /\ DOMAIN NoAnswer.items = {} /\ NoAnswer.old = FALSE
<1>1. DOMAIN <<>> = {} /\ <<>> \in [{} -> Nat]
  OBVIOUS
<1>2. <<>> \in SomeItems
  BY <1>1 DEF SomeItems
<1> QED BY <1>1, <1>2 DEF NoAnswer, AnswerRecord

LEMMA ItemsTyped ==
  /\ \A f \in SomeItems : DOMAIN f \subseteq BulkVariants /\ \A v \in DOMAIN f : f[v] \in Nat
  /\ \A D \in SUBSET BulkVariants : [D -> Nat] \subseteq SomeItems
BY DEF SomeItems

LEMMA CutTyped == \A q \in Nat : Cut(q) \in Nat /\ (q <= BulkStock => Cut(q) = q)
BY BulkAssumption DEF Cut

\* One request moves; the others stay.
LEMMA PostMoves ==
  ASSUME BulkTypes, NEW k \in 1..MaxPosts, NEW y \in AnswerRecord, posts' = [posts EXCEPT ![k] = y]
  PROVE  /\ posts' \in [1..MaxPosts -> AnswerRecord] /\ posts'[k] = y
         /\ \A j \in 1..MaxPosts : j # k => posts'[j] = posts[j]
BY DEF BulkTypes

LEMMA PostSends ==
  ASSUME BulkTypes, NEW k \in 1..MaxPosts, NEW items \in SomeItems, NEW passed, Post(k, items, passed)
  PROVE  /\ posts[k].at = "idle"
         /\ posts' \in [1..MaxPosts -> AnswerRecord]
         /\ posts'[k].at = "sent" /\ posts'[k].items = items
         /\ \A j \in 1..MaxPosts : j # k => posts'[j] = posts[j]
<1> DEFINE y == [NoAnswer EXCEPT !.at = "sent", !.items = items]
<1>1. y \in AnswerRecord /\ y.at = "sent" /\ y.items = items
  BY NoAnswerTyped DEF AnswerRecord
<1>2. posts[k].at = "idle" /\ posts' = [posts EXCEPT ![k] = y]
  BY DEF Post
<1> HIDE DEF y
<1> QED BY <1>1, <1>2, PostMoves

LEMMA AgedTyped ==
  ASSUME NEW r \in AnswerRecord, NEW c
  PROVE  /\ Aged(r, c) \in AnswerRecord /\ Aged(r, c).at = r.at /\ Aged(r, c).items = r.items
         /\ Aged(r, c).cart = r.cart
         /\ ~Aged(r, c).old => ~r.old /\ (r.at = "answered" => c = bulkCart)
<1> DEFINE b == r.old \/ (r.at = "answered" /\ c # bulkCart)
           y == [r EXCEPT !.old = b]
<1>1. b \in BOOLEAN /\ (~b => ~r.old /\ (r.at = "answered" => c = bulkCart))
  BY DEF AnswerRecord
<1>2. Aged(r, c) = y
  BY DEF Aged
<1> HIDE DEF b
<1>3. y \in AnswerRecord /\ y.at = r.at /\ y.items = r.items /\ y.cart = r.cart /\ (y.old <=> b)
  BY <1>1 DEF AnswerRecord
<1> HIDE DEF y
<1> QED BY <1>1, <1>2, <1>3

\* The last entry of each variant counts.
LEMMA MergedRight ==
  ASSUME BulkTypes
  PROVE  /\ Merged \in SomeItems
         /\ \A v : v \in DOMAIN Merged <=> Queued(v)
         /\ \A v, i : i \in DOMAIN queue /\ LastAt(i, v) => Merged[v] = queue[i].qty
<1> DEFINE n == Len(queue)
           Q == {queue[i].v : i \in DOMAIN queue}
<1>1. /\ n \in Nat /\ DOMAIN queue = 1..n
      /\ \A i \in 1..n : queue[i].v \in BulkVariants /\ queue[i].qty \in Nat
  <2>1. queue \in Seq(QueueEntry) /\ n \in Nat /\ DOMAIN queue = 1..n
    BY DEF BulkTypes
  <2>2. \A i \in 1..n : queue[i] \in QueueEntry
    BY <2>1
  <2> QED BY <2>1, <2>2 DEF QueueEntry
<1> HIDE DEF n
<1>2. ASSUME NEW v, NEW i \in DOMAIN queue, LastAt(i, v), NEW j \in DOMAIN queue, LastAt(j, v)
      PROVE  i = j
  <2>1. i \in Nat /\ j \in Nat /\ i <= j /\ j <= i
    BY <1>1, <1>2 DEF LastAt
  <2> QED BY <2>1
<1>3. ASSUME NEW v \in Q PROVE \E i \in DOMAIN queue : LastAt(i, v)
  <2> DEFINE S == {i \in DOMAIN queue : queue[i].v = v}
  <2>1. S \subseteq 0..n /\ S # {}
    BY <1>1, <1>3
  <2>2. Max(S) \in S /\ \A y \in S : y <= Max(S)
    BY <1>1, <2>1, MaxIsGreatest
  <2> QED BY <2>2 DEF LastAt
<1> DEFINE last(v) == CHOOSE i \in DOMAIN queue : LastAt(i, v)
<1>4. Merged = [v \in Q |-> queue[last(v)].qty]
  BY DEF Merged, LastAt
<1>5. \A v \in Q : last(v) \in DOMAIN queue /\ LastAt(last(v), v)
  BY <1>3
<1> HIDE DEF last
<1>6. \A v \in Q : Merged[v] \in Nat
  BY <1>1, <1>4, <1>5
<1>7. Merged \in SomeItems
  <2>1. Q \in SUBSET BulkVariants
    BY <1>1
  <2> HIDE DEF Q
  <2>2. Merged \in [Q -> Nat]
    BY <1>4, <1>6
  <2> QED BY <2>1, <2>2, ItemsTyped
<1>8. \A v : v \in DOMAIN Merged <=> Queued(v)
  BY <1>4 DEF Queued
<1>9. ASSUME NEW v, NEW i \in DOMAIN queue, LastAt(i, v)
      PROVE  Merged[v] = queue[i].qty
  <2>1. v \in Q
    BY <1>9 DEF LastAt
  <2>2. last(v) = i
    BY <1>2, <1>5, <1>9, <2>1
  <2> QED BY <1>4, <2>1, <2>2
<1> QED BY <1>7, <1>8, <1>9

LEMMA UpdatedTyped ==
  ASSUME BulkTypes, NEW items \in SomeItems
  PROVE  /\ Updated(items) \in [BulkVariants -> Nat]
         /\ \A v \in BulkVariants : Updated(items)[v] =
              IF v \in DOMAIN items THEN Cut(items[v]) ELSE bulkCart[v]
<1>1. \A v \in DOMAIN items : items[v] \in Nat
  BY ItemsTyped
<1> QED BY <1>1, BulkAssumption DEF Updated, Cut, BulkTypes

\* What a rendering of r does to the rows.
LEMMA RenderTyped ==
  ASSUME BulkTypes, NEW r, r.cart \in [BulkVariants -> Nat], Render(r)
  PROVE  /\ inputs' \in [BulkVariants -> [value : Nat, attr : Nat, inCart : BOOLEAN]]
         /\ waits' \in [BulkVariants -> [qty : Nat, on : BOOLEAN, live : BOOLEAN]]
         /\ \A v \in BulkVariants : /\ inputs'[v].value = r.cart[v] /\ inputs'[v].attr = r.cart[v]
                                    /\ waits'[v].on = waits[v].on
         /\ r.old => "overtaken" \in slips'
         /\ "invalid" \in slips => "invalid" \in slips'
         /\ "bypassed" \in slips <=> "bypassed" \in slips'
         /\ "overlap" \in slips <=> "overlap" \in slips'
<1>1. \A q \in Nat : RowOf(q) \in [value : Nat, attr : Nat, inCart : BOOLEAN]
                     /\ RowOf(q).value = q /\ RowOf(q).attr = q
  BY DEF RowOf
<1>2. \A v \in BulkVariants : inputs'[v] = RowOf(r.cart[v])
  BY DEF Render
<1>3. \A v \in BulkVariants : /\ [waits[v] EXCEPT !.live = FALSE] \in [qty : Nat, on : BOOLEAN, live : BOOLEAN]
                              /\ [waits[v] EXCEPT !.live = FALSE].on = waits[v].on
  BY DEF BulkTypes
<1>4. /\ inputs' \in [BulkVariants -> [value : Nat, attr : Nat, inCart : BOOLEAN]]
      /\ waits' \in [BulkVariants -> [qty : Nat, on : BOOLEAN, live : BOOLEAN]]
  BY <1>1, <1>3 DEF Render
<1>5. \A v \in BulkVariants : waits'[v].on = waits[v].on
  BY <1>3 DEF Render
<1>6. /\ r.old => "overtaken" \in slips'
      /\ "invalid" \in slips => "invalid" \in slips'
      /\ "bypassed" \in slips <=> "bypassed" \in slips'
      /\ "overlap" \in slips <=> "overlap" \in slips'
  BY DEF Render
<1> QED BY <1>1, <1>2, <1>4, <1>5, <1>6

LEMMA EntryTyped ==
  ASSUME BulkTypes, NEW v \in BulkVariants, NEW qty \in Nat, Enqueue(v, qty)
  PROVE  queue' \in Seq(QueueEntry) /\ asked' \in [BulkVariants -> Nat] /\ queue' # <<>>
<1>1. [v |-> v, qty |-> qty] \in QueueEntry
  BY DEF QueueEntry
<1>2. queue' = Append(queue, [v |-> v, qty |-> qty]) /\ queue \in Seq(QueueEntry)
  BY DEF Enqueue, BulkTypes
<1>3. asked' = [asked EXCEPT ![v] = qty] /\ asked \in [BulkVariants -> Nat]
  BY DEF Enqueue, BulkTypes
<1> HIDE DEF QueueEntry
<1> QED BY <1>1, <1>2, <1>3

LEMMA RowsAreVariants == BulkRows \subseteq BulkVariants
BY BulkAssumption DEF BulkRows, CardVariant

\* Shopify's answer to a request.
LEMMA FulfilTyped ==
  ASSUME BulkTypes, NEW k \in 1..MaxPosts, Fulfil(k)
  PROVE  /\ posts' \in [1..MaxPosts -> AnswerRecord] /\ refresh' \in AnswerRecord
         /\ bulkCart' \in [BulkVariants -> Nat]
         /\ posts[k].at = "sent" /\ posts'[k].at \in {"answered", "refused"}
         /\ \A j \in 1..MaxPosts : posts'[j].items = posts[j].items
         /\ \A j \in 1..MaxPosts : j # k => posts'[j].at = posts[j].at /\ posts'[j].cart = posts[j].cart
         /\ refresh'.at = refresh.at /\ refresh'.cart = refresh.cart
         /\ \A j \in 1..MaxPosts : j # k /\ ~posts'[j].old =>
              ~posts[j].old /\ (posts[j].at = "answered" => bulkCart' = bulkCart)
         /\ ~refresh'.old => ~refresh.old /\ (refresh.at = "answered" => bulkCart' = bulkCart)
         /\ posts'[k].at = "answered" =>
              bulkCart' = Updated(posts[k].items) /\ posts'[k].cart = bulkCart'
         /\ posts'[k].at = "refused" => bulkCart' = bulkCart
<1> DEFINE c == Updated(posts[k].items)
           x == posts[k]
<1>1. x \in AnswerRecord /\ refresh \in AnswerRecord
  BY DEF BulkTypes
<1>2. c \in [BulkVariants -> Nat]
  BY <1>1, UpdatedTyped DEF AnswerRecord
<1>3. x.at = "sent"
  BY DEF Fulfil
<1>4. CASE /\ BulkCartBecomes(c)
           /\ posts' = [j \in 1..MaxPosts |->
                IF j = k THEN [x EXCEPT !.at = "answered", !.cart = c] ELSE Aged(posts[j], c)]
  <2> DEFINE y == [x EXCEPT !.at = "answered", !.cart = c]
  <2>1. bulkCart' = c /\ refresh' = Aged(refresh, c)
    BY <1>4 DEF BulkCartBecomes
  <2>2. y \in AnswerRecord /\ y.at = "answered" /\ y.cart = c /\ y.items = x.items
    BY <1>1, <1>2 DEF AnswerRecord
  <2>3. posts'[k] = y /\ DOMAIN posts' = 1..MaxPosts
        /\ \A j \in 1..MaxPosts : j # k => posts'[j] = Aged(posts[j], c)
    BY <1>4
  <2> HIDE DEF y, c
  <2>4. ASSUME NEW j \in 1..MaxPosts, j # k
        PROVE  /\ posts'[j] \in AnswerRecord /\ posts'[j].at = posts[j].at /\ posts'[j].items = posts[j].items
               /\ posts'[j].cart = posts[j].cart
               /\ ~posts'[j].old => ~posts[j].old /\ (posts[j].at = "answered" => c = bulkCart)
    <3>1. posts[j] \in AnswerRecord /\ posts'[j] = Aged(posts[j], c)
      BY <2>3, <2>4 DEF BulkTypes
    <3> QED BY <3>1, AgedTyped
  <2>5. /\ refresh' \in AnswerRecord /\ refresh'.at = refresh.at /\ refresh'.cart = refresh.cart
        /\ ~refresh'.old => ~refresh.old /\ (refresh.at = "answered" => c = bulkCart)
    BY <1>1, <2>1, AgedTyped
  <2>6. posts' \in [1..MaxPosts -> AnswerRecord]
    <3>1. \A j \in 1..MaxPosts : posts'[j] \in AnswerRecord
      BY <2>2, <2>3, <2>4
    <3>2. posts' = [j \in 1..MaxPosts |-> posts'[j]]
      BY <1>4
    <3> QED BY <3>1, <3>2
  <2> QED BY <1>2, <1>3, <2>1, <2>2, <2>3, <2>4, <2>5, <2>6 DEF c
<1>5. CASE posts' = [posts EXCEPT ![k].at = "refused"] /\ UNCHANGED <<bulkCart, refresh>>
  <2> DEFINE y == [x EXCEPT !.at = "refused"]
  <2>1. y \in AnswerRecord /\ y.at = "refused" /\ y.items = x.items
    BY <1>1 DEF AnswerRecord
  <2>2. posts' = [posts EXCEPT ![k] = y]
    BY <1>5 DEF BulkTypes
  <2> HIDE DEF y
  <2>3. /\ posts' \in [1..MaxPosts -> AnswerRecord] /\ posts'[k] = y
        /\ \A j \in 1..MaxPosts : j # k => posts'[j] = posts[j]
    BY <2>1, <2>2, PostMoves
  <2> QED BY <1>1, <1>3, <1>5, <2>1, <2>3 DEF BulkTypes
<1> QED BY <1>4, <1>5 DEF Fulfil

LEMMA ChangeTyped ==
  ASSUME BulkTypes, NEW v \in BulkVariants, NEW qty \in 0..BulkStock, ChangeElsewhere(v, qty)
  PROVE  /\ bulkCart' = [bulkCart EXCEPT ![v] = qty] /\ bulkCart' \in [BulkVariants -> Nat]
         /\ asked' = [asked EXCEPT ![v] = qty] /\ asked' \in [BulkVariants -> Nat]
         /\ posts' \in [1..MaxPosts -> AnswerRecord] /\ refresh' \in AnswerRecord
         /\ \A j \in 1..MaxPosts :
              /\ posts'[j].at = posts[j].at /\ posts'[j].items = posts[j].items
              /\ posts'[j].cart = posts[j].cart
              /\ ~posts'[j].old => ~posts[j].old /\ (posts[j].at = "answered" => bulkCart' = bulkCart)
         /\ \/ refresh'.at = "sent" /\ slips' = slips
            \/ /\ refresh'.at = refresh.at /\ refresh'.cart = refresh.cart
               /\ ~refresh'.old => ~refresh.old /\ (refresh.at = "answered" => bulkCart' = bulkCart)
               /\ slips' = slips \cup {"unheard"}
<1> DEFINE c == [bulkCart EXCEPT ![v] = qty]
<1>1. /\ bulkCart' = c /\ posts' = [k \in 1..MaxPosts |-> Aged(posts[k], c)]
      /\ \/ refresh' = [NoAnswer EXCEPT !.at = "sent"] /\ slips' = slips
         \/ refresh' = Aged(refresh, c) /\ slips' = slips \cup {"unheard"}
      /\ asked' = [asked EXCEPT ![v] = qty]
  BY DEF ChangeElsewhere
<1>2. c \in [BulkVariants -> Nat] /\ asked' \in [BulkVariants -> Nat]
  BY <1>1, BulkAssumption DEF BulkTypes
<1>3. ASSUME NEW j \in 1..MaxPosts
      PROVE  /\ posts'[j] \in AnswerRecord /\ posts'[j].at = posts[j].at /\ posts'[j].items = posts[j].items
             /\ posts'[j].cart = posts[j].cart
             /\ ~posts'[j].old => ~posts[j].old /\ (posts[j].at = "answered" => c = bulkCart)
  <2>1. posts[j] \in AnswerRecord /\ posts'[j] = Aged(posts[j], c)
    BY <1>1 DEF BulkTypes
  <2> HIDE DEF c
  <2> QED BY <2>1, AgedTyped
<1>4. posts' \in [1..MaxPosts -> AnswerRecord]
  BY <1>1, <1>3
<1>5. CASE refresh' = [NoAnswer EXCEPT !.at = "sent"] /\ slips' = slips
  <2>1. refresh' \in AnswerRecord /\ refresh'.at = "sent"
    BY <1>5, NoAnswerTyped DEF AnswerRecord
  <2> QED BY <1>1, <1>2, <1>3, <1>4, <1>5, <2>1
<1>6. CASE refresh' = Aged(refresh, c) /\ slips' = slips \cup {"unheard"}
  <2>1. refresh \in AnswerRecord
    BY DEF BulkTypes
  <2> HIDE DEF c
  <2>2. /\ refresh' \in AnswerRecord /\ refresh'.at = refresh.at /\ refresh'.cart = refresh.cart
        /\ ~refresh'.old => ~refresh.old /\ (refresh.at = "answered" => c = bulkCart)
    BY <1>6, <2>1, AgedTyped
  <2> QED BY <1>1, <1>2, <1>3, <1>4, <1>6, <2>2 DEF c
<1> QED BY <1>1, <1>5, <1>6

\* What is rendered is the cart, or old.
LEMMA RenderedRows ==
  ASSUME BulkTypes, NEW r, r.at = "answered", Current(r), Render(r), bulkCart' = bulkCart
  PROVE  /\ inputs' \in [BulkVariants -> [value : Nat, attr : Nat, inCart : BOOLEAN]]
         /\ waits' \in [BulkVariants -> [qty : Nat, on : BOOLEAN, live : BOOLEAN]]
         /\ \A v \in BulkVariants : waits'[v].on = waits[v].on
         /\ "invalid" \in slips => "invalid" \in slips'
         /\ "bypassed" \in slips <=> "bypassed" \in slips'
         /\ "overlap" \in slips <=> "overlap" \in slips'
         /\ RowsRight'
<1>1. r.cart \in [BulkVariants -> Nat] /\ (r.old \/ r.cart = bulkCart)
  BY DEF Current
<1>2. /\ inputs' \in [BulkVariants -> [value : Nat, attr : Nat, inCart : BOOLEAN]]
      /\ waits' \in [BulkVariants -> [qty : Nat, on : BOOLEAN, live : BOOLEAN]]
      /\ \A v \in BulkVariants : /\ inputs'[v].value = r.cart[v] /\ inputs'[v].attr = r.cart[v]
                                 /\ waits'[v].on = waits[v].on
      /\ r.old => "overtaken" \in slips'
      /\ "invalid" \in slips => "invalid" \in slips'
      /\ "bypassed" \in slips <=> "bypassed" \in slips'
      /\ "overlap" \in slips <=> "overlap" \in slips'
  BY <1>1, RenderTyped
<1>3. RowsRight'
  <2>1. CASE r.old
    BY <1>2, <2>1 DEF RowsRight, Reason
  <2>2. CASE r.cart = bulkCart
    BY <1>2, <2>2 DEF RowsRight
  <2> QED BY <1>1, <2>1, <2>2
<1> QED BY <1>2, <1>3

LEMMA PendingIsReason ==
  /\ NetPending' => RowsRight'
  /\ slips' \cap {"lost", "unheard"} # {} => RowsRight'
BY DEF RowsRight, Reason

\* What a customer's change and the interval leave alone.
LEMMA AnswersStay ==
  ASSUME BulkInv, bulkCart' = bulkCart,
         NEW k \in 1..MaxPosts, \A j \in 1..MaxPosts : j # k => posts'[j] = posts[j],
         posts'[k] = posts[k] \/ posts'[k].at # "answered",
         refresh' = refresh \/ refresh'.at # "answered"
  PROVE  AnswersRight'
BY DEF BulkInv, AnswersRight, Current

LEMMA OrderStays ==
  ASSUME BulkInv, UNCHANGED <<bulkCart, queue, posts, asked, excused>>
  PROVE  OrderRight'
BY DEF BulkInv, OrderRight, LastWins, Queued, LastAt

LEMMA GatesStay ==
  ASSUME BulkInv, UNCHANGED <<posts, requestStarted>>,
         "bypassed" \notin slips' => "bypassed" \notin slips,
         "overlap" \in slips' => "overlap" \in slips
  PROVE  QueueGates'
BY DEF BulkInv, QueueGates

\* A quantity goes into the queue.
LEMMA EntersQueue ==
  ASSUME BulkInv, NEW v \in BulkVariants, NEW qty \in Nat, Enqueue(v, qty),
         UNCHANGED <<bulkCart, posts, excused>>
  PROVE  OrderRight'
<1> DEFINE e == [v |-> v, qty |-> qty]
<1>0. PICK n \in Nat : n = Len(queue)
  BY DEF BulkInv, BulkTypes
<1>1. queue \in Seq(QueueEntry) /\ e \in QueueEntry /\ asked \in [BulkVariants -> Nat]
  BY DEF BulkInv, BulkTypes, QueueEntry
<1>2. queue' = Append(queue, e) /\ asked' = [asked EXCEPT ![v] = qty]
  BY DEF Enqueue
<1>3. /\ n \in Nat /\ DOMAIN queue = 1..n /\ DOMAIN queue' = 1..(n + 1)
      /\ queue'[n + 1] = e /\ \A i \in 1..n : queue'[i] = queue[i]
  <2> HIDE DEF e, QueueEntry
  <2> QED BY <1>0, <1>1, <1>2
<1>4. e.v = v /\ e.qty = qty /\ asked'[v] = qty /\ \A u \in BulkVariants : u # v => asked'[u] = asked[u]
  BY <1>1, <1>2
<1> HIDE DEF e
<1>5. ASSUME NEW u \in BulkVariants \ excused
      PROVE  LastWins(u)'
  <2>1. CASE u = v
    <3>1. n + 1 \in DOMAIN queue' /\ LastAt(n + 1, u)' /\ queue'[n + 1].qty = asked'[u]
      BY <1>3, <1>4, <2>1 DEF LastAt
    <3> QED BY <1>3, <1>4, <2>1, <3>1 DEF LastWins, Queued
  <2>2. CASE u # v
    <3>0. LastWins(u)
      BY <1>5 DEF BulkInv, OrderRight
    <3>1. Queued(u)' <=> Queued(u)
      BY <1>3, <1>4, <2>2 DEF Queued
    <3>2. \A i \in DOMAIN queue : LastAt(i, u) => i \in DOMAIN queue' /\ LastAt(i, u)' /\ queue'[i] = queue[i]
      BY <1>3, <1>4, <2>2 DEF LastAt
    <3>3. asked'[u] = asked[u]
      BY <1>4, <2>2
    <3>4. Queued(u)' => \E i \in DOMAIN queue' : LastAt(i, u)' /\ queue'[i].qty = asked'[u]
      BY <3>0, <3>1, <3>2, <3>3 DEF LastWins
    <3> QED BY <3>0, <3>1, <3>3, <3>4 DEF LastWins, LastAt
  <2> QED BY <2>1, <2>2
<1> QED BY <1>5 DEF OrderRight

\* The queue is sent, or everything that is listed removed past it.
LEMMA SendingKeepsOrder ==
  ASSUME BulkInv, NEW k \in 1..MaxPosts, SendQueue(k)
  PROVE  OrderRight'
<1>1. BulkTypes /\ Merged \in SomeItems
  BY MergedRight DEF BulkInv
<1>2. /\ posts[k].at = "idle" /\ posts'[k].at = "sent" /\ posts'[k].items = Merged
      /\ \A j \in 1..MaxPosts : j # k => posts'[j] = posts[j]
  BY <1>1, PostSends DEF SendQueue
<1>3. /\ queue' = <<>> /\ bulkCart' = bulkCart /\ asked' = asked
      /\ excused \subseteq excused'
      /\ UnderWay # {} => /\ DOMAIN Merged \subseteq excused'
                          /\ \A j \in UnderWay : DOMAIN posts[j].items \subseteq excused'
  BY DEF SendQueue, Post
<1>4. ASSUME NEW u \in BulkVariants \ excused'
      PROVE  LastWins(u)'
  <2>0. LastWins(u) /\ ~Queued(u)'
    BY <1>3, <1>4 DEF BulkInv, OrderRight, Queued
  <2>1. CASE Queued(u)
    <3>1. u \in DOMAIN Merged /\ Merged[u] = asked[u]
      BY <1>1, <2>0, <2>1, MergedRight DEF LastWins
    <3>2. UnderWay = {}
      BY <1>3, <1>4, <3>1
    <3>3. \A j \in 1..MaxPosts : posts[j].at # "sent"
      BY <3>2 DEF UnderWay
    <3> QED BY <1>2, <1>3, <2>0, <3>1, <3>3 DEF LastWins
  <2>2. CASE ~Queued(u)
    <3>1. u \notin DOMAIN Merged
      BY <1>1, <2>2, MergedRight
    <3> QED BY <1>2, <1>3, <2>0, <2>2, <3>1 DEF LastWins
  <2> QED BY <2>1, <2>2
<1> QED BY <1>4 DEF OrderRight

LEMMA RemovingKeepsOrder ==
  ASSUME BulkInv, NEW k \in 1..MaxPosts, RemoveAll(k)
  PROVE  OrderRight'
<1> DEFINE listed == {v \in BulkVariants : inputs[v].inCart}
           items == [v \in listed |-> 0]
           passed == {queue[i].v : i \in DOMAIN queue}
<1>1. BulkTypes /\ items \in SomeItems
  <2>1. items \in [listed -> Nat]
    OBVIOUS
  <2> QED BY <2>1, ItemsTyped DEF BulkInv
<1>2. /\ Post(k, items, passed) /\ queue' = queue /\ bulkCart' = bulkCart
      /\ asked' = [v \in BulkVariants |-> IF v \in listed THEN 0 ELSE asked[v]]
  BY DEF RemoveAll
<1>3. DOMAIN items = listed /\ \A v \in listed : items[v] = 0
  OBVIOUS
<1>4. \A v : Queued(v) => v \in passed
  BY DEF Queued
<1> HIDE DEF items, passed
<1>5. /\ posts[k].at = "idle" /\ posts'[k].at = "sent" /\ posts'[k].items = items
      /\ \A j \in 1..MaxPosts : j # k => posts'[j] = posts[j]
  BY <1>1, <1>2, PostSends
<1>6. /\ excused \subseteq excused' /\ passed \subseteq excused'
      /\ UnderWay # {} => /\ DOMAIN items \subseteq excused'
                          /\ \A j \in UnderWay : DOMAIN posts[j].items \subseteq excused'
  BY <1>2 DEF Post
<1>7. ASSUME NEW u \in BulkVariants \ excused'
      PROVE  LastWins(u)'
  <2>0. LastWins(u) /\ ~Queued(u) /\ (Queued(u)' <=> Queued(u))
    BY <1>2, <1>4, <1>6, <1>7 DEF BulkInv, OrderRight, Queued
  <2>1. CASE u \in listed
    <3>1. UnderWay = {} /\ asked'[u] = 0
      BY <1>2, <1>3, <1>6, <1>7, <2>1
    <3>2. \A j \in 1..MaxPosts : posts[j].at # "sent"
      BY <3>1 DEF UnderWay
    <3> QED BY <1>3, <1>5, <2>0, <2>1, <3>1, <3>2 DEF LastWins
  <2>2. CASE u \notin listed
    <3>1. asked'[u] = asked[u] /\ u \notin DOMAIN items
      BY <1>2, <1>3, <2>2
    <3> QED BY <1>2, <1>5, <2>0, <3>1 DEF LastWins
  <2> QED BY <2>1, <2>2
<1> QED BY <1>7 DEF OrderRight

LEMMA FulfillingKeepsOrder ==
  ASSUME BulkInv, NEW k \in 1..MaxPosts, Fulfil(k)
  PROVE  OrderRight'
<1> DEFINE items == posts[k].items
<1>1. BulkTypes /\ items \in SomeItems
  BY DEF BulkInv, BulkTypes, AnswerRecord
<1>2. /\ posts[k].at = "sent" /\ posts'[k].at \in {"answered", "refused"}
      /\ \A j \in 1..MaxPosts : posts'[j].items = posts[j].items
      /\ \A j \in 1..MaxPosts : j # k => posts'[j].at = posts[j].at
      /\ posts'[k].at = "answered" => bulkCart' = Updated(items)
      /\ posts'[k].at = "refused" => bulkCart' = bulkCart
  BY <1>1, FulfilTyped
<1>3. \A v \in BulkVariants : Updated(items)[v] = IF v \in DOMAIN items THEN Cut(items[v]) ELSE bulkCart[v]
  BY <1>1, UpdatedTyped
<1>4. UNCHANGED <<queue, asked, excused>>
  BY DEF Fulfil
<1> HIDE DEF items
<1>5. ASSUME NEW u \in BulkVariants \ excused
      PROVE  LastWins(u)'
  <2>0. LastWins(u) /\ (Queued(u)' <=> Queued(u))
    BY <1>4, <1>5 DEF BulkInv, OrderRight, Queued
  <2>1. Queued(u)' => \E i \in DOMAIN queue' : LastAt(i, u)' /\ queue'[i].qty = asked'[u]
    BY <1>4, <2>0 DEF LastWins, LastAt
  <2>2. ~Queued(u) => \A j \in 1..MaxPosts :
          posts'[j].at = "sent" /\ u \in DOMAIN posts'[j].items => posts'[j].items[u] = asked'[u]
    BY <1>2, <1>4, <2>0 DEF LastWins
  <2>3. ASSUME ~Queued(u),
               \A j \in 1..MaxPosts : posts'[j].at \in {"sent", "refused"} => u \notin DOMAIN posts'[j].items
        PROVE  bulkCart'[u] = Cut(asked'[u])
    <3>1. CASE u \in DOMAIN items
      <4>1. posts'[k].at = "answered" /\ items[u] = asked[u]
        BY <1>2, <2>0, <2>3, <3>1 DEF LastWins, items
      <4> QED BY <1>2, <1>3, <1>4, <3>1, <4>1
    <3>2. CASE u \notin DOMAIN items
      <4>1. bulkCart'[u] = bulkCart[u]
        BY <1>2, <1>3, <3>2
      <4>2. \A j \in 1..MaxPosts : posts[j].at \in {"sent", "refused"} => u \notin DOMAIN posts[j].items
        BY <1>2, <2>3, <3>2 DEF items
      <4> QED BY <1>4, <2>0, <2>3, <4>1, <4>2 DEF LastWins
    <3> QED BY <3>1, <3>2
  <2> QED BY <2>0, <2>1, <2>2, <2>3 DEF LastWins, Cut
<1> QED BY <1>4, <1>5 DEF OrderRight

LEMMA EndingKeepsOrder ==
  ASSUME BulkInv, NEW k \in 1..MaxPosts, Ends(k), UNCHANGED <<bulkCart, queue, asked>>,
         excused \subseteq excused', posts[k].at = "answered" \/ DOMAIN posts[k].items \subseteq excused'
  PROVE  OrderRight'
<1>1. posts' = [posts EXCEPT ![k] = NoAnswer] /\ BulkTypes
  BY DEF Ends, BulkInv
<1>2. /\ posts'[k] = NoAnswer /\ \A j \in 1..MaxPosts : j # k => posts'[j] = posts[j]
  BY <1>1, NoAnswerTyped, PostMoves
<1>3. ASSUME NEW u \in BulkVariants \ excused'
      PROVE  LastWins(u)'
  <2>1. LastWins(u) /\ (Queued(u)' <=> Queued(u))
    BY <1>3 DEF BulkInv, OrderRight, Queued
  <2>2. posts[k].at # "answered" => u \notin DOMAIN posts[k].items
    BY <1>3
  <2>3. Queued(u)' => \E i \in DOMAIN queue' : LastAt(i, u)' /\ queue'[i].qty = asked'[u]
    BY <2>1 DEF LastWins, LastAt
  <2>4. ~Queued(u) => \A j \in 1..MaxPosts :
          posts'[j].at = "sent" /\ u \in DOMAIN posts'[j].items => posts'[j].items[u] = asked'[u]
    BY <1>2, <2>1, NoAnswerTyped DEF LastWins
  <2>5. ~Queued(u) /\ (\A j \in 1..MaxPosts : posts'[j].at \in {"sent", "refused"} => u \notin DOMAIN posts'[j].items)
          => bulkCart'[u] = Cut(asked'[u])
    BY <1>2, <2>1, <2>2 DEF LastWins
  <2> QED BY <2>1, <2>3, <2>4, <2>5 DEF LastWins, Cut
<1> QED BY <1>3 DEF OrderRight

LEMMA ChangingKeepsOrder ==
  ASSUME BulkInv, NEW v \in BulkVariants, NEW qty \in 0..BulkStock, ChangeElsewhere(v, qty)
  PROVE  OrderRight'
<1>1. /\ bulkCart' = [bulkCart EXCEPT ![v] = qty] /\ asked' = [asked EXCEPT ![v] = qty]
      /\ \A j \in 1..MaxPosts : posts'[j].at = posts[j].at /\ posts'[j].items = posts[j].items
  BY ChangeTyped DEF BulkInv
<1>2. /\ queue' = queue /\ excused \subseteq excused'
      /\ v \notin excused' => ~Queued(v) /\ \A k \in UnderWay : v \notin DOMAIN posts[k].items
  BY DEF ChangeElsewhere, Queued
<1>3. bulkCart \in [BulkVariants -> Nat] /\ asked \in [BulkVariants -> Nat]
  BY DEF BulkInv, BulkTypes
<1>4. qty \in Nat /\ qty <= BulkStock
  BY BulkAssumption
<1>5. ASSUME NEW u \in BulkVariants \ excused'
      PROVE  LastWins(u)'
  <2>1. LastWins(u) /\ (Queued(u)' <=> Queued(u))
    BY <1>2, <1>5 DEF BulkInv, OrderRight, Queued
  <2>2. CASE u = v
    <3>1. bulkCart'[u] = qty /\ asked'[u] = qty /\ Cut(qty) = qty
      BY <1>1, <1>3, <1>4, <2>2, CutTyped
    <3>2. ~Queued(u) /\ \A j \in 1..MaxPosts : posts[j].at = "sent" => u \notin DOMAIN posts[j].items
      BY <1>2, <1>5, <2>2 DEF UnderWay
    <3> QED BY <1>1, <2>1, <3>1, <3>2 DEF LastWins, Cut
  <2>3. CASE u # v
    <3>1. bulkCart'[u] = bulkCart[u] /\ asked'[u] = asked[u]
      BY <1>1, <1>3, <2>3
    <3>2. Queued(u)' => \E i \in DOMAIN queue' : LastAt(i, u)' /\ queue'[i].qty = asked'[u]
      BY <1>2, <2>1, <3>1 DEF LastWins, LastAt
    <3> QED BY <1>1, <2>1, <3>1, <3>2 DEF LastWins, Cut
  <2> QED BY <2>2, <2>3
<1> QED BY <1>5 DEF OrderRight

LEMMA BulkInvStep == BulkInv /\ [BulkNext]_bulkVars => BulkInv'
<1> SUFFICES ASSUME BulkInv, [BulkNext]_bulkVars PROVE BulkInv'
  OBVIOUS
<1>0. BulkTypes /\ BulkRows \subseteq BulkVariants
  BY RowsAreVariants DEF BulkInv
<1>1. ASSUME NEW v \in BulkVariants, NEW qty \in 0..BulkTop + 1, TypeQuantity(v, qty)
      PROVE  BulkInv'
  <2>0. qty \in Nat
    BY BulkAssumption
  <2>1. /\ inputs' = [inputs EXCEPT ![v].value = qty]
        /\ waits' = [waits EXCEPT ![v] = [qty |-> qty, on |-> TRUE, live |-> TRUE]]
        /\ hasPendingQuantityUpdate' = (bulkKind = "list")
        /\ UNCHANGED <<bulkKind, bulkCart, posts, refresh, queue, requestStarted, asked, excused, slips>>
    BY <1>1 DEF TypeQuantity, bulkNet
  <2>2. BulkTypes'
    BY <1>0, <2>0, <2>1 DEF BulkTypes
  <2>3. OrderRight' /\ QueueGates' /\ AnswersRight'
    BY <2>1, OrderStays, GatesStay DEF BulkInv, AnswersRight, Current
  <2>4. /\ waits'[v].on /\ inputs'[v].attr = inputs[v].attr
        /\ \A u \in BulkVariants : /\ waits[u].on => waits'[u].on
                                   /\ u # v => inputs'[u] = inputs[u]
    BY <1>0, <2>1 DEF BulkTypes
  <2>5. PendingRight'
    BY <2>1, <2>4 DEF PendingRight
  <2>6. RowsRight'
    <3>1. Reason => Reason'
      BY <2>1, <2>4 DEF Reason, NetPending
    <3> QED BY <2>1, <2>4, <3>1 DEF BulkInv, RowsRight
  <2> QED BY <2>2, <2>3, <2>5, <2>6 DEF BulkInv
<1>2. ASSUME NEW v \in BulkVariants, Debounced(v)
      PROVE  BulkInv'
  <2>0. waits[v].qty \in Nat /\ inputs[v].attr \in Nat /\ NoWait \in [qty : Nat, on : BOOLEAN, live : BOOLEAN]
        /\ waits' = [waits EXCEPT ![v] = NoWait]
        /\ UNCHANGED <<bulkKind, bulkCart, posts, refresh, requestStarted, hasPendingQuantityUpdate, excused>>
    BY <1>0, <1>2 DEF Debounced, bulkNet, BulkTypes, NoWait
  <2>1. waits' \in [BulkVariants -> [qty : Nat, on : BOOLEAN, live : BOOLEAN]]
    BY <1>0, <2>0 DEF BulkTypes
  <2>2. CASE waits[v].qty <= BulkTop
    <3>1. /\ Enqueue(v, waits[v].qty) /\ slips' = slips
          /\ inputs' = [inputs EXCEPT ![v].attr = waits[v].qty] \/ inputs' = inputs
      BY <1>2, <2>2 DEF Debounced
    <3>2. queue' \in Seq(QueueEntry) /\ asked' \in [BulkVariants -> Nat] /\ queue' # <<>>
      BY <1>0, <2>0, <3>1, EntryTyped
    <3>3. BulkTypes'
      <4>1. inputs' \in [BulkVariants -> [value : Nat, attr : Nat, inCart : BOOLEAN]]
        BY <1>0, <2>0, <3>1 DEF BulkTypes
      <4>2. UNCHANGED <<bulkKind, bulkCart, posts, refresh>>
        BY <2>0
      <4> QED BY <1>0, <2>1, <3>2, <4>1, <4>2 DEF BulkTypes
    <3>4. OrderRight'
      BY <2>0, <3>1, EntersQueue
    <3>5. QueueGates' /\ AnswersRight' /\ PendingRight'
      BY <2>0, <3>1, <3>2 DEF BulkInv, QueueGates, AnswersRight, Current, PendingRight
    <3>6. RowsRight'
      BY <3>2, PendingIsReason DEF NetPending
    <3> QED BY <3>3, <3>4, <3>5, <3>6 DEF BulkInv
  <2>3. CASE ~(waits[v].qty <= BulkTop)
    <3>1. /\ inputs' = [inputs EXCEPT ![v].value = inputs[v].attr]
          /\ slips' = slips \cup {"invalid"} /\ UNCHANGED <<queue, asked>>
      BY <1>2, <2>3 DEF Debounced
    <3>2. BulkTypes'
      <4>1. inputs' \in [BulkVariants -> [value : Nat, attr : Nat, inCart : BOOLEAN]]
        BY <1>0, <2>0, <3>1 DEF BulkTypes
      <4>2. UNCHANGED <<bulkKind, bulkCart, posts, refresh, queue, asked>>
        BY <2>0, <3>1
      <4> QED BY <1>0, <2>1, <4>1, <4>2 DEF BulkTypes
    <3>3. OrderRight' /\ QueueGates'
      BY <2>0, <3>1, OrderStays, GatesStay
    <3>4. AnswersRight' /\ PendingRight'
      BY <2>0, <3>1 DEF BulkInv, AnswersRight, Current, PendingRight
    <3>5. RowsRight'
      <4>1. Reason => Reason'
        BY <2>0, <3>1 DEF Reason, NetPending
      <4>2. /\ inputs'[v].value = inputs[v].attr /\ inputs'[v].attr = inputs[v].attr
            /\ \A u \in BulkVariants : u # v => inputs'[u] = inputs[u] /\ waits'[u] = waits[u]
        BY <1>0, <2>0, <3>1 DEF BulkTypes
      <4> QED BY <2>0, <4>1, <4>2 DEF BulkInv, RowsRight
    <3> QED BY <3>2, <3>3, <3>4, <3>5 DEF BulkInv
  <2> QED BY <2>2, <2>3
<1>3. ASSUME NEW v \in BulkVariants, RemoveRow(v)
      PROVE  BulkInv'
  <2>1. /\ Enqueue(v, 0) /\ 0 \in Nat
        /\ UNCHANGED <<bulkKind, bulkCart, posts, refresh, inputs, waits, requestStarted,
                       hasPendingQuantityUpdate, excused, slips>>
    BY <1>3 DEF RemoveRow, bulkNet
  <2>2. queue' \in Seq(QueueEntry) /\ asked' \in [BulkVariants -> Nat] /\ queue' # <<>>
    BY <1>0, <2>1, EntryTyped
  <2>3. BulkTypes'
    BY <1>0, <2>1, <2>2 DEF BulkTypes
  <2>4. OrderRight'
    BY <2>1, EntersQueue
  <2>5. QueueGates' /\ AnswersRight' /\ PendingRight'
    BY <2>1, <2>2 DEF BulkInv, QueueGates, AnswersRight, Current, PendingRight
  <2>6. RowsRight'
    BY <2>2, PendingIsReason DEF NetPending
  <2> QED BY <2>3, <2>4, <2>5, <2>6 DEF BulkInv
<1>4. ASSUME NEW k \in 1..MaxPosts, SendQueue(k)
      PROVE  BulkInv'
  <2>1. Merged \in SomeItems /\ Post(k, Merged, {})
    BY <1>0, <1>4, MergedRight DEF SendQueue
  <2>2. /\ posts[k].at = "idle" /\ posts' \in [1..MaxPosts -> AnswerRecord]
        /\ posts'[k].at = "sent" /\ \A j \in 1..MaxPosts : j # k => posts'[j] = posts[j]
    BY <1>0, <2>1, PostSends
  <2>3. /\ queue' = <<>> /\ ~requestStarted /\ requestStarted'
        /\ slips' = IF UnderWay = {} THEN slips ELSE slips \cup {"overlap"}
        /\ ~hasPendingQuantityUpdate'
        /\ UNCHANGED <<bulkKind, bulkCart, inputs, waits, refresh, asked>>
    BY <1>4, <2>1 DEF SendQueue, MaySend, Post
  <2>4. BulkTypes'
    BY <1>0, <2>2, <2>3 DEF BulkTypes
  <2>5. OrderRight'
    BY <1>4, SendingKeepsOrder
  <2>6. QueueGates'
    <3>1. CASE "bypassed" \in slips
      BY <2>3, <3>1 DEF QueueGates
    <3>2. CASE "bypassed" \notin slips
      <4>1. "overlap" \notin slips /\ \A j \in 1..MaxPosts : posts[j].at = "idle"
        BY <2>3, <3>2 DEF BulkInv, QueueGates
      <4>2. UnderWay = {}
        BY <4>1 DEF UnderWay
      <4> QED BY <2>2, <2>3, <4>1, <4>2 DEF QueueGates
    <3> QED BY <3>1, <3>2
  <2>7. AnswersRight' /\ PendingRight'
    BY <2>2, <2>3, AnswersStay DEF PendingRight
  <2>8. RowsRight'
    BY <2>2, PendingIsReason DEF NetPending
  <2> QED BY <2>4, <2>5, <2>6, <2>7, <2>8 DEF BulkInv
<1>5. ASSUME NEW k \in 1..MaxPosts, RemoveAll(k)
      PROVE  BulkInv'
  <2> DEFINE listed == {v \in BulkVariants : inputs[v].inCart}
             items == [v \in listed |-> 0]
  <2>1. items \in SomeItems
    <3>1. items \in [listed -> Nat]
      OBVIOUS
    <3> QED BY <3>1, ItemsTyped
  <2>2. /\ Post(k, items, {queue[i].v : i \in DOMAIN queue}) /\ queue' = queue
        /\ asked' = [v \in BulkVariants |-> IF v \in listed THEN 0 ELSE asked[v]]
        /\ slips' = slips \cup {"bypassed"}
        /\ UNCHANGED <<bulkKind, bulkCart, inputs, waits, requestStarted, refresh>>
    BY <1>5 DEF RemoveAll
  <2>3. asked' \in [BulkVariants -> Nat]
    BY <1>0, <2>2 DEF BulkTypes
  <2> HIDE DEF items, listed
  <2>4. /\ posts' \in [1..MaxPosts -> AnswerRecord] /\ posts'[k].at = "sent"
        /\ \A j \in 1..MaxPosts : j # k => posts'[j] = posts[j]
    BY <1>0, <2>1, <2>2, PostSends
  <2>5. BulkTypes'
    BY <1>0, <2>2, <2>3, <2>4 DEF BulkTypes
  <2>6. OrderRight' /\ QueueGates'
    BY <1>5, <2>2, RemovingKeepsOrder DEF QueueGates
  <2>7. AnswersRight'
    BY <2>2, <2>4, AnswersStay
  <2>8. PendingRight'
    <3>1. hasPendingQuantityUpdate' => hasPendingQuantityUpdate /\ queue' # <<>>
      BY <2>2 DEF Post
    <3> QED BY <2>2, <3>1 DEF BulkInv, PendingRight
  <2>9. RowsRight'
    BY <2>4, PendingIsReason DEF NetPending
  <2> QED BY <2>5, <2>6, <2>7, <2>8, <2>9 DEF BulkInv
<1>6. ASSUME NEW k \in 1..MaxPosts, Fulfil(k)
      PROVE  BulkInv'
  <2>1. UNCHANGED <<bulkKind, inputs, waits, queue, requestStarted, hasPendingQuantityUpdate,
                    asked, excused, slips>>
    BY <1>6 DEF Fulfil
  <2>2. /\ posts' \in [1..MaxPosts -> AnswerRecord] /\ refresh' \in AnswerRecord
        /\ bulkCart' \in [BulkVariants -> Nat]
        /\ posts[k].at = "sent" /\ posts'[k].at \in {"answered", "refused"}
        /\ \A j \in 1..MaxPosts : j # k => posts'[j].at = posts[j].at /\ posts'[j].cart = posts[j].cart
        /\ refresh'.at = refresh.at /\ refresh'.cart = refresh.cart
        /\ \A j \in 1..MaxPosts : j # k /\ ~posts'[j].old =>
             ~posts[j].old /\ (posts[j].at = "answered" => bulkCart' = bulkCart)
        /\ ~refresh'.old => ~refresh.old /\ (refresh.at = "answered" => bulkCart' = bulkCart)
        /\ posts'[k].at = "answered" => posts'[k].cart = bulkCart'
    BY <1>0, <1>6, FulfilTyped
  <2>3. BulkTypes'
    BY <1>0, <2>1, <2>2 DEF BulkTypes
  <2>4. OrderRight'
    BY <1>6, FulfillingKeepsOrder
  <2>5. \A j \in 1..MaxPosts : posts'[j].at # "idle" <=> posts[j].at # "idle"
    BY <2>2
  <2>6. QueueGates' /\ PendingRight'
    BY <2>1, <2>5 DEF BulkInv, QueueGates, PendingRight
  <2>7. AnswersRight'
    <3>1. Current(refresh)' /\ Current(posts[k])'
      BY <2>2 DEF BulkInv, AnswersRight, Current
    <3>2. ASSUME NEW j \in 1..MaxPosts, j # k PROVE Current(posts[j])'
      BY <2>2, <3>2 DEF BulkInv, AnswersRight, Current
    <3> QED BY <3>1, <3>2 DEF AnswersRight, Current
  <2>8. RowsRight'
    BY <2>2, PendingIsReason DEF NetPending
  <2> QED BY <2>3, <2>4, <2>6, <2>7, <2>8 DEF BulkInv
<1>7. ASSUME NEW k \in 1..MaxPosts, PostAnswered(k)
      PROVE  BulkInv'
  <2>1. /\ posts[k].at = "answered" /\ Ends(k) /\ ~requestStarted'
        /\ posts' = [posts EXCEPT ![k] = NoAnswer]
        /\ UNCHANGED <<bulkKind, bulkCart, queue, refresh, hasPendingQuantityUpdate, asked, excused>>
    BY <1>7 DEF PostAnswered, Ends
  <2>2. /\ posts' \in [1..MaxPosts -> AnswerRecord] /\ posts'[k] = NoAnswer
        /\ \A j \in 1..MaxPosts : j # k => posts'[j] = posts[j]
    BY <1>0, <2>1, NoAnswerTyped, PostMoves
  <2>3. OrderRight' /\ AnswersRight'
    BY <2>1, <2>2, EndingKeepsOrder, AnswersStay, NoAnswerTyped
  <2>4. CASE Skips(posts[k].items)
    <3>1. slips' = slips \cup {"skipped"} /\ UNCHANGED <<inputs, waits>>
      BY <1>7, <2>4 DEF PostAnswered
    <3>2. BulkTypes'
      BY <1>0, <2>1, <2>2, <3>1 DEF BulkTypes
    <3>3. QueueGates' /\ PendingRight'
      BY <2>1, <2>2, <3>1, NoAnswerTyped DEF BulkInv, QueueGates, PendingRight
    <3>4. RowsRight'
      <4>1. CASE queue # <<>>
        BY <2>1, <4>1, PendingIsReason DEF NetPending
      <4>2. CASE queue = <<>>
        <5>1. DOMAIN queue = {}
          BY <4>2
        <5>2. bulkKind = "list" /\ hasPendingQuantityUpdate
          BY <2>4, <4>2, <5>1 DEF Skips
        <5>3. (\E u \in BulkVariants : waits[u].on) \/ "invalid" \in slips
          BY <4>2, <5>2 DEF BulkInv, PendingRight
        <5> QED BY <3>1, <5>3 DEF RowsRight, Reason
      <4> QED BY <4>1, <4>2
    <3> QED BY <2>3, <3>2, <3>3, <3>4 DEF BulkInv
  <2>5. CASE ~Skips(posts[k].items)
    <3>1. Render(posts[k]) /\ Current(posts[k])
      BY <1>7, <2>5 DEF PostAnswered, BulkInv, AnswersRight
    <3>2. /\ inputs' \in [BulkVariants -> [value : Nat, attr : Nat, inCart : BOOLEAN]]
          /\ waits' \in [BulkVariants -> [qty : Nat, on : BOOLEAN, live : BOOLEAN]]
          /\ \A v \in BulkVariants : waits'[v].on = waits[v].on
          /\ "invalid" \in slips => "invalid" \in slips'
          /\ "bypassed" \in slips <=> "bypassed" \in slips'
          /\ "overlap" \in slips <=> "overlap" \in slips'
          /\ RowsRight'
      BY <1>0, <2>1, <3>1, RenderedRows
    <3>3. BulkTypes'
      BY <1>0, <2>1, <2>2, <3>2 DEF BulkTypes
    <3>4. QueueGates' /\ PendingRight'
      BY <2>1, <2>2, <3>2, NoAnswerTyped DEF BulkInv, QueueGates, PendingRight
    <3> QED BY <2>3, <3>2, <3>3, <3>4 DEF BulkInv
  <2> QED BY <2>4, <2>5
<1>8. ASSUME NEW k \in 1..MaxPosts, PostFails(k)
      PROVE  BulkInv'
  <2>1. /\ posts[k].at # "idle" /\ Ends(k) /\ ~requestStarted'
        /\ posts' = [posts EXCEPT ![k] = NoAnswer]
        /\ excused' = excused \cup DOMAIN posts[k].items /\ slips' = slips \cup {"lost"}
        /\ UNCHANGED <<bulkKind, bulkCart, inputs, waits, queue, refresh, hasPendingQuantityUpdate, asked>>
    BY <1>8 DEF PostFails, Ends
  <2>2. /\ posts' \in [1..MaxPosts -> AnswerRecord] /\ posts'[k] = NoAnswer
        /\ \A j \in 1..MaxPosts : j # k => posts'[j] = posts[j]
    BY <1>0, <2>1, NoAnswerTyped, PostMoves
  <2>3. BulkTypes'
    BY <1>0, <2>1, <2>2 DEF BulkTypes
  <2>4. OrderRight'
    BY <2>1, EndingKeepsOrder
  <2>5. AnswersRight'
    BY <2>1, <2>2, AnswersStay, NoAnswerTyped
  <2>6. QueueGates' /\ PendingRight'
    BY <2>1, <2>2, NoAnswerTyped DEF BulkInv, QueueGates, PendingRight
  <2>7. RowsRight'
    BY <2>1, PendingIsReason
  <2> QED BY <2>3, <2>4, <2>5, <2>6, <2>7 DEF BulkInv
<1>9. ASSUME NEW v \in BulkVariants, NEW qty \in 0..BulkStock, ChangeElsewhere(v, qty)
      PROVE  BulkInv'
  <2>1. UNCHANGED <<bulkKind, inputs, waits, queue, requestStarted, hasPendingQuantityUpdate>>
    BY <1>9 DEF ChangeElsewhere
  <2>2. /\ bulkCart' \in [BulkVariants -> Nat] /\ asked' \in [BulkVariants -> Nat]
        /\ posts' \in [1..MaxPosts -> AnswerRecord] /\ refresh' \in AnswerRecord
        /\ \A j \in 1..MaxPosts :
             /\ posts'[j].at = posts[j].at /\ posts'[j].cart = posts[j].cart
             /\ ~posts'[j].old => ~posts[j].old /\ (posts[j].at = "answered" => bulkCart' = bulkCart)
        /\ \/ refresh'.at = "sent" /\ slips' = slips
           \/ /\ refresh'.at = refresh.at /\ refresh'.cart = refresh.cart
              /\ ~refresh'.old => ~refresh.old /\ (refresh.at = "answered" => bulkCart' = bulkCart)
              /\ slips' = slips \cup {"unheard"}
    BY <1>0, <1>9, ChangeTyped
  <2>3. BulkTypes'
    BY <1>0, <2>1, <2>2 DEF BulkTypes
  <2>4. OrderRight'
    BY <1>9, ChangingKeepsOrder
  <2>5. "invalid" \in slips => "invalid" \in slips'
        /\ ("bypassed" \in slips' <=> "bypassed" \in slips)
        /\ ("overlap" \in slips' <=> "overlap" \in slips)
    BY <2>2
  <2>6. QueueGates' /\ PendingRight'
    BY <2>1, <2>2 DEF BulkInv, QueueGates, PendingRight
  <2>7. AnswersRight'
    <3>1. Current(refresh)'
      BY <2>2 DEF BulkInv, AnswersRight, Current
    <3>2. ASSUME NEW j \in 1..MaxPosts PROVE Current(posts[j])'
      BY <2>2 DEF BulkInv, AnswersRight, Current
    <3> QED BY <3>1, <3>2 DEF AnswersRight, Current
  <2>8. RowsRight'
    BY <2>2, PendingIsReason DEF NetPending
  <2> QED BY <2>3, <2>4, <2>6, <2>7, <2>8 DEF BulkInv
<1>10. ASSUME TurnPage \/ RefreshRead
       PROVE  BulkInv'
  <2>1. UNCHANGED <<bulkKind, bulkCart, inputs, waits, queue, requestStarted, posts,
                    hasPendingQuantityUpdate, asked, excused, slips>>
    BY <1>10 DEF TurnPage, RefreshRead
  <2>2. /\ refresh' \in AnswerRecord /\ refresh'.at # "idle"
        /\ refresh'.at = "answered" => refresh'.cart = bulkCart
    <3>1. CASE TurnPage
      BY <3>1, NoAnswerTyped DEF TurnPage, AnswerRecord
    <3>2. CASE RefreshRead
      <4>1. refresh' = [refresh EXCEPT !.at = "answered", !.cart = bulkCart]
        BY <3>2 DEF RefreshRead
      <4> QED BY <1>0, <4>1 DEF BulkTypes, AnswerRecord
    <3> QED BY <1>10, <3>1, <3>2
  <2>3. BulkTypes'
    BY <1>0, <2>1, <2>2 DEF BulkTypes
  <2>4. OrderRight' /\ QueueGates' /\ PendingRight'
    BY <2>1, OrderStays, GatesStay DEF BulkInv, PendingRight
  <2>5. AnswersRight'
    BY <1>0, <2>1, <2>2 DEF BulkInv, AnswersRight, Current, BulkTypes
  <2>6. RowsRight'
    BY <2>2, PendingIsReason DEF NetPending
  <2> QED BY <2>3, <2>4, <2>5, <2>6 DEF BulkInv
<1>11. ASSUME RefreshShown
       PROVE  BulkInv'
  <2>1. /\ refresh.at = "answered" /\ refresh' = NoAnswer /\ Render(refresh)
        /\ UNCHANGED <<bulkKind, bulkCart, queue, requestStarted, posts,
                       hasPendingQuantityUpdate, asked, excused>>
    BY <1>11 DEF RefreshShown
  <2>2. /\ inputs' \in [BulkVariants -> [value : Nat, attr : Nat, inCart : BOOLEAN]]
        /\ waits' \in [BulkVariants -> [qty : Nat, on : BOOLEAN, live : BOOLEAN]]
        /\ \A v \in BulkVariants : waits'[v].on = waits[v].on
        /\ "invalid" \in slips => "invalid" \in slips'
        /\ "bypassed" \in slips <=> "bypassed" \in slips'
        /\ "overlap" \in slips <=> "overlap" \in slips'
        /\ RowsRight'
    BY <1>0, <2>1, RenderedRows DEF BulkInv, AnswersRight
  <2>3. BulkTypes'
    BY <1>0, <2>1, <2>2, NoAnswerTyped DEF BulkTypes
  <2>4. OrderRight' /\ QueueGates'
    BY <2>1, <2>2, OrderStays, GatesStay
  <2>5. AnswersRight' /\ PendingRight'
    BY <2>1, <2>2, NoAnswerTyped DEF BulkInv, AnswersRight, Current, PendingRight
  <2> QED BY <2>2, <2>3, <2>4, <2>5 DEF BulkInv
<1>12. ASSUME RefreshFails
       PROVE  BulkInv'
  <2>1. /\ refresh' = NoAnswer /\ slips' = slips \cup {"lost"}
        /\ UNCHANGED <<bulkKind, bulkCart, inputs, waits, queue, requestStarted, posts,
                       hasPendingQuantityUpdate, asked, excused>>
    BY <1>12 DEF RefreshFails
  <2>2. BulkTypes'
    BY <1>0, <2>1, NoAnswerTyped DEF BulkTypes
  <2>3. OrderRight' /\ QueueGates'
    BY <2>1, OrderStays, GatesStay
  <2>4. AnswersRight' /\ PendingRight'
    BY <2>1, NoAnswerTyped DEF BulkInv, AnswersRight, Current, PendingRight
  <2>5. RowsRight'
    BY <2>1, PendingIsReason
  <2> QED BY <2>2, <2>3, <2>4, <2>5 DEF BulkInv
<1>13. CASE UNCHANGED bulkVars
  <2>1. /\ UNCHANGED <<bulkKind, bulkCart, inputs, waits, queue, requestStarted>>
        /\ UNCHANGED <<posts, refresh, hasPendingQuantityUpdate, asked, excused, slips>>
    BY <1>13 DEF bulkVars
  <2>2. BulkTypes' /\ OrderRight' /\ QueueGates'
    BY <1>0, <2>1, OrderStays, GatesStay DEF BulkTypes
  <2>3. AnswersRight' /\ PendingRight' /\ RowsRight'
    BY <2>1 DEF BulkInv, AnswersRight, Current, PendingRight, RowsRight, Reason, NetPending
  <2> QED BY <2>2, <2>3 DEF BulkInv
<1> QED BY <1>0, <1>1, <1>2, <1>3, <1>4, <1>5, <1>6, <1>7, <1>8, <1>9, <1>10, <1>11, <1>12, <1>13 DEF BulkNext

LEMMA BulkInvInit == BulkInit => BulkInv
<1> SUFFICES ASSUME BulkInit PROVE BulkInv
  OBVIOUS
<1>1. bulkCart \in [BulkVariants -> 0..BulkStock] /\ 0..BulkStock \subseteq Nat
  BY BulkAssumption DEF BulkInit
<1>2. \A v \in BulkVariants : bulkCart[v] \in Nat /\ Cut(bulkCart[v]) = bulkCart[v]
  BY <1>1, CutTyped, BulkAssumption
<1>3. /\ \A v \in BulkVariants : inputs[v] = RowOf(bulkCart[v])
      /\ inputs = [v \in BulkVariants |-> RowOf(bulkCart[v])]
      /\ waits = [v \in BulkVariants |-> NoWait] /\ queue = <<>>
      /\ posts = [k \in 1..MaxPosts |-> NoAnswer] /\ refresh = NoAnswer
      /\ ~hasPendingQuantityUpdate /\ asked = bulkCart /\ slips = {} /\ bulkKind \in {"list", "card"}
  BY DEF BulkInit
<1>4. BulkTypes
  <2>1. \A v \in BulkVariants : RowOf(bulkCart[v]) \in [value : Nat, attr : Nat, inCart : BOOLEAN]
    BY <1>2 DEF RowOf
  <2> QED BY <1>1, <1>3, <2>1, NoAnswerTyped DEF BulkTypes, NoWait
<1>5. \A k \in 1..MaxPosts : posts[k] = NoAnswer
  BY <1>3
<1>6. OrderRight
  BY <1>2, <1>3, <1>5, NoAnswerTyped DEF OrderRight, LastWins, Queued
<1>7. QueueGates /\ AnswersRight /\ PendingRight
  BY <1>3, <1>5, NoAnswerTyped DEF QueueGates, AnswersRight, Current, PendingRight
<1>8. RowsRight
  BY <1>3 DEF RowsRight, RowOf
<1> QED BY <1>4, <1>6, <1>7, <1>8 DEF BulkInv

\* At rest the cart has of every variant what was asked for last and the rows show it,
\* up to what excused and slips name (quick-order-list.js, quick-add-bulk.js and
\* BulkAdd in global.js); requests overlap only past the queue.
THEOREM LastQuantityWins == BulkSpec => []LastQuantityCounts
<1>1. ASSUME BulkInv PROVE LastQuantityCounts
  <2>1. ASSUME BulkAtRest
        PROVE  /\ \A v \in BulkVariants \ excused : bulkCart[v] = Updated(asked)[v]
               /\ \A v \in BulkRows :
                    \/ inputs[v].value = bulkCart[v]
                    \/ slips \cap {"overtaken", "lost", "unheard"} # {}
                    \/ {"skipped", "invalid"} \subseteq slips
    <3>0. BulkTypes /\ BulkRows \subseteq BulkVariants
      BY <1>1, RowsAreVariants DEF BulkInv
    <3>1. /\ queue = <<>> /\ refresh.at = "idle" /\ \A k \in 1..MaxPosts : posts[k].at = "idle"
          /\ \A v \in BulkVariants : ~waits[v].on
      BY <2>1 DEF BulkAtRest
    <3>2. ASSUME NEW v \in BulkVariants \ excused PROVE bulkCart[v] = Updated(asked)[v]
      <4>1. LastWins(v) /\ ~Queued(v)
        BY <1>1, <3>1 DEF BulkInv, OrderRight, Queued
      <4>2. bulkCart[v] = Cut(asked[v])
        BY <3>1, <4>1 DEF LastWins
      <4>3. Updated(asked)[v] = Cut(asked[v])
        BY <3>0 DEF Updated, Cut, BulkTypes
      <4> QED BY <4>2, <4>3
    <3>3. ASSUME NEW v \in BulkRows
          PROVE  \/ inputs[v].value = bulkCart[v]
                 \/ slips \cap {"overtaken", "lost", "unheard"} # {}
                 \/ {"skipped", "invalid"} \subseteq slips
      BY <1>1, <3>0, <3>1 DEF BulkInv, RowsRight, Reason, NetPending
    <3> QED BY <3>2, <3>3
  <2>2. "overlap" \in slips => "bypassed" \in slips
    BY <1>1 DEF BulkInv, QueueGates
  <2> QED BY <2>1, <2>2 DEF LastQuantityCounts
<1> QED BY <1>1, BulkInvInit, BulkInvStep, PTL DEF BulkSpec
=============================================================================
