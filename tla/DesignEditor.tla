---------------------------- MODULE DesignEditor ----------------------------
(***************************************************************************)
(* The map editor of the web client (useDesignStore, useCommandStore) and  *)
(* the DesignService it saves to.  Edits act on the canvas at once and are *)
(* queued; a save sends what is queued, one request after another, while   *)
(* the user goes on drawing, loads another design or leaves edit mode.     *)
(*                                                                         *)
(* One user edits.  A node is its place and its label, a line its ends and *)
(* its label; the course of a line is left out.  A request is carried out  *)
(* or not, and its answer arrives or is lost.                              *)
(***************************************************************************)
EXTENDS Naturals, Sequences, SequencesExt

CONSTANTS
  Nodes, Lines,     \* refIds: each is drawn anew at most once
  Waypoint,         \* the end of a line finished by a double click: no node
  Designs,          \* bound: designs that may ever be created
  Saved, Drawn,     \* a design stored before, and one drawn and not stored
  MaxEdits,         \* bound: edits drawn
  MaxEvents,        \* bound: edits, undos, loads, archivings and failed requests
  Absent, NoDesign, NoSave, Unknown

VARIABLES
  canvas,     \* useDesignStore: nodes and edges
  designId,   \* useDesignStore.designId
  editMode,   \* useDesignStore.editMode
  ready,      \* whether there are a project and calcInputs to create with
  applied, undone, pending,  \* useCommandStore
  save,       \* the running flush: what it has still to send
  stored,     \* NetworkDesign with its NetworkNode and NetworkEdge rows
  loaded,     \* loadedDesignId of the panel
  fetched,    \* a design on its way to the canvas
  edits,      \* how many there were, up to MaxEdits
  turns,      \* and of undos, loads, archivings, failures there were
  base,       \* history: the canvas when the stacks were last cleared
  known,      \* history: the refIds drawn so far
  forgotten   \* history: elements with an edit the client gave up

editorVars == <<canvas, designId, editMode, ready, applied, undone, pending,
                save, stored, loaded, fetched, edits, turns, base, known, forgotten>>

Refs == Nodes \cup Lines
Empty == [r \in Refs |-> Absent]
Ends(x) == {x.from, x.to}
LinesAt(items, n) == {l \in Lines : items[l] # Absent /\ n \in Ends(items[l])}

-----------------------------------------------------------------------------
(* Commands: an element as it was and as it becomes.  A move or an update  *)
(* changes the place or the label only; lines are those a deleted node     *)
(* takes away.                                                             *)
Command(type, ref, old, new, lines) ==
  [type |-> type, ref |-> ref, old |-> old, new |-> new, lines |-> lines]
NoLines == [l \in {} |-> Absent]
Touches(c) == {c.ref} \cup DOMAIN c.lines
TouchedBy(s) == UNION {Touches(c) : c \in ToSet(s)}
Adds == {"AddNode", "AddEdge"}
Deletes == {"DeleteNode", "DeleteEdge"}
Updates == {"UpdateNode", "UpdateEdge"}

applyCommand(items, c) ==
  CASE c.type \in Adds /\ items[c.ref] = Absent -> [items EXCEPT ![c.ref] = c.new]
    [] c.type \in Deletes /\ items[c.ref] # Absent ->
         [r \in Refs |-> IF r \in Touches(c) THEN Absent ELSE items[r]]
    [] c.type = "MoveNode" /\ items[c.ref] # Absent -> [items EXCEPT ![c.ref].at = c.new.at]
    [] c.type \in Updates /\ items[c.ref] # Absent -> [items EXCEPT ![c.ref].label = c.new.label]
    [] OTHER -> items

RestoreWithoutLines(items, c) == [items EXCEPT ![c.ref] = c.old]
Restore(items, c) ==
  [r \in Refs |-> IF r \in DOMAIN c.lines THEN c.lines[r]
                  ELSE RestoreWithoutLines(items, c)[r]]

revertCommand(items, c) ==
  CASE c.type \in Adds -> [items EXCEPT ![c.ref] = Absent]
    [] c.type \in Deletes -> Restore(items, c)
    [] c.type = "MoveNode" /\ items[c.ref] # Absent -> [items EXCEPT ![c.ref].at = c.old.at]
    [] c.type \in Updates /\ items[c.ref] # Absent -> [items EXCEPT ![c.ref].label = c.old.label]
    [] OTHER -> items

-----------------------------------------------------------------------------
(* The server: each request is one transaction.                            *)

Accepted(d, c) ==
  /\ stored[d].status = "DRAFT"
  /\ (c.type \in Adds) = (stored[d].items[c.ref] = Absent)
  /\ c.type = "AddEdge" => \A n \in Ends(c.new) : n \in Nodes /\ stored[d].items[n] # Absent

(* Deleting a node deletes its lines, whatever the client thinks they are. *)
Serve(items, c) ==
  IF c.type = "DeleteNode"
    THEN [r \in Refs |-> IF r \in {c.ref} \cup LinesAt(items, c.ref) THEN Absent ELSE items[r]]
    ELSE applyCommand(items, c)

CreatesFrom(items) ==
  \A l \in Lines : items[l] # Absent =>
    \A n \in Ends(items[l]) : n \in Nodes /\ items[n] # Absent

-----------------------------------------------------------------------------
EditorInit ==
  /\ \E opened \in BOOLEAN :
       LET first == CHOOSE d \in Designs : TRUE IN
       /\ canvas = (IF opened THEN Saved ELSE Drawn)
       /\ designId = (IF opened THEN first ELSE NoDesign)
       /\ loaded = designId
       /\ stored = [d \in Designs |->
                      IF opened /\ d = first THEN [status |-> "DRAFT", items |-> Saved]
                      ELSE [status |-> "none", items |-> Empty]]
  /\ editMode = FALSE /\ ready = TRUE
  /\ applied = <<>> /\ undone = <<>> /\ pending = <<>>
  /\ save = NoSave /\ fetched = NoDesign /\ edits = 0 /\ turns = 0
  /\ base = canvas /\ forgotten = {} /\ known = {r \in Refs : canvas[r] # Absent}

-----------------------------------------------------------------------------
(* flush groups what is queued by element and sends one thing for each     *)
(* element: its deletion, its addition (a node with its last place), or    *)
(* the last command of the first of the other kinds it has.                *)
Precedence == <<"MoveNode", "AddEdge", "DeleteEdge", "UpdateNode", "UpdateEdge">>

OnRef(s, r) == {i \in DOMAIN s : s[i].ref = r}
OfType(s, r, t) == {i \in OnRef(s, r) : s[i].type = t}
Latest(s, r, t) == s[CHOOSE i \in OfType(s, r, t) : \A j \in OfType(s, r, t) : j <= i]

Resolve(s, r) ==
  LET has(t) == OfType(s, r, t) # {}
      first == CHOOSE i \in DOMAIN Precedence :
                 has(Precedence[i]) /\ \A j \in 1..(i - 1) : ~has(Precedence[j])
  IN CASE has("AddNode") /\ has("DeleteNode") -> <<>>
       [] has("DeleteNode") /\ ~has("AddNode") -> <<Latest(s, r, "DeleteNode")>>
       [] has("AddNode") /\ has("MoveNode") /\ ~has("DeleteNode") ->
            <<Latest(s, r, "AddNode"), Latest(s, r, "MoveNode")>>
       [] has("AddNode") /\ ~has("MoveNode") /\ ~has("DeleteNode") ->
            <<Latest(s, r, "AddNode")>>
       [] OTHER -> <<Latest(s, r, Precedence[first])>>

(* What is sent of the elements in refs, in the order they came.           *)
Ready(s, refs) ==
  LET First(i) == \A j \in 1..(i - 1) : s[j].ref # s[i].ref
      chosen[i \in 0..Len(s)] ==
        IF i = 0 THEN <<>>
        ELSE IF s[i].ref \in refs /\ First(i) THEN chosen[i - 1] \o Resolve(s, s[i].ref)
        ELSE chosen[i - 1]
  IN chosen[Len(s)]
Batch(s) == Ready(s, Nodes) \o Ready(s, Lines)

(* Of these elements everything queued is sent, or what makes up for it;   *)
(* of the others something may be lost.                                    *)
KeptWhole(s, r) ==
  \/ \A i, j \in OnRef(s, r) : i = j
  \/ \A i \in OnRef(s, r) :
       \/ s[i].type = "MoveNode"
       \/ s[i].type = "AddNode" /\ \A j \in OnRef(s, r) : i <= j
GivenUp(s) ==
  UNION {Touches(s[i]) : i \in {j \in DOMAIN s : ~KeptWhole(s, s[j].ref)}}

Saving == save # NoSave
Creating == Saving /\ save.stage = "create"
StillToSend == IF Saving THEN save.todo ELSE <<>>

-----------------------------------------------------------------------------
(* The stacks.                                                             *)
clearStacks(to) ==
  /\ applied' = <<>> /\ undone' = <<>> /\ pending' = <<>>
  /\ base' = to

KeepStacks(rest) ==
  /\ pending' = rest
  /\ UNCHANGED <<applied, undone>>

(* When the design on the canvas is replaced under the stacks, what they   *)
(* undo is no longer what the canvas was made by.                          *)
Based(items) == IF applied \o undone = <<>> THEN items ELSE Unknown

CountEdit ==
  /\ edits < MaxEdits /\ edits + turns < MaxEvents
  /\ edits' = edits + 1 /\ UNCHANGED turns
CountTurn ==
  /\ edits + turns < MaxEvents
  /\ turns' = turns + 1 /\ UNCHANGED edits

Dispatch(c) ==
  /\ editMode /\ CountEdit
  /\ canvas' = applyCommand(canvas, c)
  /\ applied' = Append(applied, c)
  /\ undone' = <<>>
  /\ pending' = Append(pending, c)
  /\ save' = IF Creating THEN [save EXCEPT !.late = @ \cup Touches(c)] ELSE save
  /\ known' = known \cup {c.ref}
  /\ UNCHANGED <<designId, editMode, ready, stored, loaded, fetched, base, forgotten>>

(* A refId nobody has used yet: they are random or a time of day.          *)
Fresh(r) == r \notin known

DrawNode(n) ==
  /\ Fresh(n)
  /\ Dispatch(Command("AddNode", n, Absent, [at |-> 1, label |-> 0], NoLines))

DrawLine(l, from, to) ==
  /\ Fresh(l) /\ canvas[from] # Absent /\ from # to
  /\ to \in Nodes => canvas[to] # Absent
  /\ Dispatch(Command("AddEdge", l, Absent, [from |-> from, to |-> to, label |-> 0], NoLines))

Drag(n) ==
  /\ canvas[n] # Absent
  /\ Dispatch(Command("MoveNode", n, canvas[n], [canvas[n] EXCEPT !.at = 1 - @], NoLines))

Rename(r) ==
  /\ canvas[r] # Absent
  /\ Dispatch(Command(IF r \in Nodes THEN "UpdateNode" ELSE "UpdateEdge", r,
                      canvas[r], [canvas[r] EXCEPT !.label = 1 - @], NoLines))

Delete(r) ==
  /\ canvas[r] # Absent
  /\ Dispatch(IF r \in Nodes
       THEN Command("DeleteNode", r, canvas[r], Absent, Restrict(canvas, LinesAt(canvas, r)))
       ELSE Command("DeleteEdge", r, canvas[r], Absent, NoLines))

(* undo queues the command itself, not its inverse: what it undid is no    *)
(* longer sure to be saved, nor is anything, when another design was       *)
(* opened under the stacks.                                                *)
Unsure(c) == IF base = Unknown THEN Refs ELSE Touches(c)

undo ==
  LET c == Last(applied) IN
  /\ editMode /\ applied # <<>> /\ ~Saving /\ CountTurn
  /\ canvas' = revertCommand(canvas, c)
  /\ applied' = Front(applied)
  /\ undone' = <<c>> \o undone
  /\ pending' = Append(pending, c)
  /\ forgotten' = forgotten \cup Unsure(c)
  /\ UNCHANGED <<designId, editMode, ready, save, stored, loaded, fetched, base, known>>

redo ==
  LET c == Head(undone) IN
  /\ editMode /\ undone # <<>> /\ ~Saving /\ UNCHANGED <<edits, turns>>
  /\ canvas' = applyCommand(canvas, c)
  /\ applied' = Append(applied, c)
  /\ undone' = Tail(undone)
  /\ pending' = Append(pending, c)
  /\ forgotten' = forgotten \cup Unsure(c)
  /\ UNCHANGED <<designId, editMode, ready, save, stored, loaded, fetched, base, known>>

-----------------------------------------------------------------------------
(* Saving: from the toolbar, on a refresh of the list, by the timer, or on *)
(* leaving edit mode, which then empties the stacks whatever was saved.    *)

CanSave == ~Saving /\ pending # <<>> /\ ready

SaveEnds(rest, leaving) ==
  /\ save' = NoSave
  /\ editMode' = (editMode /\ ~leaving)
  /\ IF leaving THEN clearStacks(canvas) ELSE KeepStacks(rest) /\ UNCHANGED base

StartSave(leaving) ==
  LET todo == Batch(pending)
      start(stage) == [stage |-> stage, design |-> designId, todo |-> todo, sent |-> 0,
                       items |-> IF stage = "create" THEN canvas ELSE Empty,
                       late |-> {}, leaving |-> leaving]
  IN /\ forgotten' = forgotten \cup GivenUp(pending)
     /\ CASE designId = NoDesign ->
               save' = start("create") /\ UNCHANGED <<editMode, applied, undone, pending, base>>
          [] designId # NoDesign /\ todo # <<>> ->
               save' = start("send") /\ KeepStacks(<<>>) /\ UNCHANGED <<editMode, base>>
          [] OTHER -> SaveEnds(<<>>, leaving)
     /\ UNCHANGED <<canvas, designId, ready, stored, loaded, fetched, edits, turns, known>>

SaveNow == CanSave /\ StartSave(FALSE)

EnterEditMode ==
  /\ ~editMode /\ editMode' = TRUE
  /\ UNCHANGED <<canvas, designId, ready, applied, undone, pending, save, stored, loaded,
                 fetched, base, forgotten, edits, turns, known>>

LeaveEditMode ==
  /\ editMode
  /\ \/ CanSave /\ StartSave(TRUE)
     \/ /\ ~CanSave /\ editMode' = FALSE
        /\ clearStacks(canvas)
        /\ forgotten' = forgotten \cup TouchedBy(pending)
        /\ UNCHANGED <<canvas, designId, ready, save, stored, loaded, fetched, edits, turns,
                       known>>

(* Mutant: the command that failed is not among them.                      *)
RequeuedWithoutFailed == Tail(save.todo) \o pending

(* A request fails, or its answer is lost: all that is left waits again.   *)
Requeued == save.todo \o pending
SaveFails(rest) ==
  /\ SaveEnds(rest, save.leaving)
  /\ forgotten' = IF save.leaving THEN forgotten \cup TouchedBy(rest) ELSE forgotten
  /\ CountTurn
  /\ UNCHANGED designId

(* The design is created with all that was drawn when the save began; then *)
(* the queue is emptied, with what was added to it meanwhile.              *)
CreateDesign ==
  /\ Creating
  /\ \E done, heard \in BOOLEAN, d \in Designs :
       /\ done => stored[d].status = "none" /\ CreatesFrom(save.items)
       /\ stored' = IF done THEN [stored EXCEPT ![d] = [status |-> "DRAFT", items |-> save.items]]
                    ELSE stored
       /\ CASE ~done \/ ~heard -> SaveFails(pending)
            [] done /\ heard /\ save.todo # <<>> ->
                 /\ save' = [save EXCEPT !.stage = "send", !.design = d, !.items = Empty,
                                        !.late = {}]
                 /\ designId' = d
                 /\ KeepStacks(<<>>)
                 /\ forgotten' = forgotten \cup save.late
                 /\ UNCHANGED <<editMode, base, edits, turns>>
            [] OTHER ->
                 /\ SaveEnds(<<>>, save.leaving)
                 /\ designId' = d
                 /\ forgotten' = forgotten \cup save.late
                 /\ UNCHANGED <<edits, turns>>
  /\ UNCHANGED <<canvas, ready, loaded, fetched, known>>

(* The place of a new node is sent after it, and both are repeated if it   *)
(* fails.                                                                  *)
SendNext ==
  LET todo == save.todo
      c == todo[save.sent + 1]
      d == save.design
      pair == save.sent = 0 /\ Len(todo) > 1 /\ todo[2].ref = c.ref
      left == IF pair THEN todo ELSE SubSeq(todo, save.sent + 2, Len(todo))
  IN /\ Saving /\ save.stage = "send"
     /\ \E done, heard \in BOOLEAN :
          /\ done => Accepted(d, c)
          /\ stored' = IF done THEN [stored EXCEPT ![d].items = Serve(@, c)] ELSE stored
          /\ IF done /\ heard
               THEN /\ save' = [save EXCEPT
                         !.todo = left,
                         !.sent = IF pair THEN 1 ELSE 0,
                         !.stage = IF left = <<>> THEN "sketch" ELSE @]
                    /\ UNCHANGED <<designId, editMode, applied, undone, pending, base, forgotten,
                                   edits, turns>>
               ELSE SaveFails(Requeued)
     /\ UNCHANGED <<canvas, ready, loaded, fetched, known>>

(* A save that got this far is a success, whatever becomes of the sketch:  *)
(* the design is closed, so that the next save creates another, and its    *)
(* closing empties the stacks.                                             *)
SaveSketch ==
  /\ Saving /\ save.stage = "sketch"
  /\ save' = NoSave
  /\ designId' = NoDesign
  /\ editMode' = (editMode /\ ~save.leaving)
  /\ IF designId # NoDesign \/ save.leaving THEN clearStacks(canvas)
     ELSE KeepStacks(pending) /\ UNCHANGED base
  /\ forgotten' = {}
  /\ UNCHANGED <<canvas, ready, stored, loaded, fetched, edits, turns, known>>

-----------------------------------------------------------------------------
(* Opening and deleting designs.  A design that cannot be fetched changes  *)
(* nothing; one archived meanwhile is still fetched from an older list.    *)

LoadDesign(d) ==
  /\ fetched = NoDesign /\ stored[d].status # "none"
  /\ CountTurn
  /\ fetched' = [design |-> d, items |-> stored[d].items]
  /\ UNCHANGED <<canvas, designId, editMode, ready, applied, undone, pending, save, stored,
                 loaded, base, forgotten, known>>

(* The design arrives.  The stacks and a running save are left alone.      *)
Hydrate ==
  LET d == fetched.design IN
  /\ fetched # NoDesign
  /\ fetched' = NoDesign
  /\ canvas' = fetched.items
  /\ designId' = d /\ loaded' = d
  /\ editMode' = FALSE /\ ready' = TRUE
  /\ base' = Based(fetched.items)
  /\ forgotten' = IF Saving \/ pending # <<>> THEN Refs
                  ELSE {r \in Refs : fetched.items[r] # stored[d].items[r]}
  /\ UNCHANGED <<applied, undone, pending, save, stored, edits, turns, known>>

ArchiveDesign(d) ==
  /\ stored[d].status = "DRAFT"
  /\ CountTurn
  /\ stored' = [stored EXCEPT ![d].status = "ARCHIVED"]
  /\ UNCHANGED <<canvas, designId, editMode, ready, applied, undone, pending, save, loaded,
                 fetched, base, forgotten, known>>

(* The user who deleted the design that was loaded last loses the canvas,  *)
(* but the stacks only if a design is open.                                *)
ClearDeleted ==
  /\ loaded # NoDesign /\ stored[loaded].status = "ARCHIVED"
  /\ designId' = NoDesign
  /\ canvas' = Empty
  /\ editMode' = FALSE /\ ready' = FALSE
  /\ IF designId # NoDesign THEN clearStacks(Empty)
     ELSE KeepStacks(pending) /\ base' = Based(Empty)
  /\ forgotten' = IF Saving THEN Refs ELSE {}
  /\ UNCHANGED <<save, stored, loaded, fetched, edits, turns, known>>

-----------------------------------------------------------------------------
EditorNext ==
  \/ \E n \in Nodes : DrawNode(n) \/ Drag(n)
  \/ \E l \in Lines, from \in Nodes, to \in Nodes \cup {Waypoint} : DrawLine(l, from, to)
  \/ \E r \in Refs : Rename(r) \/ Delete(r)
  \/ undo \/ redo
  \/ EnterEditMode \/ LeaveEditMode \/ SaveNow
  \/ CreateDesign \/ SendNext \/ SaveSketch
  \/ \E d \in Designs : LoadDesign(d) \/ ArchiveDesign(d)
  \/ Hydrate \/ ClearDeleted

EditorSpec == EditorInit /\ [][EditorNext]_editorVars

-----------------------------------------------------------------------------
(* Every element and every command is of its kind; a deleted node's        *)
(* command holds lines that end at it; a save under way sends to a design  *)
(* that was created, two commands about one element only when they are the *)
(* addition and the place of a node.                                       *)
NodeItem == [at : {0, 1}, label : {0, 1}]
LineItem == [from : Nodes, to : Nodes \cup {Waypoint}, label : {0, 1}]
Items ==
  {v \in [Refs -> NodeItem \cup LineItem \cup {Absent}] :
     /\ \A n \in Nodes : v[n] \in NodeItem \cup {Absent}
     /\ \A l \in Lines : v[l] \in LineItem \cup {Absent}}

NodeCommands ==
  [type : {"AddNode"}, ref : Nodes, old : {Absent}, new : NodeItem, lines : {NoLines}]
    \cup [type : {"MoveNode", "UpdateNode"}, ref : Nodes, old : NodeItem, new : NodeItem,
          lines : {NoLines}]
    \cup {c \in [type : {"DeleteNode"}, ref : Nodes, old : NodeItem, new : {Absent},
                 lines : UNION {[L -> LineItem] : L \in SUBSET Lines}] :
            \A l \in DOMAIN c.lines : c.ref \in Ends(c.lines[l])}
LineCommands ==
  [type : {"AddEdge"}, ref : Lines, old : {Absent}, new : LineItem, lines : {NoLines}]
    \cup [type : {"UpdateEdge"}, ref : Lines, old : LineItem, new : LineItem, lines : {NoLines}]
    \cup [type : {"DeleteEdge"}, ref : Lines, old : LineItem, new : {Absent}, lines : {NoLines}]
Commands == NodeCommands \cup LineCommands

Saves ==
  [stage : {"create", "send", "sketch"}, design : Designs \cup {NoDesign}, todo : Seq(Commands),
   sent : {0, 1}, items : Items, late : SUBSET Refs, leaving : BOOLEAN]

(* A node's place follows its addition, and is all that follows.           *)
PairsOnly(s) ==
  \A i, j \in DOMAIN s : i < j /\ s[i].ref = s[j].ref =>
    j = i + 1 /\ s[i].type = "AddNode" /\ s[j].type = "MoveNode"

SaveOK ==
  Saving =>
    /\ save \in Saves /\ PairsOnly(save.todo)
    /\ save.stage = "create" <=> save.design = NoDesign
    /\ save.stage = "send" => save.todo # <<>>
    /\ save.stage = "sketch" => save.todo = <<>>
    /\ save.design # NoDesign => stored[save.design].status # "none"
    /\ save.sent = 1 => save.stage = "send" /\ Len(save.todo) > 1 /\ save.todo[1].ref = save.todo[2].ref

ASSUME EditorAssumption ==
  /\ Nodes \cap Lines = {} /\ Waypoint \notin Nodes
  /\ Absent \notin NodeItem \cup LineItem
  /\ Saved \in Items /\ Drawn \in Items /\ Unknown \notin Items
  /\ Designs # {} /\ NoDesign \notin Designs \cup [design : Designs, items : Items]
  /\ NoSave \notin Saves
  /\ MaxEdits \in Nat /\ MaxEvents \in Nat

EditorTypeOK ==
  /\ canvas \in Items /\ base \in Items \cup {Unknown}
  /\ designId \in Designs \cup {NoDesign} /\ loaded \in Designs \cup {NoDesign}
  /\ designId # NoDesign => stored[designId].status # "none"
  /\ {editMode, ready} \subseteq BOOLEAN
  /\ {applied, undone, pending} \subseteq Seq(Commands)
  /\ stored \in [Designs -> [status : {"none", "DRAFT", "ARCHIVED"}, items : Items]]
  /\ fetched # NoDesign =>
       /\ fetched \in [design : Designs, items : Items]
       /\ stored[fetched.design].status # "none"
  /\ edits \in 0..MaxEdits /\ turns \in 0..MaxEvents
  /\ known \subseteq Refs /\ forgotten \subseteq Refs
  /\ SaveOK

(* While a design is open, what the canvas shows and the server has not    *)
(* waits to be saved or is being saved, whatever requests fail, whatever   *)
(* is drawn meanwhile - except for the elements whose edits the client is  *)
(* known to give up: undone, squeezed, queued while the design was created,*)
(* in stacks that were emptied, or pending when another design was opened, *)
(* and once commands of another design are undone or redone on this one.   *)
NoEditIsForgotten ==
  designId # NoDesign =>
    \A r \in Refs \ forgotten :
      canvas[r] # stored[designId].items[r] => r \in TouchedBy(StillToSend \o pending)

(* Undoing everything brings back the canvas as it was when the stacks     *)
(* were last emptied, and doing it all again brings back the canvas, with  *)
(* saves in between or not - unless a design was opened or removed under   *)
(* commands that could still be undone.                                    *)
Redone(items, s) ==
  LET f[i \in 0..Len(s)] == IF i = 0 THEN items ELSE applyCommand(f[i - 1], s[i])
  IN f[Len(s)]
Unwound(items, s) ==
  LET f[i \in 0..Len(s)] ==
        IF i = Len(s) THEN items ELSE revertCommand(f[i + 1], s[i + 1])
  IN f[0]
UndoIsExact ==
  base # Unknown => Redone(base, applied) = canvas /\ Unwound(canvas, applied) = base
=============================================================================
