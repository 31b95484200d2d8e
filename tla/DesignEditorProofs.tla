------------------------- MODULE DesignEditorProofs -------------------------
(***************************************************************************)
(* The map editor for any number of edits, undos, designs and requests:    *)
(* the types, what undo and redo bring back, and that what the canvas      *)
(* shows and the server has not waits to be sent.                          *)
(***************************************************************************)
EXTENDS DesignEditor, TotalTheorems, SequenceTheorems

-----------------------------------------------------------------------------
(* Commands and what they do to the elements.                              *)

SameEnds(x, y) == x.from = y.from /\ x.to = y.to

(* What a command is, by its type.                                         *)
LEMMA CommandFacts ==
  ASSUME NEW c \in Commands
  PROVE  /\ c.ref \in Refs /\ c.ref \in Touches(c) /\ Touches(c) \subseteq Refs
         /\ Touches(c) = {c.ref} \cup DOMAIN c.lines /\ DOMAIN c.lines \subseteq Lines
         /\ c.type # "DeleteNode" => DOMAIN c.lines = {}
         /\ c.ref \in Nodes => c.type \in {"AddNode", "MoveNode", "UpdateNode", "DeleteNode"}
         /\ c.ref \in Lines => c.type \in {"AddEdge", "UpdateEdge", "DeleteEdge"}
         /\ c.type = "AddNode" => c.ref \in Nodes /\ c.old = Absent /\ c.new \in NodeItem
         /\ c.type \in {"MoveNode", "UpdateNode"} =>
              c.ref \in Nodes /\ c.old \in NodeItem /\ c.new \in NodeItem
         /\ c.type = "DeleteNode" =>
              /\ c.ref \in Nodes /\ c.old \in NodeItem /\ c.new = Absent
              /\ c.lines \in [DOMAIN c.lines -> LineItem]
              /\ \A l \in DOMAIN c.lines : c.ref \in Ends(c.lines[l])
         /\ c.type = "AddEdge" => c.ref \in Lines /\ c.old = Absent /\ c.new \in LineItem
         /\ c.type = "UpdateEdge" =>
              c.ref \in Lines /\ c.old \in LineItem /\ c.new \in LineItem
         /\ c.type = "DeleteEdge" => c.ref \in Lines /\ c.old \in LineItem /\ c.new = Absent
<1>1. Nodes \cap Lines = {}
  BY EditorAssumption
<1>2. CASE c \in NodeCommands
  <2>1. CASE c.type = "DeleteNode"
    <3>1. c \in [type : {"DeleteNode"}, ref : Nodes, old : NodeItem, new : {Absent},
                 lines : UNION {[L -> LineItem] : L \in SUBSET Lines}]
          /\ \A l \in DOMAIN c.lines : c.ref \in Ends(c.lines[l])
      BY <1>2, <2>1 DEF NodeCommands
    <3>2. PICK L \in SUBSET Lines : c.lines \in [L -> LineItem]
      BY <3>1
    <3>3. QED
      BY <1>1, <2>1, <3>1, <3>2 DEF Touches, Refs
  <2>2. CASE c.type # "DeleteNode"
    <3>1. c.lines = NoLines /\ c.ref \in Nodes
          /\ c.type \in {"AddNode", "MoveNode", "UpdateNode"}
      BY <1>2, <2>2 DEF NodeCommands
    <3>2. DOMAIN c.lines = {}
      BY <3>1 DEF NoLines
    <3>3. QED
      BY <1>1, <1>2, <2>2, <3>1, <3>2 DEF NodeCommands, Touches, Refs
  <2>3. QED
    BY <2>1, <2>2
<1>3. CASE c \in LineCommands
  <2>1. c.lines = NoLines /\ c.ref \in Lines
        /\ c.type \in {"AddEdge", "UpdateEdge", "DeleteEdge"}
    BY <1>3 DEF LineCommands
  <2>2. DOMAIN c.lines = {}
    BY <2>1 DEF NoLines
  <2>3. QED
    BY <1>1, <1>3, <2>1, <2>2 DEF LineCommands, Touches, Refs
<1>4. QED
  BY <1>2, <1>3 DEF Commands

(* What is on a canvas.                                                    *)
LEMMA ItemFacts ==
  ASSUME NEW v \in Items
  PROVE  /\ v \in [Refs -> NodeItem \cup LineItem \cup {Absent}]
         /\ \A n \in Nodes : v[n] = Absent \/ v[n] \in NodeItem
         /\ \A l \in Lines : v[l] = Absent \/ v[l] \in LineItem
         /\ DOMAIN v = Refs
BY DEF Items

Fits(c, v) ==
  CASE c.type \in Adds ->
         /\ v[c.ref] = Absent
         /\ c.type = "AddEdge" => \A n \in Ends(c.new) \cap Nodes : v[n] # Absent
    [] c.type = "MoveNode" -> v[c.ref] = c.old /\ c.new.label = c.old.label
    [] c.type = "UpdateNode" -> v[c.ref] = c.old /\ c.new.at = c.old.at
    [] c.type = "UpdateEdge" -> v[c.ref] = c.old /\ SameEnds(c.old, c.new)
    [] c.type = "DeleteNode" -> v[c.ref] = c.old /\ c.lines = Restrict(v, LinesAt(v, c.ref))
    [] c.type = "DeleteEdge" -> v[c.ref] = c.old

(* Carrying out a command changes nothing but what it touches, and that as *)
(* its type says.                                                          *)
LEMMA ApplyFacts ==
  ASSUME NEW v \in Items, NEW c \in Commands
  PROVE  /\ applyCommand(v, c) \in Items
         /\ \A r \in Refs \ Touches(c) : applyCommand(v, c)[r] = v[r]
         /\ \A r \in Refs : c.type \notin Adds /\ v[r] = Absent => applyCommand(v, c)[r] = Absent
         /\ \A r \in Refs : c.type \notin Deletes /\ v[r] # Absent => applyCommand(v, c)[r] # Absent
<1> DEFINE w == applyCommand(v, c)
<1>a. /\ Nodes \cap Lines = {} /\ Absent \notin NodeItem /\ Absent \notin LineItem
  BY EditorAssumption
<1>1. CASE c.type \in Adds /\ v[c.ref] = Absent
  <2>1. w = [v EXCEPT ![c.ref] = c.new]
    BY <1>1 DEF applyCommand, Adds, Deletes
  <2>2. QED
    BY <1>a, <1>1, <2>1, CommandFacts, ItemFacts DEF Items, Adds, Deletes, Refs
<1>2. CASE c.type \in Deletes /\ v[c.ref] # Absent
  <2>1. w = [r \in Refs |-> IF r \in Touches(c) THEN Absent ELSE v[r]]
    BY <1>2 DEF applyCommand, Adds, Deletes, Updates
  <2>2. QED
    BY <1>a, <1>2, <2>1, CommandFacts, ItemFacts DEF Items, Adds, Deletes, Refs
<1>3. CASE c.type = "MoveNode" /\ v[c.ref] # Absent
  <2>1. w = [v EXCEPT ![c.ref].at = c.new.at]
    BY <1>3 DEF applyCommand, Adds, Deletes, Updates
  <2>2. c.ref \in Nodes /\ v[c.ref] \in NodeItem /\ c.new \in NodeItem
    BY <1>3, CommandFacts, ItemFacts
  <2>3. w[c.ref] \in NodeItem
    BY <2>1, <2>2, ItemFacts DEF NodeItem, Refs
  <2>4. QED
    BY <1>a, <1>3, <2>1, <2>2, <2>3, CommandFacts, ItemFacts DEF Items, Adds, Deletes, Refs
<1>4. CASE c.type \in Updates /\ v[c.ref] # Absent
  <2>1. w = [v EXCEPT ![c.ref].label = c.new.label]
    BY <1>4 DEF applyCommand, Adds, Deletes, Updates
  <2>2. CASE c.type = "UpdateNode"
    <3>1. c.ref \in Nodes /\ v[c.ref] \in NodeItem /\ c.new \in NodeItem
      BY <1>4, <2>2, CommandFacts, ItemFacts
    <3>2. w[c.ref] \in NodeItem
      BY <2>1, <3>1, ItemFacts DEF NodeItem, Refs
    <3>3. QED
      BY <1>a, <2>2, <2>1, <3>1, <3>2, CommandFacts, ItemFacts DEF Items, Adds, Deletes, Refs
  <2>3. CASE c.type = "UpdateEdge"
    <3>1. c.ref \in Lines /\ v[c.ref] \in LineItem /\ c.new \in LineItem
      BY <1>4, <2>3, CommandFacts, ItemFacts
    <3>2. w[c.ref] \in LineItem
      BY <2>1, <3>1, ItemFacts DEF LineItem, Refs
    <3>3. QED
      BY <1>a, <2>3, <2>1, <3>1, <3>2, CommandFacts, ItemFacts DEF Items, Adds, Deletes, Refs
  <2>4. QED
    BY <1>4, <2>2, <2>3 DEF Updates
<1>5. CASE /\ ~(c.type \in Adds /\ v[c.ref] = Absent)
           /\ ~(c.type \in Deletes /\ v[c.ref] # Absent)
           /\ ~(c.type = "MoveNode" /\ v[c.ref] # Absent)
           /\ ~(c.type \in Updates /\ v[c.ref] # Absent)
  <2>1. w = v
    BY <1>5 DEF applyCommand
  <2>2. QED
    BY <2>1
<1>6. QED
  BY <1>1, <1>2, <1>3, <1>4, <1>5

(* A command made for this canvas turns its element into what it says.     *)
LEMMA ApplyFitting ==
  ASSUME NEW v \in Items, NEW c \in Commands, Fits(c, v)
  PROVE  /\ c.type \notin Deletes => applyCommand(v, c)[c.ref] = c.new
         /\ c.type \in Deletes => \A r \in Touches(c) : applyCommand(v, c)[r] = Absent
         /\ c.type \in Adds <=> v[c.ref] = Absent
         /\ c.type \notin Adds => v[c.ref] = c.old
<1> DEFINE w == applyCommand(v, c)
<1>a. /\ Nodes \cap Lines = {} /\ Absent \notin NodeItem /\ Absent \notin LineItem
  BY EditorAssumption
<1>1. CASE c.type \in Adds
  <2>1. w = [v EXCEPT ![c.ref] = c.new] /\ v[c.ref] = Absent
    BY <1>1 DEF applyCommand, Adds, Deletes, Fits
  <2>2. QED
    BY <1>1, <2>1, CommandFacts, ItemFacts DEF Adds, Deletes
<1>2. CASE c.type \in Deletes
  <2>1. v[c.ref] = c.old /\ c.old # Absent
    BY <1>2, <1>a, CommandFacts DEF Adds, Deletes, Fits
  <2>2. w = [r \in Refs |-> IF r \in Touches(c) THEN Absent ELSE v[r]]
    BY <1>2, <2>1 DEF applyCommand, Adds, Deletes, Updates
  <2>3. QED
    BY <1>2, <2>1, <2>2, CommandFacts DEF Adds, Deletes
<1>3. CASE c.type = "MoveNode"
  <2>1. v[c.ref] = c.old /\ c.old \in NodeItem /\ c.new \in NodeItem /\ c.new.label = c.old.label
    BY <1>3, CommandFacts DEF Adds, Deletes, Fits
  <2>2. w = [v EXCEPT ![c.ref].at = c.new.at]
    BY <1>3, <1>a, <2>1 DEF applyCommand, Adds, Deletes, Updates
  <2>3. w[c.ref] = [v[c.ref] EXCEPT !.at = c.new.at]
    BY <2>2, ItemFacts, CommandFacts
  <2>4. w[c.ref] = c.new
    BY <2>1, <2>3 DEF NodeItem
  <2>5. QED
    BY <1>3, <1>a, <2>1, <2>4 DEF Adds, Deletes
<1>4. CASE c.type = "UpdateNode"
  <2>1. v[c.ref] = c.old /\ c.old \in NodeItem /\ c.new \in NodeItem /\ c.new.at = c.old.at
    BY <1>4, CommandFacts DEF Adds, Deletes, Fits
  <2>2. w = [v EXCEPT ![c.ref].label = c.new.label]
    BY <1>4, <1>a, <2>1 DEF applyCommand, Adds, Deletes, Updates
  <2>3. w[c.ref] = [v[c.ref] EXCEPT !.label = c.new.label]
    BY <2>2, ItemFacts, CommandFacts
  <2>4. w[c.ref] = c.new
    BY <2>1, <2>3 DEF NodeItem
  <2>5. QED
    BY <1>4, <1>a, <2>1, <2>4 DEF Adds, Deletes
<1>5. CASE c.type = "UpdateEdge"
  <2>1. /\ v[c.ref] = c.old /\ c.old \in LineItem /\ c.new \in LineItem
        /\ c.new.from = c.old.from /\ c.new.to = c.old.to
    BY <1>5, CommandFacts DEF Adds, Deletes, Fits, SameEnds
  <2>2. w = [v EXCEPT ![c.ref].label = c.new.label]
    BY <1>5, <1>a, <2>1 DEF applyCommand, Adds, Deletes, Updates
  <2>3. w[c.ref] = [v[c.ref] EXCEPT !.label = c.new.label]
    BY <2>2, ItemFacts, CommandFacts
  <2>4. w[c.ref] = c.new
    BY <2>1, <2>3 DEF LineItem
  <2>5. QED
    BY <1>5, <1>a, <2>1, <2>4 DEF Adds, Deletes
<1>6. QED
  BY <1>1, <1>2, <1>3, <1>4, <1>5, CommandFacts DEF Adds, Deletes, Refs

(* The lines a deleted node takes away come back with it.                  *)
LEMMA RestoreFacts ==
  ASSUME NEW v \in Items, NEW c \in Commands, c.type \in Deletes
  PROVE  /\ Restore(v, c) \in [Refs -> NodeItem \cup LineItem \cup {Absent}]
         /\ \A r \in Refs :
              Restore(v, c)[r] = IF r \in DOMAIN c.lines THEN c.lines[r]
                                 ELSE IF r = c.ref THEN c.old ELSE v[r]
<1> DEFINE u == [v EXCEPT ![c.ref] = c.old]
<1>1. /\ c.ref \in Refs /\ c.old \in NodeItem \cup LineItem
      /\ DOMAIN c.lines \subseteq Refs
      /\ \A l \in DOMAIN c.lines : c.lines[l] \in LineItem
  BY CommandFacts DEF Deletes, Refs
<1>2. u \in [Refs -> NodeItem \cup LineItem \cup {Absent}]
      /\ \A r \in Refs : u[r] = IF r = c.ref THEN c.old ELSE v[r]
  BY <1>1, ItemFacts
<1>3. Restore(v, c) = [r \in Refs |-> IF r \in DOMAIN c.lines THEN c.lines[r] ELSE u[r]]
  BY DEF Restore, RestoreWithoutLines
<1> HIDE DEF u
<1>5. QED
  BY <1>1, <1>2, <1>3

(* So does taking a command back.                                          *)
LEMMA RevertFacts ==
  ASSUME NEW v \in Items, NEW c \in Commands
  PROVE  /\ revertCommand(v, c) \in Items
         /\ \A r \in Refs \ Touches(c) : revertCommand(v, c)[r] = v[r]
         /\ c.type \in Adds => revertCommand(v, c)[c.ref] = Absent
<1> DEFINE w == revertCommand(v, c)
<1>a. /\ Nodes \cap Lines = {} /\ Absent \notin NodeItem /\ Absent \notin LineItem
  BY EditorAssumption
<1>1. CASE c.type \in Adds
  <2>1. w = [v EXCEPT ![c.ref] = Absent]
    BY <1>1 DEF revertCommand, Adds, Deletes, Updates
  <2>2. QED
    BY <1>a, <1>1, <2>1, CommandFacts, ItemFacts DEF Items, Adds, Deletes, Refs
<1>2. CASE c.type \in Deletes
  <2>1. w = Restore(v, c)
    BY <1>2 DEF revertCommand, Adds, Deletes, Updates
  <2>2. \A n \in Nodes : w[n] \in NodeItem \cup {Absent}
    BY <1>a, <1>2, <2>1, RestoreFacts, CommandFacts, ItemFacts DEF Deletes, Refs
  <2>3. \A l \in Lines : w[l] \in LineItem \cup {Absent}
    BY <1>a, <1>2, <2>1, RestoreFacts, CommandFacts, ItemFacts DEF Deletes, Refs
  <2>4. w \in Items
    BY <1>2, <2>1, <2>2, <2>3, RestoreFacts DEF Items
  <2>5. QED
    BY <1>2, <2>1, <2>4, RestoreFacts, CommandFacts DEF Adds, Deletes
<1>3. CASE c.type = "MoveNode" /\ v[c.ref] # Absent
  <2>1. w = [v EXCEPT ![c.ref].at = c.old.at]
    BY <1>3 DEF revertCommand, Adds, Deletes, Updates
  <2>2. c.ref \in Nodes /\ v[c.ref] \in NodeItem /\ c.old \in NodeItem
    BY <1>3, CommandFacts, ItemFacts
  <2>3. w[c.ref] \in NodeItem
    BY <2>1, <2>2, ItemFacts DEF NodeItem, Refs
  <2>4. QED
    BY <1>a, <1>3, <2>1, <2>2, <2>3, CommandFacts, ItemFacts DEF Items, Adds, Deletes, Refs
<1>4. CASE c.type \in Updates /\ v[c.ref] # Absent
  <2>1. w = [v EXCEPT ![c.ref].label = c.old.label]
    BY <1>4 DEF revertCommand, Adds, Deletes, Updates
  <2>2. CASE c.type = "UpdateNode"
    <3>1. c.ref \in Nodes /\ v[c.ref] \in NodeItem /\ c.old \in NodeItem
      BY <1>4, <2>2, CommandFacts, ItemFacts
    <3>2. w[c.ref] \in NodeItem
      BY <2>1, <3>1, ItemFacts DEF NodeItem, Refs
    <3>3. QED
      BY <1>a, <2>2, <2>1, <3>1, <3>2, CommandFacts, ItemFacts DEF Items, Adds, Deletes, Refs
  <2>3. CASE c.type = "UpdateEdge"
    <3>1. c.ref \in Lines /\ v[c.ref] \in LineItem /\ c.old \in LineItem
      BY <1>4, <2>3, CommandFacts, ItemFacts
    <3>2. w[c.ref] \in LineItem
      BY <2>1, <3>1, ItemFacts DEF LineItem, Refs
    <3>3. QED
      BY <1>a, <2>3, <2>1, <3>1, <3>2, CommandFacts, ItemFacts DEF Items, Adds, Deletes, Refs
  <2>4. QED
    BY <1>4, <2>2, <2>3 DEF Updates
<1>5. CASE /\ c.type \notin Adds /\ c.type \notin Deletes
           /\ ~(c.type = "MoveNode" /\ v[c.ref] # Absent)
           /\ ~(c.type \in Updates /\ v[c.ref] # Absent)
  <2>1. w = v
    BY <1>5 DEF revertCommand
  <2>2. QED
    BY <1>5, <2>1
<1>6. QED
  BY <1>1, <1>2, <1>3, <1>4, <1>5

(* Taking back the command that was just carried out restores the canvas.  *)
LEMMA RevertUndoes ==
  ASSUME NEW v \in Items, NEW c \in Commands, Fits(c, v)
  PROVE  revertCommand(applyCommand(v, c), c) = v
<1> DEFINE w == applyCommand(v, c)
           u == revertCommand(w, c)
<1>a. /\ Absent \notin NodeItem /\ Absent \notin LineItem
  BY EditorAssumption
<1>b. w \in Items /\ u \in Items
  BY ApplyFacts, RevertFacts
<1>c. ASSUME NEW r \in Refs \ Touches(c) PROVE u[r] = v[r]
  BY <1>b, ApplyFacts, RevertFacts
<1>d. ASSUME NEW r \in Touches(c) PROVE u[r] = v[r]
  <2>1. CASE c.type \in Adds
    BY <2>1, <1>b, CommandFacts, RevertFacts, ApplyFitting DEF Adds
  <2>2. CASE c.type \in Deletes
    <3>1. u = Restore(w, c)
      BY <2>2 DEF revertCommand, Adds, Deletes, Updates
    <3>2. u[r] = IF r \in DOMAIN c.lines THEN c.lines[r] ELSE c.old
      BY <2>2, <3>1, <1>b, CommandFacts, RestoreFacts
    <3>3. v[c.ref] = c.old
      BY <2>2, ApplyFitting DEF Adds, Deletes
    <3>4. CASE r \in DOMAIN c.lines
      <4>1. c.type = "DeleteNode"
        BY <3>4, CommandFacts
      <4>2. c.lines = Restrict(v, LinesAt(v, c.ref))
        BY <4>1 DEF Fits, Adds, Deletes
      <4>3. QED
        BY <3>2, <3>4, <4>2 DEF Restrict
    <3>5. QED
      BY <3>2, <3>3, <3>4, CommandFacts
  <2>3. CASE c.type = "MoveNode"
    <3>1. /\ w[c.ref] = c.new /\ v[c.ref] = c.old /\ c.old \in NodeItem /\ c.new \in NodeItem
          /\ c.new.label = c.old.label /\ r = c.ref
      BY <2>3, CommandFacts, ApplyFitting DEF Adds, Deletes, Fits
    <3>2. u = [w EXCEPT ![c.ref].at = c.old.at]
      BY <1>a, <2>3, <3>1 DEF revertCommand, Adds, Deletes, Updates
    <3>3. u[c.ref] = [c.new EXCEPT !.at = c.old.at]
      BY <1>b, <3>1, <3>2, ItemFacts, CommandFacts
    <3>4. QED
      BY <3>1, <3>3 DEF NodeItem
  <2>4. CASE c.type = "UpdateNode"
    <3>0. c.type \notin Adds /\ c.type \notin Deletes /\ r = c.ref
      BY <2>4, CommandFacts DEF Adds, Deletes
    <3>1. /\ w[c.ref] = c.new /\ v[c.ref] = c.old /\ c.old \in NodeItem /\ c.new \in NodeItem
          /\ c.new.at = c.old.at /\ r = c.ref
      BY <2>4, <3>0, CommandFacts, ApplyFitting DEF Adds, Deletes, Fits
    <3>2. u = [w EXCEPT ![c.ref].label = c.old.label]
      BY <1>a, <2>4, <3>1 DEF revertCommand, Adds, Deletes, Updates
    <3>3. u[c.ref] = [c.new EXCEPT !.label = c.old.label]
      BY <1>b, <3>1, <3>2, ItemFacts, CommandFacts
    <3>4. QED
      BY <3>1, <3>3 DEF NodeItem
  <2>5. CASE c.type = "UpdateEdge"
    <3>1. /\ w[c.ref] = c.new /\ v[c.ref] = c.old /\ c.old \in LineItem /\ c.new \in LineItem
          /\ SameEnds(c.old, c.new) /\ r = c.ref
      BY <2>5, CommandFacts, ApplyFitting DEF Adds, Deletes, Fits
    <3>2. u = [w EXCEPT ![c.ref].label = c.old.label]
      BY <1>a, <2>5, <3>1 DEF revertCommand, Adds, Deletes, Updates
    <3>3. u[c.ref] = [c.new EXCEPT !.label = c.old.label]
      BY <1>b, <3>1, <3>2, ItemFacts, CommandFacts
    <3>4. QED
      BY <3>1, <3>3 DEF LineItem, SameEnds
  <2>6. QED
    BY <2>1, <2>2, <2>3, <2>4, <2>5, CommandFacts DEF Adds, Deletes, Refs
<1>e. QED
  <2>1. \A r \in Refs : u[r] = v[r]
    BY <1>c, <1>d
  <2>2. \A x, y \in Items : (\A r \in Refs : x[r] = y[r]) => x = y
    BY DEF Items
  <2> HIDE DEF u
  <2>3. u = v
    BY <1>b, <2>1, <2>2
  <2>4. QED
    BY <2>3 DEF u

-----------------------------------------------------------------------------
(* What flush sends of a queue.                                            *)

(* A nonempty set of places in a sequence has a last one.                  *)
LEMMA LastPlaceIn ==
  ASSUME NEW m \in Nat, NEW T, T \subseteq 1..m, T # {}
  PROVE  \E i \in T : \A j \in T : j <= i
<1> DEFINE D == {m - i : i \in T}
<1>1. D \subseteq Nat /\ D # {}
  <2>1. \A i \in T : i \in Nat /\ i <= m
    OBVIOUS
  <2>2. \A i \in T : m - i \in Nat
    BY <2>1
  <2>3. QED
    BY <2>2
<1>2. PICK k \in D : \A j \in D : k <= j
  <2> HIDE DEF D
  <2>1. QED
    BY <1>1, LeastElement
<1>3. PICK i \in T : k = m - i
  BY <1>2
<1>4. ASSUME NEW j \in T PROVE j <= i
  <2>1. m - j \in D
    OBVIOUS
  <2>2. k <= m - j
    BY <1>2, <2>1
  <2>3. QED
    BY <1>3, <2>2
<1>5. QED
  BY <1>4

(* Places in a queue.                                                      *)
LEMMA QueueFacts ==
  ASSUME NEW q \in Seq(Commands)
  PROVE  /\ Len(q) \in Nat /\ DOMAIN q = 1..Len(q)
         /\ \A i \in DOMAIN q : q[i] \in Commands /\ i \in Nat /\ i >= 1 /\ i <= Len(q)
OBVIOUS

(* The latest of its type is one of them, and none comes after it.         *)
LEMMA LatestFacts ==
  ASSUME NEW q \in Seq(Commands), NEW r, NEW t, OfType(q, r, t) # {}
  PROVE  \E i \in OfType(q, r, t) :
           Latest(q, r, t) = q[i] /\ \A j \in OfType(q, r, t) : j <= i
<1>1. OfType(q, r, t) \subseteq 1..Len(q) /\ Len(q) \in Nat
  BY QueueFacts DEF OfType, OnRef
<1>2. \E i \in OfType(q, r, t) : \A j \in OfType(q, r, t) : j <= i
  BY <1>1, LastPlaceIn
<1>3. QED
  BY <1>2 DEF Latest

(* What is sent of an element is at most its addition and its place.       *)
LEMMA ResolveKinds ==
  ASSUME NEW q \in Seq(Commands), NEW r \in Refs, OnRef(q, r) # {}
  PROVE  \/ /\ Resolve(q, r) = <<>>
            /\ OfType(q, r, "AddNode") # {} /\ OfType(q, r, "DeleteNode") # {}
         \/ /\ OfType(q, r, "AddNode") # {} /\ OfType(q, r, "MoveNode") # {}
            /\ Resolve(q, r) = <<Latest(q, r, "AddNode"), Latest(q, r, "MoveNode")>>
         \/ \E t \in {"AddNode", "DeleteNode", "MoveNode", "AddEdge", "DeleteEdge", "UpdateNode",
                      "UpdateEdge"} :
              /\ OfType(q, r, t) # {} /\ Resolve(q, r) = <<Latest(q, r, t)>>
              /\ t # "AddNode" => OfType(q, r, "AddNode") = {}
              /\ t = "AddNode" => OfType(q, r, "MoveNode") = {}
<1> DEFINE has(t) == OfType(q, r, t) # {}
           first == CHOOSE i \in DOMAIN Precedence :
                      has(Precedence[i]) /\ \A j \in 1..(i - 1) : ~has(Precedence[j])
<1>1. Resolve(q, r) =
        CASE has("AddNode") /\ has("DeleteNode") -> <<>>
          [] has("DeleteNode") /\ ~has("AddNode") -> <<Latest(q, r, "DeleteNode")>>
          [] has("AddNode") /\ has("MoveNode") /\ ~has("DeleteNode") ->
               <<Latest(q, r, "AddNode"), Latest(q, r, "MoveNode")>>
          [] has("AddNode") /\ ~has("MoveNode") /\ ~has("DeleteNode") ->
               <<Latest(q, r, "AddNode")>>
          [] OTHER -> <<Latest(q, r, Precedence[first])>>
  BY DEF Resolve
<1>2. CASE has("AddNode") \/ has("DeleteNode")
  <2> HIDE DEF has
  <2>1. QED
    BY <1>1, <1>2 DEF has
<1>3. CASE ~has("AddNode") /\ ~has("DeleteNode")
  <2>1. has("MoveNode") \/ has("AddEdge") \/ has("DeleteEdge") \/ has("UpdateNode") \/ has("UpdateEdge")
    <3>1. PICK i \in OnRef(q, r) : TRUE
      OBVIOUS
    <3>2. q[i] \in Commands /\ i \in OfType(q, r, q[i].type)
      BY <3>1, QueueFacts DEF OfType, OnRef
    <3>3. q[i].type \in {"AddNode", "DeleteNode", "MoveNode", "AddEdge", "DeleteEdge",
                         "UpdateNode", "UpdateEdge"}
      BY <3>2, CommandFacts DEF Refs
    <3>4. QED
      BY <1>3, <3>2, <3>3
  <2> HIDE DEF has
  <2>2. DOMAIN Precedence = 1..5 /\ Precedence[1] = "MoveNode" /\ Precedence[2] = "AddEdge"
        /\ Precedence[3] = "DeleteEdge" /\ Precedence[4] = "UpdateNode"
        /\ Precedence[5] = "UpdateEdge"
    BY DEF Precedence
  <2>3. \E i \in DOMAIN Precedence :
          has(Precedence[i]) /\ \A j \in 1..(i - 1) : ~has(Precedence[j])
    <3>1. CASE has("MoveNode")
      <4>1. 1 \in DOMAIN Precedence /\ has(Precedence[1]) /\ \A j \in 1..(1 - 1) : ~has(Precedence[j])
        BY <2>2, <3>1
      <4>2. QED
        BY <4>1
    <3>2. CASE ~has("MoveNode") /\ has("AddEdge")
      <4>1. 2 \in DOMAIN Precedence /\ has(Precedence[2]) /\ \A j \in 1..(2 - 1) : ~has(Precedence[j])
        BY <2>2, <3>2
      <4>2. QED
        BY <4>1
    <3>3. CASE ~has("MoveNode") /\ ~has("AddEdge") /\ has("DeleteEdge")
      <4>1. 3 \in DOMAIN Precedence /\ has(Precedence[3]) /\ \A j \in 1..(3 - 1) : ~has(Precedence[j])
        BY <2>2, <3>3
      <4>2. QED
        BY <4>1
    <3>4. CASE ~has("MoveNode") /\ ~has("AddEdge") /\ ~has("DeleteEdge") /\ has("UpdateNode")
      <4>1. 4 \in DOMAIN Precedence /\ has(Precedence[4]) /\ \A j \in 1..(4 - 1) : ~has(Precedence[j])
        BY <2>2, <3>4
      <4>2. QED
        BY <4>1
    <3>5. CASE /\ ~has("MoveNode") /\ ~has("AddEdge") /\ ~has("DeleteEdge")
               /\ ~has("UpdateNode") /\ has("UpdateEdge")
      <4>1. 5 \in DOMAIN Precedence /\ has(Precedence[5]) /\ \A j \in 1..(5 - 1) : ~has(Precedence[j])
        BY <2>2, <3>5
      <4>2. QED
        BY <4>1
    <3>6. QED
      BY <2>1, <3>1, <3>2, <3>3, <3>4, <3>5
  <2>4. first \in 1..5 /\ has(Precedence[first])
    BY <2>2, <2>3
  <2>5. Resolve(q, r) = <<Latest(q, r, Precedence[first])>>
    BY <1>1, <1>3
  <2> HIDE DEF first
  <2>6. Precedence[first] \in {"MoveNode", "AddEdge", "DeleteEdge", "UpdateNode", "UpdateEdge"}
    BY <2>2, <2>4
  <2>7. QED
    BY <1>3, <2>4, <2>5, <2>6 DEF has
<1>4. QED
  BY <1>2, <1>3

(* What is sent for an element is at most two of its commands, and two     *)
(* only when a node is added and placed.                                   *)
LEMMA ResolveFacts ==
  ASSUME NEW q \in Seq(Commands), NEW r \in Refs, OnRef(q, r) # {}
  PROVE  /\ Resolve(q, r) \in Seq(Commands)
         /\ Len(Resolve(q, r)) \in 0..2
         /\ \A k \in DOMAIN Resolve(q, r) : \E i \in OnRef(q, r) : Resolve(q, r)[k] = q[i]
         /\ Len(Resolve(q, r)) = 2 =>
              Resolve(q, r)[1].type = "AddNode" /\ Resolve(q, r)[2].type = "MoveNode"
<1>1. ASSUME NEW t, OfType(q, r, t) # {}
      PROVE  /\ Latest(q, r, t) \in Commands /\ Latest(q, r, t).type = t
             /\ \E i \in OnRef(q, r) : Latest(q, r, t) = q[i]
  BY <1>1, LatestFacts, QueueFacts DEF OfType, OnRef
<1>2. CASE Resolve(q, r) = <<>>
  BY <1>2
<1>3. CASE /\ OfType(q, r, "AddNode") # {} /\ OfType(q, r, "MoveNode") # {}
           /\ Resolve(q, r) = <<Latest(q, r, "AddNode"), Latest(q, r, "MoveNode")>>
  BY <1>1, <1>3
<1>4. ASSUME NEW t, OfType(q, r, t) # {}, Resolve(q, r) = <<Latest(q, r, t)>>
      PROVE  /\ Resolve(q, r) \in Seq(Commands)
             /\ Len(Resolve(q, r)) = 1
             /\ \A k \in DOMAIN Resolve(q, r) : \E i \in OnRef(q, r) : Resolve(q, r)[k] = q[i]
  BY <1>1, <1>4
<1>5. QED
  BY <1>2, <1>3, <1>4, ResolveKinds

(* Of an element that is kept whole everything is sent but earlier moves.  *)
LEMMA ResolveKeeps ==
  ASSUME NEW q \in Seq(Commands), NEW r \in Refs, KeptWhole(q, r), NEW i \in OnRef(q, r)
  PROVE  \E k \in DOMAIN Resolve(q, r), j \in OnRef(q, r) :
           /\ j >= i /\ Resolve(q, r)[k] = q[j]
           /\ j = i \/ (q[i].type = "MoveNode" /\ q[j].type = "MoveNode")
<1>a. i \in OfType(q, r, q[i].type) /\ q[i] \in Commands /\ i \in Nat
  BY QueueFacts DEF OfType, OnRef
<1>1. CASE \A a, b \in OnRef(q, r) : a = b
  <2>1. \A t : OfType(q, r, t) # {} => OfType(q, r, t) = {i} /\ t = q[i].type
    BY <1>1 DEF OfType
  <2>2. \A t : OfType(q, r, t) # {} => Latest(q, r, t) = q[i]
    BY <2>1, LatestFacts
  <2>3. PICK t : OfType(q, r, t) # {} /\ Resolve(q, r) = <<Latest(q, r, t)>>
    BY <2>1, ResolveKinds
  <2>4. Resolve(q, r) = <<q[i]>>
    BY <2>2, <2>3
  <2>5. 1 \in DOMAIN Resolve(q, r) /\ Resolve(q, r)[1] = q[i] /\ i >= i
    BY <1>a, <2>4
  <2>6. QED
    BY <2>5, Zenon
<1>2. CASE \A a \in OnRef(q, r) :
             \/ q[a].type = "MoveNode"
             \/ q[a].type = "AddNode" /\ \A b \in OnRef(q, r) : a <= b
  <2>1. \A t : t \notin {"MoveNode", "AddNode"} => OfType(q, r, t) = {}
    BY <1>2 DEF OfType
  <2>2. \A a, b \in OfType(q, r, "AddNode") : a = b
    <3>1. \A a \in OnRef(q, r) : a \in Nat
      BY QueueFacts DEF OnRef
    <3>2. QED
      BY <1>2, <3>1 DEF OfType
  <2>3. CASE q[i].type = "AddNode"
    <3>1. OfType(q, r, "AddNode") # {}
      BY <1>a, <2>3
    <3>2. Latest(q, r, "AddNode") = q[i]
      BY <1>a, <2>2, <2>3, <3>1, LatestFacts
    <3>3. Resolve(q, r)[1] = q[i] /\ 1 \in DOMAIN Resolve(q, r) /\ i >= i
      BY <1>a, <2>1, <3>1, <3>2, ResolveKinds
    <3>4. QED
      BY <3>3, Zenon
  <2>4. CASE q[i].type = "MoveNode"
    <3>1. OfType(q, r, "MoveNode") # {}
      BY <1>a, <2>4
    <3>2. PICK j \in OfType(q, r, "MoveNode") :
            Latest(q, r, "MoveNode") = q[j] /\ \A m \in OfType(q, r, "MoveNode") : m <= j
      BY <3>1, LatestFacts
    <3>3. \E k \in DOMAIN Resolve(q, r) : Resolve(q, r)[k] = q[j]
      <4>1. CASE OfType(q, r, "AddNode") # {}
        <5>1. Resolve(q, r) = <<Latest(q, r, "AddNode"), Latest(q, r, "MoveNode")>>
          BY <2>1, <3>1, <4>1, ResolveKinds
        <5>2. 2 \in DOMAIN Resolve(q, r) /\ Resolve(q, r)[2] = q[j]
          BY <3>2, <5>1
        <5>3. QED
          BY <5>2
      <4>2. CASE OfType(q, r, "AddNode") = {}
        <5>1. Resolve(q, r) = <<Latest(q, r, "MoveNode")>>
          BY <2>1, <3>1, <4>2, ResolveKinds
        <5>2. 1 \in DOMAIN Resolve(q, r) /\ Resolve(q, r)[1] = q[j]
          BY <3>2, <5>1
        <5>3. QED
          BY <5>2
      <4>3. QED
        BY <4>1, <4>2
    <3>4. j >= i /\ j \in OnRef(q, r) /\ q[j].type = "MoveNode"
      BY <1>a, <2>4, <3>2, QueueFacts DEF OfType, OnRef
    <3>5. QED
      BY <2>4, <3>3, <3>4
  <2>5. QED
    BY <1>2, <2>3, <2>4
<1>3. QED
  BY <1>1, <1>2, Zenon DEF KeptWhole

(* The function on which Ready recurses.                                   *)
FirstOn(s, i) == \A j \in 1..(i - 1) : s[j].ref # s[i].ref
IsChoosing(f, s, refs, n) ==
  f = [i \in 0..n |->
         IF i = 0 THEN <<>>
         ELSE IF s[i].ref \in refs /\ FirstOn(s, i) THEN f[i - 1] \o Resolve(s, s[i].ref)
         ELSE f[i - 1]]
Choosing(s, refs) ==
  CHOOSE f : f = [i \in 0..Len(s) |->
         IF i = 0 THEN <<>>
         ELSE IF s[i].ref \in refs /\ FirstOn(s, i) THEN f[i - 1] \o Resolve(s, s[i].ref)
         ELSE f[i - 1]]

(* What is sent is the last value of that function.                        *)
LEMMA ReadyIsLastChoice ==
  ASSUME NEW s, NEW refs
  PROVE  Ready(s, refs) = Choosing(s, refs)[Len(s)]
BY Zenon DEF Ready, Choosing, FirstOn

(* There is such a function, for any number of places.                     *)
LEMMA ChoosingExists ==
  ASSUME NEW s, NEW refs, NEW n \in Nat
  PROVE  \E f : IsChoosing(f, s, refs, n)
<1> DEFINE Has(k) == \E f : IsChoosing(f, s, refs, k)
           T == {k \in 0..n : ~Has(k)}
<1>1. SUFFICES ASSUME T # {} PROVE FALSE
  <2>1. n \in 0..n
    OBVIOUS
  <2>2. QED
    BY <2>1
<1>2. PICK m \in T : \A k \in T : m <= k
  <2>1. T \subseteq Nat
    OBVIOUS
  <2> HIDE DEF T
  <2>2. QED
    BY <1>1, <2>1, LeastElement
<1>3. Has(0)
  <2> DEFINE g == [i \in 0..0 |-> <<>>]
  <2>1. \A i \in 0..0 : i = 0
    OBVIOUS
  <2>2. IsChoosing(g, s, refs, 0)
    BY <2>1 DEF IsChoosing
  <2>3. QED
    BY <2>2
<1>4. m \in 1..n /\ m - 1 \in 0..n /\ m - 1 \notin T
  <2> HIDE DEF Has
  <2>1. m \in 0..n /\ m # 0
    BY <1>3
  <2>2. QED
    BY <1>2, <2>1
<1>5. PICK f : IsChoosing(f, s, refs, m - 1)
  BY <1>4
<1> DEFINE last == IF s[m].ref \in refs /\ FirstOn(s, m) THEN f[m - 1] \o Resolve(s, s[m].ref)
                   ELSE f[m - 1]
           g == [i \in 0..m |-> IF i = m THEN last ELSE f[i]]
<1>6. IsChoosing(g, s, refs, m)
  <2>1. ASSUME NEW i \in 0..m
        PROVE  g[i] = IF i = 0 THEN <<>>
                      ELSE IF s[i].ref \in refs /\ FirstOn(s, i)
                        THEN g[i - 1] \o Resolve(s, s[i].ref)
                      ELSE g[i - 1]
    <3>1. CASE i = m
      <4>1. g[m] = last /\ g[m - 1] = f[m - 1] /\ m # 0
        BY <1>4
      <4>2. QED
        BY <3>1, <4>1
    <3>2. CASE i # m
      <4>1. i \in 0..(m - 1) /\ (i # 0 => i - 1 \in 0..(m - 1))
        BY <3>2, <1>4
      <4>2. f[i] = IF i = 0 THEN <<>>
                   ELSE IF s[i].ref \in refs /\ FirstOn(s, i)
                     THEN f[i - 1] \o Resolve(s, s[i].ref)
                   ELSE f[i - 1]
        BY <4>1, <1>5, Zenon DEF IsChoosing
      <4>3. g[i] = f[i] /\ (i # 0 => g[i - 1] = f[i - 1])
        BY <4>1, <3>2, <1>4
      <4> HIDE DEF g, last
      <4>4. QED
        BY <4>2, <4>3
    <3>3. QED
      BY <3>1, <3>2
  <2>2. g = [i \in 0..m |-> g[i]]
    OBVIOUS
  <2> HIDE DEF g, last
  <2>3. QED
    BY <2>1, <2>2, Zenon DEF IsChoosing
<1>8. Has(m)
  <2> HIDE DEF g, last
  <2>1. QED
    BY <1>6
<1>9. QED
  BY <1>2, <1>8

(* So the function on which Ready recurses is what its definition says.    *)
LEMMA ChoosingDefined ==
  ASSUME NEW s, NEW refs, Len(s) \in Nat
  PROVE  IsChoosing(Choosing(s, refs), s, refs, Len(s))
<1>1. PICK f : IsChoosing(f, s, refs, Len(s))
  BY ChoosingExists
<1>2. QED
  BY <1>1, Zenon DEF Choosing, IsChoosing

(* What has been chosen of the first n commands: everything that is to be  *)
(* sent of their elements, and of each at most its addition and its place. *)
IsChoiceOf(out, s, refs, n) ==
  /\ out \in Seq(Commands)
  /\ \A k \in DOMAIN out :
       /\ out[k].ref \in refs
       /\ \E j \in 1..n : s[j].ref = out[k].ref
       /\ \E j \in DOMAIN s : s[j] = out[k]
  /\ \A j \in 1..n : s[j].ref \in refs =>
       \A m \in DOMAIN Resolve(s, s[j].ref) : \E k \in DOMAIN out : out[k] = Resolve(s, s[j].ref)[m]
  /\ PairsOnly(out)

(* A queue after another.                                                  *)
LEMMA JoinFacts ==
  ASSUME NEW q \in Seq(Commands), NEW u \in Seq(Commands)
  PROVE  /\ q \o u \in Seq(Commands) /\ Len(q \o u) = Len(q) + Len(u)
         /\ \A i \in DOMAIN q : i \in DOMAIN (q \o u) /\ (q \o u)[i] = q[i]
         /\ \A i \in DOMAIN u : Len(q) + i \in DOMAIN (q \o u) /\ (q \o u)[Len(q) + i] = u[i]
         /\ \A i \in DOMAIN (q \o u) :
              \/ i \in DOMAIN q /\ i <= Len(q) /\ (q \o u)[i] = q[i]
              \/ /\ i > Len(q) /\ i - Len(q) \in DOMAIN u
                 /\ (q \o u)[i] = u[i - Len(q)]
BY ConcatProperties

(* A place that is the first on its element adds what is sent for it.      *)
LEMMA ChoiceGrows ==
  ASSUME NEW s \in Seq(Commands), NEW refs, NEW n \in 1..Len(s), NEW out,
         IsChoiceOf(out, s, refs, n - 1), s[n].ref \in refs, FirstOn(s, n)
  PROVE  IsChoiceOf(out \o Resolve(s, s[n].ref), s, refs, n)
<1> DEFINE r == s[n].ref
           add == Resolve(s, r)
           all == out \o add
<1>0. n \in DOMAIN s /\ s[n] \in Commands /\ n \in Nat
  BY QueueFacts
<1>1. r \in Refs /\ n \in OnRef(s, r)
  BY <1>0, CommandFacts DEF OnRef
<1>2. /\ out \in Seq(Commands) /\ add \in Seq(Commands) /\ Len(add) \in 0..2
      /\ \A k \in DOMAIN add : add[k].ref = r /\ \E j \in DOMAIN s : s[j] = add[k]
      /\ Len(add) = 2 => add[1].type = "AddNode" /\ add[2].type = "MoveNode"
  <2>1. \A i \in OnRef(s, r) : i \in DOMAIN s /\ s[i].ref = r
    BY DEF OnRef
  <2> HIDE DEF r
  <2>2. QED
    BY <1>1, <2>1, ResolveFacts DEF IsChoiceOf
<1>3. \A k \in DOMAIN out : out[k].ref # r
  <2>1. \A k \in DOMAIN out : \E j \in 1..(n - 1) : s[j].ref = out[k].ref
    BY DEF IsChoiceOf
  <2>2. QED
    BY <2>1 DEF FirstOn
<1> HIDE DEF add
<1>j. /\ all \in Seq(Commands) /\ Len(all) = Len(out) + Len(add)
      /\ \A i \in DOMAIN out : i \in DOMAIN all /\ all[i] = out[i]
      /\ \A i \in DOMAIN add : Len(out) + i \in DOMAIN all /\ all[Len(out) + i] = add[i]
      /\ \A i \in DOMAIN all :
           \/ i \in DOMAIN out /\ i <= Len(out) /\ all[i] = out[i]
           \/ i > Len(out) /\ i - Len(out) \in DOMAIN add /\ all[i] = add[i - Len(out)]
  BY <1>2, JoinFacts
<1> HIDE DEF all
<1>4. ASSUME NEW k \in DOMAIN all
      PROVE  /\ all[k].ref \in refs
             /\ \E j \in 1..n : s[j].ref = all[k].ref
             /\ \E j \in DOMAIN s : s[j] = all[k]
  <2>1. CASE k \in DOMAIN out /\ all[k] = out[k]
    <3>1. /\ out[k].ref \in refs /\ \E j \in 1..(n - 1) : s[j].ref = out[k].ref
          /\ \E j \in DOMAIN s : s[j] = out[k]
      BY <2>1 DEF IsChoiceOf
    <3>2. QED
      BY <1>0, <2>1, <3>1
  <2>2. CASE k - Len(out) \in DOMAIN add /\ all[k] = add[k - Len(out)]
    <3>1. all[k].ref = s[n].ref /\ \E j \in DOMAIN s : s[j] = all[k]
      BY <1>2, <2>2
    <3>2. n \in 1..n
      BY <1>0
    <3>3. QED
      BY <3>1, <3>2
  <2>3. QED
    BY <1>j, <2>1, <2>2
<1>5. ASSUME NEW j \in 1..n, s[j].ref \in refs, NEW m \in DOMAIN Resolve(s, s[j].ref)
      PROVE  \E k \in DOMAIN all : all[k] = Resolve(s, s[j].ref)[m]
  <2>1. CASE s[j].ref = r
    <3>1. m \in DOMAIN add /\ Resolve(s, s[j].ref)[m] = add[m]
      BY <1>5, <2>1 DEF add
    <3>2. QED
      BY <1>j, <3>1
  <2>2. CASE s[j].ref # r
    <3>1. j \in 1..(n - 1)
      BY <1>0, <2>2
    <3>2. \E k \in DOMAIN out : out[k] = Resolve(s, s[j].ref)[m]
      BY <1>5, <3>1 DEF IsChoiceOf
    <3>3. QED
      BY <1>j, <3>2
  <2>3. QED
    BY <2>1, <2>2
<1>6. ASSUME NEW i \in DOMAIN all, NEW j \in DOMAIN all, i < j, all[i].ref = all[j].ref
      PROVE  j = i + 1 /\ all[i].type = "AddNode" /\ all[j].type = "MoveNode"
  <2>1. Len(out) \in Nat /\ i \in Nat /\ j \in Nat
    BY <1>2, <1>j, QueueFacts
  <2>2. CASE i \in DOMAIN out /\ j \in DOMAIN out
    <3>1. out[i].ref = out[j].ref /\ all[i] = out[i] /\ all[j] = out[j] /\ PairsOnly(out)
      BY <1>j, <1>6, <2>2 DEF IsChoiceOf
    <3>2. QED
      BY <1>6, <2>2, <3>1 DEF PairsOnly
  <2>3. CASE i \in DOMAIN out /\ j \notin DOMAIN out
    BY <1>2, <1>3, <1>j, <1>6, <2>3
  <2>4. CASE i \notin DOMAIN out
    <3>1. i \in Len(out)+1 .. Len(out) + Len(add) /\ j \in Len(out)+1 .. Len(out) + Len(add)
      BY <1>2, <1>j, <1>6, <2>1, <2>4, QueueFacts
    <3>2. Len(add) = 2 /\ i = Len(out) + 1 /\ j = Len(out) + 2
      BY <1>2, <1>6, <2>1, <3>1
    <3>3. i - Len(out) = 1 /\ j - Len(out) = 2
      BY <2>1, <3>2
    <3>4. all[i] = add[1] /\ all[j] = add[2]
      BY <1>2, <1>j, <2>1, <3>2, <3>3, QueueFacts
    <3>5. QED
      BY <1>2, <2>1, <3>2, <3>4
  <2>5. QED
    BY <2>2, <2>3, <2>4
<1>8. QED
  <2> HIDE DEF r
  <2>1. IsChoiceOf(all, s, refs, n)
    BY <1>4, <1>5, <1>6, <1>j DEF IsChoiceOf, PairsOnly
  <2>2. QED
    BY <2>1 DEF all, add, r

(* Any other place adds nothing.                                           *)
LEMMA ChoiceStays ==
  ASSUME NEW s \in Seq(Commands), NEW refs, NEW n \in 1..Len(s), NEW out,
         IsChoiceOf(out, s, refs, n - 1), ~(s[n].ref \in refs /\ FirstOn(s, n))
  PROVE  IsChoiceOf(out, s, refs, n)
<1>0. n \in Nat /\ n - 1 \in Nat /\ \A j \in 1..(n - 1) : j \in 1..n
  BY QueueFacts
<1>1. ASSUME NEW j \in 1..n, s[j].ref \in refs
      PROVE  \E i \in 1..(n - 1) : s[i].ref = s[j].ref
  <2>1. CASE j = n
    BY <1>1, <2>1, Zenon DEF FirstOn
  <2>2. CASE j # n
    <3>1. j \in 1..(n - 1)
      BY <1>0, <2>2
    <3>2. QED
      BY <3>1
  <2>3. QED
    BY <2>1, <2>2
<1>2. ASSUME NEW j \in 1..n, s[j].ref \in refs, NEW m \in DOMAIN Resolve(s, s[j].ref)
      PROVE  \E k \in DOMAIN out : out[k] = Resolve(s, s[j].ref)[m]
  <2>1. PICK i \in 1..(n - 1) : s[i].ref = s[j].ref
    BY <1>1, <1>2
  <2>2. m \in DOMAIN Resolve(s, s[i].ref) /\ s[i].ref \in refs
    BY <1>2, <2>1
  <2>3. \E k \in DOMAIN out : out[k] = Resolve(s, s[i].ref)[m]
    BY <2>1, <2>2 DEF IsChoiceOf
  <2>4. QED
    BY <2>1, <2>3
<1>3. ASSUME NEW k \in DOMAIN out
      PROVE  /\ out[k].ref \in refs
             /\ \E j \in 1..n : s[j].ref = out[k].ref
             /\ \E j \in DOMAIN s : s[j] = out[k]
  BY <1>0 DEF IsChoiceOf
<1>4. QED
  BY <1>2, <1>3 DEF IsChoiceOf

(* What is sent are commands of the queue, in pairs only where a node is   *)
(* added and placed.                                                       *)
LEMMA ReadyFacts ==
  ASSUME NEW s \in Seq(Commands), NEW refs
  PROVE  IsChoiceOf(Ready(s, refs), s, refs, Len(s))
<1>0. Len(s) \in Nat
  BY QueueFacts
<1> DEFINE f == Choosing(s, refs)
           T == {k \in 0..Len(s) : ~IsChoiceOf(f[k], s, refs, k)}
<1>1. \A i \in 0..Len(s) :
        f[i] = IF i = 0 THEN <<>>
               ELSE IF s[i].ref \in refs /\ FirstOn(s, i) THEN f[i - 1] \o Resolve(s, s[i].ref)
               ELSE f[i - 1]
  <2>1. IsChoosing(f, s, refs, Len(s))
    BY <1>0, ChoosingDefined
  <2> HIDE DEF f
  <2>2. QED
    BY <2>1, Zenon DEF IsChoosing
<1> HIDE DEF f
<1>2. SUFFICES ASSUME T # {} PROVE FALSE
  <2>1. Len(s) \in 0..Len(s)
    BY <1>0
  <2>2. QED
    BY <2>1, ReadyIsLastChoice DEF f
<1>3. PICK m \in T : \A k \in T : m <= k
  <2>1. T \subseteq Nat
    BY <1>0
  <2> HIDE DEF T
  <2>2. QED
    BY <1>2, <2>1, LeastElement
<1>4. IsChoiceOf(f[0], s, refs, 0)
  <2>1. f[0] = <<>>
    BY <1>0, <1>1
  <2>2. \A j \in 1..0 : FALSE
    OBVIOUS
  <2>3. QED
    BY <2>1, <2>2 DEF IsChoiceOf, PairsOnly
<1>5. m \in 1..Len(s) /\ m - 1 \in 0..Len(s) /\ m - 1 \notin T
  <2>1. m \in 0..Len(s) /\ m # 0
    BY <1>4
  <2>2. QED
    BY <1>0, <1>3, <2>1
<1>6. IsChoiceOf(f[m - 1], s, refs, m - 1)
  BY <1>5
<1>7. IsChoiceOf(f[m], s, refs, m)
  <2>1. CASE s[m].ref \in refs /\ FirstOn(s, m)
    <3>1. f[m] = f[m - 1] \o Resolve(s, s[m].ref)
      <4>1. m \in 0..Len(s) /\ m # 0
        BY <1>5
      <4>2. QED
        BY <1>1, <2>1, <4>1, Zenon
    <3>2. QED
      BY <1>5, <1>6, <2>1, <3>1, ChoiceGrows
  <2>2. CASE ~(s[m].ref \in refs /\ FirstOn(s, m))
    <3>1. f[m] = f[m - 1]
      BY <1>1, <1>5, <2>2
    <3>2. QED
      BY <1>5, <1>6, <2>2, <3>1, ChoiceStays
  <2>3. QED
    BY <2>1, <2>2
<1>8. QED
  BY <1>3, <1>7

(* What is sent, all together: nodes before lines.                         *)
LEMMA BatchFacts ==
  ASSUME NEW s \in Seq(Commands)
  PROVE  /\ Batch(s) \in Seq(Commands) /\ PairsOnly(Batch(s))
         /\ \A k \in DOMAIN Batch(s) : \E j \in DOMAIN s : s[j] = Batch(s)[k]
         /\ \A j \in DOMAIN s : \A m \in DOMAIN Resolve(s, s[j].ref) :
              \E k \in DOMAIN Batch(s) : Batch(s)[k] = Resolve(s, s[j].ref)[m]
         /\ \A k, l \in DOMAIN Batch(s) :
              Batch(s)[k].ref \in Nodes /\ Batch(s)[l].ref \in Lines => k < l
<1> DEFINE p == Ready(s, Nodes)
           q == Ready(s, Lines)
           b == Batch(s)
<1>1. IsChoiceOf(p, s, Nodes, Len(s)) /\ IsChoiceOf(q, s, Lines, Len(s))
  BY ReadyFacts
<1>2. /\ p \in Seq(Commands) /\ q \in Seq(Commands) /\ PairsOnly(p) /\ PairsOnly(q)
      /\ \A k \in DOMAIN p : p[k].ref \in Nodes
      /\ \A k \in DOMAIN q : q[k].ref \in Lines
      /\ Nodes \cap Lines = {} /\ Len(p) \in Nat
  BY <1>1, EditorAssumption, QueueFacts DEF IsChoiceOf
<1>3. b = p \o q
  BY DEF Batch
<1> HIDE DEF p, q, b
<1>4. /\ b \in Seq(Commands) /\ Len(b) = Len(p) + Len(q)
      /\ \A i \in DOMAIN p : i \in DOMAIN b /\ b[i] = p[i]
      /\ \A i \in DOMAIN q : Len(p) + i \in DOMAIN b /\ b[Len(p) + i] = q[i]
      /\ \A i \in DOMAIN b :
           \/ i \in DOMAIN p /\ i <= Len(p) /\ b[i] = p[i]
           \/ i > Len(p) /\ i - Len(p) \in DOMAIN q /\ b[i] = q[i - Len(p)]
  BY <1>2, <1>3, JoinFacts
<1>5. \A k \in DOMAIN b : b[k].ref \in Nodes => k \in DOMAIN p /\ k <= Len(p) /\ b[k] = p[k]
  BY <1>2, <1>4
<1>6. \A k \in DOMAIN b : b[k].ref \in Lines =>
        k > Len(p) /\ k - Len(p) \in DOMAIN q /\ b[k] = q[k - Len(p)]
  BY <1>2, <1>4
<1>7. \A k \in DOMAIN b : \E j \in DOMAIN s : s[j] = b[k]
  <2>1. \A k \in DOMAIN p : \E j \in DOMAIN s : s[j] = p[k]
    BY <1>1 DEF IsChoiceOf
  <2>2. \A k \in DOMAIN q : \E j \in DOMAIN s : s[j] = q[k]
    BY <1>1 DEF IsChoiceOf
  <2>3. QED
    BY <1>4, <2>1, <2>2
<1>8. ASSUME NEW j \in DOMAIN s, NEW m \in DOMAIN Resolve(s, s[j].ref)
      PROVE  \E k \in DOMAIN b : b[k] = Resolve(s, s[j].ref)[m]
  <2>1. j \in 1..Len(s) /\ s[j].ref \in Nodes \cup Lines
    BY QueueFacts, CommandFacts DEF Refs
  <2>2. CASE s[j].ref \in Nodes
    <3>1. \E k \in DOMAIN p : p[k] = Resolve(s, s[j].ref)[m]
      BY <1>1, <1>8, <2>1, <2>2 DEF IsChoiceOf
    <3>2. QED
      BY <1>4, <3>1
  <2>3. CASE s[j].ref \in Lines
    <3>1. \E k \in DOMAIN q : q[k] = Resolve(s, s[j].ref)[m]
      BY <1>1, <1>8, <2>1, <2>3 DEF IsChoiceOf
    <3>2. QED
      BY <1>4, <3>1
  <2>4. QED
    BY <2>1, <2>2, <2>3
<1>9. \A k, l \in DOMAIN b : b[k].ref \in Nodes /\ b[l].ref \in Lines => k < l
  <2>1. \A k \in DOMAIN b : k \in Nat
    BY <1>4, QueueFacts
  <2>2. QED
    BY <1>2, <1>5, <1>6, <2>1
<1>10. ASSUME NEW i \in DOMAIN b, NEW j \in DOMAIN b, i < j, b[i].ref = b[j].ref
       PROVE  j = i + 1 /\ b[i].type = "AddNode" /\ b[j].type = "MoveNode"
  <2>1. i \in Nat /\ j \in Nat
    BY <1>4, QueueFacts
  <2>2. b[i].ref \in Nodes \cup Lines
    <3>1. b[i] \in Commands
      BY <1>4, QueueFacts
    <3>2. QED
      BY <3>1, CommandFacts DEF Refs
  <2>3. CASE b[i].ref \in Nodes
    <3>1. /\ i \in DOMAIN p /\ j \in DOMAIN p /\ b[i] = p[i] /\ b[j] = p[j]
          /\ p[i].ref = p[j].ref
      BY <1>5, <1>10, <2>3
    <3>2. QED
      BY <1>2, <1>10, <3>1 DEF PairsOnly
  <2>4. CASE b[i].ref \in Lines
    <3>1. /\ i - Len(p) \in DOMAIN q /\ j - Len(p) \in DOMAIN q
          /\ b[i] = q[i - Len(p)] /\ b[j] = q[j - Len(p)]
          /\ q[i - Len(p)].ref = q[j - Len(p)].ref
      BY <1>6, <1>10, <2>4
    <3>2. i - Len(p) < j - Len(p)
      BY <1>2, <1>10, <2>1
    <3>3. j - Len(p) = (i - Len(p)) + 1 /\ b[i].type = "AddNode" /\ b[j].type = "MoveNode"
      BY <1>2, <3>1, <3>2 DEF PairsOnly
    <3>4. QED
      BY <1>2, <2>1, <3>3
  <2>5. QED
    BY <2>2, <2>3, <2>4
<1>11. PairsOnly(b)
  BY <1>10 DEF PairsOnly
<1>12. QED
  BY <1>4, <1>7, <1>8, <1>9, <1>11 DEF b

(* What is queued and not given up is sent, but for earlier moves.         *)
LEMMA BatchKeeps ==
  ASSUME NEW s \in Seq(Commands), NEW j \in DOMAIN s, ~(Touches(s[j]) \subseteq GivenUp(s))
  PROVE  /\ KeptWhole(s, s[j].ref)
         /\ \E k \in DOMAIN Batch(s), i \in DOMAIN s :
              /\ i >= j /\ Batch(s)[k] = s[i] /\ s[i].ref = s[j].ref
              /\ i = j \/ (s[j].type = "MoveNode" /\ s[i].type = "MoveNode")
<1>1. KeptWhole(s, s[j].ref)
  BY DEF GivenUp
<1>2. s[j].ref \in Refs /\ j \in OnRef(s, s[j].ref)
  BY QueueFacts, CommandFacts DEF OnRef
<1>3. PICK m \in DOMAIN Resolve(s, s[j].ref), i \in OnRef(s, s[j].ref) :
        /\ i >= j /\ Resolve(s, s[j].ref)[m] = s[i]
        /\ i = j \/ (s[j].type = "MoveNode" /\ s[i].type = "MoveNode")
  BY <1>1, <1>2, ResolveKeeps
<1>4. PICK k \in DOMAIN Batch(s) : Batch(s)[k] = Resolve(s, s[j].ref)[m]
  <2>1. \A j1 \in DOMAIN s : \A m1 \in DOMAIN Resolve(s, s[j1].ref) :
              \E k \in DOMAIN Batch(s) : Batch(s)[k] = Resolve(s, s[j1].ref)[m1]
    BY BatchFacts
  <2>2. \A m1 \in DOMAIN Resolve(s, s[j].ref) :
              \E k \in DOMAIN Batch(s) : Batch(s)[k] = Resolve(s, s[j].ref)[m1]
    BY <2>1
  <2>3. QED
    BY <1>3, <2>2
<1>5. i \in DOMAIN s /\ s[i].ref = s[j].ref
  BY <1>3 DEF OnRef
<1>6. QED
  BY <1>1, <1>3, <1>4, <1>5, Zenon

-----------------------------------------------------------------------------
(* The types.                                                              *)

(* The elements a canvas or a design holds.                                *)
Shown(v) == {r \in Refs : v[r] # Absent}

(* What the types say, one by one.                                         *)
LEMMA EditorTypes ==
  ASSUME EditorTypeOK
  PROVE  /\ canvas \in Items /\ base \in Items \cup {Unknown}
         /\ designId \in Designs \cup {NoDesign} /\ loaded \in Designs \cup {NoDesign}
         /\ designId # NoDesign => stored[designId].status # "none"
         /\ editMode \in BOOLEAN /\ ready \in BOOLEAN
         /\ applied \in Seq(Commands) /\ undone \in Seq(Commands) /\ pending \in Seq(Commands)
         /\ stored \in [Designs -> [status : {"none", "DRAFT", "ARCHIVED"}, items : Items]]
         /\ \A d \in Designs : stored[d].items \in Items
         /\ fetched # NoDesign =>
              /\ fetched \in [design : Designs, items : Items]
              /\ stored[fetched.design].status # "none"
         /\ edits \in 0..MaxEdits /\ turns \in 0..MaxEvents
         /\ known \subseteq Refs /\ forgotten \subseteq Refs
         /\ SaveOK
BY DEF EditorTypeOK

(* What a save under way holds.                                            *)
LEMMA SaveTypes ==
  ASSUME SaveOK, Saving
  PROVE  /\ save.stage \in {"create", "send", "sketch"}
         /\ save.design \in Designs \cup {NoDesign} /\ save.todo \in Seq(Commands)
         /\ save.sent \in {0, 1} /\ save.items \in Items /\ save.late \subseteq Refs
         /\ save.leaving \in BOOLEAN /\ PairsOnly(save.todo)
         /\ save.stage = "create" <=> save.design = NoDesign
         /\ save.stage = "send" =>
              save.todo # <<>> /\ save.design \in Designs /\ stored[save.design].status # "none"
         /\ save.stage = "sketch" => save.todo = <<>> /\ save.design \in Designs
         /\ save.design # NoDesign => stored[save.design].status # "none"
         /\ save.sent = 1 =>
              /\ save.stage = "send" /\ Len(save.todo) > 1
              /\ save.todo[1].ref = save.todo[2].ref
         /\ DOMAIN save = {"stage", "design", "todo", "sent", "items", "late", "leaving"}
BY DEF SaveOK, Saves

(* The empty canvas is a canvas.                                           *)
LEMMA EmptyItems == Empty \in Items
BY EditorAssumption DEF Empty, Items, Refs

(* What a queue touches is what its commands touch.                        *)
LEMMA TouchedFacts ==
  ASSUME NEW q \in Seq(Commands)
  PROVE  /\ TouchedBy(q) \subseteq Refs
         /\ \A i \in DOMAIN q : Touches(q[i]) \subseteq TouchedBy(q)
         /\ \A r \in TouchedBy(q) : \E i \in DOMAIN q : r \in Touches(q[i])
<1>1. ToSet(q) = {q[i] : i \in DOMAIN q}
  BY DEF ToSet
<1>2. QED
  BY <1>1, QueueFacts, CommandFacts DEF TouchedBy

(* What a flush gives up are elements.                                     *)
LEMMA GivenUpFacts ==
  ASSUME NEW q \in Seq(Commands)
  PROVE  GivenUp(q) \subseteq Refs
BY QueueFacts, CommandFacts DEF GivenUp

(* The last and the others.                                                *)
LEMMA FrontFacts ==
  ASSUME NEW q \in Seq(Commands), q # <<>>
  PROVE  /\ Front(q) \in Seq(Commands) /\ Last(q) \in Commands
         /\ Len(q) >= 1 /\ Last(q) = q[Len(q)] /\ Len(q) \in DOMAIN q
         /\ Len(Front(q)) = Len(q) - 1
         /\ \A i \in DOMAIN Front(q) : i \in DOMAIN q /\ Front(q)[i] = q[i]
         /\ \A i \in DOMAIN q : i = Len(q) \/ i \in DOMAIN Front(q)
<1>1. Len(q) \in Nat /\ Len(q) >= 1 /\ DOMAIN q = 1..Len(q)
  BY EmptySeq, QueueFacts
<1>2. \A i \in 1..(Len(q) - 1) : i \in DOMAIN q /\ q[i] \in Commands
  BY <1>1, QueueFacts
<1>3. /\ Front(q) \in Seq(Commands) /\ Len(Front(q)) = Len(q) - 1
      /\ \A i \in 1..(Len(q) - 1) : Front(q)[i] = q[i]
  BY <1>1, <1>2, SubSeqProperties DEF Front
<1>4. DOMAIN Front(q) = 1..(Len(q) - 1)
  BY <1>3, QueueFacts
<1>5. Last(q) = q[Len(q)] /\ Len(q) \in DOMAIN q
  BY <1>1 DEF Last
<1>6. QED
  BY <1>1, <1>2, <1>3, <1>4, <1>5, QueueFacts

(* A queue without its first command.                                      *)
LEMMA TailFacts ==
  ASSUME NEW q \in Seq(Commands), q # <<>>
  PROVE  /\ Tail(q) \in Seq(Commands) /\ Head(q) \in Commands
         /\ Len(q) >= 1 /\ Head(q) = q[1] /\ 1 \in DOMAIN q
         /\ Len(Tail(q)) = Len(q) - 1
         /\ \A i \in DOMAIN Tail(q) : i + 1 \in DOMAIN q /\ Tail(q)[i] = q[i + 1]
         /\ \A i \in DOMAIN q : i = 1 \/ i - 1 \in DOMAIN Tail(q)
<1>1. Len(q) \in Nat /\ Len(q) >= 1 /\ DOMAIN q = 1..Len(q)
  BY EmptySeq, QueueFacts
<1>2. /\ Head(q) \in Commands /\ Tail(q) \in Seq(Commands) /\ Len(Tail(q)) = Len(q) - 1
      /\ \A i \in 1..Len(Tail(q)) : Tail(q)[i] = q[i + 1]
  BY HeadTailProperties
<1>3. QED
  BY <1>1, <1>2, QueueFacts

(* A queue with one more command.                                          *)
LEMMA AppendFacts ==
  ASSUME NEW q \in Seq(Commands), NEW c \in Commands
  PROVE  /\ Append(q, c) \in Seq(Commands) /\ Len(Append(q, c)) = Len(q) + 1
         /\ \A i \in DOMAIN q : i \in DOMAIN Append(q, c) /\ Append(q, c)[i] = q[i] /\ i <= Len(q)
         /\ Len(q) + 1 \in DOMAIN Append(q, c) /\ Append(q, c)[Len(q) + 1] = c
         /\ \A i \in DOMAIN Append(q, c) :
              \/ i \in DOMAIN q /\ Append(q, c)[i] = q[i]
              \/ i = Len(q) + 1 /\ Append(q, c)[i] = c
BY AppendProperties, QueueFacts

(* Drawing hands over commands that fit the canvas.                        *)
DrawsCommand(c) ==
  /\ c \in Commands /\ Fits(c, canvas)
  /\ c.type \in Adds => c.ref \notin known
  /\ c.type \notin Adds => canvas[c.ref] # Absent

(* Drawing a node dispatches an addition that fits the canvas.             *)
LEMMA DrawNodeDispatches ==
  ASSUME EditorTypeOK, Shown(canvas) \subseteq known, NEW n \in Nodes, DrawNode(n)
  PROVE  \E c : DrawsCommand(c) /\ Dispatch(c)
<1> DEFINE c == Command("AddNode", n, Absent, [at |-> 1, label |-> 0], NoLines)
<1>1. c \in Commands
  BY DEF Command, Commands, NodeCommands, NodeItem
<1>2. n \notin known /\ canvas[n] = Absent
  BY DEF DrawNode, Fresh, Shown, Refs
<1>3. DrawsCommand(c)
  BY <1>1, <1>2 DEF Command, DrawsCommand, Fits, Adds
<1>4. QED
  BY <1>3 DEF DrawNode

(* Drawing a line dispatches an addition between ends that are shown.      *)
LEMMA DrawLineDispatches ==
  ASSUME EditorTypeOK, Shown(canvas) \subseteq known,
         NEW l \in Lines, NEW from \in Nodes, NEW to \in Nodes \cup {Waypoint},
         DrawLine(l, from, to)
  PROVE  \E c : DrawsCommand(c) /\ Dispatch(c)
<1> DEFINE c == Command("AddEdge", l, Absent, [from |-> from, to |-> to, label |-> 0], NoLines)
<1>1. c \in Commands
  BY DEF Command, Commands, LineCommands, LineItem
<1>2. l \notin known /\ canvas[l] = Absent
  BY DEF DrawLine, Fresh, Shown, Refs
<1>3. \A n \in Ends(c.new) \cap Nodes : canvas[n] # Absent
  BY DEF DrawLine, Command, Ends
<1>4. DrawsCommand(c)
  BY <1>1, <1>2, <1>3 DEF Command, DrawsCommand, Fits, Adds
<1>5. QED
  BY <1>4 DEF DrawLine

(* Dragging a node dispatches a move that fits the canvas.                 *)
LEMMA DragDispatches ==
  ASSUME EditorTypeOK, NEW n \in Nodes, Drag(n)
  PROVE  \E c : DrawsCommand(c) /\ Dispatch(c)
<1> DEFINE c == Command("MoveNode", n, canvas[n], [canvas[n] EXCEPT !.at = 1 - @], NoLines)
<1>1. canvas[n] \in NodeItem
  BY EditorTypes, ItemFacts DEF Drag
<1>2. [canvas[n] EXCEPT !.at = 1 - @] \in NodeItem
      /\ [canvas[n] EXCEPT !.at = 1 - @].label = canvas[n].label
  BY <1>1 DEF NodeItem
<1>3. c \in Commands
  BY <1>1, <1>2 DEF Command, Commands, NodeCommands
<1>4. DrawsCommand(c)
  BY <1>2, <1>3 DEF Command, DrawsCommand, Fits, Adds, Drag
<1>5. QED
  BY <1>4 DEF Drag

(* Renaming dispatches an update that fits the canvas.                     *)
LEMMA RenameDispatches ==
  ASSUME EditorTypeOK, NEW r \in Refs, Rename(r)
  PROVE  \E c : DrawsCommand(c) /\ Dispatch(c)
<1> DEFINE new == [canvas[r] EXCEPT !.label = 1 - @]
           c == Command(IF r \in Nodes THEN "UpdateNode" ELSE "UpdateEdge", r,
                        canvas[r], new, NoLines)
<1>1. CASE r \in Nodes
  <2>1. canvas[r] \in NodeItem
    BY <1>1, EditorTypes, ItemFacts DEF Rename
  <2>2. new \in NodeItem /\ new.at = canvas[r].at
    BY <2>1 DEF NodeItem
  <2> HIDE DEF new
  <2>3. c \in Commands /\ c.type = "UpdateNode"
    BY <1>1, <2>1, <2>2 DEF Command, Commands, NodeCommands
  <2>4. DrawsCommand(c)
    BY <1>1, <2>2, <2>3 DEF Command, DrawsCommand, Fits, Adds, Rename
  <2>5. QED
    BY <2>4 DEF Rename, new
<1>2. CASE r \notin Nodes
  <2>0. r \in Lines
    BY <1>2 DEF Refs
  <2>1. canvas[r] \in LineItem
    BY <2>0, EditorTypes, ItemFacts DEF Rename
  <2>2. new \in LineItem /\ SameEnds(canvas[r], new)
    BY <2>1 DEF LineItem, SameEnds
  <2> HIDE DEF new
  <2>3. c \in Commands /\ c.type = "UpdateEdge"
    BY <1>2, <2>0, <2>1, <2>2 DEF Command, Commands, LineCommands
  <2>4. DrawsCommand(c)
    BY <1>2, <2>2, <2>3 DEF Command, DrawsCommand, Fits, Adds, Rename
  <2>5. QED
    BY <2>4 DEF Rename, new
<1>3. QED
  BY <1>1, <1>2

(* Deleting dispatches a deletion with the lines the canvas shows at the   *)
(* node.                                                                   *)
LEMMA DeleteDispatches ==
  ASSUME EditorTypeOK, NEW r \in Refs, Delete(r)
  PROVE  \E c : DrawsCommand(c) /\ Dispatch(c)
<1>1. CASE r \in Nodes
  <2> DEFINE lines == Restrict(canvas, LinesAt(canvas, r))
             c == Command("DeleteNode", r, canvas[r], Absent, lines)
  <2>1. canvas[r] \in NodeItem
    BY <1>1, EditorTypes, ItemFacts DEF Delete
  <2>2. /\ LinesAt(canvas, r) \in SUBSET Lines /\ DOMAIN lines = LinesAt(canvas, r)
        /\ \A l \in LinesAt(canvas, r) : lines[l] \in LineItem /\ r \in Ends(lines[l])
    BY EditorTypes, ItemFacts DEF LinesAt, Restrict
  <2>3. lines \in [LinesAt(canvas, r) -> LineItem]
    BY <2>2 DEF Restrict
  <2> HIDE DEF lines
  <2>4. lines \in UNION {[L -> LineItem] : L \in SUBSET Lines}
    BY <2>2, <2>3
  <2>5. c \in Commands
    BY <1>1, <2>1, <2>2, <2>4 DEF Command, Commands, NodeCommands
  <2>6. DrawsCommand(c)
    BY <1>1, <2>5 DEF Command, DrawsCommand, Fits, Adds, Delete, lines
  <2>7. QED
    BY <1>1, <2>6 DEF Delete, lines
<1>2. CASE r \notin Nodes
  <2> DEFINE c == Command("DeleteEdge", r, canvas[r], Absent, NoLines)
  <2>0. r \in Lines
    BY <1>2 DEF Refs
  <2>1. canvas[r] \in LineItem
    BY <2>0, EditorTypes, ItemFacts DEF Delete
  <2>3. c \in Commands
    BY <2>0, <2>1 DEF Command, Commands, LineCommands
  <2>4. DrawsCommand(c)
    BY <2>3 DEF Command, DrawsCommand, Fits, Adds, Delete
  <2>5. QED
    BY <1>2, <2>4 DEF Delete
<1>3. QED
  BY <1>1, <1>2

(* What the server stores stays a design.                                  *)
LEMMA ServeTypes ==
  ASSUME NEW v \in Items, NEW c \in Commands
  PROVE  Serve(v, c) \in Items
<1>1. CASE c.type = "DeleteNode"
  <2>1. Serve(v, c) = [r \in Refs |-> IF r \in {c.ref} \cup LinesAt(v, c.ref) THEN Absent ELSE v[r]]
    BY <1>1 DEF Serve
  <2>2. QED
    BY <2>1, ItemFacts DEF Items, Refs
<1>2. CASE c.type # "DeleteNode"
  BY <1>2, ApplyFacts DEF Serve
<1>3. QED
  BY <1>1, <1>2

(* Designs that were created stay.                                         *)
StoredKept ==
  /\ stored' \in [Designs -> [status : {"none", "DRAFT", "ARCHIVED"}, items : Items]]
  /\ \A d \in Designs : stored[d].status # "none" => stored'[d].status # "none"

(* Nothing is stored.                                                      *)
LEMMA StoredSame ==
  ASSUME EditorTypeOK, stored' = stored
  PROVE  StoredKept
BY EditorTypes DEF StoredKept

(* What every step leaves to be shown: types of what it changes.           *)
LEMMA TypesKept ==
  ASSUME EditorTypeOK, StoredKept,
         canvas' \in Items, base' \in Items \cup {Unknown},
         designId' \in Designs \cup {NoDesign}, loaded' \in Designs \cup {NoDesign},
         designId' # NoDesign => stored'[designId'].status # "none",
         editMode' \in BOOLEAN, ready' \in BOOLEAN,
         applied' \in Seq(Commands), undone' \in Seq(Commands), pending' \in Seq(Commands),
         \/ fetched' = NoDesign \/ fetched' = fetched
         \/ /\ fetched' \in [design : Designs, items : Items]
            /\ stored[fetched'.design].status # "none",
         edits' \in 0..MaxEdits, turns' \in 0..MaxEvents,
         known' \subseteq Refs, forgotten' \subseteq Refs, SaveOK'
  PROVE  EditorTypeOK'
<1>1. /\ stored' \in [Designs -> [status : {"none", "DRAFT", "ARCHIVED"}, items : Items]]
      /\ \A d \in Designs : stored[d].status # "none" => stored'[d].status # "none"
  BY DEF StoredKept
<1>2. fetched' # NoDesign =>
        /\ fetched' \in [design : Designs, items : Items]
        /\ stored'[fetched'.design].status # "none"
  BY <1>1, EditorTypes
<1>3. QED
  BY <1>1, <1>2 DEF EditorTypeOK

(* The running save is not touched.                                        *)
LEMMA SaveKept ==
  ASSUME EditorTypeOK, StoredKept, save' = save
  PROVE  SaveOK'
<1>1. ASSUME Saving PROVE SaveOK'
  <2>1. SaveOK
    BY EditorTypes
  <2>2. save.design # NoDesign => stored'[save.design].status # "none"
    BY <1>1, <2>1, SaveTypes DEF StoredKept
  <2>3. QED
    BY <2>1, <2>2 DEF SaveOK, Saving
<1>2. QED
  BY <1>1 DEF SaveOK, Saving

(* No save runs.                                                           *)
LEMMA SaveOver ==
  ASSUME save' = NoSave
  PROVE  SaveOK' /\ ~Saving'
BY DEF SaveOK, Saving

(* The bounds hold.                                                        *)
LEMMA CountsKept ==
  ASSUME EditorTypeOK
  PROVE  /\ CountEdit => edits' \in 0..MaxEdits /\ turns' \in 0..MaxEvents
         /\ CountTurn => edits' \in 0..MaxEdits /\ turns' \in 0..MaxEvents
         /\ UNCHANGED <<edits, turns>> => edits' \in 0..MaxEdits /\ turns' \in 0..MaxEvents
BY EditorTypes, EditorAssumption DEF CountEdit, CountTurn

(* A command is carried out and queued.                                    *)
LEMMA DispatchTypes ==
  ASSUME EditorTypeOK, NEW c \in Commands, Dispatch(c)
  PROVE  EditorTypeOK'
<1>1. StoredKept
  BY StoredSame DEF Dispatch
<1>2. SaveOK'
  <2>1. CASE Creating
    <3>1. save' = [save EXCEPT !.late = @ \cup Touches(c)]
      BY <2>1 DEF Dispatch
    <3>2. Saving /\ SaveOK /\ save \in Saves
      BY <2>1, EditorTypes DEF Creating, SaveOK
    <3>3. save' \in Saves /\ save'.stage = save.stage /\ save'.design = save.design
          /\ save'.todo = save.todo /\ save'.sent = save.sent
      BY <3>1, <3>2, CommandFacts DEF Saves
    <3>4. save'.design # NoDesign => stored'[save'.design].status # "none"
      BY <1>1, <3>2, <3>3, SaveTypes DEF StoredKept
    <3>5. QED
      BY <3>2, <3>3, <3>4 DEF SaveOK
  <2>2. CASE ~Creating
    BY <1>1, <2>2, SaveKept DEF Dispatch
  <2>3. QED
    BY <2>1, <2>2
<1>3. canvas' \in Items /\ applied' \in Seq(Commands) /\ undone' \in Seq(Commands)
      /\ pending' \in Seq(Commands)
  BY EditorTypes, ApplyFacts, AppendFacts, EmptySeq DEF Dispatch
<1>4. known' \subseteq Refs
  BY EditorTypes, CommandFacts DEF Dispatch
<1>5. edits' \in 0..MaxEdits /\ turns' \in 0..MaxEvents
  BY CountsKept DEF Dispatch
<1>6. QED
  <2>1. UNCHANGED <<designId, editMode, ready, stored, loaded, fetched, base, forgotten>>
    BY DEF Dispatch
  <2>2. QED
    BY <1>1, <1>2, <1>3, <1>4, <1>5, <2>1, EditorTypes, TypesKept

(* What an undo makes unsure are elements, those of its command among      *)
(* them.                                                                   *)
LEMMA UnsureFacts ==
  ASSUME NEW c \in Commands
  PROVE  Unsure(c) \subseteq Refs /\ Touches(c) \subseteq Unsure(c)
BY CommandFacts DEF Unsure

(* A command is undone.                                                    *)
LEMMA UndoTypes ==
  ASSUME EditorTypeOK, undo
  PROVE  EditorTypeOK'
<1> DEFINE c == Last(applied)
<1>1. c \in Commands /\ Front(applied) \in Seq(Commands)
  BY EditorTypes, FrontFacts DEF undo
<1> HIDE DEF c
<1>2. /\ canvas' = revertCommand(canvas, c) /\ applied' = Front(applied)
      /\ undone' = <<c>> \o undone /\ pending' = Append(pending, c)
      /\ forgotten' = forgotten \cup Unsure(c) /\ CountTurn
      /\ UNCHANGED <<designId, editMode, ready, save, stored, loaded, fetched, base, known>>
  BY DEF undo, c
<1>3. <<c>> \in Seq(Commands)
  BY <1>1
<1>4. canvas' \in Items /\ applied' \in Seq(Commands) /\ undone' \in Seq(Commands)
      /\ pending' \in Seq(Commands) /\ forgotten' \subseteq Refs
  BY <1>1, <1>2, <1>3, EditorTypes, RevertFacts, AppendFacts, JoinFacts, UnsureFacts
<1>5. QED
  BY <1>2, <1>4, EditorTypes, TypesKept, StoredSame, SaveKept, CountsKept

(* A command is done again.                                                *)
LEMMA RedoTypes ==
  ASSUME EditorTypeOK, redo
  PROVE  EditorTypeOK'
<1> DEFINE c == Head(undone)
<1>1. c \in Commands /\ Tail(undone) \in Seq(Commands)
  BY EditorTypes, TailFacts DEF redo
<1> HIDE DEF c
<1>2. /\ canvas' = applyCommand(canvas, c) /\ applied' = Append(applied, c)
      /\ undone' = Tail(undone) /\ pending' = Append(pending, c)
      /\ forgotten' = forgotten \cup Unsure(c) /\ UNCHANGED <<edits, turns>>
      /\ UNCHANGED <<designId, editMode, ready, save, stored, loaded, fetched, base, known>>
  BY DEF redo, c
<1>4. canvas' \in Items /\ applied' \in Seq(Commands) /\ undone' \in Seq(Commands)
      /\ pending' \in Seq(Commands) /\ forgotten' \subseteq Refs
  BY <1>1, <1>2, EditorTypes, ApplyFacts, AppendFacts, UnsureFacts
<1>5. QED
  BY <1>2, <1>4, EditorTypes, TypesKept, StoredSame, SaveKept, CountsKept

(* How a save ends.                                                        *)
LEMMA SaveEndsTypes ==
  ASSUME EditorTypeOK, NEW rest \in Seq(Commands), NEW leaving \in BOOLEAN, SaveEnds(rest, leaving)
  PROVE  /\ save' = NoSave /\ editMode' \in BOOLEAN
         /\ applied' \in Seq(Commands) /\ undone' \in Seq(Commands) /\ pending' \in Seq(Commands)
         /\ base' \in Items \cup {Unknown}
BY EditorTypes, EmptySeq DEF SaveEnds, clearStacks, KeepStacks

(* A save begins.                                                          *)
LEMMA StartSaveTypes ==
  ASSUME EditorTypeOK, NEW leaving \in BOOLEAN, CanSave, StartSave(leaving)
  PROVE  EditorTypeOK'
<1> DEFINE todo == Batch(pending)
           start(stage) == [stage |-> stage, design |-> designId, todo |-> todo, sent |-> 0,
                            items |-> IF stage = "create" THEN canvas ELSE Empty,
                            late |-> {}, leaving |-> leaving]
<1>1. todo \in Seq(Commands) /\ PairsOnly(todo)
  BY EditorTypes, BatchFacts
<1> HIDE DEF todo
<1>2. /\ forgotten' = forgotten \cup GivenUp(pending)
      /\ UNCHANGED <<canvas, designId, ready, stored, loaded, fetched, edits, turns, known>>
  BY DEF StartSave
<1>3. StoredKept /\ forgotten' \subseteq Refs
  BY <1>2, StoredSame, EditorTypes, GivenUpFacts
<1>4. /\ SaveOK' /\ editMode' \in BOOLEAN /\ base' \in Items \cup {Unknown}
      /\ applied' \in Seq(Commands) /\ undone' \in Seq(Commands) /\ pending' \in Seq(Commands)
  <2>1. CASE designId = NoDesign
    <3>1. save' = start("create") /\ UNCHANGED <<editMode, applied, undone, pending, base>>
      BY <2>1 DEF StartSave, todo
    <3>2. save' \in Saves
      BY <1>1, <2>1, <3>1, EditorTypes DEF Saves
    <3>3. SaveOK'
      BY <1>1, <2>1, <3>1, <3>2 DEF SaveOK
    <3>4. QED
      BY <3>1, <3>3, EditorTypes
  <2>2. CASE designId # NoDesign /\ todo # <<>>
    <3>1. save' = start("send") /\ KeepStacks(<<>>) /\ UNCHANGED <<editMode, base>>
      BY <2>2 DEF StartSave, todo
    <3>2. save' \in Saves
      BY <1>1, <2>2, <3>1, EditorTypes, EmptyItems DEF Saves
    <3>3. stored'[designId].status # "none"
      BY <1>2, <2>2, EditorTypes
    <3>4. SaveOK'
      BY <1>1, <2>2, <3>1, <3>2, <3>3 DEF SaveOK
    <3>5. QED
      BY <3>1, <3>4, EditorTypes, EmptySeq DEF KeepStacks
  <2>3. CASE designId # NoDesign /\ todo = <<>>
    <3>1. SaveEnds(<<>>, leaving)
      BY <2>3 DEF StartSave, todo
    <3>2. QED
      BY <3>1, EmptySeq, SaveEndsTypes, SaveOver
  <2>4. QED
    BY <2>1, <2>2, <2>3
<1>5. QED
  BY <1>2, <1>3, <1>4, EditorTypes, TypesKept, CountsKept

(* Edit mode is left.                                                      *)
LEMMA LeaveEditTypes ==
  ASSUME EditorTypeOK, LeaveEditMode
  PROVE  EditorTypeOK'
<1>1. CASE CanSave /\ StartSave(TRUE)
  BY <1>1, StartSaveTypes
<1>2. CASE /\ ~CanSave /\ editMode' = FALSE
           /\ clearStacks(canvas)
           /\ forgotten' = forgotten \cup TouchedBy(pending)
           /\ UNCHANGED <<canvas, designId, ready, save, stored, loaded, fetched, edits, turns,
                          known>>
  <2>1. applied' \in Seq(Commands) /\ undone' \in Seq(Commands) /\ pending' \in Seq(Commands)
        /\ base' \in Items /\ forgotten' \subseteq Refs
    BY <1>2, EditorTypes, EmptySeq, TouchedFacts DEF clearStacks
  <2>2. QED
    BY <1>2, <2>1, EditorTypes, TypesKept, StoredSame, SaveKept, CountsKept
<1>3. QED
  BY <1>1, <1>2 DEF LeaveEditMode

(* A request of the save fails.                                            *)
LEMMA SaveFailsTypes ==
  ASSUME EditorTypeOK, Saving, NEW rest \in Seq(Commands), SaveFails(rest), StoredKept,
         UNCHANGED <<canvas, ready, loaded, fetched, known>>
  PROVE  EditorTypeOK'
<1>1. save.leaving \in BOOLEAN
  BY EditorTypes, SaveTypes
<1>2. /\ SaveEnds(rest, save.leaving)
      /\ forgotten' = IF save.leaving THEN forgotten \cup TouchedBy(rest) ELSE forgotten
      /\ CountTurn /\ designId' = designId
  BY DEF SaveFails
<1>3. forgotten' \subseteq Refs
  BY <1>2, EditorTypes, TouchedFacts
<1>4. designId' # NoDesign => stored'[designId'].status # "none"
  BY <1>2, EditorTypes DEF StoredKept
<1>5. /\ SaveOK' /\ editMode' \in BOOLEAN /\ base' \in Items \cup {Unknown}
      /\ applied' \in Seq(Commands) /\ undone' \in Seq(Commands) /\ pending' \in Seq(Commands)
  BY <1>1, <1>2, SaveEndsTypes, SaveOver
<1>6. QED
  BY <1>2, <1>3, <1>4, <1>5, EditorTypes, TypesKept, CountsKept

(* The design is created, or not.                                          *)
LEMMA CreateDesignTypes ==
  ASSUME EditorTypeOK, CreateDesign
  PROVE  EditorTypeOK'
<1>1. PICK done \in BOOLEAN, heard \in BOOLEAN, d \in Designs :
       /\ done => stored[d].status = "none" /\ CreatesFrom(save.items)
       /\ stored' = IF done THEN [stored EXCEPT ![d] = [status |-> "DRAFT", items |-> save.items]]
                    ELSE stored
       /\ CASE ~done \/ ~heard -> SaveFails(pending)
            [] done /\ heard /\ save.todo # <<>> ->
                 /\ save' = [save EXCEPT !.stage = "send", !.design = d, !.items = Empty,
                                        !.late = {}]
                 /\ designId' = d
                 /\ KeepStacks(<<>>)
                 /\ forgotten' = forgotten \cup save.late
                 /\ UNCHANGED <<editMode, base, edits, turns>>
            [] OTHER ->
                 /\ SaveEnds(<<>>, save.leaving)
                 /\ designId' = d
                 /\ forgotten' = forgotten \cup save.late
                 /\ UNCHANGED <<edits, turns>>
  BY DEF CreateDesign
<1>2. Creating /\ Saving /\ UNCHANGED <<canvas, ready, loaded, fetched, known>>
  BY DEF CreateDesign, Creating
<1>3. /\ save \in Saves /\ save.stage = "create" /\ save.items \in Items /\ save.leaving \in BOOLEAN
      /\ save.late \subseteq Refs /\ save.todo \in Seq(Commands) /\ PairsOnly(save.todo)
      /\ save.sent = 0
  BY <1>2, EditorTypes, SaveTypes DEF SaveOK, Creating
<1>4. StoredKept
  BY <1>1, <1>3, EditorTypes DEF StoredKept
<1>5. CASE ~done \/ ~heard
  BY <1>1, <1>2, <1>4, <1>5, EditorTypes, SaveFailsTypes
<1>6. CASE done /\ heard
  <2>1. designId' = d /\ stored'[d].status = "DRAFT" /\ forgotten' = forgotten \cup save.late
        /\ UNCHANGED <<edits, turns>>
    BY <1>1, <1>6, EditorTypes
  <2>2. /\ SaveOK' /\ editMode' \in BOOLEAN /\ base' \in Items \cup {Unknown}
        /\ applied' \in Seq(Commands) /\ undone' \in Seq(Commands) /\ pending' \in Seq(Commands)
    <3>1. CASE save.todo # <<>>
      <4>1. /\ save' = [save EXCEPT !.stage = "send", !.design = d, !.items = Empty, !.late = {}]
            /\ KeepStacks(<<>>) /\ UNCHANGED <<editMode, base>>
        BY <1>1, <1>6, <3>1
      <4>2. save' \in Saves /\ save'.stage = "send" /\ save'.design = d /\ save'.todo = save.todo
            /\ save'.sent = 0
        BY <1>3, <4>1, EmptyItems DEF Saves
      <4>3. d # NoDesign
        BY EditorAssumption
      <4>4. SaveOK'
        BY <1>3, <2>1, <3>1, <4>2, <4>3 DEF SaveOK
      <4>5. QED
        BY <4>1, <4>4, EditorTypes, EmptySeq DEF KeepStacks
    <3>2. CASE save.todo = <<>>
      <4>1. SaveEnds(<<>>, save.leaving)
        BY <1>1, <1>6, <3>2
      <4>2. QED
        BY <1>3, <4>1, EmptySeq, SaveEndsTypes, SaveOver
    <3>3. QED
      BY <3>1, <3>2
  <2>3. QED
    BY <1>2, <1>3, <1>4, <2>1, <2>2, EditorTypes, TypesKept, CountsKept
<1>7. QED
  BY <1>5, <1>6

(* A queue without its first m commands.                                   *)
LEMMA RestFacts ==
  ASSUME NEW q \in Seq(Commands), NEW m \in Nat, m <= Len(q)
  PROVE  /\ SubSeq(q, m + 1, Len(q)) \in Seq(Commands)
         /\ Len(SubSeq(q, m + 1, Len(q))) = Len(q) - m
         /\ \A i \in DOMAIN SubSeq(q, m + 1, Len(q)) :
              i + m \in DOMAIN q /\ SubSeq(q, m + 1, Len(q))[i] = q[i + m]
         /\ \A i \in DOMAIN q :
              i <= m \/ i - m \in DOMAIN SubSeq(q, m + 1, Len(q))
<1>1. Len(q) \in Nat /\ \A i \in 1..Len(q) : q[i] \in Commands
  BY QueueFacts
<1>2. \A i \in (m + 1)..Len(q) : q[i] \in Commands
  BY <1>1
<1> DEFINE u == SubSeq(q, m + 1, Len(q))
<1>3. /\ u \in Seq(Commands) /\ Len(u) = IF m + 1 <= Len(q) THEN Len(q) - (m + 1) + 1 ELSE 0
      /\ \A i \in 1..(Len(q) - (m + 1) + 1) : u[i] = q[(m + 1) + i - 1]
  BY <1>1, <1>2, SubSeqProperties
<1> HIDE DEF u
<1>4. Len(u) = Len(q) - m /\ \A i \in 1..(Len(q) - m) : u[i] = q[i + m]
  <2>1. Len(u) = Len(q) - m
    BY <1>1, <1>3
  <2>2. ASSUME NEW i \in 1..(Len(q) - m) PROVE u[i] = q[i + m]
    <3>1. i \in 1..(Len(q) - (m + 1) + 1) /\ (m + 1) + i - 1 = i + m
      BY <1>1
    <3>2. QED
      BY <1>3, <3>1
  <2>3. QED
    BY <2>1, <2>2
<1>5. DOMAIN u = 1..(Len(q) - m)
  BY <1>3, <1>4, QueueFacts
<1>6. QED
  BY <1>1, <1>3, <1>4, <1>5, QueueFacts DEF u

(* A request: what it is about, and what is left to send after it.         *)
PairNext == save.sent = 0 /\ Len(save.todo) > 1 /\ save.todo[2].ref = save.todo[1].ref
LeftAfter == IF PairNext THEN save.todo ELSE SubSeq(save.todo, save.sent + 2, Len(save.todo))

(* The next request fails, is carried out unheard, or is carried out and   *)
(* answered.                                                               *)
LEMMA SendFacts ==
  ASSUME EditorTypeOK, SendNext
  PROVE  /\ Saving /\ save.stage = "send" /\ ~Creating
         /\ save.todo \in Seq(Commands) /\ save.design \in Designs /\ save.sent \in {0, 1}
         /\ save.sent + 1 \in DOMAIN save.todo /\ save.todo[save.sent + 1] \in Commands
         /\ save.sent + 1 <= Len(save.todo) /\ Len(save.todo) \in Nat
         /\ LeftAfter \in Seq(Commands)
         /\ UNCHANGED <<canvas, ready, loaded, fetched, known>>
         /\ \/ /\ stored' = stored /\ SaveFails(Requeued)
            \/ /\ Accepted(save.design, save.todo[save.sent + 1])
               /\ stored' = [stored EXCEPT ![save.design].items =
                               Serve(@, save.todo[save.sent + 1])]
               /\ \/ SaveFails(Requeued)
                  \/ /\ save' = [save EXCEPT !.todo = LeftAfter,
                                   !.sent = IF PairNext THEN 1 ELSE 0,
                                   !.stage = IF LeftAfter = <<>> THEN "sketch" ELSE @]
                     /\ UNCHANGED <<designId, editMode, applied, undone, pending, base,
                                    forgotten, edits, turns>>
<1>1. Saving /\ save.stage = "send"
  BY DEF SendNext
<1>2. /\ save.todo \in Seq(Commands) /\ save.design \in Designs /\ save.sent \in {0, 1}
      /\ save.todo # <<>> /\ (save.sent = 1 => Len(save.todo) > 1)
  BY <1>1, EditorTypes, SaveTypes
<1>3. /\ Len(save.todo) \in Nat /\ Len(save.todo) >= 1 /\ save.sent + 1 <= Len(save.todo)
      /\ save.sent + 1 \in Nat /\ save.sent + 1 \in DOMAIN save.todo
  BY <1>2, EmptySeq, QueueFacts
<1>4. save.todo[save.sent + 1] \in Commands
  BY <1>2, <1>3, QueueFacts
<1>5. LeftAfter \in Seq(Commands)
  <2>1. save.sent + 2 = (save.sent + 1) + 1
    BY <1>2
  <2>2. SubSeq(save.todo, (save.sent + 1) + 1, Len(save.todo)) \in Seq(Commands)
    BY <1>2, <1>3, RestFacts
  <2>3. QED
    BY <1>2, <2>1, <2>2 DEF LeftAfter
<1>6. PairNext <=> /\ save.sent = 0 /\ Len(save.todo) > 1
                   /\ save.todo[2].ref = save.todo[save.sent + 1].ref
  BY <1>2 DEF PairNext
<1>7. PICK done \in BOOLEAN, heard \in BOOLEAN :
          /\ done => Accepted(save.design, save.todo[save.sent + 1])
          /\ stored' = IF done THEN [stored EXCEPT ![save.design].items =
                                       Serve(@, save.todo[save.sent + 1])]
                       ELSE stored
          /\ IF done /\ heard
               THEN /\ save' = [save EXCEPT !.todo = LeftAfter,
                                  !.sent = IF PairNext THEN 1 ELSE 0,
                                  !.stage = IF LeftAfter = <<>> THEN "sketch" ELSE @]
                    /\ UNCHANGED <<designId, editMode, applied, undone, pending, base, forgotten,
                                   edits, turns>>
               ELSE SaveFails(Requeued)
  BY <1>6 DEF SendNext, LeftAfter
<1>8. UNCHANGED <<canvas, ready, loaded, fetched, known>>
  BY DEF SendNext
<1>9. QED
  BY <1>1, <1>2, <1>3, <1>4, <1>5, <1>7, <1>8 DEF Creating

(* A request changes the design it is for, and no other.                   *)
LEMMA ServedStored ==
  ASSUME EditorTypeOK, NEW d \in Designs, NEW c \in Commands,
         stored' = [stored EXCEPT ![d].items = Serve(@, c)]
  PROVE  /\ StoredKept
         /\ stored'[d].items = Serve(stored[d].items, c) /\ stored'[d].status = stored[d].status
         /\ \A e \in Designs \ {d} : stored'[e] = stored[e]
<1>1. Serve(stored[d].items, c) \in Items
  BY EditorTypes, ServeTypes
<1>2. stored[d] \in [status : {"none", "DRAFT", "ARCHIVED"}, items : Items]
  BY EditorTypes
<1>3. stored' = [stored EXCEPT ![d] = [stored[d] EXCEPT !.items = Serve(stored[d].items, c)]]
  OBVIOUS
<1>4. [stored[d] EXCEPT !.items = Serve(stored[d].items, c)] =
        [status |-> stored[d].status, items |-> Serve(stored[d].items, c)]
  BY <1>2
<1>5. stored' = [stored EXCEPT ![d] = [status |-> stored[d].status,
                                        items |-> Serve(stored[d].items, c)]]
  BY <1>3, <1>4
<1>6. QED
  BY <1>1, <1>2, <1>5, EditorTypes DEF StoredKept

(* What is left of a todo has its pairs together.                          *)
LEMMA PairsOfRest ==
  ASSUME NEW q \in Seq(Commands), NEW m \in Nat, m <= Len(q), PairsOnly(q)
  PROVE  PairsOnly(SubSeq(q, m + 1, Len(q)))
<1> DEFINE u == SubSeq(q, m + 1, Len(q))
<1>1. /\ u \in Seq(Commands)
      /\ \A i \in DOMAIN u : i + m \in DOMAIN q /\ u[i] = q[i + m]
  BY RestFacts
<1> HIDE DEF u
<1>2. ASSUME NEW i \in DOMAIN u, NEW j \in DOMAIN u, i < j, u[i].ref = u[j].ref
      PROVE  j = i + 1 /\ u[i].type = "AddNode" /\ u[j].type = "MoveNode"
  <2>1. i \in Nat /\ j \in Nat
    BY <1>1, QueueFacts
  <2>2. i + m < j + m /\ q[i + m].ref = q[j + m].ref /\ i + m \in DOMAIN q /\ j + m \in DOMAIN q
    BY <1>1, <1>2, <2>1
  <2>3. j + m = (i + m) + 1 /\ q[i + m].type = "AddNode" /\ q[j + m].type = "MoveNode"
    BY <2>2 DEF PairsOnly
  <2>4. QED
    BY <1>1, <2>1, <2>3
<1>3. QED
  BY <1>2 DEF PairsOnly, u

(* The next request is sent.                                               *)
LEMMA SendNextTypes ==
  ASSUME EditorTypeOK, SendNext
  PROVE  EditorTypeOK'
<1> DEFINE c == save.todo[save.sent + 1]
<1>1. /\ Saving /\ save.design \in Designs /\ c \in Commands /\ save.todo \in Seq(Commands)
      /\ save.sent \in {0, 1} /\ save.sent + 1 <= Len(save.todo) /\ Len(save.todo) \in Nat
      /\ LeftAfter \in Seq(Commands) /\ save.stage = "send"
      /\ UNCHANGED <<canvas, ready, loaded, fetched, known>>
  BY SendFacts
<1>2. Requeued \in Seq(Commands)
  BY <1>1, EditorTypes, JoinFacts DEF Requeued
<1>3. CASE stored' = stored /\ SaveFails(Requeued)
  BY <1>1, <1>2, <1>3, StoredSame, SaveFailsTypes
<1>4. CASE /\ stored' = [stored EXCEPT ![save.design].items = Serve(@, c)]
           /\ SaveFails(Requeued)
  <2>1. StoredKept
    BY <1>1, <1>4, ServedStored
  <2>2. QED
    BY <1>1, <1>2, <1>4, <2>1, SaveFailsTypes
<1>5. CASE /\ stored' = [stored EXCEPT ![save.design].items = Serve(@, c)]
           /\ save' = [save EXCEPT !.todo = LeftAfter,
                         !.sent = IF PairNext THEN 1 ELSE 0,
                         !.stage = IF LeftAfter = <<>> THEN "sketch" ELSE @]
           /\ UNCHANGED <<designId, editMode, applied, undone, pending, base, forgotten, edits,
                          turns>>
  <2>1. StoredKept
    BY <1>1, <1>5, ServedStored
  <2>2. /\ save \in Saves /\ PairsOnly(save.todo) /\ save.design # NoDesign
        /\ stored[save.design].status # "none"
    BY <1>1, EditorTypes, SaveTypes, EditorAssumption DEF SaveOK
  <2>3. /\ save' \in Saves /\ save'.todo = LeftAfter /\ save'.design = save.design
        /\ save'.sent = (IF PairNext THEN 1 ELSE 0)
        /\ save'.stage = (IF LeftAfter = <<>> THEN "sketch" ELSE "send")
    BY <1>1, <1>5, <2>2 DEF Saves
  <2>4. PairsOnly(LeftAfter)
    <3>1. save.sent + 2 = (save.sent + 1) + 1 /\ save.sent + 1 \in Nat
      BY <1>1
    <3>2. PairsOnly(SubSeq(save.todo, (save.sent + 1) + 1, Len(save.todo)))
      BY <1>1, <2>2, <3>1, PairsOfRest
    <3>3. QED
      BY <2>2, <3>1, <3>2 DEF LeftAfter
  <2>5. PairNext => LeftAfter = save.todo /\ Len(save.todo) > 1 /\ LeftAfter # <<>>
                    /\ save.todo[1].ref = save.todo[2].ref
    BY <1>1 DEF LeftAfter, PairNext
  <2>6. stored'[save.design].status # "none"
    BY <1>1, <2>1, <2>2 DEF StoredKept
  <2>7. SaveOK'
    BY <2>2, <2>3, <2>4, <2>5, <2>6 DEF SaveOK
  <2>8. designId' # NoDesign => stored'[designId'].status # "none"
    BY <1>5, <2>1, EditorTypes DEF StoredKept
  <2>9. QED
    BY <1>1, <1>5, <2>1, <2>7, <2>8, EditorTypes, TypesKept
<1>6. QED
  BY <1>3, <1>4, <1>5, SendFacts

(* The save ends with the sketch.                                          *)
LEMMA SaveSketchTypes ==
  ASSUME EditorTypeOK, SaveSketch
  PROVE  EditorTypeOK'
<1>1. /\ save' = NoSave /\ designId' = NoDesign /\ forgotten' = {}
      /\ editMode' = (editMode /\ ~save.leaving)
      /\ UNCHANGED <<canvas, ready, stored, loaded, fetched, edits, turns, known>>
  BY DEF SaveSketch
<1>2. /\ applied' \in Seq(Commands) /\ undone' \in Seq(Commands) /\ pending' \in Seq(Commands)
      /\ base' \in Items \cup {Unknown}
  BY EditorTypes, EmptySeq DEF SaveSketch, clearStacks, KeepStacks
<1>3. editMode' \in BOOLEAN
  BY <1>1, EditorTypes, SaveTypes
<1>4. QED
  BY <1>1, <1>2, <1>3, EditorTypes, TypesKept, StoredSame, SaveOver

(* Designs are opened, archived and removed.                               *)
LEMMA OpeningTypes ==
  ASSUME EditorTypeOK,
         EnterEditMode \/ Hydrate \/ ClearDeleted
           \/ \E d \in Designs : LoadDesign(d) \/ ArchiveDesign(d)
  PROVE  EditorTypeOK'
<1>1. CASE EnterEditMode
  <2>1. UNCHANGED <<canvas, designId, ready, applied, undone, pending, save, stored, loaded,
                    fetched, base, forgotten, edits, turns, known>> /\ editMode' = TRUE
    BY <1>1 DEF EnterEditMode
  <2>2. QED
    BY <2>1, EditorTypes, TypesKept, StoredSame, SaveKept
<1>2. CASE Hydrate
  <2>1. /\ fetched # NoDesign /\ fetched' = NoDesign /\ canvas' = fetched.items
        /\ designId' = fetched.design /\ loaded' = fetched.design
        /\ editMode' = FALSE /\ ready' = TRUE /\ base' = Based(fetched.items)
        /\ forgotten' \subseteq Refs
        /\ UNCHANGED <<applied, undone, pending, save, stored, edits, turns, known>>
    BY <1>2 DEF Hydrate
  <2>2. /\ fetched.items \in Items /\ fetched.design \in Designs
        /\ stored[fetched.design].status # "none"
    BY <2>1, EditorTypes
  <2>3. base' \in Items \cup {Unknown}
    BY <2>1, <2>2 DEF Based
  <2>4. QED
    BY <2>1, <2>2, <2>3, EditorTypes, TypesKept, StoredSame, SaveKept
<1>3. CASE ClearDeleted
  <2>1. /\ designId' = NoDesign /\ canvas' = Empty /\ editMode' = FALSE /\ ready' = FALSE
        /\ forgotten' \subseteq Refs
        /\ UNCHANGED <<save, stored, loaded, fetched, edits, turns, known>>
    BY <1>3 DEF ClearDeleted
  <2>2. /\ applied' \in Seq(Commands) /\ undone' \in Seq(Commands) /\ pending' \in Seq(Commands)
        /\ base' \in Items \cup {Unknown}
    BY <1>3, EditorTypes, EmptySeq, EmptyItems
    DEF ClearDeleted, clearStacks, KeepStacks, Based
  <2>3. QED
    BY <2>1, <2>2, EditorTypes, EmptyItems, TypesKept, StoredSame, SaveKept
<1>4. ASSUME NEW d \in Designs, LoadDesign(d) PROVE EditorTypeOK'
  <2>1. /\ fetched' = [design |-> d, items |-> stored[d].items] /\ stored[d].status # "none"
        /\ CountTurn
        /\ UNCHANGED <<canvas, designId, editMode, ready, applied, undone, pending, save, stored,
                       loaded, base, forgotten, known>>
    BY <1>4 DEF LoadDesign
  <2>2. fetched' \in [design : Designs, items : Items] /\ stored[fetched'.design].status # "none"
    BY <2>1, EditorTypes
  <2>3. QED
    BY <2>1, <2>2, EditorTypes, TypesKept, StoredSame, SaveKept, CountsKept
<1>5. ASSUME NEW d \in Designs, ArchiveDesign(d) PROVE EditorTypeOK'
  <2>1. /\ stored' = [stored EXCEPT ![d].status = "ARCHIVED"] /\ CountTurn
        /\ UNCHANGED <<canvas, designId, editMode, ready, applied, undone, pending, save, loaded,
                       fetched, base, forgotten, known>>
    BY <1>5 DEF ArchiveDesign
  <2>2. StoredKept
    <3>1. stored' \in [Designs -> [status : {"none", "DRAFT", "ARCHIVED"}, items : Items]]
      BY <2>1, EditorTypes
    <3>2. \A e \in Designs : stored'[e].status = IF e = d THEN "ARCHIVED" ELSE stored[e].status
      BY <2>1, EditorTypes
    <3>3. QED
      BY <3>1, <3>2 DEF StoredKept
  <2>3. designId' # NoDesign => stored'[designId'].status # "none"
    BY <2>1, <2>2, EditorTypes DEF StoredKept
  <2>4. QED
    BY <2>1, <2>2, <2>3, EditorTypes, TypesKept, SaveKept, CountsKept
<1>6. QED
  BY <1>1, <1>2, <1>3, <1>4, <1>5

-----------------------------------------------------------------------------
(* The refIds drawn so far.                                                *)

(* Every element that is shown, stored or named by a command was drawn.    *)
KnownBy(c, K) ==
  /\ Touches(c) \subseteq K
  /\ c.type = "AddEdge" => Ends(c.new) \cap Nodes \subseteq K
AllKnown(s, K) == \A i \in DOMAIN s : KnownBy(s[i], K)
KnownOK ==
  /\ Shown(canvas) \subseteq known
  /\ \A d \in Designs : Shown(stored[d].items) \subseteq known
  /\ fetched # NoDesign => Shown(fetched.items) \subseteq known
  /\ Saving => Shown(save.items) \subseteq known /\ AllKnown(save.todo, known)
  /\ AllKnown(applied, known) /\ AllKnown(undone, known) /\ AllKnown(pending, known)

(* What is known stays known.                                              *)
LEMMA KnownGrows ==
  ASSUME NEW K, NEW L, K \subseteq L
  PROVE  /\ \A c : KnownBy(c, K) => KnownBy(c, L)
         /\ \A s : AllKnown(s, K) => AllKnown(s, L)
BY DEF KnownBy, AllKnown

(* Queues of known commands.                                               *)
LEMMA KnownQueues ==
  ASSUME NEW K
  PROVE  /\ AllKnown(<<>>, K)
         /\ \A q, u \in Seq(Commands) : AllKnown(q, K) /\ AllKnown(u, K) => AllKnown(q \o u, K)
         /\ \A q \in Seq(Commands), c \in Commands :
              AllKnown(q, K) /\ KnownBy(c, K) => AllKnown(Append(q, c), K)
<1>1. AllKnown(<<>>, K)
  BY DEF AllKnown
<1>2. ASSUME NEW q \in Seq(Commands), NEW u \in Seq(Commands), AllKnown(q, K), AllKnown(u, K)
      PROVE  AllKnown(q \o u, K)
  BY <1>2, JoinFacts DEF AllKnown
<1>3. ASSUME NEW q \in Seq(Commands), NEW c \in Commands, AllKnown(q, K), KnownBy(c, K)
      PROVE  AllKnown(Append(q, c), K)
  BY <1>3, AppendFacts DEF AllKnown
<1>4. QED
  BY <1>1, <1>2, <1>3

(* No command shows an element other than its own.                         *)
LEMMA ShownFacts ==
  ASSUME NEW v \in Items, NEW c \in Commands
  PROVE  /\ Shown(applyCommand(v, c)) \subseteq Shown(v) \cup {c.ref}
         /\ Shown(revertCommand(v, c)) \subseteq Shown(v) \cup Touches(c)
         /\ Shown(Serve(v, c)) \subseteq Shown(v) \cup {c.ref}
         /\ Shown(Empty) = {}
<1>1. Shown(applyCommand(v, c)) \subseteq Shown(v) \cup {c.ref}
  <2>1. ASSUME NEW r \in Refs, r # c.ref, applyCommand(v, c)[r] # Absent PROVE v[r] # Absent
    <3>1. CASE c.type \in Adds
      <4>1. r \notin Touches(c)
        BY <2>1, <3>1, CommandFacts DEF Adds
      <4>2. QED
        BY <2>1, <4>1, ApplyFacts
    <3>2. CASE c.type \notin Adds
      BY <2>1, <3>2, ApplyFacts
    <3>3. QED
      BY <3>1, <3>2
  <2>2. QED
    BY <2>1 DEF Shown
<1>2. Shown(revertCommand(v, c)) \subseteq Shown(v) \cup Touches(c)
  BY RevertFacts DEF Shown
<1>3. Shown(Serve(v, c)) \subseteq Shown(v) \cup {c.ref}
  BY <1>1, ServeTypes DEF Serve, Shown
<1>4. Shown(Empty) = {}
  BY DEF Shown, Empty
<1>5. QED
  BY <1>1, <1>2, <1>3, <1>4

(* A command that is drawn is about what was drawn.                        *)
LEMMA DrawnIsKnown ==
  ASSUME EditorTypeOK, Shown(canvas) \subseteq known, NEW c, DrawsCommand(c)
  PROVE  KnownBy(c, known \cup {c.ref})
<1>1. c \in Commands /\ Fits(c, canvas)
  BY DEF DrawsCommand
<1>2. Touches(c) \subseteq known \cup {c.ref}
  <2>1. CASE c.type = "DeleteNode"
    <3>1. c.lines = Restrict(canvas, LinesAt(canvas, c.ref))
      BY <1>1, <2>1 DEF Fits, Adds
    <3>2. DOMAIN c.lines = LinesAt(canvas, c.ref)
      BY <3>1 DEF Restrict
    <3>3. LinesAt(canvas, c.ref) \subseteq Shown(canvas)
      BY DEF LinesAt, Shown, Refs
    <3>4. QED
      BY <1>1, <3>2, <3>3, CommandFacts
  <2>2. CASE c.type # "DeleteNode"
    BY <1>1, <2>2, CommandFacts
  <2>3. QED
    BY <2>1, <2>2
<1>3. c.type = "AddEdge" => Ends(c.new) \cap Nodes \subseteq known
  BY <1>1 DEF Fits, Adds, Shown, Refs
<1>4. QED
  BY <1>2, <1>3 DEF KnownBy

(* The kinds of steps.                                                     *)
LEMMA EditorSteps ==
  ASSUME EditorTypeOK, Shown(canvas) \subseteq known, EditorNext
  PROVE  \/ \E c : DrawsCommand(c) /\ Dispatch(c)
         \/ undo \/ redo
         \/ EnterEditMode \/ LeaveEditMode \/ SaveNow
         \/ CreateDesign \/ SendNext \/ SaveSketch
         \/ \E d \in Designs : LoadDesign(d) \/ ArchiveDesign(d)
         \/ Hydrate \/ ClearDeleted
BY DrawNodeDispatches, DrawLineDispatches, DragDispatches, RenameDispatches, DeleteDispatches
DEF EditorNext

(* Every step keeps the types.                                             *)
LEMMA EditorTypesKept ==
  ASSUME EditorTypeOK, Shown(canvas) \subseteq known, EditorNext
  PROVE  EditorTypeOK'
<1>1. ASSUME NEW c, DrawsCommand(c), Dispatch(c) PROVE EditorTypeOK'
  BY <1>1, DispatchTypes DEF DrawsCommand
<1>2. SaveNow => EditorTypeOK'
  BY StartSaveTypes DEF SaveNow
<1>3. QED
  BY <1>1, <1>2, EditorSteps, UndoTypes, RedoTypes, LeaveEditTypes, CreateDesignTypes,
     SendNextTypes, SaveSketchTypes, OpeningTypes

(* The first states have their types, and show known elements only.        *)
LEMMA EditorTypesBegin == EditorInit => EditorTypeOK /\ KnownOK
<1> SUFFICES ASSUME EditorInit PROVE EditorTypeOK /\ KnownOK
  OBVIOUS
<1> DEFINE first == CHOOSE d \in Designs : TRUE
<1>1. first \in Designs /\ Saved \in Items /\ Drawn \in Items /\ Empty \in Items
      /\ NoDesign \notin Designs
  BY EditorAssumption, EmptyItems
<1>2. PICK opened \in BOOLEAN :
       /\ canvas = (IF opened THEN Saved ELSE Drawn)
       /\ designId = (IF opened THEN first ELSE NoDesign)
       /\ loaded = designId
       /\ stored = [d \in Designs |->
                      IF opened /\ d = first THEN [status |-> "DRAFT", items |-> Saved]
                      ELSE [status |-> "none", items |-> Empty]]
  BY DEF EditorInit
<1> HIDE DEF first
<1>3. /\ editMode = FALSE /\ ready = TRUE /\ applied = <<>> /\ undone = <<>> /\ pending = <<>>
      /\ save = NoSave /\ fetched = NoDesign /\ edits = 0 /\ turns = 0
      /\ base = canvas /\ forgotten = {} /\ known = Shown(canvas)
  BY DEF EditorInit, Shown
<1>4. ~Saving /\ SaveOK
  BY <1>3 DEF Saving, SaveOK
<1>5. canvas \in Items /\ designId \in Designs \cup {NoDesign}
      /\ stored \in [Designs -> [status : {"none", "DRAFT", "ARCHIVED"}, items : Items]]
      /\ (designId # NoDesign => stored[designId].status # "none")
  BY <1>1, <1>2
<1>6. EditorTypeOK
  <2>1. known \subseteq Refs
    BY <1>3 DEF Shown
  <2>2. edits \in 0..MaxEdits /\ turns \in 0..MaxEvents
    BY <1>3, EditorAssumption
  <2>3. {applied, undone, pending} \subseteq Seq(Commands) /\ {editMode, ready} \subseteq BOOLEAN
    BY <1>3, EmptySeq
  <2>4. loaded \in Designs \cup {NoDesign} /\ forgotten \subseteq Refs /\ fetched = NoDesign
        /\ base \in Items \cup {Unknown}
    BY <1>2, <1>3, <1>5
  <2>5. QED
    BY <1>4, <1>5, <2>1, <2>2, <2>3, <2>4 DEF EditorTypeOK
<1>7. \A d \in Designs : Shown(stored[d].items) \subseteq known
  <2>1. \A d \in Designs : stored[d].items = Empty \/ stored[d].items = canvas
    BY <1>2
  <2>2. QED
    BY <1>3, <2>1 DEF Shown, Empty
<1>8. KnownOK
  BY <1>3, <1>4, <1>7, KnownQueues DEF KnownOK
<1>9. QED
  BY <1>6, <1>8

(* What of it a step leaves to be shown.                                   *)
LEMMA KnownKept ==
  ASSUME EditorTypeOK, KnownOK, known \subseteq known',
         Shown(canvas') \subseteq known',
         stored' = stored \/ \A d \in Designs : Shown(stored'[d].items) \subseteq known',
         fetched' \in {fetched, NoDesign} \/ Shown(fetched'.items) \subseteq known',
         \/ save' = save \/ ~Saving'
         \/ Shown(save'.items) \subseteq known' /\ AllKnown(save'.todo, known'),
         \/ UNCHANGED <<applied, undone>>
         \/ AllKnown(applied', known') /\ AllKnown(undone', known'),
         pending' = pending \/ AllKnown(pending', known')
  PROVE  KnownOK'
<1>1. \A s : AllKnown(s, known) => AllKnown(s, known')
  BY KnownGrows
<1>2. AllKnown(applied', known') /\ AllKnown(undone', known') /\ AllKnown(pending', known')
  BY <1>1 DEF KnownOK
<1>3. Saving' => Shown(save'.items) \subseteq known' /\ AllKnown(save'.todo, known')
  BY <1>1 DEF KnownOK, Saving
<1>4. \A d \in Designs : Shown(stored'[d].items) \subseteq known'
  BY DEF KnownOK
<1>5. fetched' # NoDesign => Shown(fetched'.items) \subseteq known'
  BY DEF KnownOK
<1>6. QED
  BY <1>2, <1>3, <1>4, <1>5 DEF KnownOK

(* A command is carried out and queued: its element is known from now on.  *)
LEMMA DispatchKnown ==
  ASSUME EditorTypeOK, KnownOK, NEW c, DrawsCommand(c), Dispatch(c)
  PROVE  KnownOK'
<1>1. c \in Commands /\ known' = known \cup {c.ref} /\ canvas' = applyCommand(canvas, c)
      /\ Shown(canvas) \subseteq known
  BY DEF DrawsCommand, Dispatch, KnownOK
<1>2. KnownBy(c, known')
  BY <1>1, DrawnIsKnown
<1>3. /\ applied \in Seq(Commands) /\ pending \in Seq(Commands)
      /\ AllKnown(applied, known') /\ AllKnown(pending, known')
  BY <1>1, EditorTypes, KnownGrows DEF KnownOK
<1>4. /\ AllKnown(applied', known') /\ AllKnown(undone', known') /\ AllKnown(pending', known')
  BY <1>1, <1>2, <1>3, KnownQueues DEF Dispatch
<1>5. Shown(canvas') \subseteq known'
  BY <1>1, EditorTypes, ShownFacts
<1>6. save' = save \/ (Shown(save'.items) \subseteq known' /\ AllKnown(save'.todo, known'))
  <2>1. CASE Creating
    <3>1. Saving /\ save \in Saves
      BY <2>1, EditorTypes DEF Creating, SaveOK
    <3>2. save'.items = save.items /\ save'.todo = save.todo
      BY <2>1, <3>1 DEF Dispatch, Saves
    <3>3. QED
      BY <1>1, <3>1, <3>2, KnownGrows DEF KnownOK
  <2>2. CASE ~Creating
    BY <2>2 DEF Dispatch
  <2>3. QED
    BY <2>1, <2>2
<1>7. stored' = stored /\ fetched' = fetched
  BY DEF Dispatch
<1>8. QED
  BY <1>1, <1>4, <1>5, <1>6, <1>7, KnownKept

(* Undo and redo show no element that was not drawn.                       *)
LEMMA UndoRedoKnown ==
  ASSUME EditorTypeOK, KnownOK, undo \/ redo
  PROVE  KnownOK'
<1>1. UNCHANGED <<save, stored, fetched, known>>
  BY DEF undo, redo
<1>2. /\ applied \in Seq(Commands) /\ undone \in Seq(Commands) /\ pending \in Seq(Commands)
      /\ AllKnown(applied, known) /\ AllKnown(undone, known) /\ AllKnown(pending, known)
      /\ canvas \in Items /\ Shown(canvas) \subseteq known
  BY EditorTypes DEF KnownOK
<1>3. CASE undo
  <2> DEFINE c == Last(applied)
  <2>1. applied # <<>>
    BY <1>3 DEF undo
  <2>2. c \in Commands /\ KnownBy(c, known) /\ AllKnown(Front(applied), known)
        /\ <<c>> \in Seq(Commands) /\ AllKnown(<<c>>, known)
    <3>1. c \in Commands /\ KnownBy(c, known) /\ AllKnown(Front(applied), known)
      BY <1>2, <2>1, FrontFacts DEF AllKnown
    <3> HIDE DEF c
    <3>2. QED
      BY <3>1 DEF AllKnown
  <2>3. canvas' = revertCommand(canvas, c) /\ applied' = Front(applied)
        /\ undone' = <<c>> \o undone /\ pending' = Append(pending, c)
    BY <1>3 DEF undo
  <2> HIDE DEF c
  <2>4. Shown(canvas') \subseteq known
    BY <1>2, <2>2, <2>3, ShownFacts DEF KnownBy
  <2>5. AllKnown(applied', known) /\ AllKnown(undone', known) /\ AllKnown(pending', known)
    BY <1>2, <2>2, <2>3, KnownQueues
  <2>6. QED
    BY <1>1, <2>4, <2>5, KnownKept
<1>4. CASE redo
  <2> DEFINE c == Head(undone)
  <2>1. undone # <<>>
    BY <1>4 DEF redo
  <2>2. c \in Commands /\ KnownBy(c, known) /\ AllKnown(Tail(undone), known)
    BY <1>2, <2>1, TailFacts DEF AllKnown
  <2>3. canvas' = applyCommand(canvas, c) /\ applied' = Append(applied, c)
        /\ undone' = Tail(undone) /\ pending' = Append(pending, c)
    BY <1>4 DEF redo
  <2> HIDE DEF c
  <2>4. Shown(canvas') \subseteq known
    BY <1>2, <2>2, <2>3, ShownFacts, CommandFacts DEF KnownBy
  <2>5. AllKnown(applied', known) /\ AllKnown(undone', known) /\ AllKnown(pending', known)
    BY <1>2, <2>2, <2>3, KnownQueues
  <2>6. QED
    BY <1>1, <2>4, <2>5, KnownKept
<1>5. QED
  BY <1>3, <1>4

(* A save ends.                                                            *)
LEMMA SaveEndsKnown ==
  ASSUME KnownOK, known' = known, NEW rest, AllKnown(rest, known), NEW leaving,
         SaveEnds(rest, leaving)
  PROVE  /\ AllKnown(applied', known') /\ AllKnown(undone', known') /\ AllKnown(pending', known')
         /\ ~Saving'
BY KnownQueues DEF SaveEnds, clearStacks, KeepStacks, KnownOK, Saving

(* What is sent was queued.                                                *)
LEMMA BatchKnown ==
  ASSUME NEW s \in Seq(Commands), NEW K, AllKnown(s, K)
  PROVE  AllKnown(Batch(s), K)
<1>1. ASSUME NEW k \in DOMAIN Batch(s) PROVE KnownBy(Batch(s)[k], K)
  <2>1. PICK j \in DOMAIN s : s[j] = Batch(s)[k]
    BY BatchFacts
  <2>2. QED
    BY <2>1 DEF AllKnown
<1>2. QED
  BY <1>1 DEF AllKnown

(* A save begins.                                                          *)
LEMMA StartSaveKnown ==
  ASSUME EditorTypeOK, KnownOK, NEW leaving, StartSave(leaving)
  PROVE  KnownOK'
<1> DEFINE todo == Batch(pending)
           start(stage) == [stage |-> stage, design |-> designId, todo |-> todo, sent |-> 0,
                            items |-> IF stage = "create" THEN canvas ELSE Empty,
                            late |-> {}, leaving |-> leaving]
<1>1. AllKnown(todo, known) /\ Shown(Empty) = {} /\ AllKnown(<<>>, known)
      /\ Shown(canvas) \subseteq known
  BY EditorTypes, BatchKnown, KnownQueues DEF KnownOK, Shown, Empty
<1> HIDE DEF todo
<1>2. UNCHANGED <<canvas, stored, fetched, known>>
  BY DEF StartSave
<1>3. CASE designId = NoDesign
  <2>1. save' = start("create") /\ UNCHANGED <<editMode, applied, undone, pending, base>>
    BY <1>3 DEF StartSave, todo
  <2>2. save'.items = canvas /\ save'.todo = todo
    BY <2>1
  <2>3. QED
    BY <1>1, <1>2, <2>1, <2>2, KnownKept
<1>4. CASE designId # NoDesign /\ todo # <<>>
  <2>1. save' = start("send") /\ KeepStacks(<<>>) /\ UNCHANGED <<editMode, base>>
    BY <1>4 DEF StartSave, todo
  <2>2. save'.items = Empty /\ save'.todo = todo
    BY <2>1
  <2>3. pending' = <<>> /\ UNCHANGED <<applied, undone>>
    BY <2>1 DEF KeepStacks
  <2>4. QED
    BY <1>1, <1>2, <2>2, <2>3, KnownKept
<1>5. CASE designId # NoDesign /\ todo = <<>>
  <2>1. SaveEnds(<<>>, leaving)
    BY <1>5 DEF StartSave, todo
  <2>2. QED
    BY <1>1, <1>2, <2>1, SaveEndsKnown, KnownKept
<1>6. QED
  BY <1>3, <1>4, <1>5

(* Requests are sent, and fail.                                            *)
LEMMA SavingKnown ==
  ASSUME EditorTypeOK, KnownOK, CreateDesign \/ SendNext \/ SaveSketch
  PROVE  KnownOK'
<1>1. Saving /\ save \in Saves /\ Shown(save.items) \subseteq known /\ AllKnown(save.todo, known)
      /\ AllKnown(pending, known) /\ AllKnown(<<>>, known) /\ Shown(canvas) \subseteq known
      /\ save.todo \in Seq(Commands) /\ pending \in Seq(Commands)
  BY EditorTypes, SaveTypes, KnownQueues DEF KnownOK, SaveOK, CreateDesign, SendNext, SaveSketch, Creating
<1>2. UNCHANGED <<canvas, fetched, known>>
  BY DEF CreateDesign, SendNext, SaveSketch
<1>3. CASE CreateDesign
  <2>1. PICK done \in BOOLEAN, heard \in BOOLEAN, d \in Designs :
       /\ stored' = IF done THEN [stored EXCEPT ![d] = [status |-> "DRAFT", items |-> save.items]]
                    ELSE stored
       /\ CASE ~done \/ ~heard -> SaveFails(pending)
            [] done /\ heard /\ save.todo # <<>> ->
                 /\ save' = [save EXCEPT !.stage = "send", !.design = d, !.items = Empty,
                                        !.late = {}]
                 /\ designId' = d
                 /\ KeepStacks(<<>>)
                 /\ forgotten' = forgotten \cup save.late
                 /\ UNCHANGED <<editMode, base, edits, turns>>
            [] OTHER ->
                 /\ SaveEnds(<<>>, save.leaving)
                 /\ designId' = d
                 /\ forgotten' = forgotten \cup save.late
                 /\ UNCHANGED <<edits, turns>>
    BY <1>3, Zenon DEF CreateDesign
  <2>2. \A e \in Designs : Shown(stored'[e].items) \subseteq known
    BY <1>1, <2>1, EditorTypes DEF KnownOK
  <2>3. CASE SaveFails(pending)
    <3>1. SaveEnds(pending, save.leaving)
      BY <2>3 DEF SaveFails
    <3>2. QED
      BY <1>1, <1>2, <2>2, <3>1, SaveEndsKnown, KnownKept
  <2>4. CASE SaveEnds(<<>>, save.leaving)
    BY <1>1, <1>2, <2>2, <2>4, SaveEndsKnown, KnownKept
  <2>5. CASE /\ save' = [save EXCEPT !.stage = "send", !.design = d, !.items = Empty, !.late = {}]
             /\ KeepStacks(<<>>)
    <3>1. save'.items = Empty /\ save'.todo = save.todo /\ pending' = <<>>
          /\ UNCHANGED <<applied, undone>>
      BY <1>1, <2>5 DEF Saves, KeepStacks
    <3>2. QED
      BY <1>1, <1>2, <2>2, <3>1, EditorTypes, ShownFacts, KnownKept DEF Shown, Empty
  <2>6. QED
    BY <2>1, <2>3, <2>4, <2>5
<1>4. CASE SendNext
  <2> DEFINE c == save.todo[save.sent + 1]
  <2>1. /\ c \in Commands /\ save.design \in Designs /\ KnownBy(c, known)
        /\ save.sent \in {0, 1} /\ save.sent + 1 <= Len(save.todo)
    BY <1>1, <1>4, SendFacts DEF AllKnown
  <2>2. AllKnown(LeftAfter, known)
    <3>1. save.sent + 2 = (save.sent + 1) + 1 /\ save.sent + 1 \in Nat
      BY <2>1
    <3>2. AllKnown(SubSeq(save.todo, (save.sent + 1) + 1, Len(save.todo)), known)
      BY <1>1, <2>1, <3>1, RestFacts DEF AllKnown
    <3>3. QED
      BY <1>1, <3>1, <3>2 DEF LeftAfter
  <2>3. AllKnown(Requeued, known)
    BY <1>1, KnownQueues DEF Requeued
  <2>4. stored' = stored \/ stored' = [stored EXCEPT ![save.design].items = Serve(@, c)]
    BY <1>4, SendFacts
  <2> HIDE DEF c
  <2>5. stored' = stored \/ \A e \in Designs : Shown(stored'[e].items) \subseteq known
    <3>1. CASE stored' = [stored EXCEPT ![save.design].items = Serve(@, c)]
      <4>1. /\ stored'[save.design].items = Serve(stored[save.design].items, c)
            /\ \A e \in Designs \ {save.design} : stored'[e] = stored[e]
        BY <2>1, <3>1, ServedStored
      <4>2. Shown(Serve(stored[save.design].items, c)) \subseteq known
        BY <2>1, EditorTypes, ShownFacts, CommandFacts DEF KnownBy, KnownOK
      <4>3. QED
        BY <4>1, <4>2 DEF KnownOK
    <3>2. QED
      BY <2>4, <3>1
  <2>6. CASE SaveFails(Requeued)
    <3>1. SaveEnds(Requeued, save.leaving)
      BY <2>6 DEF SaveFails
    <3>2. QED
      BY <1>1, <1>2, <2>3, <2>5, <3>1, SaveEndsKnown, KnownKept
  <2>7. CASE /\ save' = [save EXCEPT !.todo = LeftAfter, !.sent = IF PairNext THEN 1 ELSE 0,
                                     !.stage = IF LeftAfter = <<>> THEN "sketch" ELSE @]
             /\ UNCHANGED <<applied, undone, pending>>
    <3>1. save'.items = save.items /\ save'.todo = LeftAfter
      BY <1>1, <2>7 DEF Saves
    <3>2. QED
      BY <1>1, <1>2, <2>2, <2>5, <2>7, <3>1, KnownKept
  <2>8. QED
    BY <1>4, <2>6, <2>7, SendFacts
<1>5. CASE SaveSketch
  <2>1. /\ ~Saving' /\ stored' = stored
        /\ AllKnown(applied', known) /\ AllKnown(undone', known) /\ AllKnown(pending', known)
    BY <1>1, <1>5 DEF SaveSketch, clearStacks, KeepStacks, Saving, KnownOK
  <2>2. QED
    BY <1>1, <1>2, <2>1, KnownKept
<1>6. QED
  BY <1>3, <1>4, <1>5

(* Designs are opened, archived and removed.                               *)
LEMMA OpeningKnown ==
  ASSUME EditorTypeOK, KnownOK,
         EnterEditMode \/ LeaveEditMode \/ SaveNow \/ Hydrate \/ ClearDeleted
           \/ \E d \in Designs : LoadDesign(d) \/ ArchiveDesign(d)
  PROVE  KnownOK'
<1>1. CASE EnterEditMode
  <2>1. UNCHANGED <<canvas, applied, undone, pending, save, stored, fetched, known>>
    BY <1>1 DEF EnterEditMode
  <2>2. QED
    BY <2>1, KnownKept DEF KnownOK
<1>2. CASE Hydrate
  <2>1. /\ fetched # NoDesign /\ fetched' = NoDesign /\ canvas' = fetched.items
        /\ UNCHANGED <<applied, undone, pending, save, stored, known>>
    BY <1>2 DEF Hydrate
  <2>2. QED
    BY <2>1, KnownKept DEF KnownOK
<1>3. CASE ClearDeleted
  <2>1. /\ canvas' = Empty /\ UNCHANGED <<save, stored, fetched, known>>
        /\ AllKnown(applied', known) /\ AllKnown(undone', known) /\ AllKnown(pending', known)
    BY <1>3, KnownQueues DEF ClearDeleted, clearStacks, KeepStacks, KnownOK
  <2>2. Shown(Empty) \subseteq known
    BY DEF Shown, Empty
  <2>3. QED
    BY <2>1, <2>2, KnownKept
<1>4. ASSUME NEW d \in Designs, LoadDesign(d) PROVE KnownOK'
  <2>1. /\ fetched' = [design |-> d, items |-> stored[d].items]
        /\ UNCHANGED <<canvas, applied, undone, pending, save, stored, known>>
    BY <1>4 DEF LoadDesign
  <2>2. QED
    BY <2>1, KnownKept DEF KnownOK
<1>5. ASSUME NEW d \in Designs, ArchiveDesign(d) PROVE KnownOK'
  <2>1. /\ stored' = [stored EXCEPT ![d].status = "ARCHIVED"]
        /\ UNCHANGED <<canvas, applied, undone, pending, save, fetched, known>>
    BY <1>5 DEF ArchiveDesign
  <2>2. \A e \in Designs : stored'[e].items = stored[e].items
    BY <2>1, EditorTypes
  <2>3. QED
    BY <2>1, <2>2, KnownKept DEF KnownOK
<1>6. CASE SaveNow
  BY <1>6, StartSaveKnown DEF SaveNow
<1>7. CASE LeaveEditMode
  <2>1. CASE StartSave(TRUE)
    BY <2>1, StartSaveKnown
  <2>2. CASE clearStacks(canvas) /\ UNCHANGED <<canvas, save, stored, fetched, known>>
    <3>1. AllKnown(applied', known) /\ AllKnown(undone', known) /\ AllKnown(pending', known)
      BY <2>2, KnownQueues DEF clearStacks
    <3>2. QED
      BY <2>2, <3>1, KnownKept DEF KnownOK
  <2>3. QED
    BY <1>7, <2>1, <2>2 DEF LeaveEditMode
<1>8. QED
  BY <1>1, <1>2, <1>3, <1>4, <1>5, <1>6, <1>7

-----------------------------------------------------------------------------
(* The course the canvas took.                                             *)

(* The canvases between the commands that are in the stacks: each command  *)
(* was made for the canvas it was carried out on, an element is not there  *)
(* before it is added, nor after it is deleted.                            *)
IsCourse(h, s, n, from, to, K) ==
  /\ h \in [0..Len(s) -> Items] /\ n \in 0..Len(s) /\ h[0] = from /\ h[n] = to
  /\ \A i \in 1..Len(s) : Fits(s[i], h[i - 1]) /\ h[i] = applyCommand(h[i - 1], s[i])
  /\ \A i \in 1..Len(s), j \in 0..Len(s) :
       s[i].type \in Adds /\ j < i => h[j][s[i].ref] = Absent
  /\ \A i \in 1..Len(s), j \in 0..Len(s) :
       s[i].type \in Deletes /\ i <= j => h[j][s[i].ref] = Absent
  /\ \A j \in 0..Len(s) : Shown(h[j]) \subseteq K

HasCourse ==
  base # Unknown =>
    \E h : IsCourse(h, applied \o undone, Len(applied), base, canvas, known)

(* With empty stacks the canvas is where they began.                       *)
LEMMA NoCourse ==
  ASSUME NEW v \in Items, NEW K, Shown(v) \subseteq K
  PROVE  \E h : IsCourse(h, <<>> \o <<>>, Len(<<>>), v, v, K)
<1> DEFINE h == [i \in 0..0 |-> v]
<1>1. <<>> \o <<>> = <<>> /\ Len(<<>>) = 0
  BY EmptySeq, ConcatEmptySeq
<1>2. \A i \in 1..0 : FALSE
  OBVIOUS
<1>3. h \in [0..0 -> Items] /\ h[0] = v /\ \A j \in 0..0 : h[j] = v
  OBVIOUS
<1> HIDE DEF h
<1>4. IsCourse(h, <<>>, 0, v, v, K)
  BY <1>1, <1>2, <1>3 DEF IsCourse
<1>5. QED
  BY <1>1, <1>4

(* Drawing goes on from the canvas.                                        *)
LEMMA CourseGrows ==
  ASSUME NEW a \in Seq(Commands), NEW u \in Seq(Commands), NEW from, NEW v \in Items,
         NEW K, AllKnown(a, K), NEW g, IsCourse(g, a \o u, Len(a), from, v, K),
         NEW c \in Commands, Fits(c, v), c.type \in Adds => c.ref \notin K
  PROVE  \E h : IsCourse(h, Append(a, c) \o <<>>, Len(Append(a, c)), from,
                         applyCommand(v, c), K \cup {c.ref})
<1> DEFINE n == Len(a)
           s == Append(a, c)
           w == applyCommand(v, c)
           h == [i \in 0..(n + 1) |-> IF i = n + 1 THEN w ELSE g[i]]
           L == K \cup {c.ref}
<1>1. /\ n \in Nat /\ s \in Seq(Commands) /\ Len(s) = n + 1 /\ s[n + 1] = c
      /\ \A i \in 1..n : s[i] = a[i] /\ a[i] \in Commands /\ (a \o u)[i] = a[i]
      /\ n <= Len(a \o u) /\ Len(a \o u) \in Nat
  BY AppendFacts, JoinFacts, QueueFacts
<1>2. s \o <<>> = s
  BY <1>1, ConcatEmptySeq
<1>3. w \in Items /\ Shown(w) \subseteq Shown(v) \cup {c.ref} /\ c.ref \in Refs
  BY ApplyFacts, ShownFacts, CommandFacts
<1>4. /\ \A j \in 0..n : g[j] \in Items /\ Shown(g[j]) \subseteq K
      /\ g[0] = from /\ g[n] = v
      /\ \A i \in 1..n : Fits(a[i], g[i - 1]) /\ g[i] = applyCommand(g[i - 1], a[i])
      /\ \A i \in 1..n, j \in 0..n : a[i].type \in Adds /\ j < i => g[j][a[i].ref] = Absent
      /\ \A i \in 1..n, j \in 0..n : a[i].type \in Deletes /\ i <= j => g[j][a[i].ref] = Absent
  <2>1. \A j \in 0..n : j \in 0..Len(a \o u)
    BY <1>1
  <2>2. \A i \in 1..n : i \in 1..Len(a \o u)
    BY <1>1
  <2>3. QED
    BY <1>1, <2>1, <2>2 DEF IsCourse
<1>5. /\ h \in [0..(n + 1) -> Items] /\ h[n + 1] = w /\ \A j \in 0..n : h[j] = g[j]
  BY <1>1, <1>3, <1>4
<1> HIDE DEF h, s, w
<1>6. ASSUME NEW i \in 1..(n + 1)
      PROVE  Fits(s[i], h[i - 1]) /\ h[i] = applyCommand(h[i - 1], s[i])
  <2>1. CASE i = n + 1
    <3>1. s[i] = c /\ h[i - 1] = v /\ h[i] = w
      BY <1>1, <1>4, <1>5, <2>1
    <3>2. QED
      BY <3>1 DEF w
  <2>2. CASE i # n + 1
    <3>1. i \in 1..n /\ i - 1 \in 0..n /\ i \in 0..n
      BY <1>1, <2>2
    <3>2. QED
      BY <1>1, <1>4, <1>5, <3>1
  <2>3. QED
    BY <2>1, <2>2
<1>7. ASSUME NEW i \in 1..(n + 1), NEW j \in 0..(n + 1), s[i].type \in Adds, j < i
      PROVE  h[j][s[i].ref] = Absent
  <2>1. j \in 0..n
    BY <1>1, <1>7
  <2>2. CASE i = n + 1
    BY <1>1, <1>3, <1>4, <1>5, <1>7, <2>1, <2>2 DEF Shown
  <2>3. CASE i # n + 1
    <3>1. i \in 1..n
      BY <1>1, <2>3
    <3>2. QED
      BY <1>1, <1>4, <1>5, <1>7, <2>1, <3>1
  <2>4. QED
    BY <2>2, <2>3
<1>8. ASSUME NEW i \in 1..(n + 1), NEW j \in 0..(n + 1), s[i].type \in Deletes, i <= j
      PROVE  h[j][s[i].ref] = Absent
  <2>1. CASE i = n + 1
    <3>1. j = n + 1 /\ s[i] = c /\ c.type \in Deletes
      BY <1>1, <1>8, <2>1
    <3>2. QED
      BY <1>5, <3>1, CommandFacts, ApplyFitting DEF w
  <2>2. CASE i # n + 1 /\ j # n + 1
    <3>1. i \in 1..n /\ j \in 0..n
      BY <1>1, <2>2
    <3>2. QED
      BY <1>1, <1>4, <1>5, <1>8, <3>1
  <2>3. CASE i # n + 1 /\ j = n + 1
    <3>1. i \in 1..n /\ n \in 0..n /\ i <= n
      BY <1>1, <2>3
    <3>2. s[i] = a[i] /\ v[a[i].ref] = Absent /\ a[i].ref \in Refs /\ a[i].ref \in K
      <4>1. a[i].ref \in Touches(a[i]) /\ a[i].ref \in Refs
        BY <1>1, <3>1, CommandFacts
      <4>2. i \in DOMAIN a
        BY <3>1, QueueFacts
      <4>3. QED
        BY <1>1, <1>4, <1>8, <3>1, <4>1, <4>2 DEF AllKnown, KnownBy
    <3>3. w[a[i].ref] = Absent
      <4>1. a[i].ref \notin Shown(v)
        BY <3>2 DEF Shown
      <4>2. CASE c.type \in Adds
        BY <1>3, <3>2, <4>1, <4>2 DEF Shown
      <4>3. CASE c.type \notin Adds
        BY <3>2, <4>3, ApplyFacts DEF w
      <4>4. QED
        BY <4>2, <4>3
    <3>4. QED
      BY <1>5, <2>3, <3>2, <3>3
  <2>4. QED
    BY <2>1, <2>2, <2>3
<1>9. \A j \in 0..(n + 1) : Shown(h[j]) \subseteq L
  <2>1. ASSUME NEW j \in 0..(n + 1), j # n + 1 PROVE j \in 0..n
    BY <1>1, <2>1
  <2>2. Shown(v) \subseteq K
    BY <1>1, <1>4
  <2>3. QED
    BY <1>3, <1>4, <1>5, <2>1, <2>2
<1>10. IsCourse(h, s, n + 1, from, w, L)
  <2>1. n + 1 \in 0..Len(s) /\ 0 \in 0..n /\ Len(s) = n + 1
    BY <1>1
  <2>2. h[0] = from
    BY <1>4, <1>5, <2>1
  <2> HIDE DEF n, L
  <2>3. QED
    BY <1>5, <1>6, <1>7, <1>8, <1>9, <2>1, <2>2 DEF IsCourse
<1>11. QED
  BY <1>1, <1>2, <1>10 DEF s, w

(* Undoing moves back along the course, redoing forth.                     *)
LEMMA CourseBack ==
  ASSUME NEW a \in Seq(Commands), NEW u \in Seq(Commands), NEW from, NEW v, NEW K,
         a # <<>>, NEW h, IsCourse(h, a \o u, Len(a), from, v, K)
  PROVE  IsCourse(h, Front(a) \o (<<Last(a)>> \o u), Len(Front(a)), from,
                  revertCommand(v, Last(a)), K)
<1> DEFINE n == Len(a)
           s == a \o u
<1>1. /\ n \in Nat /\ n >= 1 /\ Last(a) = a[n] /\ Len(Front(a)) = n - 1 /\ Last(a) \in Commands
      /\ Front(a) \in Seq(Commands) /\ s[n] = a[n] /\ Len(s) \in Nat /\ n <= Len(s)
  BY FrontFacts, JoinFacts, QueueFacts
<1>2. Front(a) \o (<<Last(a)>> \o u) = s
  <2>1. <<Last(a)>> \in Seq(Commands)
    BY <1>1
  <2>2. Front(a) \o (<<Last(a)>> \o u) = (Front(a) \o <<Last(a)>>) \o u
    BY <1>1, <2>1, ConcatAssociative
  <2>3. Front(a) \o <<Last(a)>> = a
    <3>1. /\ Front(a) \o <<Last(a)>> \in Seq(Commands)
          /\ Len(Front(a) \o <<Last(a)>>) = Len(a)
          /\ \A i \in 1..Len(a) : (Front(a) \o <<Last(a)>>)[i] =
               IF i <= n - 1 THEN Front(a)[i] ELSE <<Last(a)>>[i - (n - 1)]
      BY <1>1, <2>1, ConcatProperties
    <3>2. \A i \in 1..Len(a) : (Front(a) \o <<Last(a)>>)[i] = a[i]
      <4>1. ASSUME NEW i \in 1..Len(a), i <= n - 1 PROVE Front(a)[i] = a[i]
        <5>1. i \in DOMAIN Front(a)
          BY <1>1, <4>1, QueueFacts
        <5>2. QED
          BY <5>1, FrontFacts
      <4>2. ASSUME NEW i \in 1..Len(a), ~(i <= n - 1)
            PROVE <<Last(a)>>[i - (n - 1)] = a[i]
        BY <1>1, <4>2
      <4>3. QED
        BY <3>1, <4>1, <4>2
    <3>3. QED
      BY <3>1, <3>2, SeqEqual
  <2>4. QED
    BY <2>2, <2>3
<1>3. h[n - 1] = revertCommand(v, Last(a))
  <2>1. n \in 1..Len(s) /\ n - 1 \in 0..Len(s)
    BY <1>1
  <2>2. /\ Fits(s[n], h[n - 1]) /\ h[n] = applyCommand(h[n - 1], s[n])
        /\ h[n - 1] \in Items /\ h[n] = v
    BY <2>1 DEF IsCourse
  <2>3. Fits(Last(a), h[n - 1]) /\ v = applyCommand(h[n - 1], Last(a))
    BY <1>1, <2>2
  <2>4. QED
    BY <1>1, <2>2, <2>3, RevertUndoes
<1>4. n - 1 \in 0..Len(s)
  BY <1>1
<1>5. QED
  BY <1>1, <1>2, <1>3, <1>4 DEF IsCourse

(* Redo goes one step forth on the course.                                 *)
LEMMA CourseForth ==
  ASSUME NEW a \in Seq(Commands), NEW u \in Seq(Commands), NEW from, NEW v, NEW K,
         u # <<>>, NEW h, IsCourse(h, a \o u, Len(a), from, v, K)
  PROVE  IsCourse(h, Append(a, Head(u)) \o Tail(u), Len(Append(a, Head(u))), from,
                  applyCommand(v, Head(u)), K)
<1> DEFINE n == Len(a)
           s == a \o u
<1>1. /\ n \in Nat /\ Head(u) = u[1] /\ Head(u) \in Commands /\ Tail(u) \in Seq(Commands)
      /\ 1 \in DOMAIN u /\ Len(u) >= 1 /\ Len(u) \in Nat
      /\ Append(a, Head(u)) \in Seq(Commands) /\ Len(Append(a, Head(u))) = n + 1
  BY TailFacts, AppendFacts, QueueFacts
<1>2. s[n + 1] = u[1] /\ Len(s) = n + Len(u) /\ n + 1 \in 1..Len(s)
  BY <1>1, JoinFacts
<1>3. Append(a, Head(u)) \o Tail(u) = s
  <2>1. <<Head(u)>> \in Seq(Commands)
    BY <1>1
  <2>2. Append(a, Head(u)) = a \o <<Head(u)>>
    BY <1>1, AppendIsConcat
  <2>3. (a \o <<Head(u)>>) \o Tail(u) = a \o (<<Head(u)>> \o Tail(u))
    BY <1>1, <2>1, ConcatAssociative
  <2>4. <<Head(u)>> \o Tail(u) = u
    <3>1. /\ <<Head(u)>> \o Tail(u) \in Seq(Commands)
          /\ Len(<<Head(u)>> \o Tail(u)) = 1 + (Len(u) - 1)
          /\ \A i \in 1..(1 + (Len(u) - 1)) : (<<Head(u)>> \o Tail(u))[i] =
               IF i <= 1 THEN <<Head(u)>>[i] ELSE Tail(u)[i - 1]
      BY <1>1, <2>1, TailFacts, ConcatProperties
    <3>2. ASSUME NEW i \in 1..Len(u) PROVE (<<Head(u)>> \o Tail(u))[i] = u[i]
      <4>1. CASE i = 1
        BY <1>1, <3>1, <4>1
      <4>2. CASE i # 1
        <5>1. i - 1 \in DOMAIN Tail(u) /\ i - 1 + 1 = i
          BY <1>1, <4>2, TailFacts, QueueFacts
        <5>2. Tail(u)[i - 1] = u[i]
          BY <1>1, <5>1, TailFacts
        <5>3. QED
          BY <1>1, <3>1, <4>2, <5>2
      <4>3. QED
        BY <4>1, <4>2
    <3>3. QED
      <4>1. 1 + (Len(u) - 1) = Len(u)
        BY <1>1
      <4>2. QED
        BY <3>1, <3>2, <4>1, SeqEqual
  <2>5. QED
    BY <2>2, <2>3, <2>4
<1>4. h[n + 1] = applyCommand(v, Head(u))
  <2>1. h[n + 1] = applyCommand(h[(n + 1) - 1], s[n + 1]) /\ h[n] = v
    BY <1>2 DEF IsCourse
  <2>2. (n + 1) - 1 = n
    BY <1>1
  <2>3. QED
    BY <1>1, <1>2, <2>1, <2>2
<1>5. n + 1 \in 0..Len(s)
  BY <1>1, <1>2
<1>6. QED
  BY <1>1, <1>3, <1>4, <1>5 DEF IsCourse

(* The stacks are emptied.                                                 *)
LEMMA StacksCleared ==
  ASSUME NEW v \in Items, Shown(v) \subseteq known', canvas' = v, clearStacks(v)
  PROVE  HasCourse'
<1>1. applied' = <<>> /\ undone' = <<>> /\ base' = v
  BY DEF clearStacks
<1>2. \E h : IsCourse(h, <<>> \o <<>>, Len(<<>>), v, v, known')
  BY NoCourse
<1>3. \E h : IsCourse(h, applied' \o undone', Len(applied'), base', canvas', known')
  BY <1>1, <1>2
<1>4. QED
  BY <1>3 DEF HasCourse

(* The stacks and the canvas stay.                                         *)
LEMMA StacksKept ==
  ASSUME HasCourse, UNCHANGED <<canvas, applied, undone, base, known>>
  PROVE  HasCourse'
BY DEF HasCourse

(* A save ends.                                                            *)
LEMMA SaveEndsCourse ==
  ASSUME EditorTypeOK, KnownOK, HasCourse, UNCHANGED <<canvas, known>>,
         NEW rest, NEW leaving, SaveEnds(rest, leaving)
  PROVE  HasCourse'
<1>1. CASE leaving
  BY <1>1, EditorTypes, StacksCleared DEF SaveEnds, KnownOK
<1>2. CASE ~leaving
  BY <1>2, StacksKept DEF SaveEnds, KeepStacks
<1>3. QED
  BY <1>1, <1>2

(* A command is carried out: the course goes on from here.                 *)
LEMMA DispatchCourse ==
  ASSUME EditorTypeOK, KnownOK, HasCourse, NEW c, DrawsCommand(c), Dispatch(c)
  PROVE  HasCourse'
<1>1. /\ canvas' = applyCommand(canvas, c) /\ applied' = Append(applied, c) /\ undone' = <<>>
      /\ base' = base /\ known' = known \cup {c.ref}
      /\ c \in Commands /\ Fits(c, canvas) /\ (c.type \in Adds => c.ref \notin known)
      /\ applied \in Seq(Commands) /\ undone \in Seq(Commands) /\ canvas \in Items
      /\ AllKnown(applied, known)
  BY EditorTypes DEF Dispatch, DrawsCommand, KnownOK
<1>2. CASE base # Unknown
  <2>1. PICK g : IsCourse(g, applied \o undone, Len(applied), base, canvas, known)
    BY <1>2 DEF HasCourse
  <2>2. \E h : IsCourse(h, Append(applied, c) \o <<>>, Len(Append(applied, c)), base,
                        applyCommand(canvas, c), known \cup {c.ref})
    BY <1>1, <2>1, CourseGrows
  <2>3. QED
    BY <1>1, <2>2 DEF HasCourse
<1>3. QED
  BY <1>1, <1>2 DEF HasCourse

(* A command is undone.                                                    *)
LEMMA UndoCourse ==
  ASSUME EditorTypeOK, HasCourse, undo
  PROVE  HasCourse'
<1>1. /\ canvas' = revertCommand(canvas, Last(applied)) /\ applied' = Front(applied)
      /\ undone' = <<Last(applied)>> \o undone /\ base' = base /\ known' = known
      /\ applied # <<>> /\ applied \in Seq(Commands) /\ undone \in Seq(Commands)
  BY EditorTypes DEF undo
<1>2. CASE base # Unknown
  <2>1. PICK h : IsCourse(h, applied \o undone, Len(applied), base, canvas, known)
    BY <1>2 DEF HasCourse
  <2>2. IsCourse(h, Front(applied) \o (<<Last(applied)>> \o undone), Len(Front(applied)), base,
                 revertCommand(canvas, Last(applied)), known)
    BY <1>1, <2>1, CourseBack
  <2>3. QED
    BY <1>1, <2>2 DEF HasCourse
<1>3. QED
  BY <1>1, <1>2 DEF HasCourse

(* A command is done again.                                                *)
LEMMA RedoCourse ==
  ASSUME EditorTypeOK, HasCourse, redo
  PROVE  HasCourse'
<1>1. /\ canvas' = applyCommand(canvas, Head(undone)) /\ applied' = Append(applied, Head(undone))
      /\ undone' = Tail(undone) /\ base' = base /\ known' = known
      /\ undone # <<>> /\ applied \in Seq(Commands) /\ undone \in Seq(Commands)
  BY EditorTypes DEF redo
<1>2. CASE base # Unknown
  <2>1. PICK h : IsCourse(h, applied \o undone, Len(applied), base, canvas, known)
    BY <1>2 DEF HasCourse
  <2>2. IsCourse(h, Append(applied, Head(undone)) \o Tail(undone),
                 Len(Append(applied, Head(undone))), base,
                 applyCommand(canvas, Head(undone)), known)
    BY <1>1, <2>1, CourseForth
  <2>3. QED
    BY <1>1, <2>2 DEF HasCourse
<1>3. QED
  BY <1>1, <1>2 DEF HasCourse

(* With a design on the canvas that the stacks know nothing of, there is a *)
(* course only if they are empty.                                          *)
LEMMA BasedCourse ==
  ASSUME NEW v \in Items, Shown(v) \subseteq known', canvas' = v, base' = Based(v),
         applied \in Seq(Commands), undone \in Seq(Commands), UNCHANGED <<applied, undone>>
  PROVE  HasCourse'
<1>1. CASE applied \o undone = <<>>
  <2>1. applied = <<>> /\ undone = <<>>
    BY <1>1, ConcatEqualIffEmpty
  <2>2. \E h : IsCourse(h, <<>> \o <<>>, Len(<<>>), v, v, known')
    BY NoCourse
  <2>3. base' = v
    BY <1>1 DEF Based
  <2>4. \E h : IsCourse(h, applied' \o undone', Len(applied'), base', canvas', known')
    BY <2>1, <2>2, <2>3
  <2>5. QED
    BY <2>4 DEF HasCourse
<1>2. CASE applied \o undone # <<>>
  BY <1>2 DEF Based, HasCourse
<1>3. QED
  BY <1>1, <1>2

(* A save begins.                                                          *)
LEMMA StartSaveCourse ==
  ASSUME EditorTypeOK, KnownOK, HasCourse, NEW leaving, StartSave(leaving)
  PROVE  HasCourse'
<1>1. UNCHANGED <<canvas, known>>
  BY DEF StartSave
<1>2. \/ UNCHANGED <<applied, undone, base>>
      \/ SaveEnds(<<>>, leaving)
  BY DEF StartSave, KeepStacks
<1>3. QED
  BY <1>1, <1>2, StacksKept, SaveEndsCourse

(* Every step keeps the course.                                            *)
LEMMA CourseKept ==
  ASSUME EditorTypeOK, KnownOK, HasCourse, EditorNext
  PROVE  HasCourse'
<1>0. /\ Shown(canvas) \subseteq known /\ applied \in Seq(Commands) /\ undone \in Seq(Commands)
      /\ canvas \in Items
  BY EditorTypes DEF KnownOK
<1>1. ASSUME NEW c, DrawsCommand(c), Dispatch(c) PROVE HasCourse'
  BY <1>1, DispatchCourse
<1>2. CASE undo
  BY <1>2, UndoCourse
<1>3. CASE redo
  BY <1>3, RedoCourse
<1>4. CASE EnterEditMode
  BY <1>4, StacksKept DEF EnterEditMode
<1>5. CASE SaveNow
  BY <1>5, StartSaveCourse DEF SaveNow
<1>6. CASE LeaveEditMode
  <2>1. CASE StartSave(TRUE)
    BY <2>1, StartSaveCourse
  <2>2. CASE clearStacks(canvas) /\ UNCHANGED <<canvas, known>>
    BY <1>0, <2>2, StacksCleared
  <2>3. QED
    BY <1>6, <2>1, <2>2 DEF LeaveEditMode
<1>7. CASE CreateDesign
  <2>1. UNCHANGED <<canvas, known>>
    BY <1>7 DEF CreateDesign
  <2>2. \/ SaveFails(pending) \/ SaveEnds(<<>>, save.leaving)
        \/ KeepStacks(<<>>) /\ UNCHANGED base
    BY <1>7 DEF CreateDesign
  <2>3. QED
    BY <2>1, <2>2, StacksKept, SaveEndsCourse DEF SaveFails, KeepStacks
<1>8. CASE SendNext
  <2>1. UNCHANGED <<canvas, known>>
    BY <1>8 DEF SendNext
  <2>2. SaveFails(Requeued) \/ UNCHANGED <<applied, undone, base>>
    BY <1>8, SendFacts
  <2>3. QED
    BY <2>1, <2>2, StacksKept, SaveEndsCourse DEF SaveFails
<1>9. CASE SaveSketch
  <2>1. UNCHANGED <<canvas, known>>
    BY <1>9 DEF SaveSketch
  <2>2. clearStacks(canvas) \/ UNCHANGED <<applied, undone, base>>
    BY <1>9 DEF SaveSketch, KeepStacks
  <2>3. QED
    BY <1>0, <2>1, <2>2, StacksKept, StacksCleared
<1>10. ASSUME NEW d \in Designs, LoadDesign(d) \/ ArchiveDesign(d) PROVE HasCourse'
  BY <1>10, StacksKept DEF LoadDesign, ArchiveDesign
<1>11. CASE Hydrate
  <2>1. /\ canvas' = fetched.items /\ base' = Based(fetched.items) /\ fetched.items \in Items
        /\ Shown(fetched.items) \subseteq known' /\ UNCHANGED <<applied, undone>>
    BY <1>11, EditorTypes DEF Hydrate, KnownOK
  <2>2. QED
    BY <1>0, <2>1, BasedCourse
<1>12. CASE ClearDeleted
  <2>1. canvas' = Empty /\ Empty \in Items /\ Shown(Empty) \subseteq known'
    BY <1>12, EmptyItems DEF ClearDeleted, Shown, Empty
  <2>2. clearStacks(Empty) \/ (base' = Based(Empty) /\ UNCHANGED <<applied, undone>>)
    BY <1>12 DEF ClearDeleted, KeepStacks
  <2>3. QED
    BY <1>0, <2>1, <2>2, StacksCleared, BasedCourse
<1>13. QED
  BY <1>0, <1>1, <1>2, <1>3, <1>4, <1>5, <1>6, <1>7, <1>8, <1>9, <1>10, <1>11, <1>12, EditorSteps

(* There is a course from the first state.                                 *)
LEMMA CourseBegins ==
  ASSUME EditorInit, EditorTypeOK, KnownOK
  PROVE  HasCourse
<1>1. applied = <<>> /\ undone = <<>> /\ base = canvas /\ canvas \in Items
      /\ Shown(canvas) \subseteq known
  BY EditorTypes DEF EditorInit, KnownOK
<1>2. \E h : IsCourse(h, <<>> \o <<>>, Len(<<>>), canvas, canvas, known)
  BY <1>1, NoCourse
<1>3. QED
  BY <1>1, <1>2 DEF HasCourse

(* Redone and Unwound are what the course says: their recursions have no   *)
(* other solution.                                                         *)
Redoing(items, s) ==
  CHOOSE f : f = [i \in 0..Len(s) |-> IF i = 0 THEN items ELSE applyCommand(f[i - 1], s[i])]
Unwinding(items, s) ==
  CHOOSE f : f = [i \in 0..Len(s) |->
                    IF i = Len(s) THEN items ELSE revertCommand(f[i + 1], s[i + 1])]

(* What the recursions of Redone and Unwound end with.                     *)
LEMMA RedoneIsLast ==
  ASSUME NEW items, NEW s
  PROVE  /\ Redone(items, s) = Redoing(items, s)[Len(s)]
         /\ Unwound(items, s) = Unwinding(items, s)[0]
BY Zenon DEF Redone, Redoing, Unwound, Unwinding

(* Doing it all again follows the course to its end.                       *)
LEMMA CourseRedone ==
  ASSUME NEW s \in Seq(Commands), NEW from, NEW h, h = [i \in 0..Len(s) |-> h[i]],
         h[0] = from, \A i \in 1..Len(s) : h[i] = applyCommand(h[i - 1], s[i])
  PROVE  Redone(from, s) = h[Len(s)]
<1>0. Len(s) \in Nat
  BY QueueFacts
<1>1. h = [i \in 0..Len(s) |-> IF i = 0 THEN from ELSE applyCommand(h[i - 1], s[i])]
  <2>1. \A i \in 0..Len(s) : h[i] = IF i = 0 THEN from ELSE applyCommand(h[i - 1], s[i])
    OBVIOUS
  <2>2. QED
    BY <2>1
<1> DEFINE f == Redoing(from, s)
<1>2. f = [i \in 0..Len(s) |-> IF i = 0 THEN from ELSE applyCommand(f[i - 1], s[i])]
  BY <1>1, Zenon DEF Redoing
<1> HIDE DEF f
<1> DEFINE T == {i \in 0..Len(s) : f[i] # h[i]}
<1>3. SUFFICES ASSUME T # {} PROVE FALSE
  <2>1. Len(s) \in 0..Len(s)
    BY <1>0
  <2>2. QED
    BY <2>1, RedoneIsLast DEF f
<1>4. PICK m \in T : \A k \in T : m <= k
  <2>1. T \subseteq Nat
    BY <1>0
  <2> HIDE DEF T
  <2>2. QED
    BY <1>3, <2>1, LeastElement
<1>5. \A i \in 0..Len(s) :
        /\ f[i] = IF i = 0 THEN from ELSE applyCommand(f[i - 1], s[i])
        /\ h[i] = IF i = 0 THEN from ELSE applyCommand(h[i - 1], s[i])
  BY <1>1, <1>2, Zenon
<1>6. m # 0
  BY <1>0, <1>4, <1>5
<1>7. m - 1 \in 0..Len(s) /\ m - 1 \notin T
  BY <1>0, <1>4, <1>6
<1>8. f[m - 1] = h[m - 1]
  BY <1>7
<1>9. QED
  BY <1>4, <1>5, <1>6, <1>8

(* Undoing it all follows the course back to its start.                    *)
LEMMA CourseUnwound ==
  ASSUME NEW s \in Seq(Commands), NEW to, NEW h, h = [i \in 0..Len(s) |-> h[i]],
         h[Len(s)] = to,
         \A i \in 0..(Len(s) - 1) : h[i] = revertCommand(h[i + 1], s[i + 1])
  PROVE  Unwound(to, s) = h[0]
<1>0. Len(s) \in Nat
  BY QueueFacts
<1>1. h = [i \in 0..Len(s) |-> IF i = Len(s) THEN to ELSE revertCommand(h[i + 1], s[i + 1])]
  <2>1. \A i \in 0..Len(s) :
          h[i] = IF i = Len(s) THEN to ELSE revertCommand(h[i + 1], s[i + 1])
    <3>1. \A i \in 0..Len(s) : i = Len(s) \/ i \in 0..(Len(s) - 1)
      BY <1>0
    <3>2. QED
      BY <3>1
  <2>2. QED
    BY <2>1
<1> DEFINE f == Unwinding(to, s)
<1>2. f = [i \in 0..Len(s) |-> IF i = Len(s) THEN to ELSE revertCommand(f[i + 1], s[i + 1])]
  BY <1>1, Zenon DEF Unwinding
<1> HIDE DEF f
<1> DEFINE T == {k \in 0..Len(s) : f[Len(s) - k] # h[Len(s) - k]}
<1>3. SUFFICES ASSUME T # {} PROVE FALSE
  <2>1. Len(s) \in 0..Len(s) /\ Len(s) - Len(s) = 0
    BY <1>0
  <2>2. f[0] = h[0]
    BY <2>1
  <2>3. QED
    BY <2>2, RedoneIsLast DEF f
<1>4. PICK m \in T : \A k \in T : m <= k
  <2>1. T \subseteq Nat
    BY <1>0
  <2> HIDE DEF T
  <2>2. QED
    BY <1>3, <2>1, LeastElement
<1>5. \A i \in 0..Len(s) :
        /\ f[i] = IF i = Len(s) THEN to ELSE revertCommand(f[i + 1], s[i + 1])
        /\ h[i] = IF i = Len(s) THEN to ELSE revertCommand(h[i + 1], s[i + 1])
  BY <1>1, <1>2, Zenon
<1>6. m # 0
  <2>1. Len(s) - 0 = Len(s) /\ Len(s) \in 0..Len(s)
    BY <1>0
  <2>2. f[Len(s)] = h[Len(s)]
    BY <1>5, <2>1
  <2>3. QED
    BY <1>4, <2>1, <2>2
<1>7. m - 1 \in 0..Len(s) /\ m - 1 \notin T /\ Len(s) - (m - 1) = (Len(s) - m) + 1
      /\ Len(s) - m \in 0..Len(s) /\ Len(s) - m # Len(s)
  <2>1. m \in 1..Len(s)
    BY <1>4, <1>6
  <2>2. m - 1 \in 0..Len(s) /\ Len(s) - (m - 1) = (Len(s) - m) + 1
        /\ Len(s) - m \in 0..Len(s) /\ Len(s) - m # Len(s) /\ ~(m <= m - 1)
    BY <1>0, <2>1
  <2> HIDE DEF T
  <2>3. QED
    BY <1>4, <2>2
<1>8. f[(Len(s) - m) + 1] = h[(Len(s) - m) + 1]
  BY <1>7
<1>9. f[Len(s) - m] = h[Len(s) - m]
  BY <1>5, <1>7, <1>8
<1>10. QED
  BY <1>4, <1>9

(* So undoing and doing again is exact.                                    *)
LEMMA CourseIsExact == EditorTypeOK /\ HasCourse => UndoIsExact
<1> SUFFICES ASSUME EditorTypeOK, HasCourse, base # Unknown
    PROVE  Redone(base, applied) = canvas /\ Unwound(canvas, applied) = base
  BY DEF UndoIsExact
<1>1. PICK g : IsCourse(g, applied \o undone, Len(applied), base, canvas, known)
  BY DEF HasCourse
<1> DEFINE n == Len(applied)
           h == [i \in 0..n |-> g[i]]
<1>2. /\ applied \in Seq(Commands) /\ undone \in Seq(Commands) /\ n \in Nat
      /\ n <= Len(applied \o undone) /\ Len(applied \o undone) \in Nat
      /\ \A i \in 1..n : applied[i] \in Commands /\ (applied \o undone)[i] = applied[i]
  BY EditorTypes, JoinFacts, QueueFacts
<1>3. /\ h = [i \in 0..Len(applied) |-> h[i]] /\ h[0] = base /\ h[n] = canvas
      /\ \A i \in 0..n : h[i] = g[i] /\ h[i] \in Items
  <2>1. \A i \in 0..n : i \in 0..Len(applied \o undone)
    BY <1>2
  <2>2. QED
    BY <1>1, <1>2, <2>1 DEF IsCourse
<1> HIDE DEF h
<1>4. \A i \in 1..n : Fits(applied[i], h[i - 1]) /\ h[i] = applyCommand(h[i - 1], applied[i])
  <2>1. ASSUME NEW i \in 1..n
        PROVE  Fits(applied[i], h[i - 1]) /\ h[i] = applyCommand(h[i - 1], applied[i])
    <3>1. i \in 1..Len(applied \o undone) /\ i - 1 \in 0..n /\ i \in 0..n
      BY <1>2
    <3>2. QED
      BY <1>1, <1>2, <1>3, <3>1 DEF IsCourse
  <2>2. QED
    BY <2>1
<1>5. \A i \in 0..(n - 1) : h[i] = revertCommand(h[i + 1], applied[i + 1])
  <2>1. ASSUME NEW i \in 0..(n - 1) PROVE h[i] = revertCommand(h[i + 1], applied[i + 1])
    <3>1. i + 1 \in 1..n /\ (i + 1) - 1 = i /\ i \in 0..n
      BY <1>2
    <3>2. /\ Fits(applied[i + 1], h[i]) /\ h[i + 1] = applyCommand(h[i], applied[i + 1])
          /\ h[i] \in Items /\ applied[i + 1] \in Commands
      BY <1>2, <1>3, <1>4, <3>1
    <3>3. QED
      BY <3>2, RevertUndoes
  <2>2. QED
    BY <2>1
<1>6. Redone(base, applied) = canvas
  BY <1>2, <1>3, <1>4, CourseRedone
<1>7. Unwound(canvas, applied) = base
  BY <1>2, <1>3, <1>5, CourseUnwound
<1>8. QED
  BY <1>6, <1>7

-----------------------------------------------------------------------------
(* Undo is exact.                                                          *)

(* The types, the elements drawn, and the course the canvas took.          *)
DrawingInv == EditorTypeOK /\ KnownOK /\ HasCourse

(* Nothing changes.                                                        *)
LEMMA EditorStutters == DrawingInv /\ UNCHANGED editorVars => DrawingInv'
BY DEF editorVars, DrawingInv, EditorTypeOK, SaveOK, Saving, KnownOK, HasCourse

(* Every step keeps the types, the known elements and the course.          *)
LEMMA DrawingStep == DrawingInv /\ [EditorNext]_editorVars => DrawingInv'
<1> SUFFICES ASSUME DrawingInv, EditorNext PROVE DrawingInv'
  BY EditorStutters
<1>1. EditorTypeOK /\ KnownOK /\ HasCourse /\ Shown(canvas) \subseteq known
  BY DEF DrawingInv, KnownOK
<1>2. EditorTypeOK'
  BY <1>1, EditorTypesKept
<1>3. HasCourse'
  BY <1>1, CourseKept
<1>4. KnownOK'
  <2>1. ASSUME NEW c, DrawsCommand(c), Dispatch(c) PROVE KnownOK'
    BY <1>1, <2>1, DispatchKnown
  <2>2. CASE undo \/ redo
    BY <1>1, <2>2, UndoRedoKnown
  <2>3. CASE CreateDesign \/ SendNext \/ SaveSketch
    BY <1>1, <2>3, SavingKnown
  <2>4. CASE \/ EnterEditMode \/ LeaveEditMode \/ SaveNow \/ Hydrate \/ ClearDeleted
             \/ \E d \in Designs : LoadDesign(d) \/ ArchiveDesign(d)
    BY <1>1, <2>4, OpeningKnown
  <2>5. QED
    BY <1>1, <2>1, <2>2, <2>3, <2>4, EditorSteps
<1>5. QED
  BY <1>2, <1>3, <1>4 DEF DrawingInv

(* The invariant of the editor, over any number of edits, undos, saves,    *)
(* failed requests and designs that are opened and removed meanwhile.      *)
THEOREM DrawingInvariant == EditorSpec => []DrawingInv
<1>1. EditorInit => DrawingInv
  BY EditorTypesBegin, CourseBegins DEF DrawingInv
<1>2. QED
  BY <1>1, DrawingStep, PTL DEF EditorSpec

(* Canvas, stacks, queue, save and designs keep their types.               *)
THEOREM EditorKeepsItsTypes == EditorSpec => []EditorTypeOK
<1>1. DrawingInv => EditorTypeOK
  BY DEF DrawingInv
<1>2. QED
  BY <1>1, DrawingInvariant, PTL

(* Undoing everything brings back what the stacks began with, and doing it *)
(* again what the canvas shows, with saves and failures in between.        *)
THEOREM UndoingIsExact == EditorSpec => []UndoIsExact
<1>1. DrawingInv => UndoIsExact
  BY CourseIsExact DEF DrawingInv
<1>2. QED
  BY <1>1, DrawingInvariant, PTL

-----------------------------------------------------------------------------
(* What a queue says of the canvas and of the server.                      *)

(* What a queued command does to an element.                               *)
Does(c, t, r) == c.type = t /\ c.ref = r
DelTouch(c, r) == c.type \in Deletes /\ r \in Touches(c)
SetsPlace(c, r) == c.ref = r /\ c.type \in {"AddNode", "MoveNode"}
SetsLabel(c, r) == c.ref = r /\ c.type \in Adds \cup Updates
IsAdd(c, r) == c.ref = r /\ c.type \in Adds
LastPlaced(q, r, i) == SetsPlace(q[i], r) /\ \A j \in DOMAIN q : SetsPlace(q[j], r) => j <= i
LastLabelled(q, r, i) == SetsLabel(q[i], r) /\ \A j \in DOMAIN q : SetsLabel(q[j], r) => j <= i

(* What is queued on an element ends in what the canvas shows of it, and   *)
(* queued deletions of nodes are about lines that ended there.             *)
QueueFits(q, v, r) ==
  /\ v[r] # Absent =>
       /\ \A i \in DOMAIN q : ~DelTouch(q[i], r)
       /\ \A i \in DOMAIN q : LastPlaced(q, r, i) => q[i].new.at = v[r].at
       /\ \A i \in DOMAIN q : LastLabelled(q, r, i) => q[i].new.label = v[r].label
       /\ \A i \in DOMAIN q : Does(q[i], "AddEdge", r) => SameEnds(q[i].new, v[r])
       /\ r \in Lines => \A i \in DOMAIN q : q[i].type = "DeleteNode" /\ q[i].ref \in Ends(v[r]) =>
            \E j \in DOMAIN q : j > i /\ Does(q[j], "AddEdge", r)
  /\ \A i, j \in DOMAIN q : q[i].ref = r /\ q[j].ref = r /\ q[i].type \in Deletes => j <= i
  /\ \A i \in DOMAIN q : q[i].type = "DeleteNode" /\ r \in DOMAIN q[i].lines =>
       /\ v[q[i].ref] = Absent
       /\ \A j \in DOMAIN q : Does(q[j], "AddEdge", r) => q[i].ref \in Ends(q[j].new)
QueueOK(q, v, F) == \A r \in Refs \ F : QueueFits(q, v, r)

(* What the canvas shows of an element and the server lacks is queued, and *)
(* so is what the server has and the canvas lacks; a line that is added to *)
(* a node that is gone will be refused.                                    *)
DeadEnd(q, s, x) ==
  \E n \in Ends(x) \cap Nodes : s[n] = Absent /\ \A j \in DOMAIN q : ~Does(q[j], "AddNode", n)
ServerFits(q, v, s, r) ==
  /\ v[r] # Absent /\ s[r] = Absent => \E i \in DOMAIN q : IsAdd(q[i], r)
  /\ v[r] # Absent /\ s[r] # Absent =>
       /\ r \in Nodes => (\E i \in DOMAIN q : SetsPlace(q[i], r)) \/ s[r].at = v[r].at
       /\ (\E i \in DOMAIN q : SetsLabel(q[i], r)) \/ s[r].label = v[r].label
       /\ r \in Lines => SameEnds(s[r], v[r])
  /\ v[r] = Absent =>
       \/ \E i \in DOMAIN q : DelTouch(q[i], r)
       \/ /\ s[r] = Absent
          /\ \A i \in DOMAIN q : IsAdd(q[i], r) => r \in Lines /\ DeadEnd(q, s, q[i].new)
  /\ r \in Lines /\ s[r] # Absent =>
       \A i \in DOMAIN q : q[i].type = "DeleteNode" /\ r \in DOMAIN q[i].lines =>
         q[i].ref \in Ends(s[r])
ServerOK(q, v, s, F) == \A r \in Refs \ F : ServerFits(q, v, s, r)

(* Before there is a design: what is not on the canvas is not added.       *)
LocalFits(q, v, r) ==
  v[r] = Absent =>
    (\E i \in DOMAIN q : DelTouch(q[i], r)) \/ \A i \in DOMAIN q : ~IsAdd(q[i], r)
LocalOK(q, v, F) == \A r \in Refs \ F : LocalFits(q, v, r)

(* The more is given up, the less is claimed.                              *)
LEMMA ClaimsWeaken ==
  ASSUME NEW q, NEW v, NEW s, NEW F, NEW G, F \subseteq G
  PROVE  /\ QueueOK(q, v, F) => QueueOK(q, v, G)
         /\ ServerOK(q, v, s, F) => ServerOK(q, v, s, G)
         /\ LocalOK(q, v, F) => LocalOK(q, v, G)
BY DEF QueueOK, ServerOK, LocalOK

(* When all is given up nothing is claimed.                                *)
LEMMA NothingClaimed ==
  ASSUME NEW q, NEW v, NEW s
  PROVE  QueueOK(q, v, Refs) /\ ServerOK(q, v, s, Refs) /\ LocalOK(q, v, Refs)
BY DEF QueueOK, ServerOK, LocalOK

(* An empty queue claims nothing of the canvas.                            *)
LEMMA NothingQueued ==
  ASSUME NEW v, NEW F
  PROVE  QueueOK(<<>>, v, F) /\ LocalOK(<<>>, v, F)
<1>1. DOMAIN <<>> = {}
  OBVIOUS
<1>2. QED
  BY <1>1 DEF QueueOK, QueueFits, LocalOK, LocalFits

(* What differs is queued.                                                 *)
LEMMA DifferencesAreQueued ==
  ASSUME NEW q \in Seq(Commands), NEW v \in Items, NEW s \in Items, NEW F,
         ServerOK(q, v, s, F), NEW r \in Refs \ F, v[r] # s[r]
  PROVE  r \in TouchedBy(q)
<1>1. SUFFICES ASSUME \A i \in DOMAIN q : r \notin Touches(q[i]) PROVE FALSE
  BY TouchedFacts
<1>2. \A i \in DOMAIN q : q[i].ref # r /\ ~DelTouch(q[i], r)
  BY <1>1, QueueFacts, CommandFacts DEF DelTouch
<1>3. ServerFits(q, v, s, r)
  BY DEF ServerOK
<1>4. \A i \in DOMAIN q : ~IsAdd(q[i], r) /\ ~SetsPlace(q[i], r) /\ ~SetsLabel(q[i], r)
  BY <1>2 DEF IsAdd, SetsPlace, SetsLabel
<1>5. v[r] # Absent /\ s[r] # Absent
  BY <1>2, <1>3, <1>4 DEF ServerFits
<1>6. CASE r \in Nodes
  <2>1. v[r] \in NodeItem /\ s[r] \in NodeItem
    BY <1>5, <1>6, ItemFacts
  <2>2. s[r].at = v[r].at /\ s[r].label = v[r].label
    BY <1>3, <1>4, <1>5, <1>6 DEF ServerFits
  <2>3. QED
    BY <2>1, <2>2 DEF NodeItem
<1>7. CASE r \in Lines
  <2>1. v[r] \in LineItem /\ s[r] \in LineItem
    BY <1>5, <1>7, ItemFacts
  <2>2. SameEnds(s[r], v[r]) /\ s[r].label = v[r].label
    BY <1>3, <1>4, <1>5, <1>7 DEF ServerFits
  <2>3. QED
    BY <2>1, <2>2 DEF LineItem, SameEnds
<1>8. QED
  BY <1>6, <1>7 DEF Refs

(* Giving up the end of a queue, and what it touches.                      *)
LEMMA QueueCut ==
  ASSUME NEW a \in Seq(Commands), NEW b \in Seq(Commands), NEW v, NEW F,
         QueueOK(a \o b, v, F)
  PROVE  QueueOK(a, v, F \cup TouchedBy(b))
<1> SUFFICES ASSUME NEW r \in Refs \ (F \cup TouchedBy(b)) PROVE QueueFits(a, v, r)
  BY DEF QueueOK
<1> DEFINE q == a \o b
<1>1. QueueFits(q, v, r)
  BY DEF QueueOK
<1>2. /\ \A i \in DOMAIN a : i \in DOMAIN q /\ q[i] = a[i]
      /\ \A i \in DOMAIN q : i \in DOMAIN a \/ (q[i].ref # r /\ ~DelTouch(q[i], r))
  <2>1. \A i \in DOMAIN b : b[i].ref # r /\ ~DelTouch(b[i], r)
    BY TouchedFacts, QueueFacts, CommandFacts DEF DelTouch
  <2>2. QED
    BY <2>1, JoinFacts
<1> HIDE DEF q
<1>3. ASSUME NEW i \in DOMAIN a
      PROVE  /\ LastPlaced(a, r, i) => LastPlaced(q, r, i)
             /\ LastLabelled(a, r, i) => LastLabelled(q, r, i)
  BY <1>2 DEF LastPlaced, LastLabelled, SetsPlace, SetsLabel
<1>4. ASSUME NEW i \in DOMAIN a, v[r] # Absent
      PROVE  /\ ~DelTouch(a[i], r)
             /\ LastPlaced(a, r, i) => a[i].new.at = v[r].at
             /\ LastLabelled(a, r, i) => a[i].new.label = v[r].label
             /\ Does(a[i], "AddEdge", r) => SameEnds(a[i].new, v[r])
  BY <1>1, <1>2, <1>3, <1>4 DEF QueueFits
<1>5. ASSUME NEW i \in DOMAIN a, v[r] # Absent, r \in Lines,
             a[i].type = "DeleteNode", a[i].ref \in Ends(v[r])
      PROVE  \E j \in DOMAIN a : j > i /\ Does(a[j], "AddEdge", r)
  <2>1. PICK j \in DOMAIN q : j > i /\ Does(q[j], "AddEdge", r)
    BY <1>1, <1>2, <1>5 DEF QueueFits
  <2>2. j \in DOMAIN a
    BY <1>2, <2>1 DEF Does
  <2>3. QED
    BY <1>2, <2>1, <2>2
<1>6. \A i, j \in DOMAIN a : a[i].ref = r /\ a[j].ref = r /\ a[i].type \in Deletes => j <= i
  BY <1>1, <1>2 DEF QueueFits
<1>7. \A i \in DOMAIN a : a[i].type = "DeleteNode" /\ r \in DOMAIN a[i].lines =>
       /\ v[a[i].ref] = Absent
       /\ \A j \in DOMAIN a : Does(a[j], "AddEdge", r) => a[i].ref \in Ends(a[j].new)
  BY <1>1, <1>2 DEF QueueFits
<1>8. QED
  BY <1>4, <1>5, <1>6, <1>7 DEF QueueFits

(* With fewer commands waiting a dead end stays one.                       *)
LEMMA DeadEndFewer ==
  ASSUME NEW q, NEW u, NEW s, NEW x, DeadEnd(q, s, x),
         \A i \in DOMAIN u : \E j \in DOMAIN q : q[j] = u[i]
  PROVE  DeadEnd(u, s, x)
BY DEF DeadEnd

(* The same for what it says of the server.                                *)
LEMMA ServerCut ==
  ASSUME NEW a \in Seq(Commands), NEW b \in Seq(Commands), NEW v, NEW s, NEW F,
         ServerOK(a \o b, v, s, F)
  PROVE  ServerOK(a, v, s, F \cup TouchedBy(b))
<1> SUFFICES ASSUME NEW r \in Refs \ (F \cup TouchedBy(b)) PROVE ServerFits(a, v, s, r)
  BY DEF ServerOK
<1> DEFINE q == a \o b
<1>1. ServerFits(q, v, s, r)
  BY DEF ServerOK
<1>2. /\ \A i \in DOMAIN a : i \in DOMAIN q /\ q[i] = a[i]
      /\ \A i \in DOMAIN q : i \in DOMAIN a \/ (q[i].ref # r /\ ~DelTouch(q[i], r))
  <2>1. \A i \in DOMAIN b : b[i].ref # r /\ ~DelTouch(b[i], r)
    BY TouchedFacts, QueueFacts, CommandFacts DEF DelTouch
  <2>2. QED
    BY <2>1, JoinFacts
<1> HIDE DEF q
<1>3. \A x : DeadEnd(q, s, x) => DeadEnd(a, s, x)
  BY <1>2, DeadEndFewer
<1>4. v[r] # Absent /\ s[r] = Absent => \E i \in DOMAIN a : IsAdd(a[i], r)
  BY <1>1, <1>2 DEF ServerFits, IsAdd
<1>5. v[r] # Absent /\ s[r] # Absent =>
       /\ r \in Nodes => (\E i \in DOMAIN a : SetsPlace(a[i], r)) \/ s[r].at = v[r].at
       /\ (\E i \in DOMAIN a : SetsLabel(a[i], r)) \/ s[r].label = v[r].label
       /\ r \in Lines => SameEnds(s[r], v[r])
  BY <1>1, <1>2 DEF ServerFits, SetsPlace, SetsLabel
<1>6. v[r] = Absent =>
       \/ \E i \in DOMAIN a : DelTouch(a[i], r)
       \/ /\ s[r] = Absent
          /\ \A i \in DOMAIN a : IsAdd(a[i], r) => r \in Lines /\ DeadEnd(a, s, a[i].new)
  BY <1>1, <1>2, <1>3 DEF ServerFits
<1>7. r \in Lines /\ s[r] # Absent =>
       \A i \in DOMAIN a : a[i].type = "DeleteNode" /\ r \in DOMAIN a[i].lines =>
         a[i].ref \in Ends(s[r])
  BY <1>1, <1>2 DEF ServerFits
<1>8. QED
  BY <1>4, <1>5, <1>6, <1>7 DEF ServerFits

-----------------------------------------------------------------------------
(* What is queued and what is sent of it.                                  *)

(* The last command that sets an element's place, or its label.            *)
LEMMA LastSetter ==
  ASSUME NEW q \in Seq(Commands), NEW r, NEW j \in DOMAIN q
  PROVE  /\ SetsPlace(q[j], r) => \E i \in DOMAIN q : LastPlaced(q, r, i)
         /\ SetsLabel(q[j], r) => \E i \in DOMAIN q : LastLabelled(q, r, i)
<1>1. DOMAIN q = 1..Len(q) /\ Len(q) \in Nat
  BY QueueFacts
<1>2. ASSUME SetsPlace(q[j], r) PROVE \E i \in DOMAIN q : LastPlaced(q, r, i)
  <2> DEFINE T == {i \in DOMAIN q : SetsPlace(q[i], r)}
  <2>1. T \subseteq 1..Len(q) /\ T # {}
    BY <1>1, <1>2
  <2>2. \E i \in T : \A k \in T : k <= i
    BY <1>1, <2>1, LastPlaceIn
  <2>3. QED
    BY <2>2 DEF LastPlaced
<1>3. ASSUME SetsLabel(q[j], r) PROVE \E i \in DOMAIN q : LastLabelled(q, r, i)
  <2> DEFINE T == {i \in DOMAIN q : SetsLabel(q[i], r)}
  <2>1. T \subseteq 1..Len(q) /\ T # {}
    BY <1>1, <1>3
  <2>2. \E i \in T : \A k \in T : k <= i
    BY <1>1, <2>1, LastPlaceIn
  <2>3. QED
    BY <2>2 DEF LastLabelled
<1>4. QED
  BY <1>2, <1>3

(* Of an element that nothing is given up of, what is sent.                *)
LEMMA BatchOn ==
  ASSUME NEW q \in Seq(Commands), NEW r \in Refs \ GivenUp(q)
  PROVE  /\ \A j \in DOMAIN q : r \in Touches(q[j]) =>
              \E k \in DOMAIN Batch(q), i \in DOMAIN q :
                /\ i >= j /\ Batch(q)[k] = q[i] /\ q[i].ref = q[j].ref
                /\ i = j \/ (q[j].type = "MoveNode" /\ q[i].type = "MoveNode")
         /\ \A j \in DOMAIN q : q[j].ref = r => KeptWhole(q, r)
<1>1. \A j \in DOMAIN q : q[j].ref \in Touches(q[j])
  BY QueueFacts, CommandFacts
<1>2. \A j \in DOMAIN q : r \in Touches(q[j]) => ~(Touches(q[j]) \subseteq GivenUp(q))
  OBVIOUS
<1>3. QED
  BY <1>1, <1>2, BatchKeeps

(* The commands sent that set an element's place, or its label, last, are  *)
(* those that were queued last.                                            *)
LEMMA BatchEndsAlike ==
  ASSUME NEW q \in Seq(Commands), NEW r \in Refs \ GivenUp(q), NEW k \in DOMAIN Batch(q)
  PROVE  /\ LastPlaced(Batch(q), r, k) => \E i \in DOMAIN q : LastPlaced(q, r, i) /\ Batch(q)[k] = q[i]
         /\ LastLabelled(Batch(q), r, k) => \E i \in DOMAIN q : LastLabelled(q, r, i) /\ Batch(q)[k] = q[i]
<1> DEFINE b == Batch(q)
<1>1. /\ \A m \in DOMAIN b : \E j \in DOMAIN q : q[j] = b[m]
      /\ b \in Seq(Commands) /\ PairsOnly(b) /\ k \in DOMAIN b
  BY BatchFacts
<1>2. \A j \in DOMAIN q : q[j].ref = r =>
        /\ KeptWhole(q, r)
        /\ \E m \in DOMAIN b, i \in DOMAIN q :
             /\ i >= j /\ b[m] = q[i] /\ q[i].ref = r
             /\ i = j \/ (q[j].type = "MoveNode" /\ q[i].type = "MoveNode")
  <2>1. \A j \in DOMAIN q : q[j].ref = r => r \in Touches(q[j])
    BY QueueFacts, CommandFacts
  <2>2. QED
    BY <2>1, BatchOn
<1> HIDE DEF b
<1>3. /\ \A i \in DOMAIN q : i \in Nat
      /\ \A m \in DOMAIN b : m \in Nat
  BY <1>1, QueueFacts
<1>4. PICK j \in DOMAIN q : q[j] = b[k]
  BY <1>1 DEF b
<1>5. ASSUME LastPlaced(b, r, k) PROVE \E i \in DOMAIN q : LastPlaced(q, r, i) /\ b[k] = q[i]
  <2>1. SetsPlace(q[j], r) /\ q[j].ref = r
    BY <1>4, <1>5 DEF LastPlaced, SetsPlace
  <2>2. PICK last \in DOMAIN q : LastPlaced(q, r, last)
    BY <2>1, LastSetter
  <2>3. q[last].ref = r /\ SetsPlace(q[last], r)
    BY <2>2 DEF LastPlaced, SetsPlace
  <2>4. PICK m \in DOMAIN b, i \in DOMAIN q :
             /\ i >= last /\ b[m] = q[i] /\ q[i].ref = r
             /\ i = last \/ (q[last].type = "MoveNode" /\ q[i].type = "MoveNode")
    BY <1>2, <2>3
  <2>5. i = last
    BY <1>3, <2>2, <2>4 DEF LastPlaced, SetsPlace
  <2>6. m <= k
    BY <1>5, <2>3, <2>4, <2>5 DEF LastPlaced
  <2>7. CASE m = k
    BY <2>2, <2>4, <2>5, <2>7
  <2>8. CASE m < k
    <3>1. b[m].ref = r /\ b[k].ref = r
      BY <1>4, <2>1, <2>3, <2>4, <2>5
    <3>2. b[m].type = "AddNode" /\ b[k].type = "MoveNode"
      BY <1>1, <2>4, <2>8, <3>1 DEF PairsOnly
    <3>3. j # last /\ j <= last
      BY <1>4, <2>1, <2>2, <2>4, <2>5, <3>2 DEF LastPlaced
    <3>4. j \in OnRef(q, r) /\ last \in OnRef(q, r) /\ KeptWhole(q, r)
      BY <1>2, <2>1, <2>3 DEF OnRef
    <3>5. q[last].type = "AddNode"
      BY <2>4, <2>5, <3>2
    <3>6. QED
      BY <1>3, <3>3, <3>4, <3>5 DEF KeptWhole
  <2>9. QED
    BY <1>1, <1>3, <2>4, <2>6, <2>7, <2>8
<1>6. ASSUME LastLabelled(b, r, k) PROVE \E i \in DOMAIN q : LastLabelled(q, r, i) /\ b[k] = q[i]
  <2>1. SetsLabel(q[j], r) /\ q[j].ref = r
    BY <1>4, <1>6 DEF LastLabelled, SetsLabel
  <2>2. PICK last \in DOMAIN q : LastLabelled(q, r, last)
    BY <2>1, LastSetter
  <2>3. q[last].ref = r /\ SetsLabel(q[last], r) /\ q[last].type # "MoveNode"
    BY <2>2 DEF LastLabelled, SetsLabel, Adds, Updates
  <2>4. PICK m \in DOMAIN b, i \in DOMAIN q :
             /\ i >= last /\ b[m] = q[i] /\ q[i].ref = r
             /\ i = last \/ (q[last].type = "MoveNode" /\ q[i].type = "MoveNode")
    BY <1>2, <2>3
  <2>5. i = last
    BY <2>3, <2>4
  <2>6. m <= k
    BY <1>6, <2>3, <2>4, <2>5 DEF LastLabelled
  <2>7. CASE m = k
    BY <2>2, <2>4, <2>5, <2>7
  <2>8. CASE m < k
    <3>1. b[m].ref = r /\ b[k].ref = r
      BY <1>4, <2>1, <2>3, <2>4, <2>5
    <3>2. b[k].type = "MoveNode"
      BY <1>1, <2>4, <2>8, <3>1 DEF PairsOnly
    <3>3. QED
      BY <1>4, <2>1, <3>2 DEF SetsLabel, Adds, Updates
  <2>9. QED
    BY <1>1, <1>3, <2>4, <2>6, <2>7, <2>8
<1>7. QED
  BY <1>5, <1>6 DEF b

(* What is sent ends for every element where the queue ends, except for    *)
(* those a flush gives up.                                                 *)
LEMMA BatchQueue ==
  ASSUME NEW q \in Seq(Commands), NEW v, NEW F, QueueOK(q, v, F)
  PROVE  QueueOK(Batch(q), v, F \cup GivenUp(q))
<1> SUFFICES ASSUME NEW r \in Refs \ (F \cup GivenUp(q)) PROVE QueueFits(Batch(q), v, r)
  BY DEF QueueOK
<1> DEFINE b == Batch(q)
<1>1. QueueFits(q, v, r)
  BY DEF QueueOK
<1>2. /\ \A m \in DOMAIN b : \E j \in DOMAIN q : q[j] = b[m]
      /\ b \in Seq(Commands) /\ PairsOnly(b)
  BY BatchFacts
<1>3. \A k \in DOMAIN b :
        /\ LastPlaced(b, r, k) => \E i \in DOMAIN q : LastPlaced(q, r, i) /\ b[k] = q[i]
        /\ LastLabelled(b, r, k) => \E i \in DOMAIN q : LastLabelled(q, r, i) /\ b[k] = q[i]
  BY BatchEndsAlike
<1>4. \A k, l \in DOMAIN b : b[k].ref \in Nodes /\ b[l].ref \in Lines => k < l
  BY BatchFacts
<1>5. \A j \in DOMAIN q : Does(q[j], "AddEdge", r) => \E k \in DOMAIN b : b[k] = q[j]
  <2>1. ASSUME NEW j \in DOMAIN q, Does(q[j], "AddEdge", r) PROVE \E k \in DOMAIN b : b[k] = q[j]
    <3>1. r \in Touches(q[j])
      BY <2>1, QueueFacts, CommandFacts DEF Does
    <3>2. q[j].type = "AddEdge"
      BY <2>1 DEF Does
    <3>3. QED
      BY <3>1, <3>2, BatchOn
  <2>2. QED
    BY <2>1
<1> HIDE DEF b
<1>6. \A m \in DOMAIN b : m \in Nat /\ b[m] \in Commands
  BY <1>2, QueueFacts
<1>7. ASSUME NEW i \in DOMAIN b, v[r] # Absent
      PROVE  /\ ~DelTouch(b[i], r)
             /\ LastPlaced(b, r, i) => b[i].new.at = v[r].at
             /\ LastLabelled(b, r, i) => b[i].new.label = v[r].label
             /\ Does(b[i], "AddEdge", r) => SameEnds(b[i].new, v[r])
  <2>1. PICK j \in DOMAIN q : q[j] = b[i]
    BY <1>2
  <2>2. ~DelTouch(b[i], r) /\ (Does(b[i], "AddEdge", r) => SameEnds(b[i].new, v[r]))
    BY <1>1, <1>7, <2>1 DEF QueueFits
  <2>3. LastPlaced(b, r, i) => b[i].new.at = v[r].at
    BY <1>1, <1>3, <1>7 DEF QueueFits
  <2>4. LastLabelled(b, r, i) => b[i].new.label = v[r].label
    BY <1>1, <1>3, <1>7 DEF QueueFits
  <2>5. QED
    BY <2>2, <2>3, <2>4
<1>8. ASSUME NEW i \in DOMAIN b, v[r] # Absent, r \in Lines,
             b[i].type = "DeleteNode", b[i].ref \in Ends(v[r])
      PROVE  \E j \in DOMAIN b : j > i /\ Does(b[j], "AddEdge", r)
  <2>1. PICK m \in DOMAIN q : q[m] = b[i]
    BY <1>2
  <2>2. PICK j \in DOMAIN q : Does(q[j], "AddEdge", r)
    BY <1>1, <1>8, <2>1 DEF QueueFits
  <2>3. PICK k \in DOMAIN b : b[k] = q[j]
    BY <1>5, <2>2
  <2>4. b[i].ref \in Nodes /\ b[k].ref \in Lines
    BY <1>6, <1>8, <2>2, <2>3, CommandFacts DEF Does
  <2>5. i < k
    BY <1>4, <2>4
  <2>6. QED
    BY <1>6, <2>2, <2>3, <2>5
<1>9. \A i, j \in DOMAIN b : b[i].ref = r /\ b[j].ref = r /\ b[i].type \in Deletes => j <= i
  BY <1>2, <1>6 DEF PairsOnly, Deletes
<1>10. \A i \in DOMAIN b : b[i].type = "DeleteNode" /\ r \in DOMAIN b[i].lines =>
       /\ v[b[i].ref] = Absent
       /\ \A j \in DOMAIN b : Does(b[j], "AddEdge", r) => b[i].ref \in Ends(b[j].new)
  BY <1>1, <1>2 DEF QueueFits
<1>11. QED
  BY <1>7, <1>8, <1>9, <1>10 DEF QueueFits, b

(* What is sent makes up for what the queue makes up for.                  *)
LEMMA BatchServer ==
  ASSUME NEW q \in Seq(Commands), NEW v, NEW s, NEW F, ServerOK(q, v, s, F)
  PROVE  ServerOK(Batch(q), v, s, F \cup GivenUp(q))
<1> SUFFICES ASSUME NEW r \in Refs \ (F \cup GivenUp(q)) PROVE ServerFits(Batch(q), v, s, r)
  BY DEF ServerOK
<1> DEFINE b == Batch(q)
<1>1. ServerFits(q, v, s, r)
  BY DEF ServerOK
<1>2. /\ \A m \in DOMAIN b : \E j \in DOMAIN q : q[j] = b[m]
      /\ b \in Seq(Commands)
  BY BatchFacts
<1>3. \A j \in DOMAIN q : r \in Touches(q[j]) =>
        \E k \in DOMAIN b : \/ b[k] = q[j]
                            \/ /\ q[j].type = "MoveNode" /\ b[k].type = "MoveNode"
                               /\ b[k].ref = q[j].ref
  BY BatchOn
<1> HIDE DEF b
<1>4. \A j \in DOMAIN q :
        /\ IsAdd(q[j], r) => \E k \in DOMAIN b : IsAdd(b[k], r)
        /\ SetsPlace(q[j], r) => \E k \in DOMAIN b : SetsPlace(b[k], r)
        /\ SetsLabel(q[j], r) => \E k \in DOMAIN b : SetsLabel(b[k], r)
        /\ DelTouch(q[j], r) => \E k \in DOMAIN b : DelTouch(b[k], r)
  <2>1. \A j \in DOMAIN q : q[j].ref \in Touches(q[j])
    BY QueueFacts, CommandFacts
  <2> SUFFICES ASSUME NEW j \in DOMAIN q
               PROVE  /\ IsAdd(q[j], r) => \E k \in DOMAIN b : IsAdd(b[k], r)
                      /\ SetsPlace(q[j], r) => \E k \in DOMAIN b : SetsPlace(b[k], r)
                      /\ SetsLabel(q[j], r) => \E k \in DOMAIN b : SetsLabel(b[k], r)
                      /\ DelTouch(q[j], r) => \E k \in DOMAIN b : DelTouch(b[k], r)
    OBVIOUS
  <2>2. CASE r \notin Touches(q[j])
    BY <2>1, <2>2 DEF IsAdd, SetsPlace, SetsLabel, DelTouch
  <2>3. CASE r \in Touches(q[j])
    <3>1. PICK k \in DOMAIN b : \/ b[k] = q[j]
                            \/ /\ q[j].type = "MoveNode" /\ b[k].type = "MoveNode"
                               /\ b[k].ref = q[j].ref
      BY <1>3, <2>3
    <3>2. QED
      BY <3>1 DEF IsAdd, SetsPlace, SetsLabel, DelTouch, Adds, Deletes, Updates
  <2>4. QED
    BY <2>2, <2>3
<1>5. \A x : DeadEnd(q, s, x) => DeadEnd(b, s, x)
  BY <1>2, DeadEndFewer
<1>6. v[r] # Absent /\ s[r] = Absent => \E i \in DOMAIN b : IsAdd(b[i], r)
  BY <1>1, <1>4 DEF ServerFits
<1>7. v[r] # Absent /\ s[r] # Absent =>
       /\ r \in Nodes => (\E i \in DOMAIN b : SetsPlace(b[i], r)) \/ s[r].at = v[r].at
       /\ (\E i \in DOMAIN b : SetsLabel(b[i], r)) \/ s[r].label = v[r].label
       /\ r \in Lines => SameEnds(s[r], v[r])
  BY <1>1, <1>4 DEF ServerFits
<1>8. v[r] = Absent =>
       \/ \E i \in DOMAIN b : DelTouch(b[i], r)
       \/ /\ s[r] = Absent
          /\ \A i \in DOMAIN b : IsAdd(b[i], r) => r \in Lines /\ DeadEnd(b, s, b[i].new)
  <2>1. ASSUME v[r] = Absent, s[r] = Absent, NEW i \in DOMAIN b, IsAdd(b[i], r),
               \A j \in DOMAIN q : IsAdd(q[j], r) => r \in Lines /\ DeadEnd(q, s, q[j].new)
        PROVE  r \in Lines /\ DeadEnd(b, s, b[i].new)
    BY <1>2, <1>5, <2>1
  <2>2. QED
    BY <1>1, <1>4, <2>1 DEF ServerFits
<1>9. r \in Lines /\ s[r] # Absent =>
       \A i \in DOMAIN b : b[i].type = "DeleteNode" /\ r \in DOMAIN b[i].lines =>
         b[i].ref \in Ends(s[r])
  BY <1>1, <1>2 DEF ServerFits
<1>10. QED
  BY <1>6, <1>7, <1>8, <1>9 DEF ServerFits, b

(* The same for a design that is not yet stored.                           *)
LEMMA BatchLocal ==
  ASSUME NEW q \in Seq(Commands), NEW v, NEW F, LocalOK(q, v, F)
  PROVE  LocalOK(Batch(q), v, F \cup GivenUp(q))
<1> SUFFICES ASSUME NEW r \in Refs \ (F \cup GivenUp(q)), v[r] = Absent
             PROVE  \/ \E i \in DOMAIN Batch(q) : DelTouch(Batch(q)[i], r)
                    \/ \A i \in DOMAIN Batch(q) : ~IsAdd(Batch(q)[i], r)
  BY DEF LocalOK, LocalFits
<1>1. CASE \A j \in DOMAIN q : ~IsAdd(q[j], r)
  BY <1>1, BatchFacts
<1>2. ASSUME NEW j \in DOMAIN q, DelTouch(q[j], r) PROVE \E i \in DOMAIN Batch(q) : DelTouch(Batch(q)[i], r)
  BY <1>2, BatchOn DEF DelTouch, Deletes
<1>3. QED
  BY <1>1, <1>2 DEF LocalOK, LocalFits

-----------------------------------------------------------------------------
(* The server carries out a request.                                       *)

(* What the server makes of a request.                                     *)
LEMMA ServeFacts ==
  ASSUME NEW s \in Items, NEW c \in Commands, (c.type \in Adds) = (s[c.ref] = Absent)
  PROVE  /\ c.type \in Adds => Serve(s, c) = [s EXCEPT ![c.ref] = c.new]
         /\ c.type = "MoveNode" => Serve(s, c) = [s EXCEPT ![c.ref].at = c.new.at]
         /\ c.type \in Updates => Serve(s, c) = [s EXCEPT ![c.ref].label = c.new.label]
         /\ c.type = "DeleteEdge" => Serve(s, c) = [s EXCEPT ![c.ref] = Absent]
         /\ c.type = "DeleteNode" =>
              \A r \in Refs : Serve(s, c)[r] =
                IF r = c.ref \/ r \in LinesAt(s, c.ref) THEN Absent ELSE s[r]
<1>0. c.ref \in Refs /\ DOMAIN s = Refs /\ s \in [Refs -> NodeItem \cup LineItem \cup {Absent}]
  BY CommandFacts, ItemFacts
<1>1. CASE c.type \in Adds
  BY <1>1 DEF Serve, applyCommand, Adds, Updates
<1>2. CASE c.type = "MoveNode"
  BY <1>2 DEF Serve, applyCommand, Adds, Updates, Deletes
<1>3. CASE c.type \in Updates
  BY <1>3 DEF Serve, applyCommand, Adds, Updates, Deletes
<1>4. CASE c.type = "DeleteEdge"
  <2>1. Touches(c) = {c.ref}
    BY <1>4, CommandFacts
  <2>2. Serve(s, c) = [r \in Refs |-> IF r \in {c.ref} THEN Absent ELSE s[r]]
    BY <1>4, <2>1 DEF Serve, applyCommand, Adds, Updates, Deletes
  <2>3. QED
    BY <1>0, <1>4, <2>2 DEF Adds, Updates
<1>5. CASE c.type = "DeleteNode"
  BY <1>5 DEF Serve, Adds, Updates
<1>6. QED
  BY <1>1, <1>2, <1>3, <1>4, <1>5

(* A dead end stays one while the server carries out what is queued.       *)
LEMMA DeadEndStays ==
  ASSUME NEW q, NEW s, NEW u, NEW x, DeadEnd(q, s, x),
         \A n \in Nodes : s[n] = Absent /\ u[n] # Absent => \E j \in DOMAIN q : Does(q[j], "AddNode", n)
  PROVE  DeadEnd(q, u, x)
BY DEF DeadEnd

(* A request that is carried out: what still differs is still queued, the  *)
(* request itself included.                                                *)
LEMMA LostServer ==
  ASSUME NEW q \in Seq(Commands), NEW v \in Items, NEW s \in Items, NEW F,
         QueueOK(q, v, F), ServerOK(q, v, s, F), NEW m \in DOMAIN q,
         (q[m].type \in Adds) = (s[q[m].ref] = Absent),
         q[m].type = "AddEdge" => \A n \in Ends(q[m].new) : n \in Nodes /\ s[n] # Absent
  PROVE  ServerOK(q, v, Serve(s, q[m]), F)
<1> DEFINE c == q[m]
           t == Serve(s, c)
<1> SUFFICES ASSUME NEW r \in Refs \ F PROVE ServerFits(q, v, t, r)
  BY DEF ServerOK
<1>1. QueueFits(q, v, r) /\ ServerFits(q, v, s, r)
  BY DEF QueueOK, ServerOK
<1>2. c \in Commands /\ m \in DOMAIN q /\ q[m] = c
  BY QueueFacts
<1>3. /\ c.type \in Adds => t = [s EXCEPT ![c.ref] = c.new]
      /\ c.type = "MoveNode" => t = [s EXCEPT ![c.ref].at = c.new.at]
      /\ c.type \in Updates => t = [s EXCEPT ![c.ref].label = c.new.label]
      /\ c.type = "DeleteEdge" => t = [s EXCEPT ![c.ref] = Absent]
      /\ c.type = "DeleteNode" =>
              \A r1 \in Refs : t[r1] =
                IF r1 = c.ref \/ r1 \in LinesAt(s, c.ref) THEN Absent ELSE s[r1]
  BY <1>2, ServeFacts
<1>4. (c.type \in Adds) = (s[c.ref] = Absent)
      /\ (c.type = "AddEdge" => \A n \in Ends(c.new) : n \in Nodes /\ s[n] # Absent)
  OBVIOUS
<1> HIDE DEF c, t
<1>5. /\ DOMAIN s = Refs /\ c.ref \in Refs
      /\ \A r1 \in Refs : s[r1] = Absent \/ s[r1] \in NodeItem \cup LineItem
      /\ Absent \notin NodeItem \cup LineItem
      /\ Nodes \cap Lines = {} /\ Refs = Nodes \cup Lines
      /\ \A r1 \in Nodes : s[r1] = Absent \/ s[r1] \in NodeItem
      /\ \A r1 \in Lines : s[r1] = Absent \/ s[r1] \in LineItem
  BY <1>2, CommandFacts, ItemFacts, EditorAssumption DEF Refs
<1>6. ASSUME NEW n \in Nodes, s[n] = Absent, t[n] # Absent PROVE \E j \in DOMAIN q : Does(q[j], "AddNode", n)
  <2>1. CASE c.type \in Adds
    <3>1. c.ref = n
      BY <1>3, <1>5, <1>6, <2>1
    <3>2. c.type = "AddNode"
      BY <1>2, <1>5, <2>1, <3>1, CommandFacts DEF Adds
    <3>3. QED
      BY <1>2, <3>1, <3>2 DEF Does
  <2>2. CASE c.type = "DeleteNode"
    BY <1>3, <1>5, <1>6, <2>2
  <2>3. CASE c.type \in {"MoveNode", "DeleteEdge"} \cup Updates
    <3>1. c.ref # n
      BY <1>4, <1>6, <2>3 DEF Adds, Updates
    <3>2. QED
      BY <1>3, <1>5, <1>6, <2>3, <3>1
  <2>4. QED
    BY <1>2, <2>1, <2>2, <2>3, CommandFacts, <1>5 DEF Adds, Updates
<1>7. \A x : DeadEnd(q, s, x) => DeadEnd(q, t, x)
  <2>1. ASSUME NEW x, DeadEnd(q, s, x) PROVE DeadEnd(q, t, x)
    BY <1>6, <2>1, DeadEndStays
  <2>2. QED
    BY <2>1
<1>8. ASSUME t[r] = s[r] PROVE ServerFits(q, v, t, r)
  BY <1>1, <1>7, <1>8 DEF ServerFits
<1>9. CASE c.type \in Adds
  <2>1. CASE r # c.ref
    BY <1>3, <1>5, <1>8, <1>9, <2>1
  <2>2. CASE r = c.ref
    <3>1. t[r] = c.new /\ s[r] = Absent /\ t[r] # Absent
      BY <1>2, <1>3, <1>4, <1>5, <1>9, <2>2, CommandFacts DEF Adds
    <3>2. IsAdd(c, r) /\ SetsLabel(c, r) /\ (r \in Nodes => SetsPlace(c, r))
          /\ (r \in Lines => Does(c, "AddEdge", r))
      BY <1>2, <1>5, <1>9, <2>2, CommandFacts DEF IsAdd, SetsLabel, SetsPlace, Adds, Does
    <3>3. v[r] # Absent /\ r \in Lines => SameEnds(t[r], v[r])
      BY <1>1, <1>2, <3>1, <3>2 DEF QueueFits
    <3>4. v[r] = Absent => \E i \in DOMAIN q : DelTouch(q[i], r)
      <4>1. SUFFICES ASSUME r \in Lines, DeadEnd(q, s, c.new) PROVE FALSE
        BY <1>1, <1>2, <3>2 DEF ServerFits
      <4>2. c.type = "AddEdge"
        BY <3>2, <4>1 DEF Does
      <4>3. QED
        BY <1>4, <4>1, <4>2 DEF DeadEnd
    <3>5. r \in Lines => \A i \in DOMAIN q : q[i].type = "DeleteNode" /\ r \in DOMAIN q[i].lines =>
            q[i].ref \in Ends(t[r])
      BY <1>1, <1>2, <3>1, <3>2 DEF QueueFits
    <3>6. QED
      BY <1>2, <3>1, <3>2, <3>3, <3>4, <3>5 DEF ServerFits
  <2>3. QED
    BY <2>1, <2>2
<1>10. CASE c.type \in {"MoveNode"} \cup Updates
  <2>1. CASE r # c.ref
    BY <1>3, <1>5, <1>8, <1>10, <2>1
  <2>2. CASE r = c.ref
    <3>1. s[r] # Absent
      BY <1>4, <1>10, <2>2 DEF Adds, Updates
    <3>2. CASE r \in Nodes
      <4>1. s[r] \in NodeItem
        BY <1>5, <3>1, <3>2
      <4>2. c.new \in NodeItem /\ c.type \in {"MoveNode", "UpdateNode"}
        BY <1>2, <1>5, <1>10, <2>2, <3>2, CommandFacts DEF Updates
      <4>3. /\ t[r] \in NodeItem
            /\ c.type = "MoveNode" => t[r].label = s[r].label /\ SetsPlace(c, r)
            /\ c.type = "UpdateNode" => t[r].at = s[r].at /\ SetsLabel(c, r)
        <5>1. CASE c.type = "MoveNode"
          BY <1>3, <1>5, <2>2, <4>1, <4>2, <5>1 DEF NodeItem, SetsPlace
        <5>2. CASE c.type = "UpdateNode"
          BY <1>3, <1>5, <2>2, <4>1, <4>2, <5>2 DEF NodeItem, SetsLabel, Updates
        <5>3. QED
          BY <4>2, <5>1, <5>2
      <4>4. t[r] # Absent /\ r \notin Lines
        BY <1>5, <3>2, <4>3
      <4>5. v[r] = Absent => \E i \in DOMAIN q : DelTouch(q[i], r)
        BY <1>1, <3>1 DEF ServerFits
      <4>6. v[r] # Absent =>
             /\ (\E i \in DOMAIN q : SetsPlace(q[i], r)) \/ t[r].at = v[r].at
             /\ (\E i \in DOMAIN q : SetsLabel(q[i], r)) \/ t[r].label = v[r].label
        BY <1>1, <1>2, <3>1, <3>2, <4>2, <4>3 DEF ServerFits
      <4>7. QED
        BY <4>4, <4>5, <4>6 DEF ServerFits
    <3>3. CASE r \in Lines
      <4>1. s[r] \in LineItem
        BY <1>5, <3>1, <3>3
      <4>2. c.new \in LineItem /\ c.type = "UpdateEdge"
        BY <1>2, <1>5, <1>10, <2>2, <3>3, CommandFacts DEF Updates
      <4>3. t[r] \in LineItem /\ t[r].from = s[r].from /\ t[r].to = s[r].to /\ SetsLabel(c, r)
        BY <1>3, <1>5, <2>2, <4>1, <4>2 DEF LineItem, SetsLabel, Updates
      <4>4. t[r] # Absent /\ r \notin Nodes /\ Ends(t[r]) = Ends(s[r])
            /\ (SameEnds(s[r], v[r]) => SameEnds(t[r], v[r]))
        BY <1>5, <3>3, <4>3 DEF Ends, SameEnds
      <4>5. v[r] = Absent => \E i \in DOMAIN q : DelTouch(q[i], r)
        BY <1>1, <3>1 DEF ServerFits
      <4>6. v[r] # Absent => SameEnds(t[r], v[r])
        BY <1>1, <3>1, <3>3, <4>4 DEF ServerFits
      <4>7. \A i \in DOMAIN q : q[i].type = "DeleteNode" /\ r \in DOMAIN q[i].lines => q[i].ref \in Ends(t[r])
        BY <1>1, <3>1, <3>3, <4>4 DEF ServerFits
      <4>8. QED
        BY <1>2, <4>3, <4>4, <4>5, <4>6, <4>7 DEF ServerFits
    <3>4. QED
      BY <1>5, <3>2, <3>3
  <2>3. QED
    BY <2>1, <2>2
<1>11. CASE c.type = "DeleteEdge"
  <2>1. CASE r # c.ref
    BY <1>3, <1>5, <1>8, <1>11, <2>1
  <2>2. CASE r = c.ref
    <3>1. t[r] = Absent /\ DelTouch(c, r)
      BY <1>2, <1>3, <1>5, <1>11, <2>2, CommandFacts DEF DelTouch, Deletes
    <3>2. v[r] = Absent
      BY <1>1, <1>2, <3>1 DEF QueueFits
    <3>3. QED
      BY <1>2, <3>1, <3>2 DEF ServerFits
  <2>3. QED
    BY <2>1, <2>2
<1>12. CASE c.type = "DeleteNode"
  <2>1. CASE r # c.ref /\ r \notin LinesAt(s, c.ref)
    BY <1>3, <1>8, <1>12, <2>1
  <2>2. CASE r = c.ref
    <3>1. t[r] = Absent /\ DelTouch(c, r)
      BY <1>2, <1>3, <1>5, <1>12, <2>2, CommandFacts DEF DelTouch, Deletes
    <3>2. v[r] = Absent
      BY <1>1, <1>2, <3>1 DEF QueueFits
    <3>3. QED
      BY <1>2, <3>1, <3>2 DEF ServerFits
  <2>3. CASE r \in LinesAt(s, c.ref)
    <3>1. t[r] = Absent /\ r \in Lines /\ s[r] # Absent /\ c.ref \in Ends(s[r])
      BY <1>3, <1>12, <2>3 DEF LinesAt
    <3>2. v[r] # Absent => \E i \in DOMAIN q : IsAdd(q[i], r)
      <4>1. SUFFICES ASSUME v[r] # Absent PROVE \E i \in DOMAIN q : IsAdd(q[i], r)
        OBVIOUS
      <4>2. c.ref \in Ends(v[r])
        BY <1>1, <3>1, <4>1 DEF ServerFits, SameEnds, Ends
      <4>3. QED
        BY <1>1, <1>2, <1>12, <3>1, <4>1, <4>2 DEF QueueFits, Does, IsAdd, Adds
    <3>3. v[r] = Absent => \E i \in DOMAIN q : DelTouch(q[i], r)
      BY <1>1, <3>1 DEF ServerFits
    <3>4. QED
      BY <3>1, <3>2, <3>3 DEF ServerFits
  <2>4. QED
    BY <2>1, <2>2, <2>3
<1>13. QED
  BY <1>2, <1>5, <1>9, <1>10, <1>11, <1>12, CommandFacts DEF Adds, Updates, c, t

(* A queue without its first p commands.                                   *)
IsRest(u, q, p) ==
  /\ u \in Seq(Commands) /\ q \in Seq(Commands) /\ p \in Nat
  /\ \A i \in DOMAIN u : i + p \in DOMAIN q /\ q[i + p] = u[i]
  /\ \A i \in DOMAIN q : i <= p \/ i - p \in DOMAIN u

(* The commands of a rest are those of the whole after the first ones.     *)
LEMMA RestFaces ==
  ASSUME NEW u, NEW q, NEW p, IsRest(u, q, p)
  PROVE  /\ \A i \in DOMAIN u : \E j \in DOMAIN q : q[j] = u[i] /\ j > p
         /\ \A j \in DOMAIN q : j <= p \/ \E i \in DOMAIN u : u[i] = q[j] /\ j = i + p
         /\ \A i \in DOMAIN u : i \in Nat /\ i >= 1
         /\ \A i \in DOMAIN q : i \in Nat /\ i >= 1
<1>1. /\ \A i \in DOMAIN u : i \in Nat /\ i >= 1
      /\ \A i \in DOMAIN q : i \in Nat /\ i >= 1
  BY QueueFacts DEF IsRest
<1>2. ASSUME NEW i \in DOMAIN u PROVE \E j \in DOMAIN q : q[j] = u[i] /\ j > p
  <2>1. i + p \in DOMAIN q /\ q[i + p] = u[i] /\ i + p > p
    BY <1>1 DEF IsRest
  <2>2. QED
    BY <2>1
<1>3. ASSUME NEW j \in DOMAIN q, ~(j <= p) PROVE \E i \in DOMAIN u : u[i] = q[j] /\ j = i + p
  <2>1. j - p \in DOMAIN u /\ (j - p) + p = j
    BY <1>1, <1>3 DEF IsRest
  <2>2. u[j - p] = q[j]
    BY <2>1 DEF IsRest
  <2>3. QED
    BY <2>1, <2>2
<1>4. QED
  BY <1>1, <1>2, <1>3

(* What the whole says of the canvas its rest says too.                    *)
LEMMA RestQueue ==
  ASSUME NEW u, NEW q, NEW p, IsRest(u, q, p), NEW v, NEW F, QueueOK(q, v, F)
  PROVE  QueueOK(u, v, F)
<1> SUFFICES ASSUME NEW r \in Refs \ F PROVE QueueFits(u, v, r)
  BY DEF QueueOK
<1>1. QueueFits(q, v, r)
  BY DEF QueueOK
<1>2. /\ \A i \in DOMAIN u : i + p \in DOMAIN q /\ q[i + p] = u[i]
      /\ \A j \in DOMAIN q : j <= p \/ \E i \in DOMAIN u : u[i] = q[j] /\ j = i + p
      /\ \A i \in DOMAIN u : i \in Nat /\ i >= 1
      /\ \A i \in DOMAIN q : i \in Nat /\ i >= 1
      /\ p \in Nat
  BY RestFaces DEF IsRest
<1>3. ASSUME NEW i \in DOMAIN u
      PROVE  /\ LastPlaced(u, r, i) => LastPlaced(q, r, i + p)
             /\ LastLabelled(u, r, i) => LastLabelled(q, r, i + p)
  <2>1. ASSUME LastPlaced(u, r, i), NEW j \in DOMAIN q, SetsPlace(q[j], r) PROVE j <= i + p
    <3>1. CASE j <= p
      BY <1>2, <3>1
    <3>2. CASE ~(j <= p)
      <4>1. PICK k \in DOMAIN u : u[k] = q[j] /\ j = k + p
        BY <1>2, <3>2
      <4>2. k <= i
        BY <2>1, <4>1 DEF LastPlaced
      <4>3. QED
        BY <1>2, <4>1, <4>2
    <3>3. QED
      BY <3>1, <3>2
  <2>2. ASSUME LastLabelled(u, r, i), NEW j \in DOMAIN q, SetsLabel(q[j], r) PROVE j <= i + p
    <3>1. CASE j <= p
      BY <1>2, <3>1
    <3>2. CASE ~(j <= p)
      <4>1. PICK k \in DOMAIN u : u[k] = q[j] /\ j = k + p
        BY <1>2, <3>2
      <4>2. k <= i
        BY <2>2, <4>1 DEF LastLabelled
      <4>3. QED
        BY <1>2, <4>1, <4>2
    <3>3. QED
      BY <3>1, <3>2
  <2>3. QED
    BY <1>2, <2>1, <2>2 DEF LastPlaced, LastLabelled
<1>4. ASSUME NEW i \in DOMAIN u, v[r] # Absent
      PROVE  /\ ~DelTouch(u[i], r)
             /\ LastPlaced(u, r, i) => u[i].new.at = v[r].at
             /\ LastLabelled(u, r, i) => u[i].new.label = v[r].label
             /\ Does(u[i], "AddEdge", r) => SameEnds(u[i].new, v[r])
  <2>1. i + p \in DOMAIN q /\ q[i + p] = u[i]
    BY <1>2
  <2>2. /\ ~DelTouch(q[i + p], r)
        /\ LastPlaced(q, r, i + p) => q[i + p].new.at = v[r].at
        /\ LastLabelled(q, r, i + p) => q[i + p].new.label = v[r].label
        /\ Does(q[i + p], "AddEdge", r) => SameEnds(q[i + p].new, v[r])
    BY <1>1, <1>4, <2>1 DEF QueueFits
  <2>3. QED
    BY <1>3, <2>1, <2>2
<1>5. ASSUME NEW i \in DOMAIN u, v[r] # Absent, r \in Lines,
             u[i].type = "DeleteNode", u[i].ref \in Ends(v[r])
      PROVE  \E j \in DOMAIN u : j > i /\ Does(u[j], "AddEdge", r)
  <2>1. i + p \in DOMAIN q /\ q[i + p] = u[i]
    BY <1>2
  <2>2. PICK j \in DOMAIN q : j > i + p /\ Does(q[j], "AddEdge", r)
    BY <1>1, <1>5, <2>1 DEF QueueFits
  <2>3. PICK k \in DOMAIN u : u[k] = q[j] /\ j = k + p
    BY <1>2, <2>2
  <2>4. k > i
    BY <1>2, <2>2, <2>3
  <2>5. QED
    BY <2>2, <2>3, <2>4
<1>6. ASSUME NEW i \in DOMAIN u, NEW j \in DOMAIN u, u[i].ref = r, u[j].ref = r, u[i].type \in Deletes
      PROVE  j <= i
  <2>1. i + p \in DOMAIN q /\ q[i + p] = u[i] /\ j + p \in DOMAIN q /\ q[j + p] = u[j]
    BY <1>2
  <2>2. j + p <= i + p
    BY <1>1, <1>6, <2>1 DEF QueueFits
  <2>3. QED
    BY <1>2, <2>2
<1>7. ASSUME NEW i \in DOMAIN u, u[i].type = "DeleteNode", r \in DOMAIN u[i].lines
      PROVE  /\ v[u[i].ref] = Absent
             /\ \A j \in DOMAIN u : Does(u[j], "AddEdge", r) => u[i].ref \in Ends(u[j].new)
  <2>1. i + p \in DOMAIN q /\ q[i + p] = u[i]
    BY <1>2
  <2>2. \A j \in DOMAIN u : \E k \in DOMAIN q : q[k] = u[j]
    BY <1>2
  <2>3. QED
    BY <1>1, <1>7, <2>1, <2>2 DEF QueueFits
<1>8. QED
  BY <1>4, <1>5, <1>6, <1>7 DEF QueueFits

(* The server did what the first p commands of a queue say of an element.  *)
SettledOn(q, p, s, r) ==
  \A i \in DOMAIN q : i <= p =>
    /\ IsAdd(q[i], r) => s[r] # Absent
    /\ s[r] # Absent /\ LastPlaced(q, r, i) => s[r].at = q[i].new.at
    /\ s[r] # Absent /\ LastLabelled(q, r, i) => s[r].label = q[i].new.label
    /\ DelTouch(q[i], r) => s[r] = Absent
    /\ q[i].type = "DeleteNode" =>
         /\ s[q[i].ref] = Absent
         /\ \A j \in DOMAIN q : j > p => ~Does(q[j], "AddNode", q[i].ref)

(* Once the first commands are settled their rest makes up for all that    *)
(* differs.                                                                *)
LEMMA RestServer ==
  ASSUME NEW u, NEW q, NEW p, IsRest(u, q, p), NEW v, NEW s, NEW F,
         QueueOK(q, v, F), ServerOK(q, v, s, F), \A r \in Refs \ F : SettledOn(q, p, s, r)
  PROVE  ServerOK(u, v, s, F)
<1> SUFFICES ASSUME NEW r \in Refs \ F PROVE ServerFits(u, v, s, r)
  BY DEF ServerOK
<1>1. QueueFits(q, v, r) /\ ServerFits(q, v, s, r) /\ SettledOn(q, p, s, r)
  BY DEF QueueOK, ServerOK
<1>2. /\ \A i \in DOMAIN u : \E j \in DOMAIN q : q[j] = u[i] /\ j > p
      /\ \A j \in DOMAIN q : j <= p \/ \E i \in DOMAIN u : u[i] = q[j]
      /\ \A i \in DOMAIN q : i \in Nat /\ i >= 1
      /\ p \in Nat /\ q \in Seq(Commands) /\ u \in Seq(Commands)
  BY RestFaces DEF IsRest
<1>3. \A x : DeadEnd(q, s, x) => DeadEnd(u, s, x)
  <2>1. \A i \in DOMAIN u : \E j \in DOMAIN q : q[j] = u[i]
    BY <1>2
  <2>2. QED
    BY <2>1, DeadEndFewer
<1>4. v[r] # Absent /\ s[r] = Absent => \E i \in DOMAIN u : IsAdd(u[i], r)
  <2>1. SUFFICES ASSUME v[r] # Absent, s[r] = Absent PROVE \E i \in DOMAIN u : IsAdd(u[i], r)
    OBVIOUS
  <2>2. PICK i \in DOMAIN q : IsAdd(q[i], r)
    BY <1>1, <2>1 DEF ServerFits
  <2>3. ~(i <= p)
    BY <1>1, <2>1, <2>2 DEF SettledOn
  <2>4. QED
    BY <1>2, <2>2, <2>3
<1>5. v[r] # Absent /\ s[r] # Absent /\ r \in Nodes =>
        (\E i \in DOMAIN u : SetsPlace(u[i], r)) \/ s[r].at = v[r].at
  <2>1. SUFFICES ASSUME v[r] # Absent, s[r] # Absent, r \in Nodes,
                        \A i \in DOMAIN u : ~SetsPlace(u[i], r)
                 PROVE  s[r].at = v[r].at
    OBVIOUS
  <2>2. SUFFICES ASSUME NEW j \in DOMAIN q, SetsPlace(q[j], r) PROVE s[r].at = v[r].at
    BY <1>1, <2>1 DEF ServerFits
  <2>3. PICK i \in DOMAIN q : LastPlaced(q, r, i)
    BY <1>2, <2>2, LastSetter
  <2>4. i <= p
    BY <1>2, <2>1, <2>3 DEF LastPlaced
  <2>5. s[r].at = q[i].new.at
    BY <1>1, <2>1, <2>3, <2>4 DEF SettledOn
  <2>6. QED
    BY <1>1, <2>1, <2>3, <2>5 DEF QueueFits
<1>6. v[r] # Absent /\ s[r] # Absent =>
        (\E i \in DOMAIN u : SetsLabel(u[i], r)) \/ s[r].label = v[r].label
  <2>1. SUFFICES ASSUME v[r] # Absent, s[r] # Absent,
                        \A i \in DOMAIN u : ~SetsLabel(u[i], r)
                 PROVE  s[r].label = v[r].label
    OBVIOUS
  <2>2. SUFFICES ASSUME NEW j \in DOMAIN q, SetsLabel(q[j], r) PROVE s[r].label = v[r].label
    BY <1>1, <2>1 DEF ServerFits
  <2>3. PICK i \in DOMAIN q : LastLabelled(q, r, i)
    BY <1>2, <2>2, LastSetter
  <2>4. i <= p
    BY <1>2, <2>1, <2>3 DEF LastLabelled
  <2>5. s[r].label = q[i].new.label
    BY <1>1, <2>1, <2>3, <2>4 DEF SettledOn
  <2>6. QED
    BY <1>1, <2>1, <2>3, <2>5 DEF QueueFits
<1>7. v[r] = Absent =>
       \/ \E i \in DOMAIN u : DelTouch(u[i], r)
       \/ /\ s[r] = Absent
          /\ \A i \in DOMAIN u : IsAdd(u[i], r) => r \in Lines /\ DeadEnd(u, s, u[i].new)
  <2>1. SUFFICES ASSUME v[r] = Absent, \A i \in DOMAIN u : ~DelTouch(u[i], r)
                 PROVE  /\ s[r] = Absent
                        /\ \A i \in DOMAIN u : IsAdd(u[i], r) => r \in Lines /\ DeadEnd(u, s, u[i].new)
    OBVIOUS
  <2>2. CASE \E i \in DOMAIN q : DelTouch(q[i], r)
    <3>1. PICK i \in DOMAIN q : DelTouch(q[i], r)
      BY <2>2
    <3>2. i <= p
      BY <1>2, <2>1, <3>1
    <3>3. s[r] = Absent
      BY <1>1, <3>1, <3>2 DEF SettledOn
    <3>4. ASSUME NEW j \in DOMAIN u, IsAdd(u[j], r) PROVE r \in Lines /\ DeadEnd(u, s, u[j].new)
      <4>1. PICK k \in DOMAIN q : q[k] = u[j] /\ k > p
        BY <1>2
      <4>2. q[i].ref # r
        BY <1>1, <1>2, <3>1, <3>2, <3>4, <4>1 DEF QueueFits, IsAdd, DelTouch
      <4>3. q[i] \in Commands /\ u[j] \in Commands
        BY <1>2, QueueFacts
      <4>4. q[i].type = "DeleteNode" /\ r \in DOMAIN q[i].lines /\ r \in Lines
            /\ q[i].ref \in Nodes
        BY <3>1, <4>2, <4>3, CommandFacts DEF DelTouch
      <4>5. Does(q[k], "AddEdge", r)
        BY <3>4, <4>1, <4>3, <4>4, CommandFacts, EditorAssumption DEF IsAdd, Does, Adds
      <4>6. q[i].ref \in Ends(u[j].new)
        BY <1>1, <4>1, <4>4, <4>5 DEF QueueFits
      <4>7. /\ s[q[i].ref] = Absent
            /\ \A k1 \in DOMAIN q : k1 > p => ~Does(q[k1], "AddNode", q[i].ref)
        BY <1>1, <3>2, <4>4 DEF SettledOn
      <4>8. \A k1 \in DOMAIN u : ~Does(u[k1], "AddNode", q[i].ref)
        BY <1>2, <4>7
      <4>9. QED
        BY <4>4, <4>6, <4>7, <4>8 DEF DeadEnd
    <3>5. QED
      BY <3>3, <3>4
  <2>3. CASE \A i \in DOMAIN q : ~DelTouch(q[i], r)
    <3>1. s[r] = Absent /\ \A i \in DOMAIN q : IsAdd(q[i], r) => r \in Lines /\ DeadEnd(q, s, q[i].new)
      BY <1>1, <2>1, <2>3 DEF ServerFits
    <3>2. ASSUME NEW j \in DOMAIN u, IsAdd(u[j], r) PROVE r \in Lines /\ DeadEnd(u, s, u[j].new)
      BY <1>2, <1>3, <3>1, <3>2
    <3>3. QED
      BY <3>1, <3>2
  <2>4. QED
    BY <2>2, <2>3
<1>8. r \in Lines /\ s[r] # Absent =>
       \A i \in DOMAIN u : u[i].type = "DeleteNode" /\ r \in DOMAIN u[i].lines =>
         u[i].ref \in Ends(s[r])
  BY <1>1, <1>2 DEF ServerFits
<1>9. v[r] # Absent /\ s[r] # Absent /\ r \in Lines => SameEnds(s[r], v[r])
  BY <1>1 DEF ServerFits
<1>10. QED
  BY <1>4, <1>5, <1>6, <1>7, <1>8, <1>9 DEF ServerFits

(* A request that is carried out settles its command.                      *)
LEMMA SettledAlone ==
  ASSUME NEW q \in Seq(Commands), 1 \in DOMAIN q, NEW v, NEW s \in Items, NEW F,
         ServerOK(q, v, s, F),
         (q[1].type \in Adds) = (s[q[1].ref] = Absent),
         q[1].type = "DeleteNode" => \A j \in DOMAIN q : j > 1 => ~Does(q[j], "AddNode", q[1].ref),
         NEW r \in Refs \ F
  PROVE  SettledOn(q, 1, Serve(s, q[1]), r)
<1> DEFINE c == q[1]
           t == Serve(s, c)
<1>1. /\ c.type \in Adds => t = [s EXCEPT ![c.ref] = c.new]
      /\ c.type = "MoveNode" => t = [s EXCEPT ![c.ref].at = c.new.at]
      /\ c.type \in Updates => t = [s EXCEPT ![c.ref].label = c.new.label]
      /\ c.type = "DeleteEdge" => t = [s EXCEPT ![c.ref] = Absent]
      /\ c.type = "DeleteNode" =>
              \A r1 \in Refs : t[r1] =
                IF r1 = c.ref \/ r1 \in LinesAt(s, c.ref) THEN Absent ELSE s[r1]
  BY QueueFacts, ServeFacts
<1>2. c \in Commands /\ (c.type \in Adds) = (s[c.ref] = Absent) /\ ServerFits(q, v, s, r) /\ q[1] = c
  BY QueueFacts DEF ServerOK
<1>3. c.type = "DeleteNode" => \A j \in DOMAIN q : j > 1 => ~Does(q[j], "AddNode", c.ref)
  OBVIOUS
<1>4. \A i \in DOMAIN q : i <= 1 => i = 1
  BY QueueFacts
<1> HIDE DEF c, t
<1>5. /\ DOMAIN s = Refs /\ c.ref \in Refs
      /\ Absent \notin NodeItem \cup LineItem
      /\ Nodes \cap Lines = {} /\ Refs = Nodes \cup Lines
      /\ s[c.ref] = Absent \/ (c.ref \in Nodes /\ s[c.ref] \in NodeItem)
           \/ (c.ref \in Lines /\ s[c.ref] \in LineItem)
  BY <1>2, CommandFacts, ItemFacts, EditorAssumption DEF Refs
<1>6. IsAdd(c, r) => t[r] # Absent
  BY <1>1, <1>2, <1>5, CommandFacts DEF IsAdd, Adds
<1>7. SetsPlace(c, r) => t[r].at = c.new.at
  <2>1. CASE c.type = "AddNode"
    BY <1>1, <1>5, <2>1 DEF SetsPlace, Adds
  <2>2. CASE c.type = "MoveNode"
    <3>1. c.ref \in Nodes /\ s[c.ref] \in NodeItem
      BY <1>2, <1>5, <2>2, CommandFacts DEF Adds
    <3>2. QED
      BY <1>1, <1>5, <2>2, <3>1 DEF SetsPlace, NodeItem
  <2>3. QED
    BY <2>1, <2>2 DEF SetsPlace
<1>8. SetsLabel(c, r) => t[r].label = c.new.label
  <2>1. CASE c.type \in Adds
    BY <1>1, <1>5, <2>1 DEF SetsLabel
  <2>2. CASE c.type \in Updates
    <3>1. s[c.ref] \in NodeItem \/ s[c.ref] \in LineItem
      BY <1>2, <1>5, <2>2 DEF Adds, Updates
    <3>2. QED
      BY <1>1, <1>5, <2>2, <3>1 DEF SetsLabel, NodeItem, LineItem
  <2>3. QED
    BY <2>1, <2>2 DEF SetsLabel
<1>9. DelTouch(c, r) => t[r] = Absent
  <2>1. CASE c.type = "DeleteEdge"
    BY <1>1, <1>2, <1>5, <2>1, CommandFacts DEF DelTouch
  <2>2. CASE c.type = "DeleteNode"
    <3>1. CASE r = c.ref
      BY <1>1, <2>2, <3>1
    <3>2. CASE r \in DOMAIN c.lines
      <4>1. r \in Lines
        BY <1>2, <3>2, CommandFacts
      <4>2. s[r] # Absent => c.ref \in Ends(s[r])
        BY <1>2, <2>2, <3>2, <4>1 DEF ServerFits
      <4>3. s[r] # Absent => r \in LinesAt(s, c.ref)
        BY <4>1, <4>2 DEF LinesAt
      <4>4. QED
        BY <1>1, <2>2, <4>3
    <3>3. QED
      BY <1>2, <3>1, <3>2, CommandFacts DEF DelTouch
  <2>3. QED
    BY <2>1, <2>2 DEF DelTouch, Deletes
<1>10. c.type = "DeleteNode" => t[c.ref] = Absent
  BY <1>1, <1>5
<1>11. QED
  BY <1>2, <1>3, <1>4, <1>6, <1>7, <1>8, <1>9, <1>10 DEF SettledOn, LastPlaced, LastLabelled, c, t

(* The place of a node that is carried out after its addition settles      *)
(* both.                                                                   *)
LEMMA SettledPair ==
  ASSUME NEW q \in Seq(Commands), 2 \in DOMAIN q, 1 \in DOMAIN q, NEW s \in Items,
         q[1].ref = q[2].ref, q[1].type = "AddNode", q[2].type = "MoveNode",
         s[q[1].ref] = q[1].new, NEW r \in Refs
  PROVE  SettledOn(q, 2, Serve(s, q[2]), r)
<1> DEFINE n == q[1].ref
           x == q[1].new
           y == q[2].new
           t == Serve(s, q[2])
<1>1. n \in Nodes /\ x \in NodeItem /\ y \in NodeItem /\ s[n] = x /\ DOMAIN s = Refs /\ n \in Refs
      /\ x # Absent
  <2>1. q[1] \in Commands /\ q[2] \in Commands
    BY QueueFacts
  <2>2. n \in Nodes /\ x \in NodeItem
    BY <2>1, CommandFacts
  <2>3. y \in NodeItem
    BY <2>1, CommandFacts
  <2>4. DOMAIN s = Refs /\ n \in Refs /\ x # Absent
    BY <2>2, ItemFacts, EditorAssumption DEF Refs
  <2>5. QED
    BY <2>2, <2>3, <2>4
<1>2. t = [s EXCEPT ![n].at = y.at]
  <2>1. (q[2].type \in Adds) = (s[q[2].ref] = Absent)
    BY <1>1 DEF Adds
  <2>2. q[2] \in Commands
    BY QueueFacts
  <2>3. Serve(s, q[2]) = [s EXCEPT ![q[2].ref].at = q[2].new.at]
    BY <2>1, <2>2, ServeFacts
  <2>4. QED
    BY <2>3
<1>3. /\ \A i \in DOMAIN q : i <= 2 => i = 1 \/ i = 2
      /\ q[1].ref = n /\ q[1].new = x /\ q[2].ref = n /\ q[2].new = y
  BY QueueFacts
<1> HIDE DEF n, x, y, t
<1>4. t[n] \in NodeItem /\ t[n].at = y.at /\ t[n].label = x.label /\ t[n] # Absent
  BY <1>1, <1>2, EditorAssumption DEF NodeItem
<1>5. ~(LastPlaced(q, r, 1) /\ r = n)
  BY <1>3 DEF LastPlaced, SetsPlace
<1>6. QED
  BY <1>3, <1>4, <1>5
  DEF SettledOn, LastPlaced, LastLabelled, SetsPlace, SetsLabel, IsAdd, DelTouch, Adds, Deletes, Updates, t

(* The rest of a save's commands, and what is queued behind them.          *)
LEMMA RestJoined ==
  ASSUME NEW a \in Seq(Commands), NEW b \in Seq(Commands), NEW m \in Nat, m <= Len(a)
  PROVE  IsRest(SubSeq(a, m + 1, Len(a)) \o b, a \o b, m)
<1> DEFINE c == SubSeq(a, m + 1, Len(a))
           u == c \o b
           q == a \o b
<1>1. /\ c \in Seq(Commands) /\ Len(c) = Len(a) - m
      /\ \A i \in DOMAIN c : i + m \in DOMAIN a /\ c[i] = a[i + m]
      /\ \A i \in DOMAIN a : i <= m \/ i - m \in DOMAIN c
      /\ Len(a) \in Nat
      /\ DOMAIN c = 1..Len(c) /\ DOMAIN b = 1..Len(b) /\ DOMAIN a = 1..Len(a) /\ Len(b) \in Nat
  BY RestFacts, QueueFacts
<1> HIDE DEF c
<1>2. /\ u \in Seq(Commands)
      /\ \A i \in DOMAIN c : i \in DOMAIN u /\ u[i] = c[i]
      /\ \A i \in DOMAIN b : Len(c) + i \in DOMAIN u /\ u[Len(c) + i] = b[i]
      /\ \A i \in DOMAIN u : \/ i \in DOMAIN c
                             \/ i > Len(c) /\ i - Len(c) \in DOMAIN b
  <2>1. c \in Seq(Commands)
    BY <1>1
  <2>2. QED
    BY <2>1, JoinFacts
<1>3. /\ q \in Seq(Commands)
      /\ \A i \in DOMAIN a : i \in DOMAIN q /\ q[i] = a[i]
      /\ \A i \in DOMAIN b : Len(a) + i \in DOMAIN q /\ q[Len(a) + i] = b[i]
      /\ \A i \in DOMAIN q : \/ i \in DOMAIN a
                             \/ i > Len(a) /\ i - Len(a) \in DOMAIN b
  BY JoinFacts
<1>4. DOMAIN u \subseteq Nat /\ DOMAIN q \subseteq Nat
  BY <1>2, <1>3, QueueFacts
<1> HIDE DEF u, q
<1>5. ASSUME NEW i \in DOMAIN u PROVE i + m \in DOMAIN q /\ q[i + m] = u[i]
  <2>1. CASE i \in DOMAIN c
    BY <1>1, <1>2, <1>3, <2>1
  <2>2. CASE i > Len(c) /\ i - Len(c) \in DOMAIN b
    <3> DEFINE k == i - Len(c)
    <3>1. k \in DOMAIN b /\ i = Len(c) + k /\ i + m = Len(a) + k
      <4>1. i \in Nat /\ Len(c) = Len(a) - m /\ Len(a) \in Nat
        BY <1>1, <1>4
      <4>2. QED
        BY <2>2, <4>1
    <3> HIDE DEF k
    <3>2. QED
      BY <1>2, <1>3, <3>1
  <2>3. QED
    BY <1>2, <2>1, <2>2
<1>6. ASSUME NEW i \in DOMAIN q, ~(i <= m) PROVE i - m \in DOMAIN u
  <2>1. CASE i \in DOMAIN a
    BY <1>1, <1>2, <1>6, <2>1
  <2>2. CASE i > Len(a) /\ i - Len(a) \in DOMAIN b
    <3> DEFINE k == i - Len(a)
    <3>1. k \in DOMAIN b /\ i - m = Len(c) + k
      BY <1>1, <1>4, <2>2
    <3> HIDE DEF k
    <3>2. QED
      BY <1>2, <3>1
  <2>3. QED
    BY <1>3, <2>1, <2>2
<1>7. IsRest(u, q, m)
  BY <1>2, <1>3, <1>5, <1>6 DEF IsRest
<1>8. QED
  BY <1>7 DEF u, q, c

-----------------------------------------------------------------------------
(* A command is queued.                                                    *)

(* The last setter of a queue that got one more command.                   *)
LEMMA AppendedLast ==
  ASSUME NEW q \in Seq(Commands), NEW c \in Commands, NEW r, NEW i \in DOMAIN Append(q, c)
  PROVE  /\ LastPlaced(Append(q, c), r, i) =>
              \/ SetsPlace(c, r) /\ Append(q, c)[i] = c
              \/ ~SetsPlace(c, r) /\ i \in DOMAIN q /\ Append(q, c)[i] = q[i] /\ LastPlaced(q, r, i)
         /\ LastLabelled(Append(q, c), r, i) =>
              \/ SetsLabel(c, r) /\ Append(q, c)[i] = c
              \/ ~SetsLabel(c, r) /\ i \in DOMAIN q /\ Append(q, c)[i] = q[i] /\ LastLabelled(q, r, i)
<1> DEFINE a == Append(q, c)
           n == Len(q) + 1
<1>1. /\ \A k \in DOMAIN q : k \in DOMAIN a /\ a[k] = q[k] /\ k <= Len(q)
      /\ n \in DOMAIN a /\ a[n] = c /\ n > Len(q)
      /\ \A k \in DOMAIN a : (k \in DOMAIN q /\ a[k] = q[k]) \/ (k = n /\ a[k] = c)
      /\ \A k \in DOMAIN q : k \in Nat /\ k < n
  BY AppendFacts, QueueFacts
<1>2. i \in DOMAIN a /\ n \in Nat
  BY QueueFacts
<1> HIDE DEF a, n
<1>3. ASSUME LastPlaced(a, r, i)
      PROVE  \/ SetsPlace(c, r) /\ a[i] = c
             \/ ~SetsPlace(c, r) /\ i \in DOMAIN q /\ a[i] = q[i] /\ LastPlaced(q, r, i)
  <2>1. CASE SetsPlace(c, r)
    <3>1. n <= i
      BY <1>1, <1>3, <2>1 DEF LastPlaced
    <3>2. i = n
      BY <1>1, <1>2, <3>1
    <3>3. QED
      BY <1>1, <2>1, <3>2
  <2>2. CASE ~SetsPlace(c, r)
    <3>1. i \in DOMAIN q /\ a[i] = q[i]
      BY <1>1, <1>2, <1>3, <2>2 DEF LastPlaced
    <3>2. QED
      BY <1>1, <1>3, <2>2, <3>1 DEF LastPlaced
  <2>3. QED
    BY <2>1, <2>2
<1>4. ASSUME LastLabelled(a, r, i)
      PROVE  \/ SetsLabel(c, r) /\ a[i] = c
             \/ ~SetsLabel(c, r) /\ i \in DOMAIN q /\ a[i] = q[i] /\ LastLabelled(q, r, i)
  <2>1. CASE SetsLabel(c, r)
    <3>1. n <= i
      BY <1>1, <1>4, <2>1 DEF LastLabelled
    <3>2. i = n
      BY <1>1, <1>2, <3>1
    <3>3. QED
      BY <1>1, <2>1, <3>2
  <2>2. CASE ~SetsLabel(c, r)
    <3>1. i \in DOMAIN q /\ a[i] = q[i]
      BY <1>1, <1>2, <1>4, <2>2 DEF LastLabelled
    <3>2. QED
      BY <1>1, <1>4, <2>2, <3>1 DEF LastLabelled
  <2>3. QED
    BY <2>1, <2>2
<1>5. QED
  BY <1>3, <1>4 DEF a

(* A command that nothing is claimed of any more, queued again.            *)
LEMMA AgainQueue ==
  ASSUME NEW q \in Seq(Commands), NEW v, NEW w, NEW F, NEW c \in Commands, QueueOK(q, v, F),
         \A r \in Refs \ Touches(c) : w[r] = v[r],
         c.type = "DeleteNode" =>
           \A r \in Lines \ Touches(c) : v[r] # Absent => c.ref \notin Ends(v[r]),
         \A r \in Refs \ (F \cup Touches(c)), i \in DOMAIN q :
           q[i].type = "DeleteNode" /\ r \in DOMAIN q[i].lines /\ v[q[i].ref] = Absent
             => w[q[i].ref] = Absent
  PROVE  QueueOK(Append(q, c), w, F \cup Touches(c))
<1> SUFFICES ASSUME NEW r \in Refs \ (F \cup Touches(c)) PROVE QueueFits(Append(q, c), w, r)
  BY DEF QueueOK
<1> DEFINE a == Append(q, c)
           n == Len(q) + 1
<1>1. QueueFits(q, v, r) /\ w[r] = v[r]
  BY DEF QueueOK
<1>2. /\ \A k \in DOMAIN q : k \in DOMAIN a /\ a[k] = q[k] /\ k <= Len(q)
      /\ \A k \in DOMAIN a : (k \in DOMAIN q /\ a[k] = q[k]) \/ (k = n /\ a[k] = c)
  BY AppendFacts
<1>3. r # c.ref /\ r \notin DOMAIN c.lines /\ ~DelTouch(c, r)
  BY CommandFacts DEF DelTouch
<1>4. \A i \in DOMAIN a :
        /\ LastPlaced(a, r, i) => i \in DOMAIN q /\ a[i] = q[i] /\ LastPlaced(q, r, i)
        /\ LastLabelled(a, r, i) => i \in DOMAIN q /\ a[i] = q[i] /\ LastLabelled(q, r, i)
  <2>1. ~SetsPlace(c, r) /\ ~SetsLabel(c, r)
    BY <1>3 DEF SetsPlace, SetsLabel
  <2>2. QED
    BY <2>1, AppendedLast
<1> HIDE DEF a, n
<1>5. ASSUME NEW i \in DOMAIN a, w[r] # Absent
      PROVE  /\ ~DelTouch(a[i], r)
             /\ LastPlaced(a, r, i) => a[i].new.at = w[r].at
             /\ LastLabelled(a, r, i) => a[i].new.label = w[r].label
             /\ Does(a[i], "AddEdge", r) => SameEnds(a[i].new, w[r])
  <2>1. ~DelTouch(a[i], r) /\ (Does(a[i], "AddEdge", r) => SameEnds(a[i].new, w[r]))
    <3>1. CASE i \in DOMAIN q /\ a[i] = q[i]
      BY <1>1, <1>5, <3>1 DEF QueueFits
    <3>2. CASE a[i] = c
      BY <1>3, <3>2 DEF Does
    <3>3. QED
      BY <1>2, <3>1, <3>2
  <2>2. LastPlaced(a, r, i) => a[i].new.at = w[r].at
    BY <1>1, <1>4, <1>5 DEF QueueFits
  <2>3. LastLabelled(a, r, i) => a[i].new.label = w[r].label
    BY <1>1, <1>4, <1>5 DEF QueueFits
  <2>4. QED
    BY <2>1, <2>2, <2>3
<1>6. ASSUME NEW i \in DOMAIN a, w[r] # Absent, r \in Lines,
             a[i].type = "DeleteNode", a[i].ref \in Ends(w[r])
      PROVE  \E j \in DOMAIN a : j > i /\ Does(a[j], "AddEdge", r)
  <2>1. a[i] # c
    BY <1>1, <1>3, <1>6, CommandFacts
  <2>2. i \in DOMAIN q /\ a[i] = q[i]
    BY <1>2, <2>1
  <2>3. PICK j \in DOMAIN q : j > i /\ Does(q[j], "AddEdge", r)
    BY <1>1, <1>6, <2>2 DEF QueueFits
  <2>4. QED
    BY <1>2, <2>3
<1>7. \A i, j \in DOMAIN a : a[i].ref = r /\ a[j].ref = r /\ a[i].type \in Deletes => j <= i
  BY <1>1, <1>2, <1>3 DEF QueueFits
<1>8. ASSUME NEW i \in DOMAIN a, a[i].type = "DeleteNode", r \in DOMAIN a[i].lines
      PROVE  /\ w[a[i].ref] = Absent
             /\ \A j \in DOMAIN a : Does(a[j], "AddEdge", r) => a[i].ref \in Ends(a[j].new)
  <2>1. i \in DOMAIN q /\ a[i] = q[i]
    BY <1>2, <1>3, <1>8
  <2>2. v[q[i].ref] = Absent
    BY <1>1, <1>8, <2>1 DEF QueueFits
  <2>3. w[a[i].ref] = Absent
    BY <1>8, <2>1, <2>2
  <2>4. ASSUME NEW j \in DOMAIN a, Does(a[j], "AddEdge", r) PROVE a[i].ref \in Ends(a[j].new)
    <3>1. j \in DOMAIN q /\ a[j] = q[j]
      BY <1>2, <1>3, <2>4 DEF Does
    <3>2. QED
      BY <1>1, <1>8, <2>1, <2>4, <3>1 DEF QueueFits
  <2>5. QED
    BY <2>3, <2>4
<1>9. QED
  BY <1>5, <1>6, <1>7, <1>8 DEF QueueFits, a

(* The same for what the queue says of the server.                         *)
LEMMA AgainServer ==
  ASSUME NEW q \in Seq(Commands), NEW v, NEW w, NEW s, NEW F, NEW c \in Commands,
         ServerOK(q, v, s, F),
         \A r \in Refs \ Touches(c) : w[r] = v[r],
         c.type = "AddNode" => \A i \in DOMAIN q :
           q[i].type = "AddEdge" /\ c.ref \in Ends(q[i].new) => q[i].ref \in F
  PROVE  ServerOK(Append(q, c), w, s, F \cup Touches(c))
<1> SUFFICES ASSUME NEW r \in Refs \ (F \cup Touches(c)) PROVE ServerFits(Append(q, c), w, s, r)
  BY DEF ServerOK
<1> DEFINE a == Append(q, c)
           n == Len(q) + 1
<1>1. ServerFits(q, v, s, r) /\ w[r] = v[r]
  BY DEF ServerOK
<1>2. /\ \A k \in DOMAIN q : k \in DOMAIN a /\ a[k] = q[k]
      /\ \A k \in DOMAIN a : (k \in DOMAIN q /\ a[k] = q[k]) \/ a[k] = c
      /\ \A k \in DOMAIN q : q[k] \in Commands
  BY AppendFacts, QueueFacts
<1>3. r # c.ref /\ r \notin DOMAIN c.lines /\ r \notin F
  BY CommandFacts
<1> HIDE DEF a, n
<1>4. ASSUME NEW i \in DOMAIN q, IsAdd(q[i], r), r \in Lines, DeadEnd(q, s, q[i].new)
      PROVE  DeadEnd(a, s, q[i].new)
  <2>1. q[i].type = "AddEdge" /\ q[i].ref \notin F
    BY <1>2, <1>3, <1>4, CommandFacts, EditorAssumption DEF IsAdd, Adds
  <2>2. PICK m \in Ends(q[i].new) \cap Nodes :
          s[m] = Absent /\ \A j \in DOMAIN q : ~Does(q[j], "AddNode", m)
    BY <1>4 DEF DeadEnd
  <2>3. ~Does(c, "AddNode", m)
    BY <2>1, <2>2 DEF Does
  <2>4. QED
    BY <1>2, <2>2, <2>3 DEF DeadEnd
<1>5. v[r] = Absent =>
       \/ \E i \in DOMAIN a : DelTouch(a[i], r)
       \/ /\ s[r] = Absent
          /\ \A i \in DOMAIN a : IsAdd(a[i], r) => r \in Lines /\ DeadEnd(a, s, a[i].new)
  <2>1. \A i \in DOMAIN a : IsAdd(a[i], r) => i \in DOMAIN q /\ a[i] = q[i]
    BY <1>2, <1>3 DEF IsAdd
  <2>2. QED
    BY <1>1, <1>2, <1>4, <2>1 DEF ServerFits
<1>6. r \in Lines /\ s[r] # Absent =>
       \A i \in DOMAIN a : a[i].type = "DeleteNode" /\ r \in DOMAIN a[i].lines =>
         a[i].ref \in Ends(s[r])
  BY <1>1, <1>2, <1>3 DEF ServerFits
<1>7. v[r] # Absent /\ s[r] = Absent => \E i \in DOMAIN a : IsAdd(a[i], r)
  BY <1>1, <1>2 DEF ServerFits
<1>8. v[r] # Absent /\ s[r] # Absent =>
       /\ r \in Nodes => (\E i \in DOMAIN a : SetsPlace(a[i], r)) \/ s[r].at = v[r].at
       /\ (\E i \in DOMAIN a : SetsLabel(a[i], r)) \/ s[r].label = v[r].label
       /\ r \in Lines => SameEnds(s[r], v[r])
  BY <1>1, <1>2 DEF ServerFits
<1>9. QED
  BY <1>1, <1>5, <1>6, <1>7, <1>8 DEF ServerFits, a

(* The same for a design that is not yet stored.                           *)
LEMMA AgainLocal ==
  ASSUME NEW q \in Seq(Commands), NEW v, NEW w, NEW F, NEW c \in Commands, LocalOK(q, v, F),
         \A r \in Refs \ Touches(c) : w[r] = v[r]
  PROVE  LocalOK(Append(q, c), w, F \cup Touches(c))
<1> DEFINE a == Append(q, c)
<1>1. /\ \A k \in DOMAIN q : k \in DOMAIN a /\ a[k] = q[k]
      /\ \A k \in DOMAIN a : (k \in DOMAIN q /\ a[k] = q[k]) \/ a[k] = c
  BY AppendFacts
<1> HIDE DEF a
<1>2. ASSUME NEW r \in Refs \ (F \cup Touches(c)), v[r] = Absent
      PROVE  (\E i \in DOMAIN a : DelTouch(a[i], r)) \/ \A i \in DOMAIN a : ~IsAdd(a[i], r)
  <2>1. r # c.ref
    BY CommandFacts
  <2>2. (\E i \in DOMAIN q : DelTouch(q[i], r)) \/ \A i \in DOMAIN q : ~IsAdd(q[i], r)
    BY <1>2 DEF LocalOK, LocalFits
  <2>3. QED
    BY <1>1, <2>1, <2>2 DEF IsAdd
<1>3. QED
  BY <1>2 DEF LocalOK, LocalFits, a

(* What a fitting command makes of the elements it is not about.           *)
LEMMA DrawnOn ==
  ASSUME NEW v \in Items, NEW c \in Commands, Fits(c, v)
  PROVE  LET w == applyCommand(v, c) IN
         /\ \A r \in Refs \ Touches(c) : w[r] = v[r]
         /\ c.type \in Adds => v[c.ref] = Absent /\ w[c.ref] = c.new /\ w[c.ref] # Absent
         /\ c.type \in Deletes => \A r \in Touches(c) : v[r] # Absent /\ w[r] = Absent
         /\ c.type \in {"MoveNode"} \cup Updates =>
              /\ v[c.ref] # Absent /\ w[c.ref] # Absent /\ w[c.ref] = c.new /\ Touches(c) = {c.ref}
              /\ c.type # "MoveNode" /\ c.ref \in Nodes => w[c.ref].at = v[c.ref].at
              /\ c.type = "MoveNode" => w[c.ref].label = v[c.ref].label
              /\ c.ref \in Lines => SameEnds(w[c.ref], v[c.ref])
         /\ c.type = "DeleteNode" =>
              /\ DOMAIN c.lines = LinesAt(v, c.ref)
              /\ \A r \in Lines \ Touches(c) : v[r] # Absent => c.ref \notin Ends(v[r])
<1> DEFINE w == applyCommand(v, c)
<1>1. /\ \A r \in Refs \ Touches(c) : w[r] = v[r]
      /\ \A r \in Refs : c.type \notin Deletes /\ v[r] # Absent => w[r] # Absent
      /\ c.type \notin Deletes => w[c.ref] = c.new
      /\ c.type \in Deletes => \A r \in Touches(c) : w[r] = Absent
      /\ c.type \in Adds <=> v[c.ref] = Absent
      /\ c.type \notin Adds => v[c.ref] = c.old
  BY ApplyFacts, ApplyFitting
<1>2. /\ c.ref \in Refs /\ Touches(c) = {c.ref} \cup DOMAIN c.lines
      /\ c.type # "DeleteNode" => DOMAIN c.lines = {}
      /\ c.type \in Adds => c.new \in NodeItem \cup LineItem
      /\ Absent \notin NodeItem \cup LineItem
      /\ Nodes \cap Lines = {} /\ Refs = Nodes \cup Lines
      /\ c.ref \in Nodes => c.type \in {"AddNode", "MoveNode", "UpdateNode", "DeleteNode"}
      /\ c.ref \in Lines => c.type \in {"AddEdge", "UpdateEdge", "DeleteEdge"}
      /\ c.type = "DeleteNode" => c.ref \in Nodes
  BY CommandFacts, EditorAssumption DEF Adds, Refs
<1> HIDE DEF w
<1>3. c.type = "DeleteNode" => DOMAIN c.lines = LinesAt(v, c.ref)
  BY DEF Fits, Adds, Restrict
<1>4. c.type \in Adds => v[c.ref] = Absent /\ w[c.ref] = c.new /\ w[c.ref] # Absent
  BY <1>1, <1>2 DEF Adds, Deletes
<1>5. ASSUME c.type \in Deletes, NEW r \in Touches(c) PROVE v[r] # Absent /\ w[r] = Absent
  BY <1>1, <1>2, <1>3, <1>5 DEF LinesAt, Adds, Deletes
<1>6. ASSUME c.type \in {"MoveNode"} \cup Updates
      PROVE  /\ v[c.ref] # Absent /\ w[c.ref] # Absent /\ w[c.ref] = c.new /\ Touches(c) = {c.ref}
             /\ c.type # "MoveNode" /\ c.ref \in Nodes => w[c.ref].at = v[c.ref].at
             /\ c.type = "MoveNode" => w[c.ref].label = v[c.ref].label
             /\ c.ref \in Lines => SameEnds(w[c.ref], v[c.ref])
  <2>1. c.type \notin Adds \cup Deletes /\ c.type # "DeleteNode"
    BY <1>6 DEF Adds, Deletes, Updates
  <2>2. v[c.ref] # Absent /\ w[c.ref] = c.new /\ w[c.ref] # Absent
    BY <1>1, <1>2, <2>1
  <2>3. v[c.ref] = c.old
    BY <1>1, <2>1
  <2>4. c.type = "UpdateNode" => c.new.at = c.old.at
    BY DEF Fits, Adds
  <2>5. c.type = "MoveNode" => c.new.label = c.old.label
    BY DEF Fits, Adds
  <2>6. c.type = "UpdateEdge" => SameEnds(c.old, c.new)
    BY DEF Fits, Adds
  <2>7. QED
    BY <1>2, <1>6, <2>1, <2>2, <2>3, <2>4, <2>5, <2>6 DEF Updates, SameEnds
<1>7. c.type = "DeleteNode" => \A r \in Lines \ Touches(c) : v[r] # Absent => c.ref \notin Ends(v[r])
  BY <1>2, <1>3 DEF LinesAt
<1>8. QED
  BY <1>1, <1>3, <1>4, <1>5, <1>6, <1>7 DEF w

(* The queue knows nothing of a new element.                               *)
Unheard(q, c) ==
  c.type \in Adds => \A i \in DOMAIN q :
    /\ c.ref \notin Touches(q[i])
    /\ c.type = "AddNode" /\ q[i].type = "AddEdge" => c.ref \notin Ends(q[i].new)

(* A queue of known commands has not heard of a new element.               *)
LEMMA UnheardOf ==
  ASSUME NEW q \in Seq(Commands), NEW K, AllKnown(q, K), NEW c \in Commands,
         c.type \in Adds => c.ref \notin K
  PROVE  Unheard(q, c)
<1> SUFFICES ASSUME c.type \in Adds, NEW i \in DOMAIN q
             PROVE  /\ c.ref \notin Touches(q[i])
                    /\ c.type = "AddNode" /\ q[i].type = "AddEdge" => c.ref \notin Ends(q[i].new)
  BY DEF Unheard
<1>1. KnownBy(q[i], K)
  BY DEF AllKnown
<1>2. c.type = "AddNode" => c.ref \in Nodes
  BY CommandFacts
<1>3. QED
  BY <1>1, <1>2 DEF KnownBy

(* With the command just carried out the queue ends at the new canvas.     *)
LEMMA DrawnQueue ==
  ASSUME NEW q \in Seq(Commands), NEW v \in Items, NEW F, NEW c \in Commands, Fits(c, v),
         QueueOK(q, v, F), Unheard(q, c)
  PROVE  QueueOK(Append(q, c), applyCommand(v, c), F)
<1> DEFINE a == Append(q, c)
           n == Len(q) + 1
           w == applyCommand(v, c)
<1> SUFFICES ASSUME NEW r \in Refs \ F PROVE QueueFits(a, w, r)
  BY DEF QueueOK
<1>1. QueueFits(q, v, r)
  BY DEF QueueOK
<1>2. /\ \A k \in DOMAIN q : k \in DOMAIN a /\ a[k] = q[k] /\ k <= Len(q)
      /\ n \in DOMAIN a /\ a[n] = c /\ n > Len(q)
      /\ \A k \in DOMAIN a : (k \in DOMAIN q /\ a[k] = q[k]) \/ (k = n /\ a[k] = c)
      /\ \A k \in DOMAIN q : k \in Nat /\ k < n /\ q[k] \in Commands
      /\ n \in Nat
  BY AppendFacts, QueueFacts
<1>3. /\ \A r1 \in Refs \ Touches(c) : w[r1] = v[r1]
      /\ c.type \in Adds => v[c.ref] = Absent /\ w[c.ref] = c.new /\ w[c.ref] # Absent
      /\ c.type \in Deletes => \A r1 \in Touches(c) : v[r1] # Absent /\ w[r1] = Absent
      /\ c.type \in {"MoveNode"} \cup Updates =>
              /\ v[c.ref] # Absent /\ w[c.ref] # Absent /\ w[c.ref] = c.new /\ Touches(c) = {c.ref}
              /\ c.type # "MoveNode" /\ c.ref \in Nodes => w[c.ref].at = v[c.ref].at
              /\ c.type = "MoveNode" => w[c.ref].label = v[c.ref].label
              /\ c.ref \in Lines => SameEnds(w[c.ref], v[c.ref])
      /\ c.type = "DeleteNode" =>
              /\ DOMAIN c.lines = LinesAt(v, c.ref)
              /\ \A r1 \in Lines \ Touches(c) : v[r1] # Absent => c.ref \notin Ends(v[r1])
  BY DrawnOn
<1>4. /\ \A i \in DOMAIN a :
           /\ LastPlaced(a, r, i) =>
                \/ SetsPlace(c, r) /\ a[i] = c
                \/ ~SetsPlace(c, r) /\ i \in DOMAIN q /\ a[i] = q[i] /\ LastPlaced(q, r, i)
           /\ LastLabelled(a, r, i) =>
                \/ SetsLabel(c, r) /\ a[i] = c
                \/ ~SetsLabel(c, r) /\ i \in DOMAIN q /\ a[i] = q[i] /\ LastLabelled(q, r, i)
  BY AppendedLast
<1>5. /\ c.ref \in Refs /\ c.ref \in Touches(c) /\ Touches(c) = {c.ref} \cup DOMAIN c.lines
      /\ DOMAIN c.lines \subseteq Lines /\ Nodes \cap Lines = {} /\ Refs = Nodes \cup Lines
      /\ c.type \in Adds \cup Deletes \cup Updates \cup {"MoveNode"}
      /\ c.type # "DeleteNode" => DOMAIN c.lines = {}
      /\ c.ref \in Lines <=> c.type \in {"AddEdge", "UpdateEdge", "DeleteEdge"}
      /\ \A i \in DOMAIN q : q[i].ref \in Touches(q[i]) /\ q[i].ref \in Refs
           /\ Touches(q[i]) = {q[i].ref} \cup DOMAIN q[i].lines
           /\ (q[i].type = "DeleteNode" => q[i].ref \in Nodes)
           /\ (q[i].type \in {"AddNode", "MoveNode"} => q[i].ref \in Nodes)
  BY <1>2, CommandFacts, EditorAssumption DEF Adds, Deletes, Updates, Refs
<1> HIDE DEF a, n, w
<1>6. /\ r = c.ref /\ c.type \in Adds => \A i \in DOMAIN q : r \notin Touches(q[i])
      /\ c.type \in Adds => \A i \in DOMAIN q : q[i].ref # c.ref
  BY <1>5 DEF Unheard
<1>20. /\ c.type = "DeleteNode" => c.type \in Deletes
       /\ c.type \in Adds => c.type \notin Deletes /\ Touches(c) = {c.ref}
       /\ c.type \in {"MoveNode"} \cup Updates => c.type \notin Deletes
       /\ c.type \notin Adds /\ c.type \notin Deletes => c.type \in {"MoveNode"} \cup Updates
  BY <1>5 DEF Adds, Deletes, Updates
<1>21. r \in Touches(c) =>
         \/ c.type \in Adds /\ r = c.ref
         \/ c.type \in Deletes /\ v[r] # Absent /\ w[r] = Absent
         \/ c.type \in {"MoveNode"} \cup Updates /\ r = c.ref /\ Touches(c) = {c.ref}
  <2>1. CASE c.type \in Adds
    BY <1>20, <2>1
  <2>2. CASE c.type \in Deletes
    BY <1>3, <2>2
  <2>3. CASE c.type \in {"MoveNode"} \cup Updates
    BY <1>3, <2>3
  <2>4. QED
    BY <1>20, <2>1, <2>2, <2>3
<1>22. r \notin Touches(c) => w[r] = v[r]
  BY <1>3
<1>7. w[r] # Absent => v[r] # Absent \/ (r = c.ref /\ c.type \in Adds)
  <2>1. CASE r \notin Touches(c)
    BY <1>22, <2>1
  <2>2. CASE r \in Touches(c) /\ c.type \in {"MoveNode"} \cup Updates /\ r = c.ref
    BY <1>3, <2>2
  <2>3. QED
    BY <1>21, <2>1, <2>2
<1>23. w[r] # Absent /\ r # c.ref => w[r] = v[r]
  BY <1>21, <1>22
<1>8. ASSUME NEW i \in DOMAIN a, w[r] # Absent
      PROVE  ~DelTouch(a[i], r)
  <2>1. CASE i \in DOMAIN q /\ a[i] = q[i]
    <3>1. CASE v[r] # Absent
      BY <1>1, <2>1, <3>1 DEF QueueFits
    <3>2. CASE r = c.ref /\ c.type \in Adds
      BY <1>6, <2>1, <3>2 DEF DelTouch
    <3>3. QED
      BY <1>7, <1>8, <3>1, <3>2
  <2>2. CASE a[i] = c
    BY <1>3, <1>8, <2>2 DEF DelTouch
  <2>3. QED
    BY <1>2, <2>1, <2>2
<1>9. ASSUME NEW i \in DOMAIN a, w[r] # Absent, LastPlaced(a, r, i)
      PROVE  a[i].new.at = w[r].at
  <2>1. CASE SetsPlace(c, r) /\ a[i] = c
    <3>1. w[r] = c.new
      BY <1>3, <2>1 DEF SetsPlace, Adds
    <3>2. QED
      BY <2>1, <3>1
  <2>2. CASE ~SetsPlace(c, r) /\ i \in DOMAIN q /\ a[i] = q[i] /\ LastPlaced(q, r, i)
    <3>1. q[i].ref = r /\ r \in Nodes
      BY <1>5, <2>2 DEF LastPlaced, SetsPlace
    <3>2. ~(r = c.ref /\ c.type \in Adds)
      BY <1>6, <2>2, <3>1
    <3>3. v[r] # Absent
      BY <1>7, <1>9, <3>2
    <3>4. q[i].new.at = v[r].at
      BY <1>1, <2>2, <3>3 DEF QueueFits
    <3>5. w[r].at = v[r].at
      <4>1. CASE r # c.ref
        BY <1>9, <1>23, <4>1
      <4>2. CASE r = c.ref
        <5>1. c.type \in Updates
          BY <1>3, <1>5, <1>9, <2>2, <3>2, <4>2 DEF SetsPlace
        <5>2. QED
          BY <1>3, <3>1, <4>2, <5>1 DEF Updates
      <4>3. QED
        BY <4>1, <4>2
    <3>6. QED
      BY <2>2, <3>4, <3>5
  <2>3. QED
    BY <1>4, <1>9, <2>1, <2>2
<1>10. ASSUME NEW i \in DOMAIN a, w[r] # Absent, LastLabelled(a, r, i)
       PROVE  a[i].new.label = w[r].label
  <2>1. CASE SetsLabel(c, r) /\ a[i] = c
    <3>1. w[r] = c.new
      BY <1>3, <2>1 DEF SetsLabel
    <3>2. QED
      BY <2>1, <3>1
  <2>2. CASE ~SetsLabel(c, r) /\ i \in DOMAIN q /\ a[i] = q[i] /\ LastLabelled(q, r, i)
    <3>1. q[i].ref = r
      BY <2>2 DEF LastLabelled, SetsLabel
    <3>2. ~(r = c.ref /\ c.type \in Adds)
      BY <1>6, <2>2, <3>1
    <3>3. v[r] # Absent
      BY <1>7, <1>10, <3>2
    <3>4. q[i].new.label = v[r].label
      BY <1>1, <2>2, <3>3 DEF QueueFits
    <3>5. w[r].label = v[r].label
      <4>1. CASE r # c.ref
        BY <1>10, <1>23, <4>1
      <4>2. CASE r = c.ref
        <5>1. c.type = "MoveNode"
          BY <1>3, <1>5, <1>10, <2>2, <3>2, <4>2 DEF SetsLabel
        <5>2. QED
          BY <1>3, <4>2, <5>1
      <4>3. QED
        BY <4>1, <4>2
    <3>6. QED
      BY <2>2, <3>4, <3>5
  <2>3. QED
    BY <1>4, <1>10, <2>1, <2>2
<1>11. v[r] # Absent /\ w[r] # Absent /\ r \in Lines => SameEnds(w[r], v[r])
  <2>1. SUFFICES ASSUME v[r] # Absent, w[r] # Absent, r \in Lines PROVE SameEnds(w[r], v[r])
    OBVIOUS
  <2>2. CASE r \notin Touches(c)
    BY <1>3, <2>2 DEF SameEnds
  <2>3. CASE r \in Touches(c)
    <3>0. ~(c.type \in Adds /\ r = c.ref)
      BY <1>3, <2>1
    <3>1. c.type \in {"MoveNode"} \cup Updates /\ r = c.ref
      BY <1>21, <2>1, <2>3, <3>0
    <3>2. QED
      BY <1>3, <2>1, <3>1
  <2>4. QED
    BY <2>2, <2>3
<1>12. ASSUME NEW i \in DOMAIN a, w[r] # Absent, Does(a[i], "AddEdge", r)
       PROVE  SameEnds(a[i].new, w[r])
  <2>1. CASE a[i] = c
    <3>1. w[r] = c.new
      BY <1>3, <1>12, <2>1 DEF Does, Adds
    <3>2. QED
      BY <2>1, <3>1 DEF SameEnds
  <2>2. CASE i \in DOMAIN q /\ a[i] = q[i]
    <3>1. ~(r = c.ref /\ c.type \in Adds)
      BY <1>6, <1>12, <2>2 DEF Does
    <3>2. v[r] # Absent
      BY <1>7, <1>12, <3>1
    <3>3. r \in Lines
      BY <1>2, <1>12, <2>2, CommandFacts DEF Does
    <3>4. SameEnds(q[i].new, v[r]) /\ SameEnds(w[r], v[r])
      BY <1>1, <1>11, <1>12, <2>2, <3>2, <3>3 DEF QueueFits
    <3>5. QED
      BY <2>2, <3>4 DEF SameEnds
  <2>3. QED
    BY <1>2, <2>1, <2>2
<1>13. ASSUME NEW i \in DOMAIN a, w[r] # Absent, r \in Lines,
              a[i].type = "DeleteNode", a[i].ref \in Ends(w[r])
       PROVE  \E j \in DOMAIN a : j > i /\ Does(a[j], "AddEdge", r)
  <2>1. CASE r = c.ref /\ c.type \in Adds
    <3>1. c.type = "AddEdge"
      BY <1>5, <1>13, <2>1 DEF Adds
    <3>2. i \in DOMAIN q
      BY <1>2, <1>13, <3>1
    <3>3. QED
      BY <1>2, <2>1, <3>1, <3>2 DEF Does
  <2>2. CASE ~(r = c.ref /\ c.type \in Adds)
    <3>1. v[r] # Absent /\ SameEnds(w[r], v[r])
      BY <1>7, <1>11, <1>13, <2>2
    <3>2. a[i].ref \in Ends(v[r])
      BY <1>13, <3>1 DEF SameEnds, Ends
    <3>3. CASE i \in DOMAIN q /\ a[i] = q[i]
      <4>1. PICK j \in DOMAIN q : j > i /\ Does(q[j], "AddEdge", r)
        BY <1>1, <1>13, <3>1, <3>2, <3>3 DEF QueueFits
      <4>2. QED
        BY <1>2, <4>1
    <3>4. CASE a[i] = c
      BY <1>3, <1>13, <3>1, <3>2, <3>4 DEF Deletes
    <3>5. QED
      BY <1>2, <3>3, <3>4
  <2>3. QED
    BY <2>1, <2>2
<1>14. ASSUME NEW i \in DOMAIN a, NEW j \in DOMAIN a, a[i].ref = r, a[j].ref = r, a[i].type \in Deletes
       PROVE  j <= i
  <2>1. CASE a[i] = c /\ i = n
    BY <1>2, <2>1
  <2>2. CASE i \in DOMAIN q /\ a[i] = q[i]
    <3>1. CASE j \in DOMAIN q /\ a[j] = q[j]
      BY <1>1, <1>14, <2>2, <3>1 DEF QueueFits
    <3>2. CASE a[j] = c
      <4>1. v[r] # Absent
        BY <1>3, <1>5, <1>6, <1>14, <2>2, <3>2
      <4>2. DelTouch(q[i], r)
        BY <1>5, <1>14, <2>2 DEF DelTouch
      <4>3. QED
        BY <1>1, <2>2, <4>1, <4>2 DEF QueueFits
    <3>3. QED
      BY <1>2, <3>1, <3>2
  <2>3. QED
    BY <1>2, <2>1, <2>2
<1>15. ASSUME NEW i \in DOMAIN a, a[i].type = "DeleteNode", r \in DOMAIN a[i].lines
       PROVE  /\ w[a[i].ref] = Absent
              /\ \A j \in DOMAIN a : Does(a[j], "AddEdge", r) => a[i].ref \in Ends(a[j].new)
  <2>1. CASE i \in DOMAIN q /\ a[i] = q[i]
    <3>1. v[q[i].ref] = Absent /\ q[i].ref \in Refs /\ r \in Touches(q[i])
      BY <1>1, <1>5, <1>15, <2>1 DEF QueueFits
    <3>2. w[q[i].ref] = Absent
      <4>1. CASE q[i].ref \notin Touches(c)
        BY <1>3, <3>1, <4>1
      <4>2. CASE q[i].ref \in Touches(c) /\ c.type \in Adds
        BY <1>6, <1>20, <2>1, <4>2
      <4>3. CASE q[i].ref \in Touches(c) /\ c.type \in Deletes
        BY <1>3, <4>3
      <4>4. CASE q[i].ref \in Touches(c) /\ c.type \in {"MoveNode"} \cup Updates
        <5>1. q[i].ref = c.ref
          BY <1>3, <4>4
        <5>2. QED
          BY <1>3, <3>1, <4>4, <5>1
      <4>5. QED
        BY <1>20, <4>1, <4>2, <4>3, <4>4
    <3>3. ASSUME NEW j \in DOMAIN a, Does(a[j], "AddEdge", r) PROVE a[i].ref \in Ends(a[j].new)
      <4>1. a[j] # c
        BY <1>6, <2>1, <3>1, <3>3 DEF Does, Adds
      <4>2. j \in DOMAIN q /\ a[j] = q[j]
        BY <1>2, <4>1
      <4>3. QED
        BY <1>1, <1>15, <2>1, <3>3, <4>2 DEF QueueFits
    <3>4. QED
      BY <2>1, <3>2, <3>3
  <2>2. CASE a[i] = c
    <3>1. w[c.ref] = Absent /\ v[r] # Absent /\ r \in LinesAt(v, c.ref) /\ r # c.ref
      BY <1>3, <1>5, <1>15, <2>2 DEF Deletes
    <3>2. ASSUME NEW j \in DOMAIN a, Does(a[j], "AddEdge", r) PROVE a[i].ref \in Ends(a[j].new)
      <4>1. j \in DOMAIN q /\ a[j] = q[j]
        BY <1>2, <3>1, <3>2 DEF Does
      <4>2. SameEnds(q[j].new, v[r])
        BY <1>1, <3>1, <3>2, <4>1 DEF QueueFits
      <4>3. QED
        BY <2>2, <3>1, <4>1, <4>2 DEF LinesAt, SameEnds, Ends
    <3>3. QED
      BY <2>2, <3>1, <3>2
  <2>3. QED
    BY <1>2, <2>1, <2>2
<1>16. QED
  BY <1>8, <1>9, <1>10, <1>12, <1>13, <1>14, <1>15 DEF QueueFits

(* How a fitting command, appended to a queue, changes one element.        *)
LEMMA DrawnCases ==
  ASSUME NEW v \in Items, NEW c \in Commands, Fits(c, v), NEW r \in Refs
  PROVE  LET w == applyCommand(v, c) IN
         \/ IsAdd(c, r) /\ v[r] = Absent /\ w[r] # Absent
         \/ /\ DelTouch(c, r) /\ v[r] # Absent /\ w[r] = Absent /\ ~IsAdd(c, r)
            /\ c.type = "DeleteNode" /\ r \in DOMAIN c.lines => c.ref \in Ends(v[r])
         \/ /\ v[r] # Absent /\ w[r] # Absent /\ ~IsAdd(c, r) /\ ~DelTouch(c, r)
            /\ r \in Nodes => SetsPlace(c, r) \/ w[r].at = v[r].at
            /\ SetsLabel(c, r) \/ w[r].label = v[r].label
            /\ r \in Lines => SameEnds(w[r], v[r])
            /\ r \notin DOMAIN c.lines
         \/ v[r] = Absent /\ w[r] = Absent /\ ~IsAdd(c, r) /\ r \notin DOMAIN c.lines
<1> DEFINE w == applyCommand(v, c)
<1>1. /\ \A r1 \in Refs \ Touches(c) : w[r1] = v[r1]
      /\ c.type \in Adds => v[c.ref] = Absent /\ w[c.ref] = c.new /\ w[c.ref] # Absent
      /\ c.type \in Deletes => \A r1 \in Touches(c) : v[r1] # Absent /\ w[r1] = Absent
      /\ c.type \in {"MoveNode"} \cup Updates =>
              /\ v[c.ref] # Absent /\ w[c.ref] # Absent /\ w[c.ref] = c.new /\ Touches(c) = {c.ref}
              /\ c.type # "MoveNode" /\ c.ref \in Nodes => w[c.ref].at = v[c.ref].at
              /\ c.type = "MoveNode" => w[c.ref].label = v[c.ref].label
              /\ c.ref \in Lines => SameEnds(w[c.ref], v[c.ref])
      /\ c.type = "DeleteNode" =>
              /\ DOMAIN c.lines = LinesAt(v, c.ref)
              /\ \A r1 \in Lines \ Touches(c) : v[r1] # Absent => c.ref \notin Ends(v[r1])
  BY DrawnOn
<1>2. /\ c.ref \in Refs /\ c.ref \in Touches(c) /\ Touches(c) = {c.ref} \cup DOMAIN c.lines
      /\ c.type \in Adds \cup Deletes \cup Updates \cup {"MoveNode"}
      /\ c.type # "DeleteNode" => DOMAIN c.lines = {}
  BY CommandFacts, EditorAssumption DEF Adds, Deletes, Updates, Refs
<1>3. /\ c.type = "DeleteNode" => c.type \in Deletes
      /\ c.type \in Adds => c.type \notin Deletes /\ c.type \notin {"MoveNode"} \cup Updates
      /\ c.type \in {"MoveNode"} \cup Updates => c.type \notin Deletes
  BY DEF Adds, Deletes, Updates
<1> HIDE DEF w
<1>4. CASE r \notin Touches(c)
  <2>1. w[r] = v[r] /\ r # c.ref /\ r \notin DOMAIN c.lines
    BY <1>1, <1>2, <1>4
  <2>2. ~IsAdd(c, r) /\ ~DelTouch(c, r)
    BY <1>4, <2>1 DEF IsAdd, DelTouch
  <2>3. QED
    BY <2>1, <2>2 DEF w, SameEnds
<1>5. CASE c.type \in Adds /\ r \in Touches(c)
  <2>1. r = c.ref
    BY <1>2, <1>3, <1>5
  <2>2. QED
    BY <1>1, <1>5, <2>1 DEF w, IsAdd
<1>6. CASE c.type \in Deletes /\ r \in Touches(c)
  <2>1. v[r] # Absent /\ w[r] = Absent /\ DelTouch(c, r) /\ ~IsAdd(c, r)
    BY <1>1, <1>3, <1>6 DEF DelTouch, IsAdd
  <2>2. c.type = "DeleteNode" /\ r \in DOMAIN c.lines => c.ref \in Ends(v[r])
    BY <1>1 DEF LinesAt
  <2>3. QED
    BY <2>1, <2>2 DEF w
<1>7. CASE c.type \in {"MoveNode"} \cup Updates /\ r \in Touches(c)
  <2>1. r = c.ref
    BY <1>1, <1>7
  <2>2. ~IsAdd(c, r) /\ ~DelTouch(c, r)
    BY <1>3, <1>7 DEF IsAdd, DelTouch
  <2>3. v[r] # Absent /\ w[r] # Absent /\ (r \in Lines => SameEnds(w[r], v[r]))
    BY <1>1, <1>7, <2>1
  <2>4. r \in Nodes => SetsPlace(c, r) \/ w[r].at = v[r].at
    BY <1>1, <1>7, <2>1 DEF SetsPlace
  <2>5. SetsLabel(c, r) \/ w[r].label = v[r].label
    BY <1>1, <1>7, <2>1 DEF SetsLabel
  <2>6. r \notin DOMAIN c.lines
    BY <1>2, <1>3, <1>7
  <2>7. QED
    BY <2>2, <2>3, <2>4, <2>5, <2>6 DEF w
<1>8. QED
  BY <1>2, <1>4, <1>5, <1>6, <1>7

(* What the command changes on the canvas is made up for by the command.   *)
LEMMA DrawnServer ==
  ASSUME NEW q \in Seq(Commands), NEW v \in Items, NEW s, NEW F, NEW c \in Commands, Fits(c, v),
         ServerOK(q, v, s, F), Unheard(q, c), c.type \in Adds => s[c.ref] = Absent
  PROVE  ServerOK(Append(q, c), applyCommand(v, c), s, F)
<1> DEFINE a == Append(q, c)
           n == Len(q) + 1
           w == applyCommand(v, c)
<1> SUFFICES ASSUME NEW r \in Refs \ F PROVE ServerFits(a, w, s, r)
  BY DEF ServerOK
<1>1. ServerFits(q, v, s, r)
  BY DEF ServerOK
<1>2. /\ \A k \in DOMAIN q : k \in DOMAIN a /\ a[k] = q[k]
      /\ n \in DOMAIN a /\ a[n] = c
      /\ \A k \in DOMAIN a : (k \in DOMAIN q /\ a[k] = q[k]) \/ a[k] = c
      /\ \A k \in DOMAIN q : q[k] \in Commands
  BY AppendFacts, QueueFacts
<1>3. \/ IsAdd(c, r) /\ v[r] = Absent /\ w[r] # Absent
      \/ /\ DelTouch(c, r) /\ v[r] # Absent /\ w[r] = Absent /\ ~IsAdd(c, r)
         /\ c.type = "DeleteNode" /\ r \in DOMAIN c.lines => c.ref \in Ends(v[r])
      \/ /\ v[r] # Absent /\ w[r] # Absent /\ ~IsAdd(c, r) /\ ~DelTouch(c, r)
         /\ r \in Nodes => SetsPlace(c, r) \/ w[r].at = v[r].at
         /\ SetsLabel(c, r) \/ w[r].label = v[r].label
         /\ r \in Lines => SameEnds(w[r], v[r])
         /\ r \notin DOMAIN c.lines
      \/ v[r] = Absent /\ w[r] = Absent /\ ~IsAdd(c, r) /\ r \notin DOMAIN c.lines
  BY DrawnCases
<1> HIDE DEF a, n, w
<1>4. ASSUME NEW i \in DOMAIN q, IsAdd(q[i], r), r \in Lines, DeadEnd(q, s, q[i].new)
      PROVE  DeadEnd(a, s, q[i].new)
  <2>1. q[i].type = "AddEdge"
    BY <1>2, <1>4, CommandFacts, EditorAssumption DEF IsAdd, Adds
  <2>2. PICK m \in Ends(q[i].new) \cap Nodes :
          s[m] = Absent /\ \A j \in DOMAIN q : ~Does(q[j], "AddNode", m)
    BY <1>4 DEF DeadEnd
  <2>3. ~Does(c, "AddNode", m)
    BY <2>1, <2>2 DEF Does, Unheard, Adds
  <2>4. QED
    BY <1>2, <2>2, <2>3 DEF DeadEnd
<1>5. w[r] # Absent /\ s[r] = Absent => \E i \in DOMAIN a : IsAdd(a[i], r)
  <2>1. CASE IsAdd(c, r)
    BY <1>2, <2>1
  <2>2. CASE ~IsAdd(c, r)
    <3>1. w[r] # Absent => v[r] # Absent
      BY <1>3, <2>2
    <3>2. QED
      BY <1>1, <1>2, <3>1 DEF ServerFits
  <2>3. QED
    BY <2>1, <2>2
<1>6. ASSUME w[r] # Absent, s[r] # Absent
      PROVE  /\ r \in Nodes => (\E i \in DOMAIN a : SetsPlace(a[i], r)) \/ s[r].at = w[r].at
             /\ (\E i \in DOMAIN a : SetsLabel(a[i], r)) \/ s[r].label = w[r].label
             /\ r \in Lines => SameEnds(s[r], w[r])
  <2>1. ~IsAdd(c, r)
    BY <1>6 DEF IsAdd
  <2>2. /\ v[r] # Absent
        /\ r \in Nodes => SetsPlace(c, r) \/ w[r].at = v[r].at
        /\ SetsLabel(c, r) \/ w[r].label = v[r].label
        /\ r \in Lines => SameEnds(w[r], v[r])
    BY <1>3, <1>6, <2>1
  <2>3. r \in Nodes => (\E i \in DOMAIN a : SetsPlace(a[i], r)) \/ s[r].at = w[r].at
    <3>1. CASE SetsPlace(c, r)
      BY <1>2, <3>1
    <3>2. CASE ~SetsPlace(c, r)
      BY <1>1, <1>2, <1>6, <2>2, <3>2 DEF ServerFits
    <3>3. QED
      BY <3>1, <3>2
  <2>4. (\E i \in DOMAIN a : SetsLabel(a[i], r)) \/ s[r].label = w[r].label
    <3>1. CASE SetsLabel(c, r)
      BY <1>2, <3>1
    <3>2. CASE ~SetsLabel(c, r)
      BY <1>1, <1>2, <1>6, <2>2, <3>2 DEF ServerFits
    <3>3. QED
      BY <3>1, <3>2
  <2>5. r \in Lines => SameEnds(s[r], w[r])
    BY <1>1, <1>6, <2>2 DEF ServerFits, SameEnds
  <2>6. QED
    BY <2>3, <2>4, <2>5
<1>7. w[r] = Absent =>
       \/ \E i \in DOMAIN a : DelTouch(a[i], r)
       \/ /\ s[r] = Absent
          /\ \A i \in DOMAIN a : IsAdd(a[i], r) => r \in Lines /\ DeadEnd(a, s, a[i].new)
  <2>1. SUFFICES ASSUME w[r] = Absent
                 PROVE  \/ \E i \in DOMAIN a : DelTouch(a[i], r)
                        \/ /\ s[r] = Absent
                           /\ \A i \in DOMAIN a : IsAdd(a[i], r) => r \in Lines /\ DeadEnd(a, s, a[i].new)
    OBVIOUS
  <2>2. CASE DelTouch(c, r)
    BY <1>2, <2>2
  <2>3. CASE ~DelTouch(c, r)
    <3>1. v[r] = Absent /\ ~IsAdd(c, r)
      BY <1>3, <2>1, <2>3
    <3>2. \A i \in DOMAIN a : IsAdd(a[i], r) => i \in DOMAIN q /\ a[i] = q[i]
      BY <1>2, <3>1
    <3>3. QED
      BY <1>1, <1>2, <1>4, <3>1, <3>2 DEF ServerFits
  <2>4. QED
    BY <2>2, <2>3
<1>8. ASSUME r \in Lines, s[r] # Absent, NEW i \in DOMAIN a,
             a[i].type = "DeleteNode", r \in DOMAIN a[i].lines
      PROVE  a[i].ref \in Ends(s[r])
  <2>1. CASE i \in DOMAIN q /\ a[i] = q[i]
    BY <1>1, <1>8, <2>1 DEF ServerFits
  <2>2. CASE a[i] = c
    <3>1. v[r] # Absent /\ c.ref \in Ends(v[r])
      BY <1>3, <1>8, <2>2 DEF IsAdd, Adds
    <3>2. SameEnds(s[r], v[r])
      BY <1>1, <1>8, <3>1 DEF ServerFits
    <3>3. QED
      BY <2>2, <3>1, <3>2 DEF SameEnds, Ends
  <2>3. QED
    BY <1>2, <2>1, <2>2
<1>9. QED
  BY <1>5, <1>6, <1>7, <1>8 DEF ServerFits

(* The same for a design that is not yet stored.                           *)
LEMMA DrawnLocal ==
  ASSUME NEW q \in Seq(Commands), NEW v \in Items, NEW F, NEW c \in Commands, Fits(c, v),
         LocalOK(q, v, F)
  PROVE  LocalOK(Append(q, c), applyCommand(v, c), F)
<1> DEFINE a == Append(q, c)
           n == Len(q) + 1
           w == applyCommand(v, c)
<1> SUFFICES ASSUME NEW r \in Refs \ F, w[r] = Absent
             PROVE  (\E i \in DOMAIN a : DelTouch(a[i], r)) \/ \A i \in DOMAIN a : ~IsAdd(a[i], r)
  BY DEF LocalOK, LocalFits
<1>1. LocalFits(q, v, r)
  BY DEF LocalOK
<1>2. /\ \A k \in DOMAIN q : k \in DOMAIN a /\ a[k] = q[k]
      /\ n \in DOMAIN a /\ a[n] = c
      /\ \A k \in DOMAIN a : (k \in DOMAIN q /\ a[k] = q[k]) \/ a[k] = c
  BY AppendFacts
<1>3. \/ w[r] # Absent
      \/ DelTouch(c, r)
      \/ v[r] = Absent /\ ~IsAdd(c, r)
  BY DrawnCases
<1> HIDE DEF a, n, w
<1>4. CASE DelTouch(c, r)
  BY <1>2, <1>4
<1>5. CASE v[r] = Absent /\ ~IsAdd(c, r)
  BY <1>1, <1>2, <1>5 DEF LocalFits
<1>6. QED
  BY <1>3, <1>4, <1>5

-----------------------------------------------------------------------------
(* The stacks beside the queue.                                            *)

(* The commands of a queue, as a set.                                      *)
LEMMA SetFacts ==
  ASSUME NEW q \in Seq(Commands)
  PROVE  /\ ToSet(q) \subseteq Commands
         /\ \A i \in DOMAIN q : q[i] \in ToSet(q)
         /\ \A c \in ToSet(q) : \E i \in DOMAIN q : q[i] = c
  BY QueueFacts DEF ToSet

(* The commands of the empty queue.                                        *)
LEMMA SetOfEmpty == ToSet(<<>>) = {}
<1>1. DOMAIN <<>> = {}
  OBVIOUS
<1>2. QED
  BY <1>1 DEF ToSet

(* The commands of a queue with one more.                                  *)
LEMMA SetOfAppend ==
  ASSUME NEW q \in Seq(Commands), NEW c \in Commands
  PROVE  ToSet(Append(q, c)) = ToSet(q) \cup {c}
<1>1. /\ \A i \in DOMAIN q : i \in DOMAIN Append(q, c) /\ Append(q, c)[i] = q[i]
      /\ Len(q) + 1 \in DOMAIN Append(q, c) /\ Append(q, c)[Len(q) + 1] = c
      /\ \A i \in DOMAIN Append(q, c) :
           (i \in DOMAIN q /\ Append(q, c)[i] = q[i]) \/ Append(q, c)[i] = c
  BY AppendFacts
<1>2. QED
  BY <1>1 DEF ToSet

(* The commands of two queues joined.                                      *)
LEMMA SetOfJoin ==
  ASSUME NEW q \in Seq(Commands), NEW u \in Seq(Commands)
  PROVE  ToSet(q \o u) = ToSet(q) \cup ToSet(u)
<1>1. /\ \A i \in DOMAIN q : i \in DOMAIN (q \o u) /\ (q \o u)[i] = q[i]
      /\ \A i \in DOMAIN u : Len(q) + i \in DOMAIN (q \o u) /\ (q \o u)[Len(q) + i] = u[i]
      /\ \A i \in DOMAIN (q \o u) :
           \/ i \in DOMAIN q /\ (q \o u)[i] = q[i]
           \/ i - Len(q) \in DOMAIN u /\ (q \o u)[i] = u[i - Len(q)]
  BY JoinFacts
<1> HIDE DEF ToSet
<1>2. ASSUME NEW x \in ToSet(q \o u) PROVE x \in ToSet(q) \cup ToSet(u)
  BY <1>1 DEF ToSet
<1>3. \A i \in DOMAIN (q \o u) : (q \o u)[i] \in ToSet(q \o u)
  BY DEF ToSet
<1>4. ASSUME NEW x \in ToSet(q) PROVE x \in ToSet(q \o u)
  <2>1. PICK i \in DOMAIN q : q[i] = x
    BY DEF ToSet
  <2>2. QED
    BY <1>1, <1>3, <2>1
<1>5. ASSUME NEW x \in ToSet(u) PROVE x \in ToSet(q \o u)
  <2>1. PICK i \in DOMAIN u : u[i] = x
    BY DEF ToSet
  <2>2. QED
    BY <1>1, <1>3, <2>1
<1>6. QED
  BY <1>2, <1>4, <1>5

(* The commands of a queue are its last and those before.                  *)
LEMMA SetOfFront ==
  ASSUME NEW q \in Seq(Commands), q # <<>>
  PROVE  ToSet(q) = ToSet(Front(q)) \cup {Last(q)}
<1>1. /\ Last(q) = q[Len(q)] /\ Len(q) \in DOMAIN q
      /\ \A i \in DOMAIN Front(q) : i \in DOMAIN q /\ Front(q)[i] = q[i]
      /\ \A i \in DOMAIN q : i = Len(q) \/ i \in DOMAIN Front(q)
  BY FrontFacts
<1>2. QED
  BY <1>1 DEF ToSet

(* The commands of a queue are its first and those after.                  *)
LEMMA SetOfTail ==
  ASSUME NEW q \in Seq(Commands), q # <<>>
  PROVE  ToSet(q) = ToSet(Tail(q)) \cup {Head(q)}
<1>1. /\ Head(q) = q[1] /\ 1 \in DOMAIN q
      /\ \A i \in DOMAIN Tail(q) : i + 1 \in DOMAIN q /\ Tail(q)[i] = q[i + 1]
      /\ \A i \in DOMAIN q : i = 1 \/ (i - 1 \in DOMAIN Tail(q) /\ Tail(q)[i - 1] = q[i])
  <2>1. \A i \in DOMAIN q : i \in Nat
    BY QueueFacts
  <2>2. \A i \in DOMAIN q : i # 1 => (i - 1) + 1 = i
    BY <2>1
  <2>3. QED
    BY <2>1, <2>2, TailFacts
<1>2. ASSUME NEW x \in ToSet(q) PROVE x \in ToSet(Tail(q)) \cup {Head(q)}
  <2>1. PICK i \in DOMAIN q : q[i] = x
    BY DEF ToSet
  <2>2. CASE i = 1
    BY <1>1, <2>1, <2>2
  <2>3. CASE i - 1 \in DOMAIN Tail(q) /\ Tail(q)[i - 1] = q[i]
    <3>1. Tail(q)[i - 1] \in ToSet(Tail(q))
      BY <2>3 DEF ToSet
    <3>2. QED
      BY <2>1, <2>3, <3>1
  <2>4. QED
    BY <1>1, <2>1, <2>2, <2>3
<1>3. ASSUME NEW x \in ToSet(Tail(q)) PROVE x \in ToSet(q)
  <2>1. PICK i \in DOMAIN Tail(q) : Tail(q)[i] = x
    BY DEF ToSet
  <2>2. QED
    BY <1>1, <2>1 DEF ToSet
<1>4. Head(q) \in ToSet(q)
  BY <1>1 DEF ToSet
<1>5. QED
  BY <1>2, <1>3, <1>4

(* The commands of a queue with one more in front.                         *)
LEMMA SetOfOne ==
  ASSUME NEW c \in Commands, NEW u \in Seq(Commands)
  PROVE  ToSet(<<c>> \o u) = ToSet(u) \cup {c}
<1>1. <<c>> \in Seq(Commands)
  OBVIOUS
<1>2. DOMAIN <<c>> = {1} /\ <<c>>[1] = c
  OBVIOUS
<1>3. ToSet(<<c>>) = {c}
  BY <1>2 DEF ToSet
<1>4. ToSet(<<c>> \o u) = ToSet(<<c>>) \cup ToSet(u)
  BY <1>1, SetOfJoin
<1>5. QED
  BY <1>3, <1>4

(* The rest of a queue has no other commands.                              *)
LEMMA SetOfRest ==
  ASSUME NEW q \in Seq(Commands), NEW m \in Nat, m <= Len(q)
  PROVE  ToSet(SubSeq(q, m + 1, Len(q))) \subseteq ToSet(q)
<1> DEFINE u == SubSeq(q, m + 1, Len(q))
<1>1. \A i \in DOMAIN u : i + m \in DOMAIN q /\ u[i] = q[i + m]
  BY RestFacts
<1> HIDE DEF u
<1>2. ToSet(u) \subseteq ToSet(q)
  BY <1>1 DEF ToSet
<1>3. QED
  BY <1>2 DEF u

(* What is sent was queued.                                                *)
LEMMA SetOfBatch ==
  ASSUME NEW q \in Seq(Commands)
  PROVE  ToSet(Batch(q)) \subseteq ToSet(q)
<1>1. \A k \in DOMAIN Batch(q) : \E j \in DOMAIN q : q[j] = Batch(q)[k]
  BY BatchFacts
<1>2. QED
  BY <1>1 DEF ToSet

-----------------------------------------------------------------------------
(* What may still be undone or redone, against what is queued: a queued    *)
(* line ends at a node of the stacks only if its own addition may be       *)
(* undone; a queued deletion of such a node takes no line unclaimed.       *)
StackOK(A, U, Q, F) ==
  /\ \A a \in A \cup U, c \in Q :
       a.type = "AddNode" /\ c.type = "AddEdge" /\ a.ref \in Ends(c.new) =>
         c.ref \in F \/ \E b \in A : Does(b, "AddEdge", c.ref)
  /\ \A a \in A, c \in Q :
       a.type = "DeleteNode" /\ Does(c, "DeleteNode", a.ref) =>
         DOMAIN c.lines \ F \subseteq DOMAIN a.lines
  /\ \A a \in A \cup U, c \in Q :
       a.type = "AddNode" /\ Does(c, "DeleteNode", a.ref) =>
         DOMAIN c.lines \subseteq F \/ \E b \in A : Does(b, "DeleteNode", a.ref)

(* With fewer commands waiting, or more given up, it stays so.             *)
LEMMA StackFewer ==
  ASSUME NEW A, NEW U, NEW Q, NEW R, NEW F, NEW G, R \subseteq Q, F \subseteq G,
         StackOK(A, U, Q, F)
  PROVE  StackOK(A, U, R, G)
<1>1. \A a \in A \cup U, c \in R :
       a.type = "AddNode" /\ c.type = "AddEdge" /\ a.ref \in Ends(c.new) =>
         c.ref \in G \/ \E b \in A : Does(b, "AddEdge", c.ref)
  BY DEF StackOK
<1>2. \A a \in A, c \in R :
       a.type = "DeleteNode" /\ Does(c, "DeleteNode", a.ref) =>
         DOMAIN c.lines \ G \subseteq DOMAIN a.lines
  BY DEF StackOK
<1>3. \A a \in A \cup U, c \in R :
       a.type = "AddNode" /\ Does(c, "DeleteNode", a.ref) =>
         DOMAIN c.lines \subseteq G \/ \E b \in A : Does(b, "DeleteNode", a.ref)
  BY DEF StackOK
<1>4. QED
  BY <1>1, <1>2, <1>3 DEF StackOK

(* With empty stacks, an empty queue, or all given up, it is so.           *)
LEMMA StackTrivial ==
  ASSUME NEW A, NEW U, NEW Q, NEW F, Q \subseteq Commands,
         A \cup U = {} \/ Q = {} \/ F = Refs
  PROVE  StackOK(A, U, Q, F)
<1>1. CASE A \cup U = {} \/ Q = {}
  BY <1>1 DEF StackOK
<1>2. CASE F = Refs
  <2>1. \A c \in Q : c.ref \in F /\ DOMAIN c.lines \subseteq F
    BY <1>2, CommandFacts DEF Refs
  <2>2. QED
    BY <2>1 DEF StackOK
<1>3. QED
  BY <1>1, <1>2

(* A command is drawn, put on the stack and queued.                        *)
LEMMA StackDrawn ==
  ASSUME NEW A, NEW U, NEW Q, NEW F, NEW K, NEW c \in Commands, StackOK(A, U, Q, F),
         \A b \in A \cup Q : b \in Commands /\ KnownBy(b, K),
         c.type \in Adds => c.ref \notin K,
         c.type = "DeleteNode" => \A b \in A : b.type = "DeleteNode" => b.ref # c.ref,
         c.type = "DeleteNode" => \A b \in Q : Does(b, "DeleteNode", c.ref) => DOMAIN b.lines \subseteq F
  PROVE  StackOK(A \cup {c}, {}, Q \cup {c}, F)
<1>1. ASSUME NEW a \in A \cup {c}, NEW d \in Q \cup {c},
             a.type = "AddNode", d.type = "AddEdge", a.ref \in Ends(d.new)
      PROVE  d.ref \in F \/ \E b \in A \cup {c} : Does(b, "AddEdge", d.ref)
  <2>1. CASE d = c
    BY <1>1, <2>1 DEF Does
  <2>2. CASE d \in Q /\ a \in A
    BY <1>1, <2>2 DEF StackOK
  <2>3. CASE d \in Q /\ a = c
    <3>1. c.ref \in Nodes /\ c.ref \notin K
      BY <1>1, <2>3, CommandFacts DEF Adds
    <3>2. Ends(d.new) \cap Nodes \subseteq K
      BY <1>1, <2>3 DEF KnownBy
    <3>3. QED
      BY <1>1, <2>3, <3>1, <3>2
  <2>4. QED
    BY <2>1, <2>2, <2>3
<1>2. ASSUME NEW a \in A \cup {c}, NEW d \in Q \cup {c},
             a.type = "DeleteNode", Does(d, "DeleteNode", a.ref)
      PROVE  DOMAIN d.lines \ F \subseteq DOMAIN a.lines
  <2>1. CASE a = c
    BY <1>2, <2>1
  <2>2. CASE a \in A /\ d = c
    BY <1>2, <2>2 DEF Does
  <2>3. CASE a \in A /\ d \in Q
    BY <1>2, <2>3 DEF StackOK
  <2>4. QED
    BY <2>1, <2>2, <2>3
<1>3. ASSUME NEW a \in A \cup {c}, NEW d \in Q \cup {c},
             a.type = "AddNode", Does(d, "DeleteNode", a.ref)
      PROVE  DOMAIN d.lines \subseteq F \/ \E b \in A \cup {c} : Does(b, "DeleteNode", a.ref)
  <2>1. CASE d = c
    BY <1>3, <2>1
  <2>2. CASE d \in Q /\ a \in A
    BY <1>3, <2>2 DEF StackOK
  <2>3. CASE d \in Q /\ a = c
    <3>1. c.ref \notin K /\ c.ref \in Touches(d)
      BY <1>3, <2>3, CommandFacts DEF Adds, Does
    <3>2. QED
      BY <2>3, <3>1 DEF KnownBy
  <2>4. QED
    BY <2>1, <2>2, <2>3
<1>4. QED
  BY <1>1, <1>2, <1>3 DEF StackOK

(* A command moves to the undone ones and is queued again.                 *)
LEMMA StackUndone ==
  ASSUME NEW A, NEW U, NEW Q, NEW F, NEW c \in Commands, StackOK(A \cup {c}, U, Q, F)
  PROVE  StackOK(A, U \cup {c}, Q \cup {c}, F \cup Touches(c))
<1> DEFINE G == F \cup Touches(c)
<1>0. c.ref \in G /\ DOMAIN c.lines \subseteq G /\ F \subseteq G
  BY CommandFacts
<1>1. ASSUME NEW a \in A \cup (U \cup {c}), NEW d \in Q \cup {c},
             a.type = "AddNode", d.type = "AddEdge", a.ref \in Ends(d.new)
      PROVE  d.ref \in G \/ \E b \in A : Does(b, "AddEdge", d.ref)
  <2>1. CASE d = c
    BY <1>0, <2>1
  <2>2. CASE d \in Q
    <3>1. d.ref \in F \/ \E b \in A \cup {c} : Does(b, "AddEdge", d.ref)
      BY <1>1, <2>2 DEF StackOK
    <3>2. Does(c, "AddEdge", d.ref) => d.ref \in G
      BY <1>0 DEF Does
    <3>3. QED
      BY <1>0, <3>1, <3>2
  <2>3. QED
    BY <2>1, <2>2
<1>2. ASSUME NEW a \in A, NEW d \in Q \cup {c},
             a.type = "DeleteNode", Does(d, "DeleteNode", a.ref)
      PROVE  DOMAIN d.lines \ G \subseteq DOMAIN a.lines
  <2>1. CASE d = c
    BY <1>0, <2>1
  <2>2. CASE d \in Q
    BY <1>0, <1>2, <2>2 DEF StackOK
  <2>3. QED
    BY <2>1, <2>2
<1>3. ASSUME NEW a \in A \cup (U \cup {c}), NEW d \in Q \cup {c},
             a.type = "AddNode", Does(d, "DeleteNode", a.ref)
      PROVE  DOMAIN d.lines \subseteq G \/ \E b \in A : Does(b, "DeleteNode", a.ref)
  <2>1. CASE d = c
    BY <1>0, <2>1
  <2>2. CASE d \in Q
    <3>1. DOMAIN d.lines \subseteq F \/ \E b \in A \cup {c} : Does(b, "DeleteNode", a.ref)
      BY <1>3, <2>2 DEF StackOK
    <3>2. CASE Does(c, "DeleteNode", a.ref)
      <4>1. DOMAIN d.lines \ F \subseteq DOMAIN c.lines
        BY <1>3, <2>2, <3>2 DEF StackOK, Does
      <4>2. QED
        BY <1>0, <4>1
    <3>3. QED
      BY <1>0, <3>1, <3>2
  <2>3. QED
    BY <2>1, <2>2
<1>4. QED
  BY <1>1, <1>2, <1>3 DEF StackOK

(* A command moves back to the applied ones and is queued again.           *)
LEMMA StackRedone ==
  ASSUME NEW A, NEW U, NEW Q, NEW F, NEW c \in Commands, StackOK(A, U \cup {c}, Q, F),
         c.type = "DeleteNode" => \A b \in Q : Does(b, "DeleteNode", c.ref) => DOMAIN b.lines \subseteq F
  PROVE  StackOK(A \cup {c}, U, Q \cup {c}, F \cup Touches(c))
<1> DEFINE G == F \cup Touches(c)
<1>0. c.ref \in G /\ DOMAIN c.lines \subseteq G /\ F \subseteq G
  BY CommandFacts
<1>1. ASSUME NEW a \in (A \cup {c}) \cup U, NEW d \in Q \cup {c},
             a.type = "AddNode", d.type = "AddEdge", a.ref \in Ends(d.new)
      PROVE  d.ref \in G \/ \E b \in A \cup {c} : Does(b, "AddEdge", d.ref)
  <2>1. CASE d = c
    BY <1>0, <2>1
  <2>2. CASE d \in Q
    BY <1>0, <1>1, <2>2 DEF StackOK
  <2>3. QED
    BY <2>1, <2>2
<1>2. ASSUME NEW a \in A \cup {c}, NEW d \in Q \cup {c},
             a.type = "DeleteNode", Does(d, "DeleteNode", a.ref)
      PROVE  DOMAIN d.lines \ G \subseteq DOMAIN a.lines
  <2>1. CASE d = c
    BY <1>0, <2>1
  <2>2. CASE d \in Q /\ a \in A
    BY <1>0, <1>2, <2>2 DEF StackOK
  <2>3. CASE d \in Q /\ a = c
    BY <1>0, <1>2, <2>3
  <2>4. QED
    BY <2>1, <2>2, <2>3
<1>3. ASSUME NEW a \in (A \cup {c}) \cup U, NEW d \in Q \cup {c},
             a.type = "AddNode", Does(d, "DeleteNode", a.ref)
      PROVE  DOMAIN d.lines \subseteq G \/ \E b \in A \cup {c} : Does(b, "DeleteNode", a.ref)
  <2>1. CASE d = c
    BY <1>0, <2>1
  <2>2. CASE d \in Q
    BY <1>0, <1>3, <2>2 DEF StackOK
  <2>3. QED
    BY <2>1, <2>2
<1>4. QED
  BY <1>1, <1>2, <1>3 DEF StackOK

-----------------------------------------------------------------------------
(* The invariant.                                                          *)

(* A line is drawn between nodes that are there, and no node of the course *)
(* is there before it is drawn.                                            *)
LEMMA EarlierLine ==
  ASSUME NEW s \in Seq(Commands), NEW h, NEW n, NEW from, NEW to, NEW K,
         IsCourse(h, s, n, from, to, K), NEW m \in 1..Len(s), NEW k \in 1..Len(s), m < k,
         s[m].type = "AddEdge", s[k].type = "AddNode"
  PROVE  s[k].ref \notin Ends(s[m].new)
<1>1. s[m] \in Commands /\ s[k] \in Commands /\ m \in Nat /\ k \in Nat /\ Len(s) \in Nat
  BY QueueFacts
<1>2. s[k].ref \in Nodes /\ s[k].type \in Adds /\ s[m].type \in Adds
  BY <1>1, CommandFacts DEF Adds
<1>3. Fits(s[m], h[m - 1])
  BY DEF IsCourse
<1>4. \A x \in Ends(s[m].new) \cap Nodes : h[m - 1][x] # Absent
  BY <1>2, <1>3 DEF Fits
<1>5. m - 1 \in 0..Len(s) /\ m - 1 < k
  BY <1>1
<1>6. h[m - 1][s[k].ref] = Absent
  BY <1>2, <1>5 DEF IsCourse
<1>7. QED
  BY <1>2, <1>4, <1>6

(* What the course says of the command undone next.                        *)
LEMMA CourseBehind ==
  ASSUME NEW a \in Seq(Commands), NEW u \in Seq(Commands), NEW h, NEW from, NEW v, NEW K,
         IsCourse(h, a \o u, Len(a), from, v, K)
  PROVE  /\ \A b \in ToSet(a) : b.type \in Deletes => v[b.ref] = Absent
         /\ a # <<>> =>
              /\ \E p \in Items : Fits(Last(a), p) /\ v = applyCommand(p, Last(a))
              /\ \A b \in ToSet(a) :
                   Last(a).type = "AddNode" /\ b.type = "AddEdge" => Last(a).ref \notin Ends(b.new)
<1> DEFINE s == a \o u
           n == Len(a)
<1>1. /\ s \in Seq(Commands) /\ Len(s) \in Nat /\ n \in Nat
      /\ \A i \in DOMAIN a : i \in 1..Len(s) /\ i <= n /\ i >= 1 /\ i \in Nat /\ s[i] = a[i]
  BY JoinFacts, QueueFacts
<1>2. IsCourse(h, s, n, from, v, K)
  OBVIOUS
<1>3. \A b \in ToSet(a) : \E i \in DOMAIN a : a[i] = b
  BY SetFacts
<1>4. a # <<>> => n \in DOMAIN a /\ Last(a) = a[n]
  BY FrontFacts
<1> HIDE DEF s, n
<1>5. n \in 0..Len(s) /\ v = h[n]
  BY <1>2 DEF IsCourse
<1>6. ASSUME NEW b \in ToSet(a), b.type \in Deletes PROVE v[b.ref] = Absent
  <2>1. PICK i \in DOMAIN a : a[i] = b
    BY <1>3
  <2>2. i \in 1..Len(s) /\ i <= n /\ s[i] = b
    BY <1>1, <2>1
  <2>3. QED
    BY <1>2, <1>5, <1>6, <2>2 DEF IsCourse
<1>7. ASSUME a # <<>>
      PROVE  \E p \in Items : Fits(Last(a), p) /\ v = applyCommand(p, Last(a))
  <2>1. n \in 1..Len(s) /\ s[n] = Last(a)
    BY <1>1, <1>4, <1>7
  <2>2. Fits(s[n], h[n - 1]) /\ h[n] = applyCommand(h[n - 1], s[n])
    BY <1>2, <2>1 DEF IsCourse
  <2>3. n - 1 \in 0..Len(s) /\ h \in [0..Len(s) -> Items]
    BY <1>1, <1>2, <2>1 DEF IsCourse
  <2>4. h[n - 1] \in Items
    BY <2>3
  <2>5. QED
    BY <1>5, <2>1, <2>2, <2>4
<1>8. ASSUME a # <<>>, NEW b \in ToSet(a), Last(a).type = "AddNode", b.type = "AddEdge"
      PROVE  Last(a).ref \notin Ends(b.new)
  <2>1. PICK i \in DOMAIN a : a[i] = b
    BY <1>3
  <2>2. i \in 1..Len(s) /\ i <= n /\ s[i] = b /\ n \in 1..Len(s) /\ s[n] = Last(a) /\ i \in Nat
    BY <1>1, <1>4, <1>8, <2>1
  <2>3. i < n
    BY <1>1, <1>8, <2>2
  <2>4. QED
    BY <1>1, <1>2, <1>8, <2>2, <2>3, EarlierLine
<1>9. QED
  BY <1>6, <1>7, <1>8

(* What the course says of the command done again next.                    *)
LEMMA CourseAhead ==
  ASSUME NEW a \in Seq(Commands), NEW u \in Seq(Commands), u # <<>>,
         NEW h, NEW from, NEW v, NEW K, IsCourse(h, a \o u, Len(a), from, v, K)
  PROVE  /\ Fits(Head(u), v)
         /\ \A b \in ToSet(a) :
              /\ Head(u).type \in Adds /\ b.type \in Deletes => b.ref # Head(u).ref
              /\ Head(u).type = "AddNode" /\ b.type = "AddEdge" => Head(u).ref \notin Ends(b.new)
<1> DEFINE s == a \o u
           n == Len(a)
           k == Len(a) + 1
<1>1. /\ s \in Seq(Commands) /\ Len(s) \in Nat /\ n \in Nat
      /\ \A i \in DOMAIN a : i \in 1..Len(s) /\ i <= n /\ i >= 1 /\ i \in Nat /\ s[i] = a[i]
  BY JoinFacts, QueueFacts
<1>2. k \in 1..Len(s) /\ s[k] = Head(u) /\ k \in Nat /\ k = n + 1 /\ k - 1 = n
  BY JoinFacts, QueueFacts, TailFacts
<1>3. IsCourse(h, s, n, from, v, K)
  OBVIOUS
<1>4. \A b \in ToSet(a) : \E i \in DOMAIN a : a[i] = b
  BY SetFacts
<1> HIDE DEF s, n, k
<1>5. v = h[n] /\ h \in [0..Len(s) -> Items]
  BY <1>3 DEF IsCourse
<1>6. Fits(s[k], h[k - 1]) /\ h[k] = applyCommand(h[k - 1], s[k])
  BY <1>2, <1>3 DEF IsCourse
<1>7. Fits(Head(u), v)
  BY <1>2, <1>5, <1>6
<1>8. ASSUME NEW b \in ToSet(a), Head(u).type \in Adds, b.type \in Deletes
      PROVE  b.ref # Head(u).ref
  <2>1. PICK i \in DOMAIN a : a[i] = b
    BY <1>4
  <2>2. i \in 1..Len(s) /\ i <= k /\ s[i] = b /\ k \in 0..Len(s)
    BY <1>1, <1>2, <2>1
  <2>3. h[k][b.ref] = Absent
    BY <1>3, <1>8, <2>2 DEF IsCourse
  <2>4. v \in Items /\ Head(u) \in Commands
    BY <1>1, <1>2, <1>5, QueueFacts
  <2>5. applyCommand(v, Head(u))[Head(u).ref] # Absent
    BY <1>7, <1>8, <2>4, DrawnOn
  <2>6. QED
    BY <1>2, <1>5, <1>6, <2>3, <2>5
<1>9. ASSUME NEW b \in ToSet(a), Head(u).type = "AddNode", b.type = "AddEdge"
      PROVE  Head(u).ref \notin Ends(b.new)
  <2>1. PICK i \in DOMAIN a : a[i] = b
    BY <1>4
  <2>2. i \in 1..Len(s) /\ i < k /\ s[i] = b
    BY <1>1, <1>2, <2>1
  <2>3. QED
    BY <1>1, <1>2, <1>3, <1>9, <2>2, EarlierLine
<1>10. QED
  BY <1>7, <1>8, <1>9

-----------------------------------------------------------------------------
(* The queue of the editor.                                                *)
Waiting == StillToSend \o pending
Held == ToSet(applied) \cup ToSet(undone) \cup ToSet(Waiting)

(* Two additions of one line agree about its ends.                         *)
LinesAgree ==
  \A c, d \in Held : c.type = "AddEdge" /\ Does(d, "AddEdge", c.ref) => SameEnds(c.new, d.new)

(* Which design a save is about, and the one on the canvas.                *)
ModeOK ==
  /\ ~ready => designId = NoDesign \/ forgotten = Refs
  /\ Saving /\ ~ready => forgotten = Refs
  /\ Saving /\ ~Creating /\ designId = NoDesign => ~ready
  /\ Saving /\ ~Creating /\ designId # NoDesign /\ designId # save.design => forgotten = Refs
  /\ Creating /\ designId # NoDesign => forgotten = Refs
  /\ Creating => save.sent = 0

SendOK ==
  /\ Saving /\ ~Creating => \A i \in DOMAIN save.todo, j \in DOMAIN pending :
       pending[j].type \in Adds => pending[j].ref # save.todo[i].ref
  /\ Saving /\ save.sent = 1 => stored[save.design].items[save.todo[1].ref] = save.todo[1].new

CreateOK ==
  Creating =>
    /\ QueueOK(save.todo, save.items, forgotten)
    /\ LocalOK(save.todo, save.items, forgotten)
    /\ \A r \in Refs \ (forgotten \cup save.late) : canvas[r] = save.items[r]
    /\ forgotten # Refs => \A i \in DOMAIN save.todo :
         save.items[save.todo[i].ref] = Absent => canvas[save.todo[i].ref] = Absent

ClaimsOK ==
  ready \/ designId # NoDesign =>
    /\ base # Unknown => StackOK(ToSet(applied), ToSet(undone), ToSet(Waiting), forgotten)
    /\ designId = NoDesign =>
         QueueOK(pending, canvas, forgotten) /\ LocalOK(pending, canvas, forgotten)
    /\ designId # NoDesign =>
         /\ QueueOK(Waiting, canvas, forgotten)
         /\ ServerOK(Waiting, canvas, stored[designId].items, forgotten)

WaitingInv == LinesAgree /\ ModeOK /\ SendOK /\ CreateOK /\ ClaimsOK

(* What waits to be sent, by whether a save runs.                          *)
LEMMA WaitingFacts ==
  ASSUME EditorTypeOK
  PROVE  /\ StillToSend \in Seq(Commands) /\ Waiting \in Seq(Commands)
         /\ ToSet(Waiting) = ToSet(StillToSend) \cup ToSet(pending)
         /\ ToSet(Waiting) \subseteq Commands
         /\ ~Saving => Waiting = pending
         /\ Saving => StillToSend = save.todo
<1>1. pending \in Seq(Commands) /\ SaveOK
  BY EditorTypes
<1>2. StillToSend \in Seq(Commands)
  BY <1>1, SaveTypes DEF StillToSend
<1>3. <<>> \o pending = pending
  BY <1>1
<1>4. QED
  BY <1>1, <1>2, <1>3, SetOfJoin, SetFacts, JoinFacts DEF Waiting, StillToSend

(* The same after a step.                                                  *)
LEMMA WaitingFactsNext ==
  ASSUME EditorTypeOK'
  PROVE  /\ StillToSend' \in Seq(Commands) /\ Waiting' \in Seq(Commands)
         /\ ToSet(Waiting') = ToSet(StillToSend') \cup ToSet(pending')
         /\ ToSet(Waiting') \subseteq Commands
         /\ ~Saving' => Waiting' = pending'
         /\ Saving' => StillToSend' = save'.todo
<1>1. pending' \in Seq(Commands) /\ SaveOK'
  BY DEF EditorTypeOK
<1>2. Saving' => save'.todo \in Seq(Commands)
  BY <1>1 DEF SaveOK, Saves
<1>3. StillToSend' \in Seq(Commands)
  BY <1>2 DEF StillToSend
<1>4. <<>> \o pending' = pending'
  BY <1>1
<1>5. QED
  BY <1>1, <1>3, <1>4, SetOfJoin, SetFacts, JoinFacts DEF Waiting, StillToSend

(* Nothing is claimed where every edit is given up.                        *)
LEMMA AllGivenUp ==
  ASSUME EditorTypeOK', forgotten' = Refs
  PROVE  CreateOK' /\ ClaimsOK'
<1>1. CreateOK'
  BY NothingClaimed DEF CreateOK
<1>2. ToSet(Waiting') \subseteq Commands
  BY WaitingFactsNext
<1>3. StackOK(ToSet(applied'), ToSet(undone'), ToSet(Waiting'), forgotten')
  BY <1>2, StackTrivial
<1>4. ClaimsOK'
  BY <1>3, NothingClaimed DEF ClaimsOK
<1>5. QED
  BY <1>1, <1>4

(* With fewer commands held the lines agree.                               *)
LEMMA AgreeFewer ==
  ASSUME LinesAgree, Held' \subseteq Held
  PROVE  LinesAgree'
<1>1. \A c, d \in Held : c.type = "AddEdge" /\ Does(d, "AddEdge", c.ref) => SameEnds(c.new, d.new)
  BY DEF LinesAgree
<1>2. \A c, d \in Held' : c.type = "AddEdge" /\ Does(d, "AddEdge", c.ref) => SameEnds(c.new, d.new)
  BY <1>1
<1>3. QED
  BY <1>2 DEF LinesAgree

-----------------------------------------------------------------------------
(* The steps.                                                              *)

(* All that is held is known.                                              *)
LEMMA HeldKnown ==
  ASSUME EditorTypeOK, KnownOK
  PROVE  /\ \A b \in Held : b \in Commands /\ KnownBy(b, known)
         /\ AllKnown(Waiting, known)
<1>1. /\ AllKnown(applied, known) /\ AllKnown(undone, known) /\ AllKnown(pending, known)
      /\ applied \in Seq(Commands) /\ undone \in Seq(Commands) /\ pending \in Seq(Commands)
      /\ Saving => AllKnown(save.todo, known)
  BY EditorTypes DEF KnownOK
<1>2. AllKnown(StillToSend, known) /\ StillToSend \in Seq(Commands)
  BY <1>1, KnownQueues, WaitingFacts DEF StillToSend
<1>3. AllKnown(Waiting, known) /\ Waiting \in Seq(Commands)
  BY <1>1, <1>2, KnownQueues, WaitingFacts DEF Waiting
<1>4. ASSUME NEW q \in Seq(Commands), AllKnown(q, known), NEW b \in ToSet(q)
      PROVE  b \in Commands /\ KnownBy(b, known)
  BY <1>4, SetFacts DEF AllKnown
<1>5. QED
  BY <1>1, <1>3, <1>4 DEF Held

(* A queued deletion of a node that the canvas shows claims no lines.      *)
LEMMA DeadQueued ==
  ASSUME EditorTypeOK, WaitingInv, ready \/ designId # NoDesign,
         NEW c \in ToSet(Waiting), c.type = "DeleteNode", canvas[c.ref] # Absent
  PROVE  DOMAIN c.lines \subseteq forgotten
<1>1. c \in Commands /\ DOMAIN c.lines \subseteq Refs
  BY WaitingFacts, CommandFacts DEF Refs
<1>2. ASSUME NEW q \in Seq(Commands), NEW v, QueueOK(q, v, forgotten), c \in ToSet(q),
             v[c.ref] # Absent
      PROVE  DOMAIN c.lines \subseteq forgotten
  <2>1. PICK i \in DOMAIN q : q[i] = c
    BY <1>2, SetFacts
  <2>2. ASSUME NEW r \in DOMAIN c.lines, r \notin forgotten PROVE FALSE
    <3>1. QueueFits(q, v, r)
      BY <1>1, <1>2, <2>2 DEF QueueOK
    <3>2. QED
      BY <1>2, <2>1, <2>2, <3>1 DEF QueueFits
  <2>3. QED
    BY <2>2
<1>3. CASE designId # NoDesign
  BY <1>2, <1>3, WaitingFacts DEF WaitingInv, ClaimsOK
<1>4. CASE designId = NoDesign
  <2>1. QueueOK(pending, canvas, forgotten) /\ pending \in Seq(Commands)
    BY <1>4, EditorTypes DEF WaitingInv, ClaimsOK
  <2>2. CASE c \in ToSet(pending)
    BY <1>2, <2>1, <2>2
  <2>3. CASE c \in ToSet(StillToSend)
    <3>1. Saving
      BY <2>3, SetOfEmpty DEF StillToSend
    <3>2. CASE Creating /\ forgotten # Refs
      <4>1. /\ QueueOK(save.todo, save.items, forgotten) /\ save.todo \in Seq(Commands)
            /\ \A i \in DOMAIN save.todo :
                 save.items[save.todo[i].ref] = Absent => canvas[save.todo[i].ref] = Absent
        BY <3>1, <3>2, EditorTypes, SaveTypes DEF WaitingInv, CreateOK
      <4>2. c \in ToSet(save.todo)
        BY <2>3, <3>1 DEF StillToSend
      <4>3. save.items[c.ref] # Absent
        BY <4>1, <4>2, SetFacts
      <4>4. QED
        BY <1>2, <4>1, <4>2, <4>3
    <3>3. CASE forgotten = Refs
      BY <1>1, <3>3
    <3>4. CASE ~Creating
      BY <1>4, <3>1, <3>4 DEF WaitingInv, ModeOK
    <3>5. QED
      BY <3>2, <3>3, <3>4
  <2>4. QED
    BY <2>2, <2>3, WaitingFacts
<1>5. QED
  BY <1>3, <1>4

(* A new edit.                                                             *)
LEMMA DispatchWaiting ==
  ASSUME EditorTypeOK, EditorTypeOK', KnownOK, HasCourse, WaitingInv,
         NEW c, DrawsCommand(c), Dispatch(c)
  PROVE  WaitingInv'
<1>1. /\ canvas \in Items /\ applied \in Seq(Commands) /\ undone \in Seq(Commands)
      /\ pending \in Seq(Commands) /\ SaveOK
      /\ c \in Commands /\ Fits(c, canvas) /\ (c.type \in Adds => c.ref \notin known)
      /\ forgotten \subseteq Refs /\ c.ref \in Refs
  BY EditorTypes, CommandFacts DEF DrawsCommand
<1>2. /\ canvas' = applyCommand(canvas, c)
      /\ applied' = Append(applied, c) /\ undone' = <<>> /\ pending' = Append(pending, c)
      /\ UNCHANGED <<designId, ready, stored, base, forgotten>>
      /\ save' = IF Creating THEN [save EXCEPT !.late = @ \cup Touches(c)] ELSE save
  BY DEF Dispatch
<1>3. /\ (Saving <=> Saving') /\ (Creating <=> Creating')
      /\ Saving => /\ save'.todo = save.todo /\ save'.items = save.items
                   /\ save'.sent = save.sent /\ save'.design = save.design
                   /\ save'.stage = save.stage
      /\ Creating => save'.late = save.late \cup Touches(c)
  <2>1. CASE ~Creating
    <3>1. save' = save
      BY <1>2, <2>1
    <3>2. QED
      BY <2>1, <3>1 DEF Saving, Creating
  <2>2. CASE Creating
    <3>1. save \in Saves /\ save' = [save EXCEPT !.late = @ \cup Touches(c)]
      BY <1>1, <1>2, <2>2 DEF SaveOK, Creating
    <3>2. save.late \cup Touches(c) \in SUBSET Refs
      BY <1>1, <3>1, CommandFacts DEF Saves
    <3>3. save' \in Saves
      BY <3>1, <3>2 DEF Saves
    <3>4. Saving'
      BY <3>3, EditorAssumption DEF Saving
    <3>5. QED
      BY <2>2, <3>1, <3>4 DEF Saves, Saving, Creating
  <2>3. QED
    BY <2>1, <2>2
<1>4. /\ StillToSend' = StillToSend
      /\ Waiting' = Append(Waiting, c)
      /\ StillToSend \in Seq(Commands) /\ Waiting \in Seq(Commands)
  <2>1. StillToSend' = StillToSend
    BY <1>3 DEF StillToSend
  <2>2. StillToSend \in Seq(Commands) /\ Waiting \in Seq(Commands)
    BY WaitingFacts
  <2>3. StillToSend \o Append(pending, c) = Append(StillToSend \o pending, c)
    BY <1>1, <2>2
  <2>4. QED
    BY <1>2, <2>1, <2>2, <2>3 DEF Waiting
<1>5. /\ ToSet(applied') = ToSet(applied) \cup {c} /\ ToSet(undone') = {}
      /\ ToSet(Waiting') = ToSet(Waiting) \cup {c}
  BY <1>1, <1>2, <1>4, SetOfAppend, SetOfEmpty
<1>6. /\ \A b \in Held : b \in Commands /\ KnownBy(b, known)
      /\ AllKnown(Waiting, known)
  BY HeldKnown
<1>7. Shown(canvas) \subseteq known /\ \A d \in Designs : Shown(stored[d].items) \subseteq known
  BY DEF KnownOK
<1>8. LinesAgree'
  <2>1. Held' \subseteq Held \cup {c}
    BY <1>5 DEF Held
  <2>2. ASSUME NEW b \in Held, c.type = "AddEdge" PROVE b.ref # c.ref
    BY <1>1, <1>6, <2>2, CommandFacts DEF KnownBy, Adds
  <2>3. \A x, y \in Held : x.type = "AddEdge" /\ Does(y, "AddEdge", x.ref) => SameEnds(x.new, y.new)
    BY DEF WaitingInv, LinesAgree
  <2>4. ASSUME NEW x \in Held', NEW y \in Held', x.type = "AddEdge", Does(y, "AddEdge", x.ref)
        PROVE  SameEnds(x.new, y.new)
    <3>1. CASE x \in Held /\ y \in Held
      BY <2>3, <2>4, <3>1
    <3>2. CASE x = c /\ y = c
      BY <3>2 DEF SameEnds
    <3>3. QED
      BY <2>1, <2>2, <2>4, <3>1, <3>2 DEF Does
  <2>5. QED
    BY <2>4 DEF LinesAgree
<1>9. ModeOK'
  BY <1>2, <1>3 DEF WaitingInv, ModeOK
<1>10. SendOK'
  <2>1. ASSUME Saving', ~Creating', NEW i \in DOMAIN save'.todo, NEW j \in DOMAIN pending',
               pending'[j].type \in Adds
        PROVE  pending'[j].ref # save'.todo[i].ref
    <3>1. save'.todo = save.todo /\ Saving /\ ~Creating
      BY <1>3, <2>1
    <3>2. CASE j \in DOMAIN pending /\ pending'[j] = pending[j]
      BY <2>1, <3>1, <3>2 DEF WaitingInv, SendOK
    <3>3. CASE pending'[j] = c
      <4>1. save.todo[i] \in Held
        <5>1. save.todo \in Seq(Commands) /\ StillToSend = save.todo
          BY <1>1, <3>1, SaveTypes DEF StillToSend
        <5>2. save.todo[i] \in ToSet(StillToSend)
          BY <2>1, <3>1, <5>1, SetFacts
        <5>3. QED
          BY <5>2, WaitingFacts DEF Held
      <4>2. save.todo[i].ref \in known
        BY <1>6, <4>1, CommandFacts DEF KnownBy
      <4>3. QED
        BY <1>1, <2>1, <3>1, <3>3, <4>2
    <3>4. QED
      BY <1>1, <1>2, <2>1, <3>2, <3>3, AppendFacts
  <2>2. Saving' /\ save'.sent = 1 =>
          stored'[save'.design].items[save'.todo[1].ref] = save'.todo[1].new
    BY <1>2, <1>3 DEF WaitingInv, SendOK
  <2>3. QED
    BY <2>1, <2>2 DEF SendOK
<1>11. CreateOK'
  <2>1. SUFFICES ASSUME Creating' PROVE CreateOK'
    BY DEF CreateOK
  <2>2. Creating /\ Saving
    BY <1>3, <2>1 DEF Creating
  <2>3. /\ QueueOK(save.todo, save.items, forgotten)
        /\ LocalOK(save.todo, save.items, forgotten)
        /\ \A r \in Refs \ (forgotten \cup save.late) : canvas[r] = save.items[r]
        /\ forgotten # Refs => \A i \in DOMAIN save.todo :
             save.items[save.todo[i].ref] = Absent => canvas[save.todo[i].ref] = Absent
    BY <2>2 DEF WaitingInv, CreateOK
  <2>4. \A r \in Refs \ Touches(c) : canvas'[r] = canvas[r]
    BY <1>1, <1>2, ApplyFacts
  <2>5. \A r \in Refs \ (forgotten \cup save'.late) : canvas'[r] = save.items[r]
    BY <1>3, <2>2, <2>3, <2>4
  <2>6. ASSUME forgotten # Refs, NEW i \in DOMAIN save.todo,
               save.items[save.todo[i].ref] = Absent
        PROVE  canvas'[save.todo[i].ref] = Absent
    <3>1. save.todo \in Seq(Commands) /\ StillToSend = save.todo
      BY <1>1, <2>2, SaveTypes DEF StillToSend
    <3>2. save.todo[i] \in Held /\ save.todo[i] \in Commands
      BY <3>1, SetFacts, WaitingFacts, QueueFacts DEF Held
    <3>3. save.todo[i].ref \in known /\ save.todo[i].ref \in Refs
      BY <1>6, <3>2, CommandFacts DEF KnownBy
    <3>4. canvas[save.todo[i].ref] = Absent
      BY <2>3, <2>6
    <3>5. CASE c.type \in Adds
      <4>1. Touches(c) = {c.ref}
        BY <1>1, <3>5, CommandFacts DEF Adds
      <4>2. QED
        BY <1>1, <2>4, <3>3, <3>4, <3>5, <4>1
    <3>6. CASE c.type \notin Adds
      BY <1>1, <1>2, <3>3, <3>4, <3>6, ApplyFacts
    <3>7. QED
      BY <3>5, <3>6
  <2>7. save'.todo = save.todo /\ save'.items = save.items /\ forgotten' = forgotten
    BY <1>2, <1>3, <2>2
  <2>8. QED
    BY <2>3, <2>5, <2>6, <2>7 DEF CreateOK
<1>12. ASSUME ready \/ designId # NoDesign, base # Unknown
       PROVE  StackOK(ToSet(applied'), ToSet(undone'), ToSet(Waiting'), forgotten')
  <2>1. StackOK(ToSet(applied), ToSet(undone), ToSet(Waiting), forgotten)
    BY <1>12 DEF WaitingInv, ClaimsOK
  <2>2. \A b \in ToSet(applied) \cup ToSet(Waiting) : b \in Commands /\ KnownBy(b, known)
    BY <1>6 DEF Held
  <2>3. c.type = "DeleteNode" => canvas[c.ref] # Absent
    BY DEF DrawsCommand, Adds
  <2>4. c.type = "DeleteNode" => \A b \in ToSet(applied) : b.type = "DeleteNode" => b.ref # c.ref
    <3>1. PICK h : IsCourse(h, applied \o undone, Len(applied), base, canvas, known)
      BY <1>12 DEF HasCourse
    <3>2. \A b \in ToSet(applied) : b.type \in Deletes => canvas[b.ref] = Absent
      BY <1>1, <3>1, CourseBehind
    <3>3. QED
      BY <2>3, <3>2 DEF Deletes
  <2>5. c.type = "DeleteNode" =>
          \A b \in ToSet(Waiting) : Does(b, "DeleteNode", c.ref) => DOMAIN b.lines \subseteq forgotten
    BY <1>12, <2>3, DeadQueued DEF Does
  <2>6. StackOK(ToSet(applied) \cup {c}, {}, ToSet(Waiting) \cup {c}, forgotten)
    BY <1>1, <2>1, <2>2, <2>4, <2>5, StackDrawn
  <2>7. QED
    BY <1>2, <1>5, <2>6
<1>13. ASSUME ready \/ designId # NoDesign, designId = NoDesign
       PROVE  QueueOK(pending', canvas', forgotten') /\ LocalOK(pending', canvas', forgotten')
  <2>1. QueueOK(pending, canvas, forgotten) /\ LocalOK(pending, canvas, forgotten)
    BY <1>13 DEF WaitingInv, ClaimsOK
  <2>2. Unheard(pending, c)
    BY <1>1, UnheardOf DEF KnownOK
  <2>3. QED
    BY <1>1, <1>2, <2>1, <2>2, DrawnQueue, DrawnLocal
<1>14. ASSUME designId # NoDesign
       PROVE  /\ QueueOK(Waiting', canvas', forgotten')
              /\ ServerOK(Waiting', canvas', stored'[designId'].items, forgotten')
  <2>1. /\ QueueOK(Waiting, canvas, forgotten)
        /\ ServerOK(Waiting, canvas, stored[designId].items, forgotten)
    BY <1>14 DEF WaitingInv, ClaimsOK
  <2>2. Unheard(Waiting, c)
    BY <1>1, <1>4, <1>6, UnheardOf
  <2>3. c.type \in Adds => stored[designId].items[c.ref] = Absent
    BY <1>1, <1>7, <1>14, EditorTypes DEF Shown
  <2>4. QED
    BY <1>1, <1>2, <1>4, <2>1, <2>2, <2>3, DrawnQueue, DrawnServer
<1>15. ClaimsOK'
  BY <1>2, <1>12, <1>13, <1>14 DEF ClaimsOK
<1>16. QED
  BY <1>8, <1>9, <1>10, <1>11, <1>15 DEF WaitingInv

(* A command of the stacks is queued once more.                            *)
LEMMA AgainWaiting ==
  ASSUME EditorTypeOK, EditorTypeOK', WaitingInv, ~Saving, NEW c \in Commands,
         pending' = Append(pending, c), UNCHANGED <<designId, ready, save, stored, base>>,
         forgotten' = forgotten \cup Unsure(c), c \in ToSet(applied) \cup ToSet(undone),
         ToSet(applied') \cup ToSet(undone') = ToSet(applied) \cup ToSet(undone),
         base # Unknown /\ (ready \/ designId # NoDesign) =>
           /\ StackOK(ToSet(applied'), ToSet(undone'), ToSet(pending) \cup {c}, forgotten \cup Touches(c))
           /\ \A r \in Refs \ Touches(c) : canvas'[r] = canvas[r]
           /\ c.type = "DeleteNode" =>
                \A r \in Lines \ Touches(c) : canvas[r] # Absent => c.ref \notin Ends(canvas[r])
           /\ \A r \in Refs \ (forgotten \cup Touches(c)), i \in DOMAIN pending :
                pending[i].type = "DeleteNode" /\ r \in DOMAIN pending[i].lines
                  /\ canvas[pending[i].ref] = Absent => canvas'[pending[i].ref] = Absent
           /\ c.type = "AddNode" => \A i \in DOMAIN pending :
                pending[i].type = "AddEdge" /\ c.ref \in Ends(pending[i].new) =>
                  pending[i].ref \in forgotten
  PROVE  WaitingInv'
<1>1. /\ pending \in Seq(Commands) /\ forgotten \subseteq Refs /\ ~Saving' /\ ~Creating'
      /\ Waiting = pending /\ Waiting' = pending'
  BY EditorTypes, WaitingFacts, WaitingFactsNext DEF Saving, Creating
<1>2. Unsure(c) \subseteq Refs
  BY UnsureFacts
<1>3. ToSet(pending') = ToSet(pending) \cup {c}
  BY <1>1, SetOfAppend
<1>4. LinesAgree'
  <2>1. Held' \subseteq Held
    BY <1>1, <1>3 DEF Held
  <2>2. QED
    BY <2>1, AgreeFewer DEF WaitingInv
<1>5. ModeOK' /\ SendOK' /\ CreateOK'
  <2>1. ~ready' => designId' = NoDesign \/ forgotten' = Refs
    BY <1>1, <1>2 DEF WaitingInv, ModeOK
  <2>2. QED
    BY <1>1, <2>1 DEF ModeOK, SendOK, CreateOK
<1>6. CASE base = Unknown
  <2>1. forgotten' = Refs
    BY <1>1, <1>6 DEF Unsure
  <2>2. QED
    BY <1>4, <1>5, <2>1, AllGivenUp DEF WaitingInv
<1>7. CASE base # Unknown
  <2>1. forgotten' = forgotten \cup Touches(c)
    BY <1>7 DEF Unsure
  <2>2. SUFFICES ASSUME ready \/ designId # NoDesign PROVE ClaimsOK'
    BY <1>4, <1>5 DEF WaitingInv, ClaimsOK
  <2>3. /\ StackOK(ToSet(applied'), ToSet(undone'), ToSet(pending) \cup {c}, forgotten \cup Touches(c))
        /\ \A r \in Refs \ Touches(c) : canvas'[r] = canvas[r]
        /\ c.type = "DeleteNode" =>
             \A r \in Lines \ Touches(c) : canvas[r] # Absent => c.ref \notin Ends(canvas[r])
        /\ \A r \in Refs \ (forgotten \cup Touches(c)), i \in DOMAIN pending :
             pending[i].type = "DeleteNode" /\ r \in DOMAIN pending[i].lines
               /\ canvas[pending[i].ref] = Absent => canvas'[pending[i].ref] = Absent
        /\ c.type = "AddNode" => \A i \in DOMAIN pending :
             pending[i].type = "AddEdge" /\ c.ref \in Ends(pending[i].new) =>
               pending[i].ref \in forgotten
    BY <1>7, <2>2
  <2>4. QueueOK(pending, canvas, forgotten)
    BY <1>1, <2>2 DEF WaitingInv, ClaimsOK
  <2>5. QueueOK(pending', canvas', forgotten')
    BY <1>1, <2>1, <2>3, <2>4, AgainQueue
  <2>6. designId = NoDesign => LocalOK(pending', canvas', forgotten')
    <3>1. SUFFICES ASSUME designId = NoDesign PROVE LocalOK(pending', canvas', forgotten')
      OBVIOUS
    <3>2. LocalOK(pending, canvas, forgotten)
      BY <2>2, <3>1 DEF WaitingInv, ClaimsOK
    <3>3. QED
      BY <1>1, <2>1, <2>3, <3>2, AgainLocal
  <2>7. designId # NoDesign => ServerOK(pending', canvas', stored[designId].items, forgotten')
    <3>1. SUFFICES ASSUME designId # NoDesign
                   PROVE  ServerOK(pending', canvas', stored[designId].items, forgotten')
      OBVIOUS
    <3>2. ServerOK(pending, canvas, stored[designId].items, forgotten)
      BY <1>1, <3>1 DEF WaitingInv, ClaimsOK
    <3>3. QED
      BY <1>1, <2>1, <2>3, <3>2, AgainServer
  <2>8. QED
    BY <1>1, <1>3, <2>1, <2>3, <2>5, <2>6, <2>7 DEF ClaimsOK
<1>8. QED
  BY <1>6, <1>7

(* A queued line ends at a node of the stacks only where it was drawn.     *)
LEMMA LinesEndApart ==
  ASSUME EditorTypeOK, LinesAgree, NEW c \in Commands, c.type = "AddNode",
         c \in ToSet(applied) \cup ToSet(undone),
         StackOK(ToSet(applied), ToSet(undone), ToSet(Waiting), forgotten),
         \A b \in ToSet(applied) : b.type = "AddEdge" => c.ref \notin Ends(b.new),
         NEW d \in ToSet(Waiting), d.type = "AddEdge", c.ref \in Ends(d.new)
  PROVE  d.ref \in forgotten
<1>1. d.ref \in forgotten \/ \E b \in ToSet(applied) : Does(b, "AddEdge", d.ref)
  BY DEF StackOK
<1>2. ASSUME NEW b \in ToSet(applied), Does(b, "AddEdge", d.ref) PROVE FALSE
  <2>1. SameEnds(d.new, b.new)
    BY <1>2 DEF LinesAgree, Held
  <2>2. c.ref \notin Ends(b.new)
    BY <1>2 DEF Does
  <2>3. QED
    BY <2>1, <2>2 DEF SameEnds, Ends
<1>3. QED
  BY <1>1, <1>2

(* Undo queues the command it undid.                                       *)
LEMMA UndoWaiting ==
  ASSUME EditorTypeOK, EditorTypeOK', KnownOK, HasCourse, WaitingInv, undo
  PROVE  WaitingInv'
<1> DEFINE c == Last(applied)
<1>1. /\ applied # <<>> /\ ~Saving
      /\ canvas \in Items /\ applied \in Seq(Commands) /\ undone \in Seq(Commands)
      /\ pending \in Seq(Commands) /\ Waiting = pending
  BY EditorTypes, WaitingFacts DEF undo
<1>2. c \in Commands /\ Front(applied) \in Seq(Commands)
  BY <1>1, FrontFacts
<1> HIDE DEF c
<1>3. /\ canvas' = revertCommand(canvas, c) /\ applied' = Front(applied)
      /\ undone' = <<c>> \o undone /\ pending' = Append(pending, c)
      /\ forgotten' = forgotten \cup Unsure(c)
      /\ UNCHANGED <<designId, ready, save, stored, base>>
  BY DEF undo, c
<1>4. ToSet(applied) = ToSet(applied') \cup {c} /\ ToSet(undone') = ToSet(undone) \cup {c}
  BY <1>1, <1>2, <1>3, SetOfFront, SetOfOne DEF c
<1>5. ASSUME base # Unknown, ready \/ designId # NoDesign
      PROVE  /\ StackOK(ToSet(applied'), ToSet(undone'), ToSet(pending) \cup {c}, forgotten \cup Touches(c))
             /\ \A r \in Refs \ Touches(c) : canvas'[r] = canvas[r]
             /\ c.type = "DeleteNode" =>
                  \A r \in Lines \ Touches(c) : canvas[r] # Absent => c.ref \notin Ends(canvas[r])
             /\ \A r \in Refs \ (forgotten \cup Touches(c)), i \in DOMAIN pending :
                  pending[i].type = "DeleteNode" /\ r \in DOMAIN pending[i].lines
                    /\ canvas[pending[i].ref] = Absent => canvas'[pending[i].ref] = Absent
             /\ c.type = "AddNode" => \A i \in DOMAIN pending :
                  pending[i].type = "AddEdge" /\ c.ref \in Ends(pending[i].new) =>
                    pending[i].ref \in forgotten
  <2>1. StackOK(ToSet(applied), ToSet(undone), ToSet(pending), forgotten)
    BY <1>1, <1>5 DEF WaitingInv, ClaimsOK
  <2>2. PICK h : IsCourse(h, applied \o undone, Len(applied), base, canvas, known)
    BY <1>5 DEF HasCourse
  <2>3. /\ \E p \in Items : Fits(c, p) /\ canvas = applyCommand(p, c)
        /\ \A b \in ToSet(applied) : c.type = "AddNode" /\ b.type = "AddEdge" => c.ref \notin Ends(b.new)
    BY <1>1, <2>2, CourseBehind DEF c
  <2>4. PICK p \in Items : Fits(c, p) /\ canvas = applyCommand(p, c)
    BY <2>3
  <2>5. StackOK(ToSet(applied'), ToSet(undone'), ToSet(pending) \cup {c}, forgotten \cup Touches(c))
    <3>1. StackOK(ToSet(applied') \cup {c}, ToSet(undone), ToSet(pending), forgotten)
      BY <1>4, <2>1
    <3>2. StackOK(ToSet(applied'), ToSet(undone) \cup {c}, ToSet(pending) \cup {c},
                  forgotten \cup Touches(c))
      BY <1>2, <3>1, StackUndone
    <3>3. QED
      BY <1>4, <3>2
  <2>6. \A r \in Refs \ Touches(c) : canvas'[r] = canvas[r]
    BY <1>1, <1>2, <1>3, RevertFacts
  <2>7. c.type = "DeleteNode" =>
          \A r \in Lines \ Touches(c) : canvas[r] # Absent => c.ref \notin Ends(canvas[r])
    <3>1. \A r \in Refs \ Touches(c) : canvas[r] = p[r]
      BY <1>2, <2>4, DrawnOn
    <3>2. c.type = "DeleteNode" =>
            \A r \in Lines \ Touches(c) : p[r] # Absent => c.ref \notin Ends(p[r])
      BY <1>2, <2>4, DrawnOn
    <3>3. QED
      BY <3>1, <3>2 DEF Refs
  <2>8. ASSUME NEW r \in Refs \ (forgotten \cup Touches(c)), NEW i \in DOMAIN pending,
               pending[i].type = "DeleteNode", r \in DOMAIN pending[i].lines,
               canvas[pending[i].ref] = Absent
        PROVE  canvas'[pending[i].ref] = Absent
    <3>1. pending[i] \in Commands /\ pending[i] \in ToSet(pending)
      BY <1>1, QueueFacts, SetFacts
    <3>2. pending[i].ref \in Nodes /\ pending[i].ref \in Refs
      BY <2>8, <3>1, CommandFacts
    <3>3. CASE pending[i].ref \notin Touches(c)
      BY <2>6, <2>8, <3>2, <3>3
    <3>4. CASE pending[i].ref \in Touches(c)
      <4>1. pending[i].ref = c.ref
        BY <1>2, <3>2, <3>4, CommandFacts, EditorAssumption
      <4>2. c.type \notin {"MoveNode"} \cup Updates
        BY <1>2, <2>4, <2>8, <4>1, DrawnOn
      <4>3. c.type # "DeleteNode"
        <5>1. SUFFICES ASSUME c.type = "DeleteNode" PROVE FALSE
          OBVIOUS
        <5>2. DOMAIN pending[i].lines \ forgotten \subseteq DOMAIN c.lines
          BY <1>4, <2>1, <2>8, <3>1, <4>1, <5>1 DEF StackOK, Does
        <5>3. DOMAIN c.lines \subseteq Touches(c)
          BY <1>2, CommandFacts
        <5>4. QED
          BY <2>8, <5>2, <5>3
      <4>4. c.type \in {"AddNode", "MoveNode", "UpdateNode", "DeleteNode"}
        BY <1>2, <3>2, <4>1, CommandFacts
      <4>5. c.type \in Adds
        BY <4>2, <4>3, <4>4 DEF Adds, Updates
      <4>6. c.type \in Adds => revertCommand(canvas, c)[c.ref] = Absent
        BY <1>1, <1>2, RevertFacts
      <4>7. QED
        BY <1>3, <4>1, <4>5, <4>6
    <3>5. QED
      BY <3>3, <3>4
  <2>9. ASSUME c.type = "AddNode", NEW i \in DOMAIN pending,
               pending[i].type = "AddEdge", c.ref \in Ends(pending[i].new)
        PROVE  pending[i].ref \in forgotten
    <3>1. pending[i] \in ToSet(Waiting)
      BY <1>1, SetFacts
    <3>2. \A b \in ToSet(applied) : b.type = "AddEdge" => c.ref \notin Ends(b.new)
      BY <2>3, <2>9
    <3>3. c \in ToSet(applied) \cup ToSet(undone) /\ LinesAgree
      BY <1>4 DEF WaitingInv
    <3>4. StackOK(ToSet(applied), ToSet(undone), ToSet(Waiting), forgotten)
      BY <1>1, <2>1
    <3>5. QED
      BY <1>2, <2>9, <3>1, <3>2, <3>3, <3>4, LinesEndApart
  <2>10. QED
    BY <2>5, <2>6, <2>7, <2>8, <2>9
<1>6. c \in ToSet(applied) \cup ToSet(undone)
      /\ ToSet(applied') \cup ToSet(undone') = ToSet(applied) \cup ToSet(undone)
  BY <1>4
<1>7. QED
  BY <1>1, <1>2, <1>3, <1>5, <1>6, AgainWaiting

(* Redo queues the command it did again.                                   *)
LEMMA RedoWaiting ==
  ASSUME EditorTypeOK, EditorTypeOK', KnownOK, HasCourse, WaitingInv, redo
  PROVE  WaitingInv'
<1> DEFINE c == Head(undone)
<1>1. /\ undone # <<>> /\ ~Saving
      /\ canvas \in Items /\ applied \in Seq(Commands) /\ undone \in Seq(Commands)
      /\ pending \in Seq(Commands) /\ Waiting = pending
  BY EditorTypes, WaitingFacts DEF redo
<1>2. c \in Commands /\ Tail(undone) \in Seq(Commands)
  BY <1>1, TailFacts
<1> HIDE DEF c
<1>3. /\ canvas' = applyCommand(canvas, c) /\ applied' = Append(applied, c)
      /\ undone' = Tail(undone) /\ pending' = Append(pending, c)
      /\ forgotten' = forgotten \cup Unsure(c)
      /\ UNCHANGED <<designId, ready, save, stored, base>>
  BY DEF redo, c
<1>4. ToSet(applied') = ToSet(applied) \cup {c} /\ ToSet(undone) = ToSet(undone') \cup {c}
  BY <1>1, <1>2, <1>3, SetOfAppend, SetOfTail DEF c
<1>5. ASSUME base # Unknown, ready \/ designId # NoDesign
      PROVE  /\ StackOK(ToSet(applied'), ToSet(undone'), ToSet(pending) \cup {c}, forgotten \cup Touches(c))
             /\ \A r \in Refs \ Touches(c) : canvas'[r] = canvas[r]
             /\ c.type = "DeleteNode" =>
                  \A r \in Lines \ Touches(c) : canvas[r] # Absent => c.ref \notin Ends(canvas[r])
             /\ \A r \in Refs \ (forgotten \cup Touches(c)), i \in DOMAIN pending :
                  pending[i].type = "DeleteNode" /\ r \in DOMAIN pending[i].lines
                    /\ canvas[pending[i].ref] = Absent => canvas'[pending[i].ref] = Absent
             /\ c.type = "AddNode" => \A i \in DOMAIN pending :
                  pending[i].type = "AddEdge" /\ c.ref \in Ends(pending[i].new) =>
                    pending[i].ref \in forgotten
  <2>1. StackOK(ToSet(applied), ToSet(undone), ToSet(pending), forgotten)
    BY <1>1, <1>5 DEF WaitingInv, ClaimsOK
  <2>2. PICK h : IsCourse(h, applied \o undone, Len(applied), base, canvas, known)
    BY <1>5 DEF HasCourse
  <2>3. /\ Fits(c, canvas)
        /\ \A b \in ToSet(applied) :
             /\ c.type \in Adds /\ b.type \in Deletes => b.ref # c.ref
             /\ c.type = "AddNode" /\ b.type = "AddEdge" => c.ref \notin Ends(b.new)
    BY <1>1, <2>2, CourseAhead DEF c
  <2>4. c.type = "DeleteNode" =>
          \A b \in ToSet(pending) : Does(b, "DeleteNode", c.ref) => DOMAIN b.lines \subseteq forgotten
    <3>1. c.type = "DeleteNode" => canvas[c.ref] # Absent
      <4>1. c.type \in Deletes => \A r \in Touches(c) : canvas[r] # Absent
        BY <1>1, <1>2, <2>3, DrawnOn
      <4>2. QED
        BY <1>2, <4>1, CommandFacts DEF Deletes
    <3>2. QED
      BY <1>1, <1>5, <3>1, DeadQueued DEF Does
  <2>5. StackOK(ToSet(applied'), ToSet(undone'), ToSet(pending) \cup {c}, forgotten \cup Touches(c))
    <3>1. StackOK(ToSet(applied), ToSet(undone') \cup {c}, ToSet(pending), forgotten)
      BY <1>4, <2>1
    <3>2. StackOK(ToSet(applied) \cup {c}, ToSet(undone'), ToSet(pending) \cup {c},
                  forgotten \cup Touches(c))
      BY <1>2, <2>4, <3>1, StackRedone
    <3>3. QED
      BY <1>4, <3>2
  <2>6. \A r \in Refs \ Touches(c) : canvas'[r] = canvas[r]
    BY <1>1, <1>2, <1>3, ApplyFacts
  <2>7. c.type = "DeleteNode" =>
          \A r \in Lines \ Touches(c) : canvas[r] # Absent => c.ref \notin Ends(canvas[r])
    BY <1>1, <1>2, <2>3, DrawnOn
  <2>8. ASSUME NEW r \in Refs \ (forgotten \cup Touches(c)), NEW i \in DOMAIN pending,
               pending[i].type = "DeleteNode", r \in DOMAIN pending[i].lines,
               canvas[pending[i].ref] = Absent
        PROVE  canvas'[pending[i].ref] = Absent
    <3>1. pending[i] \in Commands /\ pending[i] \in ToSet(pending)
      BY <1>1, QueueFacts, SetFacts
    <3>2. pending[i].ref \in Nodes /\ pending[i].ref \in Refs
      BY <2>8, <3>1, CommandFacts
    <3>3. CASE pending[i].ref # c.ref \/ c.type \notin Adds
      <4>1. CASE c.type \notin Adds
        <5>1. \A x \in Refs : c.type \notin Adds /\ canvas[x] = Absent => applyCommand(canvas, c)[x] = Absent
          BY <1>1, <1>2, ApplyFacts
        <5>2. QED
          BY <1>3, <2>8, <3>2, <4>1, <5>1
      <4>2. CASE pending[i].ref # c.ref
        <5>1. pending[i].ref \notin Touches(c)
          BY <1>2, <3>2, <4>2, CommandFacts, EditorAssumption
        <5>2. QED
          BY <2>6, <2>8, <3>2, <5>1
      <4>3. QED
        BY <3>3, <4>1, <4>2
    <3>4. CASE pending[i].ref = c.ref /\ c.type \in Adds
      <4>1. c.type = "AddNode"
        BY <1>2, <3>2, <3>4, CommandFacts DEF Adds
      <4>2. \/ DOMAIN pending[i].lines \subseteq forgotten
            \/ \E b \in ToSet(applied) : Does(b, "DeleteNode", c.ref)
        BY <1>4, <2>1, <2>8, <3>1, <3>4, <4>1 DEF StackOK, Does
      <4>3. \A b \in ToSet(applied) : ~Does(b, "DeleteNode", c.ref)
        BY <2>3, <3>4 DEF Does, Deletes
      <4>4. QED
        BY <2>8, <4>2, <4>3
    <3>5. QED
      BY <3>3, <3>4
  <2>9. ASSUME c.type = "AddNode", NEW i \in DOMAIN pending,
               pending[i].type = "AddEdge", c.ref \in Ends(pending[i].new)
        PROVE  pending[i].ref \in forgotten
    <3>1. pending[i] \in ToSet(Waiting)
      BY <1>1, SetFacts
    <3>2. \A b \in ToSet(applied) : b.type = "AddEdge" => c.ref \notin Ends(b.new)
      BY <2>3, <2>9
    <3>3. c \in ToSet(applied) \cup ToSet(undone) /\ LinesAgree
      BY <1>4 DEF WaitingInv
    <3>4. StackOK(ToSet(applied), ToSet(undone), ToSet(Waiting), forgotten)
      BY <1>1, <2>1
    <3>5. QED
      BY <1>2, <2>9, <3>1, <3>2, <3>3, <3>4, LinesEndApart
  <2>10. QED
    BY <2>5, <2>6, <2>7, <2>8, <2>9
<1>6. c \in ToSet(applied) \cup ToSet(undone)
      /\ ToSet(applied') \cup ToSet(undone') = ToSet(applied) \cup ToSet(undone)
  BY <1>4
<1>7. QED
  BY <1>1, <1>2, <1>3, <1>5, <1>6, AgainWaiting

(* No save runs after the step.                                            *)
LEMMA QuietAfter ==
  ASSUME ~Saving', ~ready' => designId' = NoDesign \/ forgotten' = Refs
  PROVE  ModeOK' /\ SendOK' /\ CreateOK'
BY DEF ModeOK, SendOK, CreateOK, Creating

(* What the end of a save leaves.                                          *)
LEMMA SaveEndsFacts ==
  ASSUME NEW rest, NEW leaving, SaveEnds(rest, leaving)
  PROVE  /\ save' = NoSave /\ ~Saving' /\ StillToSend' = <<>>
         /\ leaving => applied' = <<>> /\ undone' = <<>> /\ pending' = <<>> /\ base' = canvas
         /\ ~leaving => pending' = rest /\ UNCHANGED <<applied, undone, base>>
BY DEF SaveEnds, clearStacks, KeepStacks, Saving, StillToSend

(* The stacks' claims, when the queue got no new command.                  *)
LEMMA StacksAfter ==
  ASSUME EditorTypeOK', NEW Q, NEW F,
         base # Unknown => StackOK(ToSet(applied), ToSet(undone), Q, F),
         \/ /\ UNCHANGED <<applied, undone, base>>
            /\ ToSet(Waiting') \subseteq Q /\ F \subseteq forgotten'
         \/ applied' = <<>> /\ undone' = <<>>
         \/ Waiting' = <<>>
         \/ forgotten' = Refs
  PROVE  base' # Unknown =>
           StackOK(ToSet(applied'), ToSet(undone'), ToSet(Waiting'), forgotten')
<1>1. ToSet(Waiting') \subseteq Commands
  BY WaitingFactsNext
<1>2. CASE /\ UNCHANGED <<applied, undone, base>>
           /\ ToSet(Waiting') \subseteq Q /\ F \subseteq forgotten'
  <2>1. SUFFICES ASSUME base' # Unknown
                 PROVE  StackOK(ToSet(applied), ToSet(undone), ToSet(Waiting'), forgotten')
    BY <1>2
  <2>2. StackOK(ToSet(applied), ToSet(undone), Q, F)
    BY <1>2, <2>1
  <2>3. QED
    BY <1>2, <2>2, StackFewer
<1>3. CASE applied' = <<>> /\ undone' = <<>>
  BY <1>1, <1>3, SetOfEmpty, StackTrivial
<1>4. CASE Waiting' = <<>>
  BY <1>1, <1>4, SetOfEmpty, StackTrivial
<1>5. CASE forgotten' = Refs
  BY <1>1, <1>5, StackTrivial
<1>6. QED
  BY <1>2, <1>3, <1>4, <1>5

(* The claim of the stacks, while there is anything to save to.            *)
LEMMA StacksBefore ==
  ASSUME ClaimsOK, ready \/ designId # NoDesign
  PROVE  base # Unknown => StackOK(ToSet(applied), ToSet(undone), ToSet(Waiting), forgotten)
BY DEF ClaimsOK

(* Nothing new is held.                                                    *)
LEMMA HeldAfter ==
  ASSUME \/ UNCHANGED <<applied, undone>>
         \/ applied' = <<>> /\ undone' = <<>>,
         ToSet(Waiting') \subseteq ToSet(Waiting)
  PROVE  Held' \subseteq Held
BY SetOfEmpty DEF Held

(* A save begins.                                                          *)
LEMMA StartSaveWaiting ==
  ASSUME EditorTypeOK, EditorTypeOK', WaitingInv, CanSave, NEW leaving \in BOOLEAN, StartSave(leaving)
  PROVE  WaitingInv'
<1> DEFINE todo == Batch(pending)
           start(stage) == [stage |-> stage, design |-> designId, todo |-> todo, sent |-> 0,
                            items |-> IF stage = "create" THEN canvas ELSE Empty,
                            late |-> {}, leaving |-> leaving]
<1>1. /\ pending \in Seq(Commands) /\ ~Saving /\ ready /\ Waiting = pending
      /\ canvas \in Items /\ designId \in Designs \cup {NoDesign}
      /\ forgotten \subseteq Refs /\ GivenUp(pending) \subseteq Refs
  BY EditorTypes, WaitingFacts, GivenUpFacts DEF CanSave
<1>2. todo \in Seq(Commands) /\ ToSet(todo) \subseteq ToSet(pending)
  BY <1>1, BatchFacts, SetOfBatch
<1>3. /\ forgotten' = forgotten \cup GivenUp(pending)
      /\ UNCHANGED <<canvas, designId, ready, stored>>
  BY DEF StartSave
<1>4. /\ designId = NoDesign => /\ QueueOK(pending, canvas, forgotten)
                                /\ LocalOK(pending, canvas, forgotten)
                                /\ QueueOK(todo, canvas, forgotten')
                                /\ LocalOK(todo, canvas, forgotten')
                                /\ QueueOK(pending, canvas, forgotten')
                                /\ LocalOK(pending, canvas, forgotten')
      /\ designId # NoDesign => /\ QueueOK(todo, canvas, forgotten')
                                /\ ServerOK(todo, canvas, stored[designId].items, forgotten')
  <2>1. ASSUME designId = NoDesign
        PROVE  /\ QueueOK(pending, canvas, forgotten) /\ LocalOK(pending, canvas, forgotten)
               /\ QueueOK(todo, canvas, forgotten') /\ LocalOK(todo, canvas, forgotten')
               /\ QueueOK(pending, canvas, forgotten') /\ LocalOK(pending, canvas, forgotten')
    <3>1. QueueOK(pending, canvas, forgotten) /\ LocalOK(pending, canvas, forgotten)
      BY <1>1, <2>1 DEF WaitingInv, ClaimsOK
    <3>2. QueueOK(todo, canvas, forgotten') /\ LocalOK(todo, canvas, forgotten')
      BY <1>1, <1>3, <3>1, BatchQueue, BatchLocal
    <3>3. forgotten \subseteq forgotten'
      BY <1>3
    <3>4. QED
      BY <3>1, <3>2, <3>3, ClaimsWeaken
  <2>2. ASSUME designId # NoDesign
        PROVE  /\ QueueOK(todo, canvas, forgotten')
               /\ ServerOK(todo, canvas, stored[designId].items, forgotten')
    <3>1. /\ QueueOK(pending, canvas, forgotten)
          /\ ServerOK(pending, canvas, stored[designId].items, forgotten)
      BY <1>1, <2>2 DEF WaitingInv, ClaimsOK
    <3>2. QED
      BY <1>1, <1>3, <3>1, BatchQueue, BatchServer
  <2>3. QED
    BY <2>1, <2>2
<1>5. base # Unknown => StackOK(ToSet(applied), ToSet(undone), ToSet(pending), forgotten)
  BY <1>1 DEF WaitingInv, ClaimsOK
<1> HIDE DEF todo
<1>6. CASE designId = NoDesign
  <2>1. save' = start("create") /\ UNCHANGED <<applied, undone, pending, base>>
    BY <1>6 DEF StartSave, todo
  <2>2. /\ save'.stage = "create" /\ save'.todo = todo /\ save'.sent = 0 /\ save'.items = canvas
        /\ save'.late = {}
    BY <2>1
  <2>3. save' \in Saves
    BY <1>1, <1>2, <1>6, <2>1 DEF Saves
  <2>4. Saving' /\ Creating'
    BY <2>2, <2>3, EditorAssumption DEF Saving, Creating
  <2>5. StillToSend' = todo /\ ToSet(Waiting') \subseteq ToSet(Waiting)
    BY <1>1, <1>2, <2>1, <2>2, <2>4, WaitingFactsNext
  <2>6. LinesAgree'
    BY <2>1, <2>5, HeldAfter, AgreeFewer DEF WaitingInv
  <2>7. ModeOK' /\ SendOK'
    BY <1>1, <1>3, <1>6, <2>2, <2>4 DEF ModeOK, SendOK
  <2>8. CreateOK'
    BY <1>3, <1>4, <1>6, <2>2 DEF CreateOK
  <2>9. base' # Unknown => StackOK(ToSet(applied'), ToSet(undone'), ToSet(Waiting'), forgotten')
    <3>1. ToSet(Waiting') \subseteq ToSet(pending) /\ forgotten \subseteq forgotten'
      BY <1>1, <1>3, <2>5
    <3>2. QED
      BY <1>5, <2>1, <3>1, StacksAfter
  <2>10. ClaimsOK'
    BY <1>3, <1>4, <1>6, <2>1, <2>9 DEF ClaimsOK
  <2>11. QED
    BY <2>6, <2>7, <2>8, <2>10 DEF WaitingInv
<1>7. ASSUME designId # NoDesign, Waiting' = todo,
             \/ UNCHANGED <<applied, undone, base>>
             \/ applied' = <<>> /\ undone' = <<>>
      PROVE  LinesAgree' /\ ClaimsOK'
  <2>1. ToSet(Waiting') \subseteq ToSet(pending) /\ forgotten \subseteq forgotten'
    BY <1>2, <1>3, <1>7
  <2>2. LinesAgree'
    BY <1>1, <1>7, <2>1, HeldAfter, AgreeFewer DEF WaitingInv
  <2>3. base' # Unknown => StackOK(ToSet(applied'), ToSet(undone'), ToSet(Waiting'), forgotten')
    BY <1>5, <1>7, <2>1, StacksAfter
  <2>4. ClaimsOK'
    BY <1>3, <1>4, <1>7, <2>3 DEF ClaimsOK
  <2>5. QED
    BY <2>2, <2>4
<1>8. CASE designId # NoDesign /\ todo # <<>>
  <2>1. save' = start("send") /\ pending' = <<>> /\ UNCHANGED <<applied, undone, base>>
    BY <1>8 DEF StartSave, todo, KeepStacks
  <2>2. /\ save'.stage = "send" /\ save'.todo = todo /\ save'.sent = 0 /\ save'.design = designId
    BY <2>1
  <2>3. save' \in Saves
    BY <1>1, <1>2, <1>8, <2>1, EmptyItems DEF Saves
  <2>4. Saving' /\ ~Creating'
    BY <2>2, <2>3, EditorAssumption DEF Saving, Creating
  <2>5. Waiting' = todo
    <3>1. StillToSend' = todo
      BY <2>2, <2>4, WaitingFactsNext
    <3>2. todo \o <<>> = todo
      BY <1>2
    <3>3. QED
      BY <2>1, <3>1, <3>2 DEF Waiting
  <2>6. LinesAgree' /\ ClaimsOK'
    BY <1>7, <1>8, <2>1, <2>5
  <2>7. ModeOK'
    BY <1>1, <1>3, <1>8, <2>2, <2>4 DEF ModeOK
  <2>8. SendOK'
    <3>1. DOMAIN pending' = {}
      BY <2>1
    <3>2. QED
      BY <2>2, <3>1 DEF SendOK
  <2>9. CreateOK'
    BY <2>4 DEF CreateOK
  <2>10. QED
    BY <2>6, <2>7, <2>8, <2>9 DEF WaitingInv
<1>9. CASE designId # NoDesign /\ todo = <<>>
  <2>1. SaveEnds(<<>>, leaving)
    BY <1>9 DEF StartSave, todo
  <2>2. /\ ~Saving' /\ pending' = <<>>
        /\ \/ UNCHANGED <<applied, undone, base>>
           \/ applied' = <<>> /\ undone' = <<>>
    BY <2>1, SaveEndsFacts
  <2>3. Waiting' = todo
    BY <1>9, <2>2, WaitingFactsNext
  <2>4. LinesAgree' /\ ClaimsOK'
    BY <1>7, <1>9, <2>2, <2>3
  <2>5. ModeOK' /\ SendOK' /\ CreateOK'
    BY <1>1, <1>3, <2>2, QuietAfter
  <2>6. QED
    BY <2>4, <2>5 DEF WaitingInv
<1>10. QED
  BY <1>6, <1>8, <1>9

(* What the create request claims stays true while more is forgotten.      *)
LEMMA CreateKept ==
  ASSUME CreateOK, UNCHANGED <<save, canvas>>, forgotten \subseteq forgotten', forgotten' \subseteq Refs
  PROVE  CreateOK'
<1>1. Creating' = Creating
  BY DEF Creating, Saving
<1>2. CASE ~Creating
  BY <1>1, <1>2 DEF CreateOK
<1>3. CASE Creating
  <2>1. /\ QueueOK(save.todo, save.items, forgotten)
        /\ LocalOK(save.todo, save.items, forgotten)
        /\ \A r \in Refs \ (forgotten \cup save.late) : canvas[r] = save.items[r]
        /\ forgotten # Refs => \A i \in DOMAIN save.todo :
             save.items[save.todo[i].ref] = Absent => canvas[save.todo[i].ref] = Absent
    BY <1>3 DEF CreateOK
  <2>2. /\ QueueOK(save.todo, save.items, forgotten')
        /\ LocalOK(save.todo, save.items, forgotten')
    BY <2>1, ClaimsWeaken
  <2>3. forgotten' # Refs => forgotten # Refs
    OBVIOUS
  <2>4. QED
    BY <2>1, <2>2, <2>3 DEF CreateOK
<1>4. QED
  BY <1>2, <1>3

(* Edit mode is left without a save: what was pending is given up.         *)
LEMMA LeaveWaiting ==
  ASSUME EditorTypeOK, EditorTypeOK', WaitingInv, LeaveEditMode
  PROVE  WaitingInv'
<1>1. CASE CanSave /\ StartSave(TRUE)
  BY <1>1, StartSaveWaiting
<1>2. CASE ~(CanSave /\ StartSave(TRUE))
  <2>1. /\ applied' = <<>> /\ undone' = <<>> /\ pending' = <<>> /\ base' = canvas
        /\ forgotten' = forgotten \cup TouchedBy(pending)
        /\ UNCHANGED <<canvas, designId, ready, save, stored>>
    BY <1>2 DEF LeaveEditMode, clearStacks
  <2>2. /\ forgotten \subseteq forgotten' /\ forgotten' \subseteq Refs
        /\ forgotten = Refs => forgotten' = Refs
        /\ pending \in Seq(Commands) /\ StillToSend \in Seq(Commands)
    BY <2>1, EditorTypes, WaitingFacts, TouchedFacts
  <2>3. /\ Saving' = Saving /\ Creating' = Creating /\ StillToSend' = StillToSend
        /\ Waiting' = StillToSend
    BY <2>1, <2>2 DEF Saving, Creating, StillToSend, Waiting
  <2>4. LinesAgree'
    <3>1. ToSet(Waiting') \subseteq ToSet(Waiting)
      BY <2>3, WaitingFacts
    <3>2. QED
      BY <2>1, <3>1, HeldAfter, AgreeFewer DEF WaitingInv
  <2>5. ModeOK'
    BY <2>1, <2>2, <2>3 DEF WaitingInv, ModeOK
  <2>6. SendOK'
    <3>1. DOMAIN pending' = {}
      BY <2>1
    <3>2. QED
      BY <2>1, <2>3, <3>1 DEF WaitingInv, SendOK
  <2>7. CreateOK'
    BY <2>1, <2>2, CreateKept DEF WaitingInv
  <2>8. ClaimsOK'
    <3>1. base' # Unknown => StackOK(ToSet(applied'), ToSet(undone'), ToSet(Waiting'), forgotten')
      <4>1. \A F : ToSet(applied') \cup ToSet(undone') = {}
        BY <2>1, SetOfEmpty
      <4>2. ToSet(Waiting') \subseteq Commands
        BY WaitingFactsNext
      <4>3. QED
        BY <4>1, <4>2, StackTrivial
    <3>2. QueueOK(pending', canvas', forgotten') /\ LocalOK(pending', canvas', forgotten')
      BY <2>1, NothingQueued
    <3>3. ASSUME designId # NoDesign
          PROVE  /\ QueueOK(Waiting', canvas', forgotten')
                 /\ ServerOK(Waiting', canvas', stored'[designId'].items, forgotten')
      <4>1. /\ QueueOK(StillToSend \o pending, canvas, forgotten)
            /\ ServerOK(StillToSend \o pending, canvas, stored[designId].items, forgotten)
        BY <3>3 DEF WaitingInv, ClaimsOK, Waiting
      <4>2. /\ QueueOK(StillToSend, canvas, forgotten \cup TouchedBy(pending))
            /\ ServerOK(StillToSend, canvas, stored[designId].items, forgotten \cup TouchedBy(pending))
        BY <2>2, <4>1, QueueCut, ServerCut
      <4>3. QED
        BY <2>1, <2>3, <4>2
    <3>4. QED
      BY <2>1, <3>1, <3>2, <3>3 DEF ClaimsOK
  <2>9. QED
    BY <2>4, <2>5, <2>6, <2>7, <2>8 DEF WaitingInv
<1>3. QED
  BY <1>1, <1>2

(* Nothing the claims are about changes.                                   *)
LEMMA WaitingKept ==
  ASSUME EditorTypeOK, WaitingInv,
         UNCHANGED <<canvas, designId, ready, applied, undone, pending, save, base, forgotten>>,
         \A d \in Designs : stored'[d].items = stored[d].items
  PROVE  WaitingInv'
<1>1. /\ Saving' = Saving /\ Creating' = Creating /\ StillToSend' = StillToSend
      /\ Waiting' = Waiting /\ Held' = Held
  BY DEF Saving, Creating, StillToSend, Waiting, Held
<1>2. LinesAgree' /\ ModeOK'
  BY <1>1 DEF WaitingInv, LinesAgree, ModeOK
<1>3. SendOK'
  <2>1. Saving /\ save.sent = 1 => save.design \in Designs
    BY EditorTypes, SaveTypes
  <2>2. QED
    BY <1>1, <2>1 DEF WaitingInv, SendOK
<1>4. CreateOK'
  BY EditorTypes, CreateKept DEF WaitingInv
<1>5. ClaimsOK'
  <2>1. designId # NoDesign => stored'[designId].items = stored[designId].items
    BY EditorTypes
  <2>2. QED
    BY <1>1, <2>1 DEF WaitingInv, ClaimsOK
<1>6. QED
  BY <1>2, <1>3, <1>4, <1>5 DEF WaitingInv

(* Opening, fetching and archiving designs, as far as nothing arrives.     *)
LEMMA OpeningWaiting ==
  ASSUME EditorTypeOK, WaitingInv,
         EnterEditMode \/ \E d \in Designs : LoadDesign(d) \/ ArchiveDesign(d)
  PROVE  WaitingInv'
<1>1. UNCHANGED <<canvas, designId, ready, applied, undone, pending, save, base, forgotten>>
  BY DEF EnterEditMode, LoadDesign, ArchiveDesign
<1>2. \A d \in Designs : stored'[d].items = stored[d].items
  <2>1. CASE stored' = stored
    BY <2>1
  <2>2. CASE \E d \in Designs : ArchiveDesign(d)
    BY <2>2, EditorTypes DEF ArchiveDesign
  <2>3. QED
    BY <2>1, <2>2 DEF EnterEditMode, LoadDesign
<1>3. QED
  BY <1>1, <1>2, WaitingKept

(* All is given up, or nothing waits.                                      *)
LEMMA NothingWaits ==
  ASSUME EditorTypeOK', Waiting' = <<>>, ~Saving',
         designId' # NoDesign => \A r \in Refs \ forgotten' :
           canvas'[r] = stored'[designId'].items[r]
  PROVE  ClaimsOK'
<1>1. base' # Unknown => StackOK(ToSet(applied'), ToSet(undone'), ToSet(Waiting'), forgotten')
  BY SetOfEmpty, StackTrivial
<1>2. QueueOK(<<>>, canvas', forgotten') /\ LocalOK(<<>>, canvas', forgotten')
  BY NothingQueued
<1>3. pending' = <<>>
  BY WaitingFactsNext
<1>4. designId' # NoDesign => ServerOK(<<>>, canvas', stored'[designId'].items, forgotten')
  BY DEF ServerOK, ServerFits, SameEnds
<1>5. QED
  BY <1>1, <1>2, <1>3, <1>4 DEF ClaimsOK

(* A design arrives.                                                       *)
LEMMA HydrateWaiting ==
  ASSUME EditorTypeOK, EditorTypeOK', WaitingInv, Hydrate
  PROVE  WaitingInv'
<1>1. /\ canvas' = fetched.items /\ designId' = fetched.design /\ ready' = TRUE
      /\ fetched \in [design : Designs, items : Items]
      /\ UNCHANGED <<applied, undone, pending, save, stored>>
      /\ forgotten' = IF Saving \/ pending # <<>> THEN Refs
                      ELSE {r \in Refs : fetched.items[r] # stored[fetched.design].items[r]}
  BY EditorTypes DEF Hydrate
<1>2. /\ Saving' = Saving /\ Creating' = Creating /\ StillToSend' = StillToSend
      /\ Waiting' = Waiting /\ Held' = Held
  BY <1>1 DEF Saving, Creating, StillToSend, Waiting, Held
<1>3. LinesAgree'
  BY <1>2 DEF WaitingInv, LinesAgree
<1>4. designId' # NoDesign
  BY <1>1, EditorAssumption
<1>5. ModeOK'
  <2>1. Saving => forgotten' = Refs
    BY <1>1
  <2>2. Creating => Saving /\ save.sent = 0
    BY DEF WaitingInv, ModeOK, Creating
  <2>3. ready' /\ save' = save
    BY <1>1
  <2>4. QED
    BY <1>2, <1>4, <2>1, <2>2, <2>3 DEF ModeOK
<1>6. SendOK'
  BY <1>1, <1>2 DEF WaitingInv, SendOK
<1>7. CASE Saving \/ pending # <<>>
  BY <1>1, <1>3, <1>5, <1>6, <1>7, AllGivenUp DEF WaitingInv
<1>8. CASE ~Saving /\ pending = <<>>
  <2>1. Waiting' = <<>> /\ ~Saving'
    BY <1>2, <1>8, WaitingFacts
  <2>2. \A r \in Refs \ forgotten' : canvas'[r] = stored'[designId'].items[r]
    BY <1>1, <1>8
  <2>3. ClaimsOK'
    BY <2>1, <2>2, NothingWaits
  <2>4. CreateOK'
    BY <2>1 DEF CreateOK, Creating
  <2>5. QED
    BY <1>3, <1>5, <1>6, <2>3, <2>4 DEF WaitingInv
<1>9. QED
  BY <1>7, <1>8

(* The design that was shown is gone.                                      *)
LEMMA ClearWaiting ==
  ASSUME EditorTypeOK, EditorTypeOK', WaitingInv, ClearDeleted
  PROVE  WaitingInv'
<1>1. /\ designId' = NoDesign /\ ready' = FALSE
      /\ forgotten' = IF Saving THEN Refs ELSE {}
      /\ UNCHANGED <<save, stored>>
      /\ \/ applied' = <<>> /\ undone' = <<>> /\ pending' = <<>>
         \/ UNCHANGED <<applied, undone, pending>>
  BY DEF ClearDeleted, clearStacks, KeepStacks
<1>2. Saving' = Saving /\ Creating' = Creating /\ StillToSend' = StillToSend
  BY <1>1 DEF Saving, Creating, StillToSend
<1>3. LinesAgree'
  <2>1. ToSet(Waiting') \subseteq ToSet(Waiting)
    BY <1>1, <1>2, WaitingFacts, WaitingFactsNext, SetOfEmpty
  <2>2. QED
    BY <1>1, <2>1, HeldAfter, AgreeFewer DEF WaitingInv
<1>4. ModeOK'
  BY <1>1, <1>2 DEF WaitingInv, ModeOK
<1>5. SendOK'
  <2>1. DOMAIN <<>> = {}
    OBVIOUS
  <2>2. CASE pending' = <<>>
    BY <1>1, <1>2, <2>1, <2>2 DEF WaitingInv, SendOK
  <2>3. CASE pending' = pending
    BY <1>1, <1>2, <2>3 DEF WaitingInv, SendOK
  <2>4. QED
    BY <1>1, <2>2, <2>3
<1>6. ClaimsOK'
  BY <1>1 DEF ClaimsOK
<1>7. CreateOK'
  BY <1>1, <1>2, AllGivenUp DEF CreateOK, Creating
<1>8. QED
  BY <1>3, <1>4, <1>5, <1>6, <1>7 DEF WaitingInv

(* The save is over and the design is closed.                              *)
LEMMA SketchWaiting ==
  ASSUME EditorTypeOK, EditorTypeOK', WaitingInv, SaveSketch
  PROVE  WaitingInv'
<1>1. /\ Saving /\ ~Creating /\ save' = NoSave /\ designId' = NoDesign
      /\ UNCHANGED <<canvas, ready, stored>>
      /\ \/ applied' = <<>> /\ undone' = <<>> /\ pending' = <<>>
         \/ UNCHANGED <<applied, undone, pending>> /\ designId = NoDesign
  BY DEF SaveSketch, clearStacks, KeepStacks, Creating
<1>2. ~Saving' /\ Waiting' = pending'
  BY <1>1, WaitingFactsNext DEF Saving
<1>3. LinesAgree'
  <2>1. ToSet(Waiting') \subseteq ToSet(Waiting)
    BY <1>1, <1>2, WaitingFacts, SetOfEmpty
  <2>2. QED
    BY <1>1, <2>1, HeldAfter, AgreeFewer DEF WaitingInv
<1>4. ModeOK' /\ SendOK' /\ CreateOK'
  BY <1>1, <1>2, QuietAfter
<1>5. ClaimsOK'
  <2>1. CASE pending' = <<>>
    BY <1>1, <1>2, <2>1, NothingWaits
  <2>2. CASE designId = NoDesign
    <3>1. ~ready
      BY <1>1, <2>2 DEF WaitingInv, ModeOK
    <3>2. QED
      BY <1>1, <3>1 DEF ClaimsOK
  <2>3. QED
    BY <1>1, <2>1, <2>2
<1>6. QED
  BY <1>3, <1>4, <1>5 DEF WaitingInv

(* A design created from what was drawn differs from it where the queue    *)
(* of that moment says so, and nowhere else but for the late edits.        *)
LEMMA CreatedClaims ==
  ASSUME NEW q \in Seq(Commands), NEW v \in Items, NEW w \in Items, NEW F, NEW L,
         QueueOK(q, v, F), LocalOK(q, v, F),
         \A r \in Refs \ (F \cup L) : w[r] = v[r],
         \A i \in DOMAIN q : v[q[i].ref] = Absent => w[q[i].ref] = Absent
  PROVE  QueueOK(q, w, F \cup L) /\ ServerOK(q, w, v, F \cup L)
<1> SUFFICES ASSUME NEW r \in Refs \ (F \cup L)
             PROVE  QueueFits(q, w, r) /\ ServerFits(q, w, v, r)
  BY DEF QueueOK, ServerOK
<1>1. w[r] = v[r] /\ QueueFits(q, v, r) /\ LocalFits(q, v, r)
  BY DEF QueueOK, LocalOK
<1>2. \A i \in DOMAIN q : q[i].type = "DeleteNode" /\ r \in DOMAIN q[i].lines => DelTouch(q[i], r)
  BY DEF DelTouch, Deletes, Touches
<1>3. \A i \in DOMAIN q : q[i].type = "DeleteNode" /\ r \in DOMAIN q[i].lines =>
        /\ w[q[i].ref] = Absent
        /\ \A j \in DOMAIN q : Does(q[j], "AddEdge", r) => q[i].ref \in Ends(q[j].new)
  BY <1>1 DEF QueueFits
<1>4. QueueFits(q, w, r)
  BY <1>1, <1>3 DEF QueueFits
<1>5. v[r] # Absent => \A i \in DOMAIN q : ~DelTouch(q[i], r)
  BY <1>1 DEF QueueFits
<1>6. v[r] = Absent =>
        (\E i \in DOMAIN q : DelTouch(q[i], r)) \/ \A i \in DOMAIN q : ~IsAdd(q[i], r)
  BY <1>1 DEF LocalFits
<1>7. ServerFits(q, w, v, r)
  BY <1>1, <1>2, <1>5, <1>6 DEF ServerFits, SameEnds
<1>8. QED
  BY <1>4, <1>7

(* The creation fails, or nobody hears of it.                              *)
LEMMA CreateFailsWaiting ==
  ASSUME EditorTypeOK, EditorTypeOK', WaitingInv, Creating, SaveFails(pending),
         UNCHANGED <<canvas, ready>>
  PROVE  WaitingInv'
<1>1. /\ ~Saving' /\ UNCHANGED designId
      /\ \/ /\ applied' = <<>> /\ undone' = <<>> /\ pending' = <<>>
            /\ forgotten' = forgotten \cup TouchedBy(pending)
         \/ /\ UNCHANGED <<applied, undone, pending, base>>
            /\ forgotten' = forgotten
  BY SaveEndsFacts DEF SaveFails
<1>2. /\ forgotten \subseteq forgotten' /\ forgotten' \subseteq Refs
      /\ forgotten = Refs => forgotten' = Refs
  BY <1>1, EditorTypes, TouchedFacts
<1>3. Waiting' = pending' /\ ToSet(Waiting') \subseteq ToSet(Waiting)
  BY <1>1, WaitingFacts, WaitingFactsNext, SetOfEmpty
<1>4. LinesAgree'
  BY <1>1, <1>3, HeldAfter, AgreeFewer DEF WaitingInv
<1>5. ModeOK' /\ SendOK' /\ CreateOK'
  <2>1. ~ready' => designId' = NoDesign \/ forgotten' = Refs
    BY <1>1, <1>2 DEF WaitingInv, ModeOK
  <2>2. QED
    BY <1>1, <2>1, QuietAfter
<1>6. ClaimsOK'
  <2>1. CASE designId # NoDesign
    <3>1. forgotten' = Refs
      BY <1>2, <2>1 DEF WaitingInv, ModeOK
    <3>2. QED
      BY <3>1, AllGivenUp
  <2>2. CASE designId = NoDesign /\ ready
    <3>1. base # Unknown => StackOK(ToSet(applied), ToSet(undone), ToSet(Waiting), forgotten)
      BY <2>2, StacksBefore DEF WaitingInv
    <3>2. base' # Unknown => StackOK(ToSet(applied'), ToSet(undone'), ToSet(Waiting'), forgotten')
      BY <1>1, <1>2, <1>3, <3>1, StacksAfter
    <3>3. QueueOK(pending', canvas', forgotten') /\ LocalOK(pending', canvas', forgotten')
      <4>1. QueueOK(pending, canvas, forgotten) /\ LocalOK(pending, canvas, forgotten)
        BY <2>2 DEF WaitingInv, ClaimsOK
      <4>2. QED
        BY <1>1, <4>1, NothingQueued
    <3>4. QED
      BY <1>1, <2>2, <3>2, <3>3 DEF ClaimsOK
  <2>3. CASE designId = NoDesign /\ ~ready
    BY <1>1, <2>3 DEF ClaimsOK
  <2>4. QED
    BY <2>1, <2>2, <2>3
<1>7. QED
  BY <1>4, <1>5, <1>6 DEF WaitingInv

(* The design is created with what was drawn when the save began.          *)
LEMMA CreatedWaiting ==
  ASSUME EditorTypeOK, EditorTypeOK', WaitingInv, Creating, NEW d \in Designs,
         UNCHANGED <<canvas, ready>>,
         stored'[d].items = save.items, designId' = d, pending' = <<>>,
         forgotten' = forgotten \cup save.late,
         \/ UNCHANGED <<applied, undone, base>>
         \/ applied' = <<>> /\ undone' = <<>>,
         \/ /\ Saving' /\ ~Creating' /\ save'.todo = save.todo /\ save'.design = d /\ save'.sent = 0
         \/ ~Saving' /\ save.todo = <<>>
  PROVE  WaitingInv'
<1>1. /\ Saving /\ save.todo \in Seq(Commands) /\ save.items \in Items /\ save.late \subseteq Refs
      /\ canvas \in Items /\ forgotten \subseteq Refs /\ d # NoDesign
  BY EditorTypes, SaveTypes, EditorAssumption DEF Creating
<1>2. forgotten = Refs => forgotten' = Refs
  BY <1>1
<1>3. Waiting' = save.todo
  <2>1. CASE Saving'
    <3>1. StillToSend' = save.todo
      BY <2>1, WaitingFactsNext
    <3>2. save.todo \o <<>> = save.todo
      BY <1>1
    <3>3. QED
      BY <3>1, <3>2 DEF Waiting
  <2>2. CASE ~Saving'
    BY <2>2, WaitingFactsNext
  <2>3. QED
    BY <2>1, <2>2
<1>4. ToSet(Waiting') \subseteq ToSet(Waiting)
  BY <1>1, <1>3, WaitingFacts
<1>5. LinesAgree'
  BY <1>4, HeldAfter, AgreeFewer DEF WaitingInv
<1>6. ModeOK'
  <2>1. ~ready => forgotten' = Refs
    BY <1>1, <1>2 DEF WaitingInv, ModeOK
  <2>2. Creating' => Saving'
    BY DEF Creating
  <2>3. QED
    BY <1>1, <2>1, <2>2 DEF ModeOK
<1>7. SendOK'
  <2>1. DOMAIN pending' = {}
    OBVIOUS
  <2>2. QED
    BY <2>1 DEF SendOK
<1>8. CreateOK'
  <2>1. ~Creating'
    BY DEF Creating
  <2>2. QED
    BY <2>1 DEF CreateOK
<1>9. ClaimsOK'
  <2>1. CASE forgotten = Refs
    BY <1>2, <2>1, AllGivenUp
  <2>2. CASE forgotten # Refs
    <3>1. designId = NoDesign /\ ready
      BY <1>1, <2>2 DEF WaitingInv, ModeOK
    <3>2. base # Unknown => StackOK(ToSet(applied), ToSet(undone), ToSet(Waiting), forgotten)
      BY <3>1, StacksBefore DEF WaitingInv
    <3>3. base' # Unknown => StackOK(ToSet(applied'), ToSet(undone'), ToSet(Waiting'), forgotten')
      <4>1. forgotten \subseteq forgotten'
        OBVIOUS
      <4>2. QED
        BY <1>4, <3>2, <4>1, StacksAfter
    <3>4. /\ QueueOK(save.todo, save.items, forgotten)
          /\ LocalOK(save.todo, save.items, forgotten)
          /\ \A r \in Refs \ (forgotten \cup save.late) : canvas[r] = save.items[r]
          /\ \A i \in DOMAIN save.todo :
               save.items[save.todo[i].ref] = Absent => canvas[save.todo[i].ref] = Absent
      BY <2>2 DEF WaitingInv, CreateOK
    <3>5. /\ QueueOK(save.todo, canvas, forgotten \cup save.late)
          /\ ServerOK(save.todo, canvas, save.items, forgotten \cup save.late)
      BY <1>1, <3>4, CreatedClaims
    <3>6. QED
      BY <1>1, <1>3, <3>3, <3>5 DEF ClaimsOK
  <2>3. QED
    BY <2>1, <2>2
<1>10. QED
  BY <1>5, <1>6, <1>7, <1>8, <1>9 DEF WaitingInv

(* The request to create the design, however it ends.                      *)
LEMMA CreateWaiting ==
  ASSUME EditorTypeOK, EditorTypeOK', WaitingInv, CreateDesign
  PROVE  WaitingInv'
<1>1. PICK done \in BOOLEAN, heard \in BOOLEAN, d \in Designs :
       /\ done => stored[d].status = "none" /\ CreatesFrom(save.items)
       /\ stored' = IF done THEN [stored EXCEPT ![d] = [status |-> "DRAFT", items |-> save.items]]
                    ELSE stored
       /\ CASE ~done \/ ~heard -> SaveFails(pending)
            [] done /\ heard /\ save.todo # <<>> ->
                 /\ save' = [save EXCEPT !.stage = "send", !.design = d, !.items = Empty,
                                        !.late = {}]
                 /\ designId' = d
                 /\ KeepStacks(<<>>)
                 /\ forgotten' = forgotten \cup save.late
                 /\ UNCHANGED <<editMode, base, edits, turns>>
            [] OTHER ->
                 /\ SaveEnds(<<>>, save.leaving)
                 /\ designId' = d
                 /\ forgotten' = forgotten \cup save.late
                 /\ UNCHANGED <<edits, turns>>
  BY DEF CreateDesign
<1>2. Creating /\ Saving /\ UNCHANGED <<canvas, ready>>
  BY DEF CreateDesign, Creating
<1>3. CASE ~done \/ ~heard
  <2>1. SaveFails(pending)
    BY <1>1, <1>3
  <2>2. QED
    BY <1>2, <2>1, CreateFailsWaiting
<1>4. CASE done /\ heard
  <2>1. stored'[d].items = save.items /\ designId' = d /\ forgotten' = forgotten \cup save.late
    BY <1>1, <1>4, EditorTypes
  <2>2. CASE save.todo # <<>>
    <3>1. /\ save' = [save EXCEPT !.stage = "send", !.design = d, !.items = Empty, !.late = {}]
          /\ pending' = <<>> /\ UNCHANGED <<applied, undone, base>>
      BY <1>1, <1>4, <2>2 DEF KeepStacks
    <3>2. save \in Saves /\ save.sent = 0
      BY <1>2, EditorTypes DEF WaitingInv, ModeOK, SaveOK
    <3>3. /\ save' \in Saves /\ save'.stage = "send" /\ save'.todo = save.todo /\ save'.design = d
          /\ save'.sent = 0
      BY <3>1, <3>2, EmptyItems DEF Saves
    <3>4. Saving' /\ ~Creating'
      BY <3>3, EditorAssumption DEF Saving, Creating
    <3>5. QED
      BY <1>2, <2>1, <3>1, <3>3, <3>4, CreatedWaiting
  <2>3. CASE save.todo = <<>>
    <3>1. SaveEnds(<<>>, save.leaving)
      BY <1>1, <1>4, <2>3
    <3>2. /\ ~Saving' /\ pending' = <<>>
          /\ \/ UNCHANGED <<applied, undone, base>>
             \/ applied' = <<>> /\ undone' = <<>>
      BY <3>1, SaveEndsFacts
    <3>3. QED
      BY <1>2, <2>1, <2>3, <3>2, CreatedWaiting
  <2>4. QED
    BY <2>2, <2>3
<1>5. QED
  BY <1>3, <1>4

(* What the next request is, among all that waits.                         *)
LEMMA NextFacts ==
  ASSUME EditorTypeOK, SendNext
  PROVE  /\ save.todo \in Seq(Commands) /\ pending \in Seq(Commands) /\ Waiting \in Seq(Commands)
         /\ save.sent \in {0, 1} /\ save.sent + 1 \in DOMAIN Waiting
         /\ Waiting = save.todo \o pending
         /\ \A i \in DOMAIN save.todo : i \in DOMAIN Waiting /\ Waiting[i] = save.todo[i]
         /\ Waiting[save.sent + 1] = save.todo[save.sent + 1]
         /\ Waiting[save.sent + 1] \in Commands
         /\ save.design \in Designs /\ stored[save.design].items \in Items
         /\ 1 \in DOMAIN save.todo /\ PairsOnly(save.todo)
         /\ save.sent = 1 => 2 \in DOMAIN save.todo
<1>1. /\ save.todo \in Seq(Commands) /\ pending \in Seq(Commands) /\ Waiting \in Seq(Commands)
      /\ save.sent \in {0, 1} /\ save.sent + 1 \in DOMAIN save.todo
      /\ save.todo[save.sent + 1] \in Commands /\ save.design \in Designs
      /\ Waiting = save.todo \o pending /\ PairsOnly(save.todo)
      /\ Saving
  BY SendFacts, EditorTypes, SaveTypes, WaitingFacts DEF Waiting
<1>2. \A i \in DOMAIN save.todo : i \in DOMAIN Waiting /\ Waiting[i] = save.todo[i]
  BY <1>1, JoinFacts
<1>3. stored[save.design].items \in Items
  BY <1>1, EditorTypes
<1>4. 1 \in DOMAIN save.todo /\ (save.sent = 1 => 2 \in DOMAIN save.todo)
  <2>1. DOMAIN save.todo = 1..Len(save.todo) /\ Len(save.todo) \in Nat
    BY <1>1
  <2>2. QED
    BY <1>1, <2>1
<1>5. QED
  BY <1>1, <1>2, <1>3, <1>4

(* The claims stay true of the design, whether the request is carried out  *)
(* or not, as long as it waits.                                            *)
LEMMA SentServer ==
  ASSUME EditorTypeOK, WaitingInv, SendNext, designId = save.design
  PROVE  /\ QueueOK(Waiting, canvas, forgotten)
         /\ ServerOK(Waiting, canvas, stored[designId].items, forgotten)
         /\ ServerOK(Waiting, canvas, stored'[designId].items, forgotten)
<1> DEFINE c == Waiting[save.sent + 1]
           s == stored[designId].items
<1>1. /\ Waiting \in Seq(Commands) /\ c \in Commands /\ s \in Items /\ designId # NoDesign
      /\ designId \in Designs /\ save.sent + 1 \in DOMAIN Waiting /\ canvas \in Items
  BY NextFacts, EditorTypes, EditorAssumption
<1>2. QueueOK(Waiting, canvas, forgotten) /\ ServerOK(Waiting, canvas, s, forgotten)
  BY <1>1 DEF WaitingInv, ClaimsOK
<1>3. CASE stored' = stored
  BY <1>2, <1>3
<1>4. CASE /\ Accepted(designId, c)
           /\ stored' = [stored EXCEPT ![designId].items = Serve(@, c)]
  <2>1. stored'[designId].items = Serve(s, c)
    BY <1>1, <1>4, ServedStored
  <2>2. /\ (c.type \in Adds) = (s[c.ref] = Absent)
        /\ c.type = "AddEdge" => \A n \in Ends(c.new) : n \in Nodes /\ s[n] # Absent
    BY <1>4 DEF Accepted
  <2>3. ServerOK(Waiting, canvas, Serve(s, c), forgotten)
    BY <1>1, <1>2, <2>2, LostServer
  <2>4. QED
    BY <1>2, <2>1, <2>3
<1>5. QED
  BY <1>3, <1>4, SendFacts, NextFacts

(* A request fails, or its answer is lost.                                 *)
LEMMA SendFailsWaiting ==
  ASSUME EditorTypeOK, EditorTypeOK', WaitingInv, SendNext, SaveFails(Requeued)
  PROVE  WaitingInv'
<1>1. /\ Saving /\ ~Creating /\ Waiting = Requeued /\ UNCHANGED <<canvas, ready>>
      /\ save.design \in Designs
  BY SendFacts, NextFacts DEF Requeued
<1>2. /\ ~Saving' /\ UNCHANGED designId
      /\ \/ /\ applied' = <<>> /\ undone' = <<>> /\ pending' = <<>>
            /\ forgotten' = forgotten \cup TouchedBy(Waiting)
         \/ /\ UNCHANGED <<applied, undone, base>> /\ pending' = Waiting
            /\ forgotten' = forgotten
  BY <1>1, SaveEndsFacts DEF SaveFails
<1>3. /\ forgotten \subseteq forgotten' /\ forgotten' \subseteq Refs
      /\ forgotten = Refs => forgotten' = Refs
      /\ Waiting \in Seq(Commands)
  BY <1>2, EditorTypes, WaitingFacts, TouchedFacts
<1>4. Waiting' = pending' /\ ToSet(Waiting') \subseteq ToSet(Waiting)
  BY <1>2, WaitingFactsNext, SetOfEmpty
<1>5. LinesAgree'
  BY <1>2, <1>4, HeldAfter, AgreeFewer DEF WaitingInv
<1>6. ModeOK' /\ SendOK' /\ CreateOK'
  <2>1. ~ready' => designId' = NoDesign \/ forgotten' = Refs
    BY <1>1, <1>2, <1>3 DEF WaitingInv, ModeOK
  <2>2. QED
    BY <1>2, <2>1, QuietAfter
<1>7. ClaimsOK'
  <2>1. CASE designId = NoDesign
    <3>1. ~ready
      BY <1>1, <2>1 DEF WaitingInv, ModeOK
    <3>2. QED
      BY <1>1, <1>2, <2>1, <3>1 DEF ClaimsOK
  <2>2. CASE designId # NoDesign /\ designId # save.design
    <3>1. forgotten' = Refs
      BY <1>1, <1>3, <2>2 DEF WaitingInv, ModeOK
    <3>2. QED
      BY <3>1, AllGivenUp
  <2>3. CASE designId # NoDesign /\ designId = save.design
    <3>1. /\ QueueOK(Waiting, canvas, forgotten)
          /\ ServerOK(Waiting, canvas, stored'[designId].items, forgotten)
      BY <2>3, SentServer
    <3>2. /\ QueueOK(Waiting', canvas, forgotten')
          /\ ServerOK(Waiting', canvas, stored'[designId].items, forgotten')
      <4>1. CASE pending' = Waiting /\ forgotten' = forgotten
        BY <1>4, <3>1, <4>1
      <4>2. CASE pending' = <<>> /\ forgotten' = forgotten \cup TouchedBy(Waiting)
        <5>1. <<>> \o Waiting = Waiting /\ <<>> \in Seq(Commands)
          BY <1>3
        <5>2. /\ QueueOK(<<>>, canvas, forgotten \cup TouchedBy(Waiting))
              /\ ServerOK(<<>>, canvas, stored'[designId].items, forgotten \cup TouchedBy(Waiting))
          BY <1>3, <3>1, <5>1, QueueCut, ServerCut
        <5>3. QED
          BY <1>4, <4>2, <5>2
      <4>3. QED
        BY <1>2, <4>1, <4>2
    <3>3. base # Unknown => StackOK(ToSet(applied), ToSet(undone), ToSet(Waiting), forgotten)
      BY <2>3, StacksBefore DEF WaitingInv
    <3>4. base' # Unknown => StackOK(ToSet(applied'), ToSet(undone'), ToSet(Waiting'), forgotten')
      BY <1>2, <1>3, <1>4, <3>3, StacksAfter
    <3>5. QED
      BY <1>1, <1>2, <2>3, <3>2, <3>4 DEF ClaimsOK
  <2>4. QED
    BY <2>1, <2>2, <2>3
<1>8. QED
  BY <1>5, <1>6, <1>7 DEF WaitingInv

(* What is not sent again is settled: the server has it.                   *)
LEMMA SentSettled ==
  ASSUME EditorTypeOK, WaitingInv, SendNext, designId = save.design, ~PairNext,
         Accepted(designId, Waiting[save.sent + 1]),
         NEW r \in Refs \ forgotten
  PROVE  SettledOn(Waiting, save.sent + 1,
                   Serve(stored[designId].items, Waiting[save.sent + 1]), r)
<1> DEFINE s == stored[designId].items
<1>1. /\ Waiting \in Seq(Commands) /\ s \in Items /\ designId # NoDesign
      /\ designId \in Designs /\ 1 \in DOMAIN Waiting /\ Waiting[1] = save.todo[1]
      /\ save.todo \in Seq(Commands) /\ pending \in Seq(Commands)
      /\ Waiting = save.todo \o pending
      /\ Saving /\ ~Creating
  BY NextFacts, SendFacts, EditorTypes, EditorAssumption
<1>2. ServerOK(Waiting, canvas, s, forgotten)
  BY SentServer
<1>3. CASE save.sent = 0
  <2>1. (Waiting[1].type \in Adds) = (s[Waiting[1].ref] = Absent)
    BY <1>3 DEF Accepted
  <2>2. Waiting[1].type = "DeleteNode" =>
          \A j \in DOMAIN Waiting : j > 1 => ~Does(Waiting[j], "AddNode", Waiting[1].ref)
    <3>1. SUFFICES ASSUME Waiting[1].type = "DeleteNode", NEW j \in DOMAIN Waiting, j > 1,
                          Does(Waiting[j], "AddNode", Waiting[1].ref)
                   PROVE  FALSE
      OBVIOUS
    <3>2. CASE j \in DOMAIN save.todo /\ Waiting[j] = save.todo[j]
      <4>1. 1 \in DOMAIN save.todo /\ PairsOnly(save.todo)
        BY NextFacts
      <4>2. save.todo[1].type = "AddNode"
        BY <1>1, <3>1, <3>2, <4>1 DEF PairsOnly, Does
      <4>3. QED
        BY <1>1, <3>1, <4>2
    <3>3. CASE \E k \in DOMAIN pending : Waiting[j] = pending[k]
      <4>1. PICK k \in DOMAIN pending : Waiting[j] = pending[k]
        BY <3>3
      <4>2. 1 \in DOMAIN save.todo
        BY NextFacts
      <4>3. pending[k].type \in Adds => pending[k].ref # save.todo[1].ref
        BY <1>1, <4>2 DEF WaitingInv, SendOK
      <4>4. QED
        BY <1>1, <3>1, <4>1, <4>3 DEF Does, Adds
    <3>4. QED
      BY <1>1, <3>2, <3>3, JoinFacts
  <2>3. SettledOn(Waiting, 1, Serve(s, Waiting[1]), r)
    BY <1>1, <1>2, <2>1, <2>2, SettledAlone
  <2>4. QED
    BY <1>3, <2>3
<1>4. CASE save.sent = 1
  <2>1. /\ 2 \in DOMAIN save.todo /\ 1 \in DOMAIN save.todo /\ PairsOnly(save.todo)
        /\ 2 \in DOMAIN Waiting /\ Waiting[2] = save.todo[2]
    BY <1>4, NextFacts
  <2>2. save.todo[1].ref = save.todo[2].ref
    BY <1>1, <1>4, EditorTypes, SaveTypes
  <2>3. save.todo[1].type = "AddNode" /\ save.todo[2].type = "MoveNode"
    BY <2>1, <2>2 DEF PairsOnly
  <2>4. s[save.todo[1].ref] = save.todo[1].new
    BY <1>1, <1>4 DEF WaitingInv, SendOK
  <2>5. SettledOn(Waiting, 2, Serve(s, Waiting[2]), r)
    BY <1>1, <2>1, <2>2, <2>3, <2>4, SettledPair
  <2>6. QED
    BY <1>4, <2>5
<1>5. QED
  BY <1>3, <1>4, NextFacts

(* A request is carried out and answered.                                  *)
LEMMA SentWaiting ==
  ASSUME EditorTypeOK, EditorTypeOK', WaitingInv, SendNext,
         Accepted(save.design, save.todo[save.sent + 1]),
         stored' = [stored EXCEPT ![save.design].items = Serve(@, save.todo[save.sent + 1])],
         save' = [save EXCEPT !.todo = LeftAfter,
                    !.sent = IF PairNext THEN 1 ELSE 0,
                    !.stage = IF LeftAfter = <<>> THEN "sketch" ELSE @],
         UNCHANGED <<designId, editMode, applied, undone, pending, base, forgotten, edits, turns>>
  PROVE  WaitingInv'
<1>1. /\ Saving /\ ~Creating /\ UNCHANGED <<canvas, ready>> /\ save.stage = "send"
      /\ save.design \in Designs /\ save \in Saves /\ LeftAfter \in Seq(Commands)
      /\ pending \in Seq(Commands) /\ save.sent \in {0, 1} /\ save.todo \in Seq(Commands)
      /\ save.sent + 1 <= Len(save.todo)
  BY SendFacts, EditorTypes DEF SaveOK
<1>2. /\ save' \in Saves /\ save'.stage # "create" /\ save'.todo = LeftAfter
      /\ save'.design = save.design /\ save'.sent = IF PairNext THEN 1 ELSE 0
  BY <1>1 DEF Saves
<1>3. Saving' /\ ~Creating' /\ StillToSend' = LeftAfter /\ Waiting' = LeftAfter \o pending
  BY <1>2, EditorAssumption DEF Saving, Creating, StillToSend, Waiting
<1>4. ToSet(LeftAfter) \subseteq ToSet(save.todo)
  <2>1. CASE PairNext
    BY <2>1 DEF LeftAfter
  <2>2. CASE ~PairNext
    <3>1. save.sent + 1 \in Nat /\ save.sent + 2 = (save.sent + 1) + 1
      BY <1>1
    <3>2. LeftAfter = SubSeq(save.todo, (save.sent + 1) + 1, Len(save.todo))
      BY <2>2, <3>1 DEF LeftAfter
    <3>3. QED
      BY <1>1, <3>1, <3>2, SetOfRest
  <2>3. QED
    BY <2>1, <2>2
<1>5. ToSet(Waiting') \subseteq ToSet(Waiting)
  BY <1>1, <1>3, <1>4, WaitingFacts, WaitingFactsNext
<1>6. LinesAgree'
  BY <1>5, HeldAfter, AgreeFewer DEF WaitingInv
<1>7. ModeOK'
  BY <1>1, <1>2, <1>3 DEF WaitingInv, ModeOK
<1>8. SendOK'
  <2>1. ASSUME NEW i \in DOMAIN LeftAfter, NEW j \in DOMAIN pending, pending[j].type \in Adds
        PROVE  pending[j].ref # LeftAfter[i].ref
    <3>1. PICK k \in DOMAIN save.todo : save.todo[k] = LeftAfter[i]
      BY <1>1, <1>4, SetFacts
    <3>2. QED
      BY <1>1, <2>1, <3>1 DEF WaitingInv, SendOK
  <2>2. ASSUME PairNext
        PROVE  stored'[save.design].items[save.todo[1].ref] = save.todo[1].new
    <3>1. /\ save.todo[1] \in Commands /\ stored[save.design].items \in Items
          /\ 1 \in DOMAIN save.todo /\ PairsOnly(save.todo) /\ save.sent = 0
      BY <2>2, SendFacts, NextFacts DEF PairNext
    <3>2. save.todo[1].type = "AddNode"
      <4>1. 2 \in DOMAIN save.todo /\ save.todo[2].ref = save.todo[1].ref
        BY <1>1, <2>2 DEF PairNext
      <4>2. QED
        BY <3>1, <4>1 DEF PairsOnly
    <3>3. stored'[save.design].items = Serve(stored[save.design].items, save.todo[1])
      <4>1. save.sent + 1 = 1
        BY <3>1
      <4>2. stored' = [stored EXCEPT ![save.design].items = Serve(@, save.todo[1])]
        BY <4>1
      <4>3. QED
        BY <1>1, <3>1, <4>2, ServedStored
    <3>4. (save.todo[1].type \in Adds) = (stored[save.design].items[save.todo[1].ref] = Absent)
      BY <3>1 DEF Accepted
    <3>5. Serve(stored[save.design].items, save.todo[1]) =
            [stored[save.design].items EXCEPT ![save.todo[1].ref] = save.todo[1].new]
      BY <3>1, <3>2, <3>4, ServeFacts DEF Adds
    <3>6. save.todo[1].ref \in DOMAIN stored[save.design].items
      BY <3>1, ItemFacts, CommandFacts
    <3>7. QED
      BY <3>3, <3>5, <3>6
  <2>3. PairNext => save'.todo = save.todo
    BY <1>2 DEF LeftAfter
  <2>4. QED
    BY <1>2, <2>1, <2>2, <2>3 DEF SendOK
<1>9. CreateOK'
  BY <1>3 DEF CreateOK
<1>10. ClaimsOK'
  <2>1. CASE designId = NoDesign
    <3>1. ~ready
      BY <1>1, <2>1 DEF WaitingInv, ModeOK
    <3>2. QED
      BY <1>1, <2>1, <3>1 DEF ClaimsOK
  <2>2. CASE designId # NoDesign /\ designId # save.design
    <3>1. forgotten' = Refs
      BY <1>1, <2>2 DEF WaitingInv, ModeOK
    <3>2. QED
      BY <3>1, AllGivenUp
  <2>3. CASE designId # NoDesign /\ designId = save.design
    <3>1. /\ QueueOK(Waiting, canvas, forgotten)
          /\ ServerOK(Waiting, canvas, stored'[designId].items, forgotten)
      BY <2>3, SentServer
    <3>2. /\ QueueOK(Waiting', canvas, forgotten)
          /\ ServerOK(Waiting', canvas, stored'[designId].items, forgotten)
      <4>1. Waiting = save.todo \o pending
        BY NextFacts
      <4>2. CASE PairNext
        BY <1>3, <3>1, <4>1, <4>2 DEF LeftAfter
      <4>3. CASE ~PairNext
        <5>0. save.sent + 1 \in Nat /\ save.sent + 2 = (save.sent + 1) + 1
          BY <1>1
        <5>1. LeftAfter = SubSeq(save.todo, (save.sent + 1) + 1, Len(save.todo))
          BY <4>3, <5>0 DEF LeftAfter
        <5>2. IsRest(Waiting', Waiting, save.sent + 1)
          BY <1>1, <1>3, <4>1, <5>0, <5>1, RestJoined
        <5>3. save.todo[save.sent + 1] = Waiting[save.sent + 1]
          BY NextFacts
        <5>4. stored'[designId].items = Serve(stored[designId].items, Waiting[save.sent + 1])
          BY <1>1, <2>3, <5>3, NextFacts, ServedStored
        <5>5. \A r \in Refs \ forgotten :
                SettledOn(Waiting, save.sent + 1, stored'[designId].items, r)
          BY <2>3, <4>3, <5>3, <5>4, SentSettled
        <5>6. QED
          BY <3>1, <5>2, <5>5, RestQueue, RestServer
      <4>4. QED
        BY <4>2, <4>3
    <3>3. base # Unknown => StackOK(ToSet(applied), ToSet(undone), ToSet(Waiting), forgotten)
      BY <2>3, StacksBefore DEF WaitingInv
    <3>4. base' # Unknown => StackOK(ToSet(applied'), ToSet(undone'), ToSet(Waiting'), forgotten')
      BY <1>5, <3>3, StacksAfter
    <3>5. QED
      BY <1>1, <2>3, <3>2, <3>4 DEF ClaimsOK
  <2>4. QED
    BY <2>1, <2>2, <2>3
<1>11. QED
  BY <1>6, <1>7, <1>8, <1>9, <1>10 DEF WaitingInv

(* The next request, however it ends.                                      *)
LEMMA SendWaiting ==
  ASSUME EditorTypeOK, EditorTypeOK', WaitingInv, SendNext
  PROVE  WaitingInv'
<1>1. CASE SaveFails(Requeued)
  BY <1>1, SendFailsWaiting
<1>2. CASE ~SaveFails(Requeued)
  BY <1>2, SendFacts, SentWaiting
<1>3. QED
  BY <1>1, <1>2

-----------------------------------------------------------------------------
(* The editor.                                                             *)

(* What the editor keeps true between the canvas, the queue and the server. *)
EditInv == DrawingInv /\ WaitingInv

(* In the first states nothing waits, and a design that is open is shown.  *)
LEMMA WaitingBegins == EditorInit /\ EditorTypeOK => WaitingInv
<1> SUFFICES ASSUME EditorInit, EditorTypeOK PROVE WaitingInv
  OBVIOUS
<1>1. /\ ~Saving /\ ready /\ applied = <<>> /\ undone = <<>> /\ pending = <<>> /\ forgotten = {}
      /\ designId # NoDesign => designId \in Designs /\ canvas = stored[designId].items
  <2>1. PICK opened \in BOOLEAN :
          LET first == CHOOSE d \in Designs : TRUE IN
          /\ canvas = (IF opened THEN Saved ELSE Drawn)
          /\ designId = (IF opened THEN first ELSE NoDesign)
          /\ stored = [d \in Designs |->
                         IF opened /\ d = first THEN [status |-> "DRAFT", items |-> Saved]
                         ELSE [status |-> "none", items |-> Empty]]
    BY DEF EditorInit
  <2>2. (CHOOSE d \in Designs : TRUE) \in Designs
    BY EditorAssumption
  <2>3. designId # NoDesign => designId \in Designs /\ canvas = stored[designId].items
    BY <2>1, <2>2
  <2>4. QED
    BY <2>3 DEF EditorInit, Saving
<1>2. Waiting = <<>> /\ ToSet(Waiting) = {}
  BY <1>1, WaitingFacts, SetOfEmpty
<1>3. LinesAgree
  BY <1>1, <1>2, SetOfEmpty DEF LinesAgree, Held
<1>4. ModeOK /\ SendOK /\ CreateOK
  BY <1>1 DEF ModeOK, SendOK, CreateOK, Creating
<1>5. StackOK(ToSet(applied), ToSet(undone), ToSet(Waiting), forgotten)
  BY <1>1, <1>2, StackTrivial
<1>6. QueueOK(<<>>, canvas, forgotten) /\ LocalOK(<<>>, canvas, forgotten)
  BY NothingQueued
<1>7. designId # NoDesign => ServerOK(<<>>, canvas, stored[designId].items, forgotten)
  BY <1>1 DEF ServerOK, ServerFits, SameEnds
<1>8. ClaimsOK
  BY <1>1, <1>2, <1>5, <1>6, <1>7 DEF ClaimsOK
<1>9. QED
  BY <1>3, <1>4, <1>8 DEF WaitingInv

(* Nothing changes.                                                        *)
LEMMA WaitingStutters ==
  EditorTypeOK /\ WaitingInv /\ UNCHANGED editorVars => WaitingInv'
BY WaitingKept DEF editorVars

(* Every step keeps what waits in agreement with canvas and server.        *)
LEMMA WaitingStep ==
  ASSUME DrawingInv, EditorTypeOK', WaitingInv, EditorNext
  PROVE  WaitingInv'
<1>1. EditorTypeOK /\ KnownOK /\ HasCourse /\ Shown(canvas) \subseteq known
  BY DEF DrawingInv, KnownOK
<1>2. ASSUME NEW c, DrawsCommand(c), Dispatch(c) PROVE WaitingInv'
  BY <1>1, <1>2, DispatchWaiting
<1>3. CASE undo
  BY <1>1, <1>3, UndoWaiting
<1>4. CASE redo
  BY <1>1, <1>4, RedoWaiting
<1>5. CASE LeaveEditMode
  BY <1>1, <1>5, LeaveWaiting
<1>6. CASE SaveNow
  BY <1>1, <1>6, StartSaveWaiting DEF SaveNow
<1>7. CASE CreateDesign
  BY <1>1, <1>7, CreateWaiting
<1>8. CASE SendNext
  BY <1>1, <1>8, SendWaiting
<1>9. CASE SaveSketch
  BY <1>1, <1>9, SketchWaiting
<1>10. CASE EnterEditMode \/ \E d \in Designs : LoadDesign(d) \/ ArchiveDesign(d)
  BY <1>1, <1>10, OpeningWaiting
<1>11. CASE Hydrate
  BY <1>1, <1>11, HydrateWaiting
<1>12. CASE ClearDeleted
  BY <1>1, <1>12, ClearWaiting
<1>13. QED
  BY <1>1, <1>2, <1>3, <1>4, <1>5, <1>6, <1>7, <1>8, <1>9, <1>10, <1>11, <1>12, EditorSteps

(* The queue, the canvas and the server agree in all that was not given    *)
(* up: what is queued for an element ends at what the canvas shows, and    *)
(* where the server differs something queued makes up for it.              *)
THEOREM EditInvariant == EditorSpec => []EditInv
<1>1. EditorInit => EditInv
  BY EditorTypesBegin, CourseBegins, WaitingBegins DEF EditInv, DrawingInv
<1>2. EditInv /\ [EditorNext]_editorVars => EditInv'
  <2>1. SUFFICES ASSUME EditInv, [EditorNext]_editorVars PROVE EditInv'
    OBVIOUS
  <2>2. DrawingInv' /\ EditorTypeOK'
    BY <2>1, DrawingStep DEF EditInv, DrawingInv
  <2>3. CASE EditorNext
    BY <2>1, <2>2, <2>3, WaitingStep DEF EditInv
  <2>4. CASE UNCHANGED editorVars
    BY <2>1, <2>2, <2>4, WaitingStutters DEF EditInv, DrawingInv
  <2>5. QED
    BY <2>1, <2>3, <2>4
<1>3. QED
  BY <1>1, <1>2, PTL DEF EditorSpec

(* What the canvas shows and the server has not waits to be saved, unless  *)
(* the client gave it up, whatever fails and whatever is drawn meanwhile.  *)
THEOREM EditsAreNotForgotten == EditorSpec => []NoEditIsForgotten
<1>1. EditInv => NoEditIsForgotten
  <2>1. SUFFICES ASSUME EditInv, designId # NoDesign, NEW r \in Refs \ forgotten,
                        canvas[r] # stored[designId].items[r]
                 PROVE  r \in TouchedBy(StillToSend \o pending)
    BY DEF NoEditIsForgotten
  <2>2. EditorTypeOK
    BY <2>1 DEF EditInv, DrawingInv
  <2>3. Waiting \in Seq(Commands) /\ canvas \in Items /\ stored[designId].items \in Items
    BY <2>1, <2>2, WaitingFacts, EditorTypes
  <2>4. ServerOK(Waiting, canvas, stored[designId].items, forgotten)
    BY <2>1 DEF EditInv, WaitingInv, ClaimsOK
  <2>5. r \in TouchedBy(Waiting)
    BY <2>1, <2>3, <2>4, DifferencesAreQueued
  <2>6. QED
    BY <2>5 DEF Waiting
<1>2. QED
  BY <1>1, EditInvariant, PTL
=============================================================================
