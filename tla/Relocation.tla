------------------------------ MODULE Relocation ------------------------------
(***************************************************************************)
(* migrate_wrapped_items relocate, on one row: the shoot folder was        *)
(* renamed after its files were archived, so the entities that Vidispine   *)
(* keeps for them are moved to the new path.  Vidispine does not rename:   *)
(* it drops the entity, makes a new one in state OPEN and swaps it into    *)
(* the shape.  The plan is saved after each file; a run may die between    *)
(* any two calls, and the next run resumes.                                *)
(***************************************************************************)
EXTENDS Naturals, FiniteSetsExt

CONSTANTS
  Originals,   \* 1 .. n, in the order of the plan
  Rows,        \* the rows there may be: [phase, spanned]
  MaxMishaps

\* The first original carries the item's video metadata and the clip's file.
First == 1

VARIABLES
  row,
  plan,     \* [Originals -> [kind, side, from]]: the row's copy of each original
  shape,    \* [Originals -> the kind of the entity its component names]
  entity,   \* [Originals -> [Kinds -> where the entity is and its state]]
  sound,    \* nobody else has changed the item
  field,    \* the original filename on the item: a path, by its side
  clip,     \* the kind of the first original's entity that the Clip names
  portal,   \* the paths in the portal's own rows, by their side
  pc, todo, again,
  resumed,  \* what a killed run had moved
  result,
  mishaps

item == <<shape, entity, sound>>
saved == <<row, plan>>
portalRows == <<clip, portal>>
run == <<todo, again, resumed>>
vars == <<saved, item, field, portalRows, pc, run, result, mishaps>>

\* The entity of the plan, the one that Vidispine puts in its place, and one
\* that someone else registered.
Kinds == {"planned", "moved", "stranger"}
Sides == {"old", "new"}
Entity == [at : Sides \cup {"gone"}, state : {"ARCHIVED", "OPEN"}]
NoEntity == [at |-> "gone", state |-> "ARCHIVED"]

Steps == {"idle", "select", "preflight", "close", "move", "check", "name",
          "clip", "save", "recheck", "verify", "over"}
Results == {"none", "skipped", "refused", "preexisting", "verify fails",
            "unreferenced", "no clip", "gone", "relocated", "broken off"}

Init ==
  /\ row \in Rows
  /\ plan = [o \in Originals |-> [kind |-> "planned", side |-> "old", from |-> FALSE]]
  /\ shape = [o \in Originals |-> "planned"]
  /\ entity = [o \in Originals |->
                [k \in Kinds |-> IF k = "planned" THEN [at |-> "old", state |-> "ARCHIVED"]
                                 ELSE NoEntity]]
  /\ sound = TRUE
  /\ field \in {"old", "other"}
  /\ clip = "planned" /\ portal = "old"
  /\ pc = "idle" /\ todo = {} /\ again = {} /\ resumed = {}
  /\ result = "none"
  /\ mishaps = 0

Mishap == mishaps < MaxMishaps /\ mishaps' = mishaps + 1

Found(o, side) == {k \in Kinds : entity[o][k].at = side}
Pending == {o \in Originals : plan[o].side = "old"}
Relocated == {o \in Originals : plan[o].side = "new" /\ plan[o].from}

End(outcome) == pc' = "over" /\ result' = outcome

-----------------------------------------------------------------------------
(* The command. *)

\* The portal's own rows are rewritten first and together, their old values in
\* a new backup file; with a file of that name there nothing is done.
RewritePortal ==
  /\ pc \in {"idle", "over"}
  /\ result' = "none"
  /\ \/ portal' = "new" /\ pc' = "select" /\ UNCHANGED mishaps
     \/ Mishap /\ pc' = "idle" /\ UNCHANGED portal
  /\ UNCHANGED <<saved, item, field, clip, run>>

\* Applied rows only; a take that spans several files has paths elsewhere too.
Taken == ~row.spanned /\ row.phase = "done" /\ (Pending # {} \/ Relocated # {})

Select ==
  /\ pc = "select"
  /\ IF Taken
     THEN /\ todo' = Pending /\ again' = Relocated /\ resumed' = {}
          /\ pc' = IF Pending = {} THEN "recheck" ELSE "preflight"
          /\ UNCHANGED result
     ELSE End("skipped") /\ UNCHANGED run
  /\ UNCHANGED <<saved, item, field, portalRows, mishaps>>

\* No original may be in two places, or nowhere, or be another entity.
Refused(o) ==
  \/ Found(o, "old") = {} /\ Found(o, "new") = {}
  \/ Found(o, "old") # {} /\ Found(o, "new") # {}
  \/ Found(o, "old") # {} /\ plan[o].kind \notin Found(o, "old")

Refuse ==
  /\ pc = "preflight"
  /\ \E o \in todo : Refused(o)
  /\ End("refused")
  /\ UNCHANGED <<saved, item, field, portalRows, run, mishaps>>

\* What a killed run moved is taken for the plan's.
Killed == {o \in todo : Found(o, "old") = {}}
Projected ==
  [o \in Originals |-> IF o \in Killed THEN CHOOSE k \in Found(o, "new") : TRUE
                       ELSE plan[o].kind]

\* verify_item: the item has the one original shape, which names the entities
\* of the plan; and the rest of the item is as it was.
Verifies(kinds) == sound /\ shape = kinds
Planned == [o \in Originals |-> plan[o].kind]

\* This command has written to the row before.
Touched == Killed # {} \/ \E o \in Originals : plan[o].from

Preflight ==
  /\ pc = "preflight"
  /\ \A o \in todo : ~Refused(o)
  /\ resumed' = {<<o, Projected[o]>> : o \in Killed}
  /\ CASE Verifies(Projected) -> pc' = "move" /\ UNCHANGED result
       [] ~Verifies(Projected) /\ Touched -> pc' = "close" /\ UNCHANGED result
       [] ~Verifies(Projected) /\ ~Touched -> End("preexisting")
  /\ UNCHANGED <<saved, item, field, portalRows, todo, again, mishaps>>

\* The row is given up, but no entity that a killed run left OPEN stays so.
Close ==
  /\ pc = "close"
  /\ \/ \E r \in resumed :
          /\ entity' = [entity EXCEPT ![r[1]][r[2]].state = "ARCHIVED"]
          /\ resumed' = resumed \ {r}
          /\ UNCHANGED <<pc, result>>
     \/ /\ resumed = {}
        /\ End("verify fails")
        /\ UNCHANGED <<entity, resumed>>
  /\ UNCHANGED <<saved, shape, sound, field, portalRows, todo, again, mishaps>>

\* They are taken in the order of the plan.
Current == Min(todo)
At(step) == pc = step /\ todo # {}

\* Vidispine refuses a path that is taken.
PathTaken ==
  /\ At("move")
  /\ Found(Current, "old") # {} /\ Found(Current, "new") # {}
  /\ End("broken off")
  /\ UNCHANGED <<saved, item, field, portalRows, run, mishaps>>

\* Whatever is at the old path is moved; only the plan's is in the shape.
Move ==
  /\ At("move")
  /\ Found(Current, "old") # {} => Found(Current, "new") = {}
  /\ \/ /\ Found(Current, "old") = {}
        /\ UNCHANGED <<entity, shape>>
     \/ /\ "planned" \in Found(Current, "old")
        /\ entity' = [entity EXCEPT ![Current]["planned"].at = "gone",
                                    ![Current]["moved"] = [at |-> "new", state |-> "OPEN"]]
        /\ shape' = [shape EXCEPT ![Current] = "moved"]
     \/ /\ "stranger" \in Found(Current, "old")
        /\ entity' = [entity EXCEPT ![Current]["stranger"] = [at |-> "new", state |-> "OPEN"]]
        /\ UNCHANGED shape
  /\ pc' = "check"
  /\ UNCHANGED <<saved, sound, field, portalRows, run, result, mishaps>>

\* Broken: the plan is saved before the clip is pointed at the new entity.
OrderSwapped(step) ==
  CASE step = "check" -> "save"
    [] step = "save" -> IF Current = First THEN "name" ELSE "move"
    [] step = "name" -> "clip"
    [] step = "clip" -> "move"

\* What follows on the first original, and on the others.
Order(step) ==
  CASE step = "check" -> IF Current = First THEN "name" ELSE "save"
    [] step = "name" -> "clip"
    [] step = "clip" -> "save"
    [] step = "save" -> "move"

Behind(step) == IF Order(step) = "move" THEN todo \ {Current} ELSE todo

\* Broken: what a killed run moved is taken to be archived.
ArchiveOwn ==
  /\ At("check")
  /\ IF "moved" \in Found(Current, "new") /\ sound
     THEN /\ entity' = IF <<Current, "moved">> \in resumed THEN entity
                       ELSE [entity EXCEPT ![Current]["moved"].state = "ARCHIVED"]
          /\ pc' = Order("check")
          /\ UNCHANGED result
     ELSE End("unreferenced") /\ UNCHANGED entity
  /\ UNCHANGED <<saved, shape, sound, field, portalRows, run, mishaps>>

\* The entity now at the new path is in the shape, and is archived.
Archive ==
  /\ At("check")
  /\ IF "moved" \in Found(Current, "new") /\ sound
     THEN /\ entity' = [entity EXCEPT ![Current]["moved"].state = "ARCHIVED"]
          /\ pc' = Order("check")
          /\ UNCHANGED result
     ELSE End("unreferenced") /\ UNCHANGED entity
  /\ UNCHANGED <<saved, shape, sound, field, portalRows, run, mishaps>>

\* A name that someone edited is left.
Name ==
  /\ At("name")
  /\ field' = IF field = "old" THEN "new" ELSE field
  /\ pc' = Order("name")
  /\ UNCHANGED <<saved, item, portalRows, run, result, mishaps>>

\* One clip, on the old entity or already on the new one.
UpdateClip ==
  /\ At("clip")
  /\ IF clip \in {plan[First].kind, "moved"}
     THEN /\ clip' = "moved"
          /\ pc' = Order("clip") /\ todo' = Behind("clip")
          /\ UNCHANGED result
     ELSE End("no clip") /\ UNCHANGED <<clip, todo>>
  /\ UNCHANGED <<saved, item, field, portal, again, resumed, mishaps>>

\* The row as it was and what the next original is.
SavePlan ==
  /\ At("save")
  /\ plan' = [plan EXCEPT ![Current] = [kind |-> "moved", side |-> "new", from |-> TRUE]]
  /\ pc' = Order("save")
  /\ todo' = Behind("save")
  /\ UNCHANGED <<row, item, field, portalRows, again, resumed, result, mishaps>>

Moved ==
  /\ pc = "move" /\ todo = {}
  /\ pc' = "recheck"
  /\ UNCHANGED <<saved, item, field, portalRows, run, result, mishaps>>

\* Every original that an earlier run relocated is asked for again.
Recheck ==
  /\ pc = "recheck"
  /\ IF again = {}
     THEN pc' = "verify" /\ UNCHANGED <<entity, again, result>>
     ELSE \E o \in again :
            IF entity[o][plan[o].kind].at = "gone"
            THEN End("gone") /\ UNCHANGED <<entity, again>>
            ELSE /\ entity' = [entity EXCEPT ![o][plan[o].kind].state = "ARCHIVED"]
                 /\ again' = again \ {o}
                 /\ UNCHANGED <<pc, result>>
  /\ UNCHANGED <<saved, shape, sound, field, portalRows, todo, resumed, mishaps>>

Verify ==
  /\ pc = "verify"
  /\ End(IF Verifies(Planned) THEN "relocated" ELSE "verify fails")
  /\ UNCHANGED <<saved, item, field, portalRows, run, mishaps>>

-----------------------------------------------------------------------------
(* What may go wrong. *)

\* The process dies, or a call of Vidispine or the database raises.
Die ==
  /\ pc \notin {"idle", "over"}
  /\ Mishap
  /\ End("broken off")
  /\ UNCHANGED <<saved, item, field, portalRows, run>>

\* Someone registers a file at a path that is free, or takes it away again.
Squat(o) ==
  /\ Mishap
  /\ \/ \E side \in Sides :
          /\ Found(o, side) = {} /\ entity[o]["stranger"].at = "gone"
          /\ entity' = [entity EXCEPT ![o]["stranger"] = [at |-> side, state |-> "OPEN"]]
     \/ /\ entity[o]["stranger"].at # "gone"
        /\ entity' = [entity EXCEPT ![o]["stranger"] = NoEntity]
  /\ UNCHANGED <<saved, shape, sound, field, portalRows, pc, run, result>>

\* An entity in state OPEN has no file online: the storage scan drops it.
Lose(o) ==
  /\ Mishap
  /\ entity[o]["moved"] = [at |-> "new", state |-> "OPEN"]
  /\ entity' = [entity EXCEPT ![o]["moved"] = NoEntity]
  /\ UNCHANGED <<saved, shape, sound, field, portalRows, pc, run, result>>

\* Another shape becomes the item's original, and the old one comes back; or
\* the clip is pointed at another file.
Meddle ==
  /\ Mishap
  /\ \/ sound' = ~sound /\ UNCHANGED clip
     \/ clip' = "stranger" /\ UNCHANGED sound
  /\ UNCHANGED <<saved, shape, entity, field, portal, pc, run, result>>

Next ==
  \/ RewritePortal \/ Select \/ Refuse \/ Preflight \/ Close
  \/ PathTaken \/ Move \/ Archive \/ Name \/ UpdateClip \/ SavePlan
  \/ Moved \/ Recheck \/ Verify
  \/ Die \/ Meddle
  \/ \E o \in Originals : Squat(o) \/ Lose(o)

Spec == Init /\ [][Next]_vars

-----------------------------------------------------------------------------
TypeOK ==
  /\ row \in Rows
  /\ plan \in [Originals -> [kind : Kinds, side : Sides, from : BOOLEAN]]
  /\ shape \in [Originals -> Kinds]
  /\ entity \in [Originals -> [Kinds -> Entity]]
  /\ field \in {"old", "new", "other"} /\ clip \in Kinds /\ portal \in Sides
  /\ pc \in Steps /\ result \in Results
  /\ todo \cup again \subseteq Originals
  /\ resumed \subseteq Originals \X Kinds
  /\ mishaps \in 0 .. MaxMishaps

Open == {o \in Originals : entity[o]["moved"] = [at |-> "new", state |-> "OPEN"]}

\* A run that reports the row relocated leaves it whole, however often it was
\* killed before: plan, shape, item and clip (unless someone pointed it
\* elsewhere) name the entity at the new path, and none of the row's is open
\* for Vidispine to drop.
Settled ==
  result = "relocated" =>
    /\ Pending = {} /\ Open = {}
    /\ \A o \in Originals : plan[o].kind = "moved" /\ plan[o].kind \in Found(o, "new")
    /\ clip # "planned"
    /\ field # "old" /\ portal = "new"

\* A row that this command has moved something of is never called a stranger's
\* failure, and a verdict on the item leaves no entity open.
OwnFailure ==
  /\ result = "preexisting" => \A o \in Originals : shape[o] = "planned"
  /\ result = "verify fails" => Open = {}

-----------------------------------------------------------------------------
(* What the relocation is for: the entities and who names them. *)

\* The entity of an original's component.
Held ==
  [o \in Originals |->
     IF entity[o]["planned"].at = "old" THEN "planned"
     ELSE IF entity[o]["moved"].at = "gone" THEN "dropped"
     ELSE IF entity[o]["moved"].state = "OPEN" THEN "open" ELSE "archived"]

Recorded == {o \in Originals : plan[o].side = "new"}

Pointed == clip # "planned" /\ field # "old"
=============================================================================
