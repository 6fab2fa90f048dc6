----------------------------- MODULE TaskStack -----------------------------
(***************************************************************************)
(* The root shell's task stack and the routing of owned messages           *)
(* (internal/tui/taskrouting.go and the stack half of internal/tui/        *)
(* model.go), as operators on one record:                                  *)
(*                                                                         *)
(*   ui.task    the active screen                                          *)
(*   ui.stack   the screens parked under it, each with the messages that   *)
(*              arrived for it while it was covered                        *)
(*   ui.last    the last routing identity handed out                       *)
(*   ui.conn    the connection state the root last heard, Unknown before   *)
(*   ui.flight  what the screens' own commands have still to deliver       *)
(*                                                                         *)
(* Every screen arms one self-rescheduling chain when it is built (a poll, *)
(* a spinner, a clock: "tick"), and each delivery arms the next link.      *)
(* "open" is a load whose result makes its screen push another one. The    *)
(* end of a rebuild that a setup screen asked for, "failed", is routed the *)
(* same way.                                                               *)
(***************************************************************************)
EXTENDS Naturals, Sequences, FiniteSets, SequencesExt

Connected       == "Connected"
Reconnecting    == "Reconnecting"
Unauthenticated == "Unauthenticated"
Phases          == {Connected, Reconnecting, Unauthenticated}
Unknown         == "unknown"                \* ConnState's zero value

Offline(p) == p \in {Reconnecting, Unauthenticated}

Kinds == {"browse", "setup", "detail", "transient"}
Whats == {"tick", "open", "failed"}

Owned(id, what) == [owner |-> id, what |-> what]

Entry(t) == [task |-> t, held |-> <<>>]

NewTask(id, kind) == [id |-> id, kind |-> kind, conn |-> Unknown, retrying |-> FALSE]

(* The shell at launch: the root screen has the zero identity.            *)
RootTask(kind) ==
  [task |-> NewTask(0, kind), stack |-> <<>>, last |-> 0, conn |-> Unknown,
   flight |-> {Owned(0, "tick")}]

-----------------------------------------------------------------------------
Push(ui) == [ui EXCEPT !.stack = Append(@, Entry(ui.task))]

Replayed(t, conn) == IF conn = Unknown THEN t ELSE [t EXCEPT !.conn = conn]

Unreplayed(ui, t) == [ui EXCEPT !.task = t]
Activate(ui, t) == [ui EXCEPT !.task = Replayed(t, ui.conn)]

(* The active screen's Init, or the chain's next link.                     *)
Armed(ui) == [ui EXCEPT !.flight = @ \cup {Owned(ui.task.id, "tick")}]

ActivateFresh(ui, kind) ==
  Armed(Activate([ui EXCEPT !.last = @ + 1], NewTask(ui.last + 1, kind)))

StartsOver(ui, kind) == ActivateFresh([ui EXCEPT !.stack = <<>>], kind)

(* A screen's Update returned another screen: its parent is parked, unless *)
(* it was a transient one, which the new screen replaces.                  *)
OpensChild(ui, kind) ==
  ActivateFresh(IF ui.task.kind = "transient" THEN ui ELSE Push(ui), kind)

Forward(ui, what) ==
  CASE what = "tick"   -> Armed(ui)
    [] what = "open"   -> OpensChild(ui, "detail")
    [] what = "failed" -> [ui EXCEPT !.task.retrying = FALSE]

ForwardConn(ui, phase) == [ui EXCEPT !.task.conn = phase]

HoldFor(ui, id, what) ==
  LET kept(e) == IF e.task.id = id THEN [e EXCEPT !.held = Append(@, what)] ELSE e
  IN  [ui EXCEPT !.stack = [i \in DOMAIN @ |-> kept(@[i])]]

(* To the active screen, into its owner's entry, or nowhere.               *)
RouteOwned(ui, id, what) ==
  IF id = ui.task.id THEN Forward(ui, what) ELSE HoldFor(ui, id, what)

RestDropped(ui, entry) ==
  FoldLeft(LAMBDA u, what : IF u.task.id = entry.task.id THEN Forward(u, what) ELSE u,
           ui, entry.held)

(* In arrival order, until one of them makes the screen open another: the  *)
(* rest wait for it again, or are dropped when it replaced itself.         *)
DeliverHeld(ui, entry) ==
  FoldLeft(LAMBDA u, what : IF u.task.id = entry.task.id THEN Forward(u, what)
                            ELSE HoldFor(u, entry.task.id, what),
           ui, entry.held)

PopTask(ui) ==
  IF ui.stack = <<>> THEN ui
  ELSE DeliverHeld(Activate([ui EXCEPT !.stack = Front(@)], Last(ui.stack).task),
                   Last(ui.stack))

(* A jump from a resting screen stays in it; from a pushed one it opens a  *)
(* fresh browse view on top.                                               *)
RouteGoto(ui) == IF ui.stack = <<>> THEN ui ELSE ActivateFresh(Push(ui), "browse")

OpenUpdatePanel(ui) == ActivateFresh(Push(ui), "detail")

-----------------------------------------------------------------------------
Entries(ui) == Append(ui.stack, Entry(ui.task))

TicksHeld(e) == Cardinality({j \in DOMAIN e.held : e.held[j] = "tick"})
TicksDue(ui, id) == Cardinality({om \in ui.flight : om.owner = id /\ om.what = "tick"})

(* No two screens share an identity, and the chain of every screen, active *)
(* or parked, has exactly one link: on its way or held, never both.        *)
ChainsAlive(ui) ==
  \A i \in DOMAIN Entries(ui) :
     LET e == Entries(ui)[i]
     IN /\ \A j \in DOMAIN Entries(ui) : Entries(ui)[j].task.id = e.task.id => i = j
        /\ TicksHeld(e) + TicksDue(ui, e.task.id) = 1
=============================================================================
