----------------------------- MODULE GrabState -----------------------------
(* Pointer and keyboard focus and pressed buttons (src/grab_state.rs), per   *)
(* device guest id.  Surface 0 is "no surface entered".  A missing entry of  *)
(* the Rust maps is the default state, which reports no grab.                *)
new_grabs(ids) ==
  [ pointers  |-> [p \in ids |-> [entered_surface |-> 0, pressed_buttons |-> {}]],
    keyboards |-> [k \in ids |-> [entered_surface |-> 0]] ]

on_pointer_enter(t, p, surface) == [t EXCEPT !.pointers[p].entered_surface = surface]
on_pointer_leave(t, p) == [t EXCEPT !.pointers[p].entered_surface = 0]
on_pointer_button(t, p, button, pressed) ==
  [t EXCEPT !.pointers[p].pressed_buttons = IF pressed THEN @ \cup {button} ELSE @ \ {button}]
on_keyboard_enter(t, k, surface) == [t EXCEPT !.keyboards[k].entered_surface = surface]
on_keyboard_leave(t, k) == [t EXCEPT !.keyboards[k].entered_surface = 0]

\* Wrong: a button still held after the pointer left is not a grab.
PointersOverSurface(t) == {p \in DOMAIN t.pointers : t.pointers[p].entered_surface # 0}

active_pointer_grabs(t) ==
  {p \in DOMAIN t.pointers :
     t.pointers[p].entered_surface # 0 \/ t.pointers[p].pressed_buttons # {}}
active_keyboard_grabs(t) ==
  {k \in DOMAIN t.keyboards : t.keyboards[k].entered_surface # 0}

clear(t) == new_grabs(DOMAIN t.pointers)
=============================================================================
