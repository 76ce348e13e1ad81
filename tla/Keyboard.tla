------------------------------ MODULE Keyboard ------------------------------
(* The keyboard driver (devices/kbd.c): scancodes of pressed and released    *)
(* keys become shift states and characters.  Four keys stand for all: a      *)
(* letter, a key whose character depends on Shift, one whose shifted         *)
(* character Ctrl changes too, and Delete.                                   *)
EXTENDS Integers, FiniteSets

CONSTANT MaxDown   \* bound: keys held down at a time

VARIABLES down,       \* keys that are held down
          state_var,  \* left_shift to right_ctrl
          caps_lock,
          typed,      \* last character passed to input_putc, and how it came about
          rebooted

kbdVars == <<down, state_var, caps_lock, typed, rebooted>>

shift_keys == {"left_shift", "right_shift", "left_alt", "right_alt",
               "left_ctrl", "right_ctrl"}
CharKeys == {"A", "1", "2", "delete"}
KbdKeys == shift_keys \cup CharKeys \cup {"caps"}

KbdInit == /\ down = {} /\ state_var = [k \in shift_keys |-> FALSE]
           /\ caps_lock = FALSE /\ rebooted = FALSE
           /\ typed = [key |-> "none", char |-> 0, held |-> {}, caps |-> FALSE]

-----------------------------------------------------------------------------
shift == state_var["left_shift"] \/ state_var["right_shift"]
alt == state_var["left_alt"] \/ state_var["right_alt"]
ctrl == state_var["left_ctrl"] \/ state_var["right_ctrl"]

\* A, 1 or !, 2 or @, Delete.
map_key(k) == CASE k = "A" -> 65
                [] k = "1" -> IF shift THEN 33 ELSE 49
                [] k = "2" -> IF shift THEN 64 ELSE 50
                [] k = "delete" -> 127
tolower(c) == IF c \in 65..90 THEN c + 32 ELSE c
\* Ctrl overrides Shift; Alt sets the high bit.
character(c) ==
  LET x == IF ctrl /\ c \in 64..95 THEN c - 64
           ELSE IF shift = caps_lock THEN tolower(c) ELSE c
  IN  IF alt THEN x + 128 ELSE x

\* Slip of the next: the left and the right key of a kind are not told apart.
state_after_either(k, pressed) ==
  LET pairs == {{"left_shift", "right_shift"}, {"left_alt", "right_alt"},
                {"left_ctrl", "right_ctrl"}}
      same == UNION { p \in pairs : k \in p }
  IN  [x \in shift_keys |-> IF x \in same THEN pressed ELSE state_var[x]]
state_after(k, pressed) == [state_var EXCEPT ![k] = pressed]

\* A make code; a key that is held down goes on sending it.
press(k) ==
  /\ ~rebooted /\ Cardinality(down \cup {k}) <= MaxDown
  /\ down' = down \cup {k}
  /\ state_var' = IF k \in shift_keys THEN state_after(k, TRUE) ELSE state_var
  /\ caps_lock' = IF k = "caps" THEN ~caps_lock ELSE caps_lock
  /\ rebooted' = (k = "delete" /\ ctrl /\ alt)
  \* When the buffer is full the character is dropped.
  /\ \/ UNCHANGED typed
     \/ /\ k \in CharKeys /\ ~rebooted'
        /\ typed' = [key |-> k, char |-> character(map_key(k)),
                     held |-> down \cap shift_keys, caps |-> caps_lock]

\* A break code.
release(k) ==
  /\ ~rebooted /\ k \in down
  /\ down' = down \ {k}
  /\ state_var' = IF k \in shift_keys THEN state_after(k, FALSE) ELSE state_var
  /\ UNCHANGED <<caps_lock, typed, rebooted>>

KbdNext == \E k \in KbdKeys : press(k) \/ release(k)
KbdSpec == KbdInit /\ [][KbdNext]_kbdVars

-----------------------------------------------------------------------------
(* Properties.                                                               *)

\* A character is what the keys held down with it make it, whichever of two
\* shift keys were pressed and released before, in any order: a letter is
\* capital when Shift or Caps Lock is on but not both, Ctrl makes it a control
\* character, Caps Lock changes nothing else (kbd.c:112-150, 171-192).
TypedRight ==
  LET h == typed.held
      shifted == h \cap {"left_shift", "right_shift"} # {}
      controlled == h \cap {"left_ctrl", "right_ctrl"} # {}
      high == IF h \cap {"left_alt", "right_alt"} # {} THEN 128 ELSE 0
      plain == CASE typed.key = "A" -> IF controlled THEN 1
                                       ELSE IF shifted # typed.caps THEN 65 ELSE 97
                 [] typed.key = "1" -> IF shifted THEN 33 ELSE 49
                 [] typed.key = "2" -> IF ~shifted THEN 50 ELSE IF controlled THEN 0 ELSE 64
                 [] OTHER -> 127
  IN  typed.key # "none" => typed.char = plain + high
=============================================================================
