------------------------------ MODULE Keyboard ------------------------------
(***************************************************************************)
(* modules/m3/k-hardware.c: keyboard_readc decodes the scan codes of the   *)
(* PC keyboard one byte per call, keeping modifiers and last_escape in     *)
(* static variables that also outlive a soft reboot; check_keyboard acts   *)
(* on the character; poweroff searches the PCI bus for the controller that *)
(* turns the machine off.  Keyboard and PCI bus are external.              *)
(***************************************************************************)
EXTENDS Integers, Sequences, FiniteSets

CONSTANTS
    Keys,       \* keys that are used, of DOMAIN Scan
    QueueSize,  \* bytes the keyboard controller holds
    Funcs       \* PCI functions of a slot

VARIABLES
    held,         \* keys held down
    queue,        \* bytes not yet read, each with the key and the keys held then
    modifiers,    \* as a set
    last_escape,
    typed,        \* the byte keyboard_readc read last
    ch,           \* what it returned
    power,        \* "on", or what poweroff did
    pci           \* the devices poweroff saw

vars == <<held, queue, modifiers, last_escape, typed, ch, power, pci>>

(* Make codes; those above 128 are sent with the prefix 0xE0. *)
Scan == [lshift |-> 42, rshift |-> 54, lctrl |-> 29, rctrl |-> 157, lalt |-> 56,
         ralt |-> 184, caps |-> 58, a |-> 30, c |-> 46, q |-> 16, one |-> 2,
         pad8 |-> 72, up |-> 200]
Prefix == 224

ConstantsOK == Keys \subseteq DOMAIN Scan /\ QueueSize \in Nat

KEY_SHIFT == "SHIFT"
KEY_CONTROL == "CONTROL"
KEY_ALT == "ALT"
KEY_CAPSLOCK == "CAPSLOCK"
Letters == {"a", "c", "q"}

keymap(i) ==
    CASE i \in {42, 54} -> KEY_SHIFT
      [] i \in {29, 157} -> KEY_CONTROL
      [] i \in {56, 184} -> KEY_ALT
      [] i = 58 -> KEY_CAPSLOCK
      [] i = 30 -> "a"
      [] i = 46 -> "c"
      [] i = 16 -> "q"
      [] i = 2 -> "CKEY(0)"
      [] i = 72 -> "8"
      [] i = 200 -> "UP"
      [] OTHER -> "none"

complex_keymap == [plain |-> "1", shift |-> "!"]

-----------------------------------------------------------------------------
(* The keyboard: press, typematic repeat and release. *)
ScanCode(k, down) == (Scan[k] % 128) + (IF down THEN 0 ELSE 128)

Send(k, down, keys) ==
    LET Sent(b) == [byte |-> b, key |-> k, held |-> keys]
        Escaped == IF Scan[k] > 128 THEN Append(queue, Sent(Prefix)) ELSE queue
    IN /\ Len(Escaped) < QueueSize
       /\ queue' = Append(Escaped, Sent(ScanCode(k, down)))
       /\ held' = keys
       /\ UNCHANGED <<modifiers, last_escape, typed, ch, power, pci>>

Press == power = "on" /\ \E k \in Keys : Send(k, TRUE, held \union {k})
Release == power = "on" /\ \E k \in held : Send(k, FALSE, held \ {k})

-----------------------------------------------------------------------------
(* The character a key press returns, under the modifiers. *)
Character(key) ==
    CASE key \in Letters ->
           IF KEY_CONTROL \in modifiers THEN <<"ctrl", key>>
           ELSE IF (KEY_SHIFT \in modifiers) # (KEY_CAPSLOCK \in modifiers)
                THEN <<"upper", key>> ELSE <<"plain", key>>
      [] key = "CKEY(0)" ->
           IF KEY_CONTROL \in modifiers THEN <<"none", "none">>
           ELSE <<"plain", IF KEY_SHIFT \in modifiers THEN complex_keymap.shift
                           ELSE complex_keymap.plain>>
      [] key = "8" -> IF KEY_CONTROL \in modifiers THEN <<"none", "none">> ELSE <<"plain", "8">>
      [] key = "UP" -> <<"special", "UP">>
      [] OTHER -> <<"none", "none">>

Modifier == {KEY_SHIFT, KEY_CONTROL, KEY_ALT}
Released(key) == modifiers \ ({key} \intersect Modifier)

Escape_dropped(data) == FALSE
Escape(data) == data = Prefix

keyboard_readc ==
    /\ queue # <<>>
    /\ typed' = Head(queue)
    /\ queue' = Tail(queue)
    /\ LET data == Head(queue).byte
           key == keymap((data % 128) + (IF last_escape THEN 128 ELSE 0))
       IN /\ last_escape' = Escape(data)
          /\ modifiers' =
               CASE data = Prefix -> modifiers
                 [] data # Prefix /\ data >= 128 -> Released(key)
                 [] data < 128 ->
                      IF key = KEY_CAPSLOCK
                      THEN (modifiers \union {key}) \ (modifiers \intersect {key})
                      ELSE modifiers \union ({key} \intersect Modifier)
          /\ ch' = IF data >= 128 THEN <<"none", "none">> ELSE Character(key)
    /\ UNCHANGED held

-----------------------------------------------------------------------------
(* pci_find_device: buses, slots and functions in order; a slot whose      *)
(* function 0 is absent is skipped.  Addresses are numbered in that order  *)
(* over two slots.                                                         *)
Last == 2 * Funcs
Func(i) == (i - 1) % Funcs
Devices == {d \in [1 .. Last -> {"absent", "other", "PIIX4"}] :
              Cardinality({i \in 1 .. Last : d[i] # "absent"}) <= 2}

pci_find_device(d) ==
    LET Find[i \in 1 .. Last + Funcs] ==
          IF i > Last THEN 0
          ELSE IF d[i] = "PIIX4" THEN i
          ELSE IF d[i] = "absent" /\ Func(i) = 0 THEN Find[i + Funcs] ELSE Find[i + 1]
    IN Find[1]

poweroff ==
    \E d \in Devices :
        /\ pci' = d
        /\ power' = IF pci_find_device(d) > 0 THEN "off" ELSE "spinning"

(* check_keyboard: a soft reboot leaves every variable here as it is. *)
check_keyboard ==
    /\ power = "on"
    /\ keyboard_readc
    /\ IF ch' \in {<<"ctrl", "c">>, <<"plain", "q">>} THEN poweroff
       ELSE UNCHANGED <<power, pci>>

Init ==
    /\ held = {} /\ queue = <<>>
    /\ modifiers = {} /\ last_escape = FALSE
    /\ typed = [byte |-> 0, key |-> "none", held |-> {}]
    /\ ch = <<"none", "none">>
    /\ power = "on" /\ pci = [i \in 1 .. Last |-> "absent"]

Next == Press \/ Release \/ check_keyboard

Spec == Init /\ [][Next]_vars

-----------------------------------------------------------------------------
Symbols == [a |-> {"a"}, c |-> {"c"}, q |-> {"q"}, one |-> {"1", "!"},
            pad8 |-> {"8"}, up |-> {"UP"}]

(* A character is the one of the key that was pressed, however presses,   *)
(* repeats and releases of prefixed keys interleave, and it is a control  *)
(* or shifted character only if such a key was down at the press.         *)
CharactersAsTyped ==
    ch # <<"none", "none">> =>
        /\ ch[2] \in Symbols[typed.key]
        /\ ch[1] = "ctrl" => typed.held \intersect {"lctrl", "rctrl"} # {}
        /\ (ch[1] = "upper" /\ KEY_CAPSLOCK \notin modifiers) \/ ch[2] = "!"
             => typed.held \intersect {"lshift", "rshift"} # {}
=============================================================================
