--------------------------------- MODULE Console --------------------------------
(***************************************************************************)
(* The console: the keyboard driver (dev/ps2/kbd.c), the standard files    *)
(* (fs/std.c), the shell that reads and echoes what is typed               *)
(* (user/stdio.c, user/shell.c), and the cursor of the screen              *)
(* (gui/screen.c).                                                         *)
(*                                                                         *)
(* The shell polls the keyboard in sys_read.  The keyboard's interrupt,    *)
(* which runs the same decoder and drops the character, is only taken      *)
(* during boot: the second ioapic_init masks its line and nothing opens it *)
(* again (module Interrupts, PollingOnly).                                 *)
(*                                                                         *)
(* A column is BYTE_SIZE pixels wide; rows are counted in pixels.          *)
(***************************************************************************)
EXTENDS Integers, Sequences, FiniteSetsExt

CONSTANTS
    Letters, Others,    \* keys with and without a capital
    Modifiers,          \* keys with a shiftcode: a function to it
    Extended,           \* keys sent with the prefix 0xE0
    BufSize,            \* the bytes that the keyboard keeps
    MaxStrokes,         \* bound: keys pressed and released
    Width, Height,      \* the screen, in columns and in pixels
    BYTES_PER_CHAR,     \* the height of a character
    CHARS_PER_TAB,
    Back                \* whether a backspace is printed at the start of a line

CAPS == "capslock"
Keys == Letters \cup Others \cup DOMAIN Modifiers \cup {CAPS}

(* The keys are of different kinds and none is the prefix; the screen has   *)
(* room for a character.                                                    *)
ASSUME ConsoleAssumption ==
    /\ Modifiers \in [DOMAIN Modifiers -> {"SHIFT", "CTL", "ALT"}]
    /\ (Letters \cup Others) \cap DOMAIN Modifiers = {}
    /\ CAPS \notin Letters \cup Others \cup DOMAIN Modifiers /\ "E0" \notin Keys
    /\ BufSize \in Nat /\ MaxStrokes \in Nat /\ CHARS_PER_TAB \in Nat
    /\ Width \in Nat \ {0} /\ BYTES_PER_CHAR \in Nat \ {0}
    /\ Height \in Nat /\ BYTES_PER_CHAR <= Height

VARIABLES
    buf, irq,           \* bytes not yet read, and the interrupt for them
    held, caps, typed,  \* the keys down, the lock, the characters meant
    strokes,
    shift,              \* the decoder's state
    mode, c,            \* what the shell does, and with which character
    got,                \* the characters that the shell has read
    lost,               \* how many characters the interrupt has dropped
    x, y, drawn         \* the cursor, and where the last step drew a character

kbd == <<buf, irq, held, caps, typed, strokes>>
screen == <<x, y, drawn>>
vars == <<kbd, shift, mode, c, got, lost, screen>>
--------------------------------------------------------------------------------
NO == <<"NO">>
E0 == [key |-> "E0", up |-> FALSE]

Codes(k, up) ==
    (IF k \in Extended THEN <<E0>> ELSE <<>>) \o <<[key |-> k, up |-> up]>>

shiftcode(k) == IF k \in DOMAIN Modifiers THEN {Modifiers[k]} ELSE {}
togglecode(k) == IF k = CAPS THEN {"CAPSLOCK"} ELSE {}

(* The character of a key: the map chosen by CTL and SHIFT, then CAPSLOCK.  *)
charcode(k, s) ==
    IF k \notin Letters \cup Others THEN NO
    ELSE IF "CTL" \in s THEN <<k, "ctl">>
    ELSE IF ("SHIFT" \in s) # ("CAPSLOCK" \in s /\ k \in Letters) THEN <<k, "upper">>
    ELSE <<k, "lower">>

(* The state of the decoder after a byte.  An extended key and the plain    *)
(* one with the same code have codes of their own.                          *)
ShiftAfterHeld(s, byte) ==
    IF byte = E0 THEN s \cup {"E0ESC"}
    ELSE IF byte.up THEN s \ {"E0ESC"}
    ELSE SymDiff((s \ {"E0ESC"}) \cup shiftcode(byte.key), togglecode(byte.key))

ShiftAfter(s, byte) ==
    IF byte = E0 THEN s \cup {"E0ESC"}
    ELSE IF byte.up THEN s \ (shiftcode(byte.key) \cup {"E0ESC"})
    ELSE SymDiff((s \ {"E0ESC"}) \cup shiftcode(byte.key), togglecode(byte.key))

DecodedUp(s, byte) == IF byte = E0 THEN NO ELSE charcode(byte.key, ShiftAfter(s, byte))

Decoded(s, byte) ==
    IF byte = E0 \/ byte.up THEN NO ELSE charcode(byte.key, ShiftAfter(s, byte))

RestKept(b) == b

Rest(b) == Tail(b)

(* ps2_kbd_getc with a byte in the controller, which then raises the        *)
(* interrupt for the next one.                                              *)
ps2_kbd_getc ==
    /\ buf # <<>>
    /\ shift' = ShiftAfter(shift, Head(buf))
    /\ buf' = Rest(buf)

(* The keyboard: keys go down, repeat, and go up.                           *)
Meant(k) == charcode(k, {Modifiers[m] : m \in held \cap DOMAIN Modifiers} \cup caps)

Stroke(k, up) ==
    /\ strokes < MaxStrokes /\ Len(buf) + Len(Codes(k, up)) <= BufSize
    /\ strokes' = strokes + 1
    /\ buf' = buf \o Codes(k, up)
    /\ irq' = TRUE
    /\ UNCHANGED <<shift, mode, c, got, lost, screen>>

Press(k) ==
    /\ Stroke(k, FALSE)
    /\ held' = held \cup {k}
    /\ caps' = SymDiff(caps, togglecode(k))
    /\ typed' = IF Meant(k) = NO THEN typed ELSE Append(typed, Meant(k))

Release(k) ==
    /\ k \in held
    /\ Stroke(k, TRUE)
    /\ held' = held \ {k}
    /\ UNCHANGED <<caps, typed>>

(* The interrupt's handler drops what it has read.                          *)
interruptHandler ==
    /\ mode = "boot" /\ irq
    /\ irq' = (Len(buf) > 1)
    /\ ps2_kbd_getc
    /\ lost' = IF Decoded(shift, Head(buf)) = NO THEN lost ELSE lost + 1
    /\ UNCHANGED <<held, caps, typed, strokes, mode, c, got, screen>>

(* The second ioapic_init, some time before the shell starts.               *)
ioapic_init ==
    /\ mode = "boot"
    /\ mode' = "run"
    /\ UNCHANGED <<kbd, shift, c, got, lost, screen>>

(* stdinRead, called by getc until it returns a character.                  *)
stdinRead ==
    /\ mode = "read"
    /\ ps2_kbd_getc
    /\ IF Decoded(shift, Head(buf)) = NO THEN UNCHANGED <<mode, c, got>>
       ELSE /\ mode' = "echo" /\ c' = Decoded(shift, Head(buf))
            /\ got' = Append(got, c')
    /\ UNCHANGED <<irq, held, caps, typed, strokes, lost, screen>>
--------------------------------------------------------------------------------
(* drawc: the place of a character, and of the cursor behind it.            *)
AfterDraw(col, row) ==
    IF col + 2 > Width THEN <<0, row + BYTES_PER_CHAR>> ELSE <<col + 1, row>>

AfterTab(col, row) ==
    IF col + CHARS_PER_TAB + 1 <= Width THEN <<col + CHARS_PER_TAB, row>>
    ELSE <<0, row + BYTES_PER_CHAR>>

AfterBack(col, row) ==
    IF col = 0 /\ row = 0 THEN <<0, 0>>
    ELSE IF col = 0 THEN <<Width, row - 1>>
    ELSE <<col - 1, row>>

(* screen_putc scrolls, that is clears the screen, if there is no room for  *)
(* a line.                                                                  *)
RoomyAlways(col, row) == <<col, row>>

Roomy(col, row) == IF row + BYTES_PER_CHAR > Height THEN <<0, 0>> ELSE <<col, row>>

screen_putc(kind) ==
    LET at == Roomy(x, y)
        to == CASE kind = "newline" -> <<0, at[2] + BYTES_PER_CHAR>>
                [] kind = "tab" -> AfterTab(at[1], at[2])
                [] kind = "back" -> AfterBack(at[1], at[2])
                [] OTHER -> AfterDraw(at[1], at[2])
    IN  /\ x' = to[1] /\ y' = to[2]
        /\ drawn' = IF kind \in {"newline", "tab", "back"} THEN <<0, 0>> ELSE at

Kind(ch) ==
    IF ch[2] = "ctl" THEN "glyph"
    ELSE CASE ch[1] = "enter" -> "newline" [] ch[1] = "back" -> "back" [] OTHER -> "glyph"

(* getc echoes every character; at the end of a line the shell runs a       *)
(* command, which prints anything, and prompts.                             *)
Echo ==
    /\ mode = "echo"
    /\ screen_putc(Kind(c))
    /\ mode' = IF Kind(c) = "newline" THEN "run" ELSE "read"
    /\ c' = NO
    /\ UNCHANGED <<kbd, shift, got, lost>>

stdoutWrite(kind) ==
    /\ mode = "run"
    /\ kind = "back" /\ x = 0 => Back
    /\ screen_putc(kind)
    /\ UNCHANGED <<kbd, shift, mode, c, got, lost>>

Prompt ==
    /\ mode = "run"
    /\ mode' = "read"
    /\ UNCHANGED <<kbd, shift, c, got, lost, screen>>

(* The command exit, after which nobody reads.                              *)
Exit ==
    /\ mode = "run" /\ got # <<>>
    /\ mode' = "exited"
    /\ UNCHANGED <<kbd, shift, c, got, lost, screen>>

Init ==
    /\ buf = <<>> /\ irq = FALSE
    /\ held = {} /\ caps = {} /\ typed = <<>> /\ strokes = 0
    /\ shift = {} /\ mode = "boot" /\ c = NO /\ got = <<>> /\ lost = 0
    /\ x = 0 /\ y = 0 /\ drawn = <<0, 0>>

Next ==
    \/ \E k \in Keys : Press(k) \/ Release(k)
    \/ interruptHandler \/ ioapic_init
    \/ stdinRead
    \/ Echo \/ Prompt \/ Exit
    \/ \E kind \in {"glyph", "newline", "tab", "back"} : stdoutWrite(kind)

(* Boot ends, the shell is scheduled again and again, and its commands end. *)
Spec ==
    /\ Init /\ [][Next]_vars
    /\ WF_vars(ioapic_init)
    /\ WF_vars(stdinRead \/ Echo)
    /\ WF_vars(Prompt \/ Exit)
--------------------------------------------------------------------------------
TypeOK ==
    /\ Len(buf) <= BufSize /\ irq \in BOOLEAN /\ lost \in 0 .. MaxStrokes
    /\ held \subseteq Keys
    /\ shift \subseteq {"SHIFT", "CTL", "ALT", "CAPSLOCK", "E0ESC"}
    /\ mode \in {"boot", "read", "echo", "run", "exited"} /\ (mode = "echo" <=> c # NO)
    /\ x \in 0 .. Width /\ y \in 0 .. Height

(* Whichever of the interrupt and the polling shell reads a byte, and even  *)
(* if boot ends between the two bytes of an extended key, the decoder       *)
(* follows the keyboard: once all is read, its modifiers are the keys held. *)
ModifiersTrack ==
    buf = <<>> => shift = {Modifiers[m] : m \in held \cap DOMAIN Modifiers} \cup caps

(* What the shell reads is what was typed, in that order and with the       *)
(* modifiers that were held when it was typed, except for the characters    *)
(* that the interrupt dropped during boot: none of the others is lost.      *)
InOrder ==
    /\ lost + Len(got) <= Len(typed)
    /\ got = SubSeq(typed, lost + 1, lost + Len(got))
    /\ buf = <<>> => lost + Len(got) = Len(typed)

(* A character is drawn inside the screen, lines do not overlap, and the    *)
(* cursor stays on the screen, after any text with tabs, ends of lines and  *)
(* of the screen.                                                           *)
DrawsInside ==
    /\ TypeOK
    /\ drawn[1] + 1 <= Width /\ drawn[2] + BYTES_PER_CHAR <= Height
    /\ y % BYTES_PER_CHAR = 0

(* The keyboard is never left with bytes that nobody reads, although its    *)
(* interrupt stays masked: while it runs, the shell comes back to read.     *)
Drained == buf # <<>> ~> buf = <<>> \/ mode = "exited"
================================================================================
