----------------------------- MODULE ConsoleProofs -----------------------------
(***************************************************************************)
(* The console, for every set of keys, every size of the keyboard's buffer *)
(* and of the screen: the decoder follows the keyboard, the shell reads    *)
(* what was typed, and characters are drawn inside the screen.             *)
(***************************************************************************)
EXTENDS Console, SequenceTheorems, TLAPS

Flags == {"SHIFT", "CTL", "ALT", "CAPSLOCK", "E0ESC"}

Char == (Letters \cup Others) \X {"ctl", "upper", "lower"}

Byte == {E0} \cup {[key |-> k, up |-> FALSE] : k \in Keys}
             \cup {[key |-> k, up |-> TRUE] : k \in Keys}

(* The modifiers of a keyboard on which the keys h are held down.           *)
Target(h, cp) == {Modifiers[m] : m \in h \cap DOMAIN Modifiers} \cup cp

(* No two keys have the same shiftcode.  On a keyboard with two shift keys  *)
(* this says that one of them is used: with both held, releasing either     *)
(* clears the decoder's one bit for them.                                   *)
OneKeyEach == \A m, n \in DOMAIN Modifiers : Modifiers[m] = Modifiers[n] => m = n
--------------------------------------------------------------------------------
(* The decoder on a single byte.                                            *)
LEMMA PrefixByte ==
    ASSUME NEW s
    PROVE  ShiftAfter(s, E0) = s \cup {"E0ESC"} /\ Decoded(s, E0) = NO
  BY DEF ShiftAfter, Decoded

LEMMA KeyByte ==
    ASSUME NEW s, NEW k \in Keys, NEW up \in BOOLEAN
    PROVE  LET b == [key |-> k, up |-> up] IN
           /\ b # E0
           /\ up => /\ ShiftAfter(s, b) = s \ (shiftcode(k) \cup {"E0ESC"})
                    /\ Decoded(s, b) = NO
           /\ ~up => /\ ShiftAfter(s, b)
                          = SymDiff((s \ {"E0ESC"}) \cup shiftcode(k), togglecode(k))
                     /\ Decoded(s, b) = charcode(k, ShiftAfter(s, b))
<1> DEFINE b == [key |-> k, up |-> up]
<1>1. b.key = k /\ b.up = up
  BY Zenon
<1>2. b # E0
  <2>1. E0.key = "E0" /\ k # "E0"
    BY ConsoleAssumption DEF E0
  <2> QED BY <1>1, <2>1, Zenon
<1> HIDE DEF b
<1>3. up => ShiftAfter(s, b) = s \ (shiftcode(k) \cup {"E0ESC"}) /\ Decoded(s, b) = NO
  BY <1>1, <1>2, Zenon DEF ShiftAfter, Decoded
<1>4. ~up => /\ ShiftAfter(s, b)
                  = SymDiff((s \ {"E0ESC"}) \cup shiftcode(k), togglecode(k))
             /\ Decoded(s, b) = charcode(k, ShiftAfter(s, b))
  <2>1. ~up => ShiftAfter(s, b)
                  = SymDiff((s \ {"E0ESC"}) \cup shiftcode(k), togglecode(k))
    BY <1>1, <1>2, Zenon DEF ShiftAfter
  <2>2. ~up => Decoded(s, b) = charcode(k, ShiftAfter(s, b))
    BY <1>1, <1>2, Zenon DEF Decoded
  <2> QED BY <2>1, <2>2
<1> QED BY <1>2, <1>3, <1>4 DEF b

LEMMA KeyKinds ==
    ASSUME NEW k \in Keys
    PROVE  \/ k \in Letters \cup Others /\ shiftcode(k) = {} /\ togglecode(k) = {}
              /\ k \notin DOMAIN Modifiers
           \/ k \in DOMAIN Modifiers /\ shiftcode(k) = {Modifiers[k]} /\ togglecode(k) = {}
              /\ k \notin Letters \cup Others
           \/ k = CAPS /\ shiftcode(k) = {} /\ togglecode(k) = {"CAPSLOCK"}
              /\ k \notin Letters \cup Others /\ k \notin DOMAIN Modifiers
  BY ConsoleAssumption DEF Keys, shiftcode, togglecode

LEMMA CharType ==
    ASSUME NEW k, NEW s
    PROVE  charcode(k, s) = NO \/ charcode(k, s) \in Char
  BY DEF charcode, Char

LEMMA NoIsNoChar == NO \notin Char
  BY DEF NO, Char

(* What a key down or up does to the decoder, whether or not the prefix     *)
(* came before it.                                                          *)
LEMMA PressByte ==
    ASSUME NEW k \in Keys, NEW h \in SUBSET Keys, NEW cp \in SUBSET {"CAPSLOCK"},
           NEW s, s = Target(h, cp) \/ s = Target(h, cp) \cup {"E0ESC"}
    PROVE  LET b == [key |-> k, up |-> FALSE] IN
           /\ ShiftAfter(s, b) = Target(h \cup {k}, SymDiff(cp, togglecode(k)))
           /\ Decoded(s, b) = charcode(k, Target(h, cp))
<1> DEFINE b == [key |-> k, up |-> FALSE]  t == Target(h, cp)
           m == {Modifiers[n] : n \in h \cap DOMAIN Modifiers}
           a == SymDiff((s \ {"E0ESC"}) \cup shiftcode(k), togglecode(k))
<1>1. ShiftAfter(s, b) = a /\ Decoded(s, b) = charcode(k, a)
  BY KeyByte, ZenonT(40)
<1>2. m \subseteq {"SHIFT", "CTL", "ALT"}
  BY ConsoleAssumption
<1>3. s \ {"E0ESC"} = m \cup cp /\ "CAPSLOCK" \notin m /\ t = m \cup cp
  BY <1>2 DEF Target
<1>4. k \in DOMAIN Modifiers =>
        {Modifiers[n] : n \in (h \cup {k}) \cap DOMAIN Modifiers} = m \cup {Modifiers[k]}
  OBVIOUS
<1>5. k \notin DOMAIN Modifiers =>
        {Modifiers[n] : n \in (h \cup {k}) \cap DOMAIN Modifiers} = m
  OBVIOUS
<1> HIDE DEF b, m, t
<1>6. a = Target(h \cup {k}, SymDiff(cp, togglecode(k)))
  BY <1>3, <1>4, <1>5, KeyKinds DEF Target, SymDiff
<1>7. charcode(k, a) = charcode(k, t)
  <2>1. CASE k \in Letters \cup Others
    <3>1. a = t
      BY <1>3, <2>1, KeyKinds DEF SymDiff
    <3> QED BY <3>1
  <2>2. CASE k \notin Letters \cup Others
    BY <2>2 DEF charcode
  <2> QED BY <2>1, <2>2
<1> QED BY <1>1, <1>6, <1>7 DEF b, t

LEMMA PressByteAfter ==
    ASSUME NEW k \in Keys, NEW h \in SUBSET Keys, NEW cp \in SUBSET {"CAPSLOCK"}
    PROVE  /\ ShiftAfter(Target(h, cp), [key |-> k, up |-> FALSE])
                = Target(h \cup {k}, SymDiff(cp, togglecode(k)))
           /\ Decoded(Target(h, cp), [key |-> k, up |-> FALSE]) = charcode(k, Target(h, cp))
BY PressByte

LEMMA ReleaseByte ==
    ASSUME OneKeyEach,
           NEW k \in Keys, NEW h \in SUBSET Keys, NEW cp \in SUBSET {"CAPSLOCK"},
           NEW s, s = Target(h, cp) \/ s = Target(h, cp) \cup {"E0ESC"}
    PROVE  LET b == [key |-> k, up |-> TRUE] IN
           /\ ShiftAfter(s, b) = Target(h \ {k}, cp)
           /\ Decoded(s, b) = NO
<1> DEFINE b == [key |-> k, up |-> TRUE]
           m == {Modifiers[n] : n \in h \cap DOMAIN Modifiers}
<1>1. ShiftAfter(s, b) = s \ (shiftcode(k) \cup {"E0ESC"}) /\ Decoded(s, b) = NO
  BY KeyByte, Zenon
<1>2. m \subseteq {"SHIFT", "CTL", "ALT"}
  BY ConsoleAssumption
<1>3. s \ {"E0ESC"} = m \cup cp
  BY <1>2 DEF Target
<1>4. k \in DOMAIN Modifiers =>
        /\ {Modifiers[n] : n \in (h \ {k}) \cap DOMAIN Modifiers} = m \ {Modifiers[k]}
        /\ Modifiers[k] \notin cp
  BY ConsoleAssumption DEF OneKeyEach
<1>5. k \notin DOMAIN Modifiers =>
        {Modifiers[n] : n \in (h \ {k}) \cap DOMAIN Modifiers} = m
  OBVIOUS
<1> HIDE DEF b, m
<1>6. s \ (shiftcode(k) \cup {"E0ESC"}) = Target(h \ {k}, cp)
  BY <1>3, <1>4, <1>5, KeyKinds DEF Target
<1> QED BY <1>1, <1>6, Zenon DEF b
--------------------------------------------------------------------------------
(* What is still in the keyboard.  A reader that starts in state s0 with n0 *)
(* characters of tw behind it and reads the bytes b ends in state s1 with   *)
(* all of tw behind it, and each character it finds is the next one of tw:  *)
(* st and cn are its states and counts along the way.                       *)
Follows(b, s0, n0, s1, tw, st, cn) ==
    /\ DOMAIN st = 0 .. Len(b) /\ cn \in [0 .. Len(b) -> 0 .. Len(tw)]
    /\ st[0] = s0 /\ cn[0] = n0
    /\ st[Len(b)] = s1 /\ cn[Len(b)] = Len(tw)
    /\ \A i \in 1 .. Len(b) :
          /\ st[i] = ShiftAfter(st[i - 1], b[i])
          /\ Decoded(st[i - 1], b[i]) = NO => cn[i] = cn[i - 1]
          /\ Decoded(st[i - 1], b[i]) # NO => /\ cn[i] = cn[i - 1] + 1
                                              /\ tw[cn[i]] = Decoded(st[i - 1], b[i])

Reads(b, s0, n0, s1, tw) == \E st, cn : Follows(b, s0, n0, s1, tw, st, cn)

LEMMA ReadsNothing ==
    ASSUME NEW s, NEW n, NEW t, NEW tw \in Seq(Char), Reads(<<>>, s, n, t, tw)
    PROVE  s = t /\ n = Len(tw)
  BY DEF Reads, Follows

LEMMA ReadsCount ==
    ASSUME NEW b \in Seq(Byte), NEW s0, NEW n0, NEW s1, NEW tw, Reads(b, s0, n0, s1, tw)
    PROVE  n0 \in 0 .. Len(tw)
<1>1. PICK st, cn : Follows(b, s0, n0, s1, tw, st, cn)
  BY DEF Reads
<1>2. Len(b) \in Nat
  OBVIOUS
<1>3. 0 \in 0 .. Len(b) /\ cn[0] = n0 /\ cn \in [0 .. Len(b) -> 0 .. Len(tw)]
  BY <1>1, <1>2 DEF Follows
<1> QED BY <1>3

LEMMA StartReads == ASSUME NEW s PROVE Reads(<<>>, s, 0, s, <<>>)
<1> DEFINE st == [i \in 0 .. 0 |-> s]  cn == [i \in 0 .. 0 |-> 0]
<1>1. Len(<<>>) = 0 /\ DOMAIN st = 0 .. 0 /\ cn \in [0 .. 0 -> 0 .. 0]
  OBVIOUS
<1>2. st[0] = s /\ cn[0] = 0
  OBVIOUS
<1> HIDE DEF st, cn
<1>3. Follows(<<>>, s, 0, s, <<>>, st, cn)
  BY <1>1, <1>2 DEF Follows
<1> QED BY <1>3 DEF Reads

(* The keyboard adds a byte.                                                *)
Heard(tw, ch) == IF ch = NO THEN tw ELSE Append(tw, ch)

LEMMA ReadsMore ==
    ASSUME NEW b \in Seq(Byte), NEW s0, NEW n0, NEW s1, NEW tw \in Seq(Char),
           Reads(b, s0, n0, s1, tw), NEW y1 \in Byte,
           Decoded(s1, y1) = NO \/ Decoded(s1, y1) \in Char
    PROVE  Reads(Append(b, y1), s0, n0, ShiftAfter(s1, y1), Heard(tw, Decoded(s1, y1)))
<1> DEFINE d == Decoded(s1, y1)  b2 == Append(b, y1)  n == Len(b)  tw2 == Heard(tw, d)
<1>1. PICK st, cn : Follows(b, s0, n0, s1, tw, st, cn)
  BY DEF Reads
<1> DEFINE st2 == [i \in 0 .. n + 1 |-> IF i = n + 1 THEN ShiftAfter(s1, y1) ELSE st[i]]
           cn2 == [i \in 0 .. n + 1 |-> IF i = n + 1 THEN Len(tw2) ELSE cn[i]]
<1>2. /\ b2 \in Seq(Byte) /\ Len(b2) = n + 1 /\ n \in Nat /\ b2[n + 1] = y1
      /\ \A i \in 1 .. n : b2[i] = b[i]
  BY AppendProperties
<1>3. /\ tw2 \in Seq(Char) /\ Len(tw2) \in Nat /\ Len(tw) \in Nat
      /\ \A i \in 1 .. Len(tw) : tw2[i] = tw[i]
      /\ d = NO => Len(tw2) = Len(tw)
      /\ d # NO => Len(tw2) = Len(tw) + 1 /\ tw2[Len(tw2)] = d
  BY AppendProperties DEF Heard
<1> HIDE DEF tw2, b2
<1>4. /\ DOMAIN st = 0 .. n /\ cn \in [0 .. n -> 0 .. Len(tw)]
      /\ st[0] = s0 /\ cn[0] = n0 /\ st[n] = s1 /\ cn[n] = Len(tw)
  BY <1>1 DEF Follows
<1>5. cn2 \in [0 .. n + 1 -> 0 .. Len(tw2)]
  BY <1>2, <1>3, <1>4
<1>6. /\ DOMAIN st2 = 0 .. n + 1
      /\ \A i \in 0 .. n : st2[i] = st[i] /\ cn2[i] = cn[i]
      /\ st2[n + 1] = ShiftAfter(s1, y1) /\ cn2[n + 1] = Len(tw2)
  BY <1>2
<1> HIDE DEF st2, cn2
<1>7. ASSUME NEW i \in 1 .. n + 1
      PROVE  /\ st2[i] = ShiftAfter(st2[i - 1], b2[i])
             /\ Decoded(st2[i - 1], b2[i]) = NO => cn2[i] = cn2[i - 1]
             /\ Decoded(st2[i - 1], b2[i]) # NO =>
                   /\ cn2[i] = cn2[i - 1] + 1
                   /\ tw2[cn2[i]] = Decoded(st2[i - 1], b2[i])
  <2>1. CASE i = n + 1
    <3>1. n \in 0 .. n /\ i - 1 = n
      BY <1>2, <2>1
    <3>2. st2[i - 1] = s1 /\ cn2[i - 1] = Len(tw) /\ b2[i] = y1
      BY <1>2, <1>4, <1>6, <2>1, <3>1
    <3> QED BY <1>3, <1>6, <2>1, <3>2
  <2>2. CASE i \in 1 .. n
    <3>1. i \in 0 .. n /\ i - 1 \in 0 .. n
      BY <1>2, <2>2
    <3>2. st2[i] = st[i] /\ st2[i - 1] = st[i - 1] /\ cn2[i] = cn[i] /\ cn2[i - 1] = cn[i - 1]
          /\ b2[i] = b[i]
      BY <1>2, <1>6, <2>2, <3>1
    <3>3. /\ st[i] = ShiftAfter(st[i - 1], b[i])
          /\ Decoded(st[i - 1], b[i]) = NO => cn[i] = cn[i - 1]
          /\ Decoded(st[i - 1], b[i]) # NO => /\ cn[i] = cn[i - 1] + 1
                                              /\ tw[cn[i]] = Decoded(st[i - 1], b[i])
      BY <1>1, <2>2 DEF Follows
    <3>4. cn[i] \in 0 .. Len(tw) /\ cn[i - 1] \in 0 .. Len(tw)
      BY <1>4, <3>1, Zenon
    <3>5. Decoded(st[i - 1], b[i]) # NO => cn[i] \in 1 .. Len(tw)
      BY <1>3, <3>3, <3>4
    <3> QED BY <1>3, <3>2, <3>3, <3>5
  <2> QED BY <1>2, <2>1, <2>2
<1>8. st2[0] = s0 /\ cn2[0] = n0
  BY <1>2, <1>4, <1>6
<1>9. Follows(b2, s0, n0, ShiftAfter(s1, y1), tw2, st2, cn2)
  BY <1>2, <1>5, <1>6, <1>7, <1>8 DEF Follows
<1> QED BY <1>9 DEF Reads, b2, tw2

(* The interrupt or the shell takes a byte.                                 *)
LEMMA ReadsLess ==
    ASSUME NEW b \in Seq(Byte), b # <<>>, NEW s0, NEW n0, NEW s1, NEW tw \in Seq(Char),
           Reads(b, s0, n0, s1, tw)
    PROVE  LET d == Decoded(s0, Head(b)) IN
           /\ n0 \in 0 .. Len(tw)
           /\ d # NO => n0 + 1 \in 1 .. Len(tw) /\ tw[n0 + 1] = d
           /\ Reads(Tail(b), ShiftAfter(s0, Head(b)), IF d = NO THEN n0 ELSE n0 + 1, s1, tw)
<1> DEFINE d == Decoded(s0, Head(b))  n == Len(b)  b2 == Tail(b)
           n1 == IF d = NO THEN n0 ELSE n0 + 1
<1>1. PICK st, cn : Follows(b, s0, n0, s1, tw, st, cn)
  BY DEF Reads
<1>2. /\ n \in Nat \ {0} /\ Head(b) = b[1] /\ b2 \in Seq(Byte) /\ Len(b2) = n - 1
      /\ \A i \in 1 .. n - 1 : b2[i] = b[i + 1]
  BY HeadTailProperties
<1> HIDE DEF b2
<1>3. /\ DOMAIN st = 0 .. n /\ cn \in [0 .. n -> 0 .. Len(tw)]
      /\ st[0] = s0 /\ cn[0] = n0 /\ st[n] = s1 /\ cn[n] = Len(tw) /\ Len(tw) \in Nat
  BY <1>1 DEF Follows
<1> DEFINE st2 == [i \in 0 .. n - 1 |-> st[i + 1]]  cn2 == [i \in 0 .. n - 1 |-> cn[i + 1]]
<1>4. 0 \in 0 .. n /\ 1 \in 0 .. n /\ 1 \in 1 .. n /\ 0 \in 0 .. n - 1 /\ n - 1 \in 0 .. n - 1
  BY <1>2
<1>5. /\ st[1] = ShiftAfter(s0, b[1])
      /\ d = NO => cn[1] = n0
      /\ d # NO => cn[1] = n0 + 1 /\ tw[n0 + 1] = d
  BY <1>1, <1>2, <1>3, <1>4 DEF Follows
<1>6. n0 \in 0 .. Len(tw) /\ cn[1] \in 0 .. Len(tw) /\ cn[1] = n1
  BY <1>3, <1>4, <1>5
<1>7. d # NO => n0 + 1 \in 1 .. Len(tw) /\ tw[n0 + 1] = d
  BY <1>3, <1>5, <1>6
<1>8. /\ DOMAIN st2 = 0 .. n - 1 /\ cn2 \in [0 .. n - 1 -> 0 .. Len(tw)]
      /\ \A i \in 0 .. n - 1 : st2[i] = st[i + 1] /\ cn2[i] = cn[i + 1]
  <2>1. \A i \in 0 .. n - 1 : i + 1 \in 0 .. n
    BY <1>2
  <2> QED BY <1>3, <2>1
<1> HIDE DEF st2, cn2
<1>9. st2[0] = ShiftAfter(s0, b[1]) /\ cn2[0] = n1 /\ st2[n - 1] = s1 /\ cn2[n - 1] = Len(tw)
  <2>1. 0 + 1 = 1 /\ (n - 1) + 1 = n
    BY <1>2
  <2> QED BY <1>3, <1>4, <1>5, <1>6, <1>8, <2>1
<1>10. ASSUME NEW i \in 1 .. n - 1
       PROVE  /\ st2[i] = ShiftAfter(st2[i - 1], b2[i])
              /\ Decoded(st2[i - 1], b2[i]) = NO => cn2[i] = cn2[i - 1]
              /\ Decoded(st2[i - 1], b2[i]) # NO =>
                    /\ cn2[i] = cn2[i - 1] + 1
                    /\ tw[cn2[i]] = Decoded(st2[i - 1], b2[i])
  <2>1. i \in 0 .. n - 1 /\ i - 1 \in 0 .. n - 1 /\ (i - 1) + 1 = i /\ i + 1 \in 1 .. n
        /\ (i + 1) - 1 = i
    BY <1>2
  <2>2. st2[i] = st[i + 1] /\ st2[i - 1] = st[i] /\ cn2[i] = cn[i + 1] /\ cn2[i - 1] = cn[i]
        /\ b2[i] = b[i + 1]
    BY <1>2, <1>8, <2>1
  <2>3. /\ st[i + 1] = ShiftAfter(st[(i + 1) - 1], b[i + 1])
        /\ Decoded(st[(i + 1) - 1], b[i + 1]) = NO => cn[i + 1] = cn[(i + 1) - 1]
        /\ Decoded(st[(i + 1) - 1], b[i + 1]) # NO =>
              /\ cn[i + 1] = cn[(i + 1) - 1] + 1
              /\ tw[cn[i + 1]] = Decoded(st[(i + 1) - 1], b[i + 1])
    BY <1>1, <2>1 DEF Follows
  <2> QED BY <2>1, <2>2, <2>3
<1>11. Follows(b2, ShiftAfter(s0, b[1]), n1, s1, tw, st2, cn2)
  BY <1>2, <1>8, <1>9, <1>10 DEF Follows
<1>12. Reads(b2, ShiftAfter(s0, b[1]), n1, s1, tw)
  BY <1>11 DEF Reads
<1> QED BY <1>2, <1>6, <1>7, <1>12 DEF b2
--------------------------------------------------------------------------------
(* The keyboard and its readers: the inductive invariant.                   *)
ModeT ==
    mode \in {"boot", "read", "echo", "run", "exited"} /\ (mode = "echo" <=> c # NO)

KbdT ==
    /\ buf \in Seq(Byte) /\ typed \in Seq(Char) /\ got \in Seq(Char) /\ lost \in Nat
    /\ held \subseteq Keys /\ caps \subseteq {"CAPSLOCK"} /\ shift \subseteq Flags
    /\ strokes \in Nat /\ strokes <= MaxStrokes
    /\ Len(typed) <= strokes /\ Len(buf) <= BufSize
    /\ ModeT

Received ==
    /\ mode = "boot" => got = <<>>
    /\ \A i \in 1 .. Len(got) : got[i] = typed[lost + i]

InStep == Reads(buf, shift, lost + Len(got), Target(held, caps), typed)

KInv == KbdT /\ Received /\ InStep

LEMMA InitK == Init => KInv
<1> SUFFICES ASSUME Init PROVE KInv
  OBVIOUS
<1>1. Target(held, caps) = {} /\ lost + Len(got) = 0
  BY DEF Init, Target
<1>2. InStep
  BY <1>1, StartReads, Zenon DEF Init, InStep
<1> QED BY <1>2, ConsoleAssumption DEF Init, KInv, KbdT, ModeT, Received

(* The bytes of a key down or up.                                           *)
LEMMA CodesBytes ==
    ASSUME NEW k \in Keys, NEW up \in BOOLEAN, NEW b \in Seq(Byte)
    PROVE  LET y1 == [key |-> k, up |-> up] IN
           /\ y1 \in Byte /\ E0 \in Byte
           /\ \/ b \o Codes(k, up) = Append(b, y1)
              \/ b \o Codes(k, up) = Append(Append(b, E0), y1)
<1> DEFINE y1 == [key |-> k, up |-> up]
<1>1. y1 \in Byte /\ E0 \in Byte
  BY Zenon DEF Byte
<1> HIDE DEF y1
<1>2. Codes(k, up) = (IF k \in Extended THEN <<E0>> ELSE <<>>) \o <<y1>>
  BY DEF Codes, y1
<1>3. CASE k \in Extended
  <2>1. b \o (<<E0>> \o <<y1>>) = (b \o <<E0>>) \o <<y1>>
    BY <1>1, ConcatAssociative
  <2>2. b \o <<E0>> = Append(b, E0) /\ Append(b, E0) \in Seq(Byte)
    BY <1>1
  <2>3. Append(b, E0) \o <<y1>> = Append(Append(b, E0), y1)
    BY <1>1, <2>2
  <2> QED BY <1>1, <1>2, <1>3, <2>1, <2>2, <2>3 DEF y1
<1>4. CASE k \notin Extended
  <2>1. <<>> \o <<y1>> = <<y1>>
    BY <1>1
  <2>2. b \o <<y1>> = Append(b, y1)
    BY <1>1
  <2> QED BY <1>1, <1>2, <1>4, <2>1, <2>2 DEF y1
<1> QED BY <1>3, <1>4

(* A key goes down: the reader will end where the keyboard then is, and the *)
(* character meant is the last that it finds.                               *)
LEMMA PressK == ASSUME KInv, NEW k \in Keys, Press(k) PROVE KInv'
<1> DEFINE y1 == [key |-> k, up |-> FALSE]  t == Target(held, caps)  n == lost + Len(got)
           e == t \cup {"E0ESC"}
           h2 == held \cup {k}  c2 == SymDiff(caps, togglecode(k))
<1>1. /\ strokes < MaxStrokes /\ Len(buf) + Len(Codes(k, FALSE)) <= BufSize
      /\ strokes' = strokes + 1 /\ buf' = buf \o Codes(k, FALSE)
      /\ UNCHANGED <<shift, mode, c, got, lost>>
      /\ held' = h2 /\ caps' = c2
      /\ typed' = Heard(typed, charcode(k, t))
  BY Zenon DEF Press, Stroke, Meant, Target, Heard
<1>2. KbdT /\ Reads(buf, shift, n, t, typed)
  BY DEF KInv, InStep
<1>3. buf \in Seq(Byte) /\ typed \in Seq(Char) /\ held \in SUBSET Keys
      /\ caps \in SUBSET {"CAPSLOCK"}
  BY <1>2 DEF KbdT
<1>4. charcode(k, t) = NO \/ charcode(k, t) \in Char
  BY CharType
<1>5. /\ y1 \in Byte /\ E0 \in Byte
      /\ \/ buf' = Append(buf, y1)
         \/ buf' = Append(Append(buf, E0), y1)
  BY <1>1, <1>3, CodesBytes, Zenon
<1>6. /\ ShiftAfter(t, y1) = Target(h2, c2) /\ Decoded(t, y1) = charcode(k, t)
      /\ ShiftAfter(e, y1) = Target(h2, c2) /\ Decoded(e, y1) = charcode(k, t)
  <2>1. ShiftAfter(t, y1) = Target(h2, c2) /\ Decoded(t, y1) = charcode(k, t)
    BY <1>3, PressByteAfter, ZenonT(40)
  <2>2. ShiftAfter(e, y1) = Target(h2, c2) /\ Decoded(e, y1) = charcode(k, t)
    BY <1>3, PressByte, ZenonT(40)
  <2> QED BY <2>1, <2>2
<1> HIDE DEF y1, t, h2, c2, n
<1>7. Reads(buf', shift, n, Target(h2, c2), typed') /\ buf' \in Seq(Byte)
  <2>1. CASE buf' = Append(buf, y1)
    <3>1. Reads(Append(buf, y1), shift, n, ShiftAfter(t, y1), Heard(typed, Decoded(t, y1)))
      BY <1>2, <1>3, <1>4, <1>5, <1>6, ReadsMore
    <3>2. Append(buf, y1) \in Seq(Byte)
      BY <1>3, <1>5
    <3> QED BY <1>1, <1>6, <2>1, <3>1, <3>2, Zenon
  <2>2. CASE buf' = Append(Append(buf, E0), y1)
    <3> DEFINE b2 == Append(buf, E0)
    <3>1. ShiftAfter(t, E0) = e /\ Decoded(t, E0) = NO /\ Heard(typed, NO) = typed
      BY PrefixByte DEF Heard
    <3>2. Reads(b2, shift, n, ShiftAfter(t, E0), Heard(typed, Decoded(t, E0)))
      BY <1>2, <1>3, <1>5, <3>1, ReadsMore, Zenon
    <3>3. b2 \in Seq(Byte)
      BY <1>3, <1>5
    <3> HIDE DEF b2, e
    <3>4. Reads(b2, shift, n, e, typed)
      BY <3>1, <3>2
    <3>5. Reads(Append(b2, y1), shift, n, ShiftAfter(e, y1), Heard(typed, Decoded(e, y1)))
      BY <1>3, <1>4, <1>5, <1>6, <3>3, <3>4, ReadsMore
    <3>6. Append(b2, y1) \in Seq(Byte)
      BY <1>5, <3>3
    <3> QED BY <1>1, <1>6, <2>2, <3>5, <3>6, Zenon DEF b2
  <2> QED BY <1>5, <2>1, <2>2
<1>8. typed' \in Seq(Char) /\ Len(typed') <= Len(typed) + 1
      /\ Len(typed) <= Len(typed') /\ \A i \in 1 .. Len(typed) : typed'[i] = typed[i]
  BY <1>1, <1>3, <1>4, AppendProperties DEF Heard
<1>9. h2 \subseteq Keys /\ c2 \subseteq {"CAPSLOCK"}
  BY <1>3, Zenon DEF h2, c2, SymDiff, togglecode
<1>10. Len(buf') <= BufSize
  <2>1. Codes(k, FALSE) \in Seq(Byte)
    <3>1. y1 \in Byte /\ E0 \in Byte
      BY <1>5
    <3> QED BY <3>1 DEF Codes, y1
  <2> QED BY <1>1, <1>3, <2>1, ConcatProperties, Zenon
<1>11. KbdT'
  <2>1. strokes' \in Nat /\ strokes' <= MaxStrokes /\ Len(typed') <= strokes'
    <3>1. strokes \in Nat /\ Len(typed) <= strokes /\ Len(typed) \in Nat /\ Len(typed') \in Nat
      BY <1>2, <1>3, <1>8 DEF KbdT
    <3> QED BY <1>1, <1>8, <3>1, ConsoleAssumption
  <2>2. ModeT'
    BY <1>1, <1>2 DEF KbdT, ModeT
  <2> QED BY <1>1, <1>2, <1>7, <1>8, <1>9, <1>10, <2>1, <2>2, ZenonT(40) DEF KbdT
<1>12. Received'
  <2>1. n \in 0 .. Len(typed)
    BY <1>2, <1>3, ReadsCount
  <2>2. ASSUME NEW i \in 1 .. Len(got) PROVE lost + i \in 1 .. Len(typed)
    BY <1>2, <2>1 DEF KbdT, n
  <2> QED BY <1>1, <1>8, <2>2 DEF KInv, Received
<1>13. InStep'
  BY <1>1, <1>7, Zenon DEF InStep, n
<1> QED BY <1>11, <1>12, <1>13 DEF KInv

LEMMA ReleaseK == ASSUME KInv, OneKeyEach, NEW k \in Keys, Release(k) PROVE KInv'
<1> DEFINE y1 == [key |-> k, up |-> TRUE]  t == Target(held, caps)  n == lost + Len(got)
           e == t \cup {"E0ESC"}  h2 == held \ {k}
<1>1. /\ strokes < MaxStrokes /\ Len(buf) + Len(Codes(k, TRUE)) <= BufSize
      /\ strokes' = strokes + 1 /\ buf' = buf \o Codes(k, TRUE)
      /\ UNCHANGED <<shift, mode, c, got, lost, caps, typed>>
      /\ held' = h2
  BY Zenon DEF Release, Stroke
<1>2. KbdT /\ Reads(buf, shift, n, t, typed)
  BY DEF KInv, InStep
<1>3. buf \in Seq(Byte) /\ typed \in Seq(Char) /\ held \in SUBSET Keys
      /\ caps \in SUBSET {"CAPSLOCK"}
  BY <1>2 DEF KbdT
<1>4. /\ y1 \in Byte /\ E0 \in Byte
      /\ \/ buf' = Append(buf, y1)
         \/ buf' = Append(Append(buf, E0), y1)
  BY <1>1, <1>3, CodesBytes, Zenon
<1>5. /\ ShiftAfter(t, y1) = Target(h2, caps) /\ Decoded(t, y1) = NO
      /\ ShiftAfter(e, y1) = Target(h2, caps) /\ Decoded(e, y1) = NO
  BY <1>3, ReleaseByte, ZenonT(40)
<1>6. ShiftAfter(t, E0) = e /\ Decoded(t, E0) = NO /\ Heard(typed, NO) = typed
  BY PrefixByte DEF Heard
<1> HIDE DEF y1, t, e
<1>7. Reads(buf', shift, n, Target(h2, caps), typed) /\ buf' \in Seq(Byte)
  <2>1. CASE buf' = Append(buf, y1)
    <3>1. Reads(Append(buf, y1), shift, n, ShiftAfter(t, y1), Heard(typed, Decoded(t, y1)))
      BY <1>2, <1>3, <1>4, <1>5, ReadsMore
    <3> QED BY <1>3, <1>4, <1>5, <1>6, <2>1, <3>1
  <2>2. CASE buf' = Append(Append(buf, E0), y1)
    <3> DEFINE b2 == Append(buf, E0)
    <3>1. Reads(b2, shift, n, ShiftAfter(t, E0), Heard(typed, Decoded(t, E0)))
      BY <1>2, <1>3, <1>4, <1>6, ReadsMore
    <3>2. b2 \in Seq(Byte)
      BY <1>3, <1>4
    <3> HIDE DEF b2
    <3>3. Reads(b2, shift, n, e, typed)
      BY <1>6, <3>1
    <3>4. Reads(Append(b2, y1), shift, n, ShiftAfter(e, y1), Heard(typed, Decoded(e, y1)))
      BY <1>3, <1>4, <1>5, <3>2, <3>3, ReadsMore
    <3> QED BY <1>4, <1>5, <1>6, <2>2, <3>2, <3>4 DEF b2
  <2> QED BY <1>4, <2>1, <2>2
<1>8. Len(buf') <= BufSize
  <2>1. Codes(k, TRUE) \in Seq(Byte)
    <3>1. y1 \in Byte /\ E0 \in Byte
      BY <1>4
    <3> QED BY <3>1 DEF Codes, y1
  <2> QED BY <1>1, <1>3, <2>1, ConcatProperties, Zenon
<1>9. KbdT'
  <2>1. strokes' \in Nat /\ strokes' <= MaxStrokes /\ Len(typed) <= strokes'
    <3>1. strokes \in Nat /\ Len(typed) <= strokes /\ Len(typed) \in Nat
      BY <1>2, <1>3 DEF KbdT
    <3> QED BY <1>1, <3>1, ConsoleAssumption
  <2>2. ModeT'
    BY <1>1, <1>2 DEF KbdT, ModeT
  <2>3. h2 \subseteq Keys
    BY <1>3
  <2> QED BY <1>1, <1>2, <1>7, <1>8, <2>1, <2>2, <2>3, Zenon DEF KbdT
<1>10. Received' /\ InStep'
  BY <1>1, <1>7, Zenon DEF KInv, Received, InStep
<1> QED BY <1>9, <1>10 DEF KInv

(* Reading.                                                                 *)
LEMMA ByteT ==
    ASSUME NEW s \in SUBSET Flags, NEW b \in Byte
    PROVE  /\ ShiftAfter(s, b) \subseteq Flags
           /\ Decoded(s, b) = NO \/ Decoded(s, b) \in Char
<1>1. CASE b = E0
  BY <1>1, PrefixByte, ZenonT(40) DEF Flags
<1>2. ASSUME NEW k \in Keys, b = [key |-> k, up |-> FALSE]
      PROVE  /\ ShiftAfter(s, b) \subseteq Flags
             /\ Decoded(s, b) = NO \/ Decoded(s, b) \in Char
  <2>1. /\ ShiftAfter(s, b) = SymDiff((s \ {"E0ESC"}) \cup shiftcode(k), togglecode(k))
        /\ Decoded(s, b) = charcode(k, ShiftAfter(s, b))
    BY <1>2, KeyByte, Zenon
  <2>2. shiftcode(k) \subseteq Flags /\ togglecode(k) \subseteq Flags
    BY ConsoleAssumption DEF shiftcode, togglecode, Flags
  <2> QED BY <2>1, <2>2, CharType DEF SymDiff
<1>3. ASSUME NEW k \in Keys, b = [key |-> k, up |-> TRUE]
      PROVE  /\ ShiftAfter(s, b) \subseteq Flags
             /\ Decoded(s, b) = NO \/ Decoded(s, b) \in Char
  <2>1. ShiftAfter(s, b) = s \ (shiftcode(k) \cup {"E0ESC"}) /\ Decoded(s, b) = NO
    BY <1>3, KeyByte, Zenon
  <2> QED BY <2>1
<1> QED BY <1>1, <1>2, <1>3 DEF Byte

LEMMA GetcK ==
    ASSUME KInv, ps2_kbd_getc
    PROVE  LET d == Decoded(shift, Head(buf))  n == lost + Len(got) IN
           /\ buf' \in Seq(Byte) /\ Len(buf') <= BufSize
           /\ shift' \subseteq Flags
           /\ d = NO \/ d \in Char
           /\ n \in Nat
           /\ d # NO => n + 1 \in 1 .. Len(typed) /\ typed[n + 1] = d
           /\ Reads(buf', shift', IF d = NO THEN n ELSE n + 1, Target(held, caps), typed)
<1> DEFINE d == Decoded(shift, Head(buf))  n == lost + Len(got)
<1>1. buf # <<>> /\ shift' = ShiftAfter(shift, Head(buf)) /\ buf' = Tail(buf)
  BY DEF ps2_kbd_getc, Rest
<1>2. buf \in Seq(Byte) /\ typed \in Seq(Char) /\ shift \in SUBSET Flags /\ Len(buf) <= BufSize
      /\ lost \in Nat /\ got \in Seq(Char)
  BY DEF KInv, KbdT
<1>3. Head(buf) \in Byte /\ buf' \in Seq(Byte) /\ Len(buf') = Len(buf) - 1
  BY <1>1, <1>2, HeadTailProperties
<1>4. Reads(buf, shift, n, Target(held, caps), typed)
  BY DEF KInv, InStep
<1>5. n \in Nat /\ Len(buf') <= BufSize
  BY <1>2, <1>3, ConsoleAssumption
<1>6. shift' \subseteq Flags /\ (d = NO \/ d \in Char)
  BY <1>1, <1>2, <1>3, ByteT, Zenon
<1> HIDE DEF n
<1>7. /\ d # NO => n + 1 \in 1 .. Len(typed) /\ typed[n + 1] = d
      /\ Reads(Tail(buf), ShiftAfter(shift, Head(buf)), IF d = NO THEN n ELSE n + 1,
               Target(held, caps), typed)
  BY <1>1, <1>2, <1>4, ReadsLess
<1> QED BY <1>1, <1>3, <1>5, <1>6, <1>7 DEF n

LEMMA InterruptK == KInv /\ interruptHandler => KInv'
<1> SUFFICES ASSUME KInv, interruptHandler PROVE KInv'
  OBVIOUS
<1> DEFINE d == Decoded(shift, Head(buf))  n == lost + Len(got)
<1>1. /\ mode = "boot" /\ ps2_kbd_getc
      /\ lost' = IF d = NO THEN lost ELSE lost + 1
      /\ UNCHANGED <<held, caps, typed, strokes, mode, c, got>>
  BY DEF interruptHandler
<1>2. got = <<>> /\ lost \in Nat
  BY <1>1 DEF KInv, Received, KbdT
<1>3. /\ buf' \in Seq(Byte) /\ Len(buf') <= BufSize /\ shift' \subseteq Flags
      /\ Reads(buf', shift', IF d = NO THEN n ELSE n + 1, Target(held, caps), typed)
  BY <1>1, GetcK
<1>4. lost' + Len(got') = IF d = NO THEN n ELSE n + 1
  BY <1>1, <1>2
<1>5. InStep'
  BY <1>1, <1>3, <1>4 DEF InStep
<1>6. Received'
  BY <1>1, <1>2 DEF Received
<1>7. ModeT' /\ lost' \in Nat
  BY <1>1, <1>2 DEF KInv, KbdT, ModeT
<1>8. KbdT'
  BY <1>1, <1>3, <1>7 DEF KInv, KbdT
<1> QED BY <1>5, <1>6, <1>8 DEF KInv

LEMMA StdinK == KInv /\ stdinRead => KInv'
<1> SUFFICES ASSUME KInv, stdinRead PROVE KInv'
  OBVIOUS
<1> DEFINE d == Decoded(shift, Head(buf))  n == lost + Len(got)
<1>1. /\ mode = "read" /\ ps2_kbd_getc
      /\ UNCHANGED <<held, caps, typed, strokes, lost>>
  BY DEF stdinRead
<1>2. d = NO => UNCHANGED <<mode, c, got>>
  BY DEF stdinRead
<1>3. d # NO => mode' = "echo" /\ c' = d /\ got' = Append(got, d)
  BY DEF stdinRead
<1>4. got \in Seq(Char) /\ lost \in Nat /\ ModeT
  BY DEF KInv, KbdT
<1>5. /\ buf' \in Seq(Byte) /\ Len(buf') <= BufSize /\ shift' \subseteq Flags
      /\ d = NO \/ d \in Char
      /\ d # NO => typed[n + 1] = d
      /\ Reads(buf', shift', IF d = NO THEN n ELSE n + 1, Target(held, caps), typed)
  BY <1>1, GetcK
<1> HIDE DEF d
<1>6. /\ got' \in Seq(Char)
      /\ d # NO => /\ Len(got') = Len(got) + 1 /\ got'[Len(got) + 1] = d
                   /\ \A i \in 1 .. Len(got) : got'[i] = got[i]
  <2>1. CASE d = NO
    BY <1>2, <1>4, <2>1
  <2>2. CASE d # NO
    <3>1. d \in Char /\ got' = Append(got, d)
      BY <1>3, <1>5, <2>2
    <3> QED BY <1>4, <3>1, AppendProperties
  <2> QED BY <2>1, <2>2
<1>7. lost' + Len(got') = IF d = NO THEN n ELSE n + 1
  <2>1. Len(got) \in Nat /\ lost' = lost
    BY <1>1, <1>4
  <2>2. CASE d = NO
    BY <1>2, <2>1, <2>2
  <2>3. CASE d # NO
    <3>1. Len(got') = Len(got) + 1
      BY <1>6, <2>3
    <3> QED BY <1>4, <2>1, <2>3, <3>1
  <2> QED BY <2>2, <2>3
<1>8. InStep'
  BY <1>1, <1>5, <1>7 DEF InStep
<1>9. Received'
  <2>1. CASE d = NO
    BY <1>1, <1>2, <2>1 DEF KInv, Received
  <2>2. CASE d # NO
    <3>1. \A i \in 1 .. Len(got) : got[i] = typed[lost + i]
      BY DEF KInv, Received
    <3>2. ASSUME NEW i \in 1 .. Len(got) + 1 PROVE got'[i] = typed[lost + i]
      <4>1. CASE i = Len(got) + 1
        <5>1. lost + i = n + 1
          BY <1>4, <4>1
        <5> QED BY <1>5, <1>6, <2>2, <4>1, <5>1
      <4>2. CASE i \in 1 .. Len(got)
        BY <1>6, <2>2, <3>1, <4>2
      <4> QED BY <1>4, <4>1, <4>2
    <3> QED BY <1>1, <1>3, <1>6, <2>2, <3>2 DEF Received
  <2> QED BY <2>1, <2>2
<1>10. ModeT'
  BY <1>1, <1>2, <1>3, <1>4 DEF ModeT
<1>11. KbdT'
  BY <1>1, <1>5, <1>6, <1>10 DEF KInv, KbdT
<1> QED BY <1>8, <1>9, <1>11 DEF KInv

(* The rest of the shell does not touch the keyboard.                       *)
LEMMA ElseK ==
    ASSUME KInv, ioapic_init \/ Echo \/ Prompt \/ Exit
                 \/ \E kind \in {"glyph", "newline", "tab", "back"} : stdoutWrite(kind)
    PROVE  KInv'
<1>1. UNCHANGED <<kbd, shift, got, lost>> /\ (mode' = "boot" => mode = "boot")
  BY DEF ioapic_init, Echo, Prompt, Exit, stdoutWrite
<1>2. ModeT'
  <2>1. ModeT
    BY DEF KInv, KbdT
  <2> QED BY <2>1 DEF ModeT, ioapic_init, Echo, Prompt, Exit, stdoutWrite
<1> QED BY <1>1, <1>2 DEF KInv, KbdT, Received, InStep, kbd

LEMMA StepK == OneKeyEach /\ KInv /\ [Next]_vars => KInv'
<1> SUFFICES ASSUME OneKeyEach, KInv, [Next]_vars PROVE KInv'
  OBVIOUS
<1>1. CASE Next
  <2>1. ASSUME NEW k \in Keys, Press(k) \/ Release(k) PROVE KInv'
    BY <2>1, PressK, ReleaseK
  <2> QED BY <1>1, <2>1, InterruptK, StdinK, ElseK DEF Next
<1>2. CASE UNCHANGED vars
  BY <1>2 DEF vars, kbd, KInv, KbdT, ModeT, Received, InStep
<1> QED BY <1>1, <1>2

LEMMA TrackOfK == KInv => ModifiersTrack
<1> SUFFICES ASSUME KInv, buf = <<>>
             PROVE  shift = {Modifiers[m] : m \in held \cap DOMAIN Modifiers} \cup caps
  BY DEF ModifiersTrack
<1>1. typed \in Seq(Char) /\ Reads(<<>>, shift, lost + Len(got), Target(held, caps), typed)
  BY DEF KInv, KbdT, InStep
<1> QED BY <1>1, ReadsNothing DEF Target

LEMMA OrderOfK == KInv => InOrder
<1> SUFFICES ASSUME KInv PROVE InOrder
  OBVIOUS
<1> DEFINE n == Len(got)
<1>1. /\ buf \in Seq(Byte) /\ typed \in Seq(Char) /\ got \in Seq(Char) /\ lost \in Nat
      /\ Reads(buf, shift, lost + n, Target(held, caps), typed)
  BY DEF KInv, KbdT, InStep
<1>2. lost + n \in 0 .. Len(typed) /\ n \in Nat /\ Len(typed) \in Nat
  BY <1>1, ReadsCount
<1>3. buf = <<>> => lost + n = Len(typed)
  BY <1>1, ReadsNothing
<1>4. got = SubSeq(typed, lost + 1, lost + n)
  <2> DEFINE w == SubSeq(typed, lost + 1, lost + n)
  <2>1. \A i \in lost + 1 .. lost + n : typed[i] \in Char
    BY <1>1, <1>2
  <2>2. /\ w \in Seq(Char)
        /\ Len(w) = IF lost + 1 <= lost + n THEN lost + n - (lost + 1) + 1 ELSE 0
        /\ \A i \in 1 .. lost + n - (lost + 1) + 1 : w[i] = typed[lost + 1 + i - 1]
    BY <1>1, <1>2, <2>1, SubSeqProperties
  <2>3. Len(w) = n
    BY <1>1, <1>2, <2>2
  <2>4. ASSUME NEW i \in 1 .. n PROVE w[i] = got[i]
    <3>1. w[i] = typed[lost + i]
      <4>1. i \in 1 .. lost + n - (lost + 1) + 1 /\ lost + 1 + i - 1 = lost + i
        BY <1>1, <1>2
      <4> QED BY <2>2, <4>1, Zenon
    <3> QED BY <3>1, Zenon DEF KInv, Received
  <2> HIDE DEF w
  <2>5. got = w
    BY <1>1, <2>2, <2>3, <2>4, SeqEqual, Zenon
  <2> QED BY <2>5 DEF w
<1> QED BY <1>2, <1>3, <1>4 DEF InOrder
--------------------------------------------------------------------------------
(* The screen.  Rows are whole characters apart, and a character fits to    *)
(* the right of every column the cursor can be in.                          *)
SInv ==
    /\ x \in 0 .. Width - 1
    /\ y \in 0 .. Height /\ \E k \in Nat : y = k * BYTES_PER_CHAR
    /\ drawn[1] + 1 <= Width /\ drawn[2] + BYTES_PER_CHAR <= Height

LEMMA RoomyFacts ==
    ASSUME SInv
    PROVE  LET at == Roomy(x, y) IN
           /\ at = <<at[1], at[2]>>
           /\ at[1] \in 0 .. Width - 1 /\ at[2] \in Nat
           /\ at[2] + BYTES_PER_CHAR <= Height
           /\ \E k \in Nat : at[2] = k * BYTES_PER_CHAR
           /\ x = 0 => at[1] = 0
           /\ at = <<x, y>> \/ at = <<0, 0>>
<1>1. Width \in Nat \ {0} /\ BYTES_PER_CHAR \in Nat /\ Height \in Nat
      /\ BYTES_PER_CHAR <= Height /\ 0 = 0 * BYTES_PER_CHAR
  BY ConsoleAssumption
<1>2. CASE y + BYTES_PER_CHAR > Height
  <2>1. Roomy(x, y) = <<0, 0>>
    BY <1>2 DEF Roomy
  <2> QED BY <1>1, <2>1
<1>3. CASE ~ (y + BYTES_PER_CHAR > Height)
  <2>1. Roomy(x, y) = <<x, y>>
    BY <1>3 DEF Roomy
  <2> QED BY <1>1, <1>3, <2>1 DEF SInv
<1> QED BY <1>2, <1>3

LEMMA PutcS ==
    ASSUME SInv, NEW kind \in {"glyph", "newline", "tab", "back"}, screen_putc(kind),
           kind = "back" => x # 0
    PROVE  SInv'
<1> DEFINE at == Roomy(x, y)  a == at[1]  b == at[2]
<1>1. /\ a \in 0 .. Width - 1 /\ b \in Nat /\ b + BYTES_PER_CHAR <= Height
      /\ \E k \in Nat : b = k * BYTES_PER_CHAR
      /\ at = <<x, y>> \/ at = <<0, 0>>
  BY RoomyFacts
<1>2. Width \in Nat \ {0} /\ BYTES_PER_CHAR \in Nat /\ Height \in Nat /\ CHARS_PER_TAB \in Nat
  BY ConsoleAssumption
<1>3. \E k \in Nat : b + BYTES_PER_CHAR = k * BYTES_PER_CHAR
  <2>1. PICK k \in Nat : b = k * BYTES_PER_CHAR
    BY <1>1
  <2>2. b + BYTES_PER_CHAR = (k + 1) * BYTES_PER_CHAR /\ k + 1 \in Nat
    BY <1>2, <2>1
  <2> QED BY <2>2
<1>4. CASE kind = "newline"
  <2>1. x' = 0 /\ y' = b + BYTES_PER_CHAR /\ drawn' = <<0, 0>>
    BY <1>4 DEF screen_putc
  <2> HIDE DEF b
  <2> QED BY <1>1, <1>2, <1>3, <2>1, ConsoleAssumption DEF SInv
<1>5. CASE kind = "tab"
  <2>1. x' = AfterTab(a, b)[1] /\ y' = AfterTab(a, b)[2] /\ drawn' = <<0, 0>>
    BY <1>5 DEF screen_putc
  <2> HIDE DEF a, b
  <2>2. x' \in 0 .. Width - 1 /\ (y' = b \/ y' = b + BYTES_PER_CHAR)
    BY <1>1, <1>2, <2>1 DEF AfterTab
  <2> QED BY <1>1, <1>2, <1>3, <2>1, <2>2, ConsoleAssumption DEF SInv
<1>6. CASE kind = "back"
  <2>1. x' = AfterBack(a, b)[1] /\ y' = AfterBack(a, b)[2] /\ drawn' = <<0, 0>>
    BY <1>6 DEF screen_putc
  <2>2. a # 0 \/ (a = 0 /\ b = 0)
    <3>1. at = <<x, y>> => a = x
      OBVIOUS
    <3>2. at = <<0, 0>> => a = 0 /\ b = 0
      OBVIOUS
    <3> HIDE DEF a, b, at
    <3> QED BY <1>1, <1>6, <3>1, <3>2
  <2> HIDE DEF a, b
  <2>3. x' \in 0 .. Width - 1 /\ y' = b
    BY <1>1, <1>2, <2>1, <2>2 DEF AfterBack
  <2> QED BY <1>1, <1>2, <2>1, <2>3, ConsoleAssumption DEF SInv
<1>7. CASE kind = "glyph"
  <2>1. x' = AfterDraw(a, b)[1] /\ y' = AfterDraw(a, b)[2] /\ drawn' = at
    BY <1>7 DEF screen_putc
  <2>2. drawn'[1] + 1 <= Width /\ drawn'[2] + BYTES_PER_CHAR <= Height
    BY <1>1, <1>2, <2>1
  <2> HIDE DEF a, b
  <2>3. x' \in 0 .. Width - 1 /\ (y' = b \/ y' = b + BYTES_PER_CHAR)
    BY <1>1, <1>2, <2>1 DEF AfterDraw
  <2> QED BY <1>1, <1>2, <1>3, <2>2, <2>3, ConsoleAssumption DEF SInv
<1> QED BY <1>4, <1>5, <1>6, <1>7

LEMMA InitS == Init => SInv
<1> SUFFICES ASSUME Init PROVE SInv
  OBVIOUS
<1>1. 0 = 0 * BYTES_PER_CHAR
  BY ConsoleAssumption
<1> QED BY <1>1, ConsoleAssumption DEF Init, SInv

(* No backspace is echoed at the start of a line: drawc would step back     *)
(* from column 0 to <<Width, y - 1>>, which is no place for a character.    *)
NoBackAtStart == mode = "echo" /\ Kind(c) = "back" => x # 0

LEMMA StepS == ~Back /\ NoBackAtStart /\ SInv /\ [Next]_vars => SInv'
<1> SUFFICES ASSUME ~Back, NoBackAtStart, SInv, [Next]_vars PROVE SInv'
  OBVIOUS
<1>1. ASSUME NEW k \in Keys, Press(k) \/ Release(k) PROVE SInv'
  BY <1>1, Zenon DEF Press, Release, Stroke, screen, SInv
<1>2. CASE interruptHandler \/ ioapic_init \/ stdinRead \/ Prompt \/ Exit
  BY <1>2 DEF interruptHandler, ioapic_init, stdinRead, Prompt, Exit, screen, SInv
<1>3. CASE Echo
  <2>1. Kind(c) \in {"glyph", "newline", "tab", "back"}
    BY DEF Kind
  <2>2. screen_putc(Kind(c)) /\ (Kind(c) = "back" => x # 0)
    BY <1>3 DEF Echo, NoBackAtStart
  <2> QED BY <2>1, <2>2, PutcS
<1>4. ASSUME NEW kind \in {"glyph", "newline", "tab", "back"}, stdoutWrite(kind) PROVE SInv'
  <2>1. screen_putc(kind) /\ (kind = "back" => x # 0)
    BY <1>4 DEF stdoutWrite
  <2> QED BY <2>1, PutcS
<1>5. CASE UNCHANGED vars
  BY <1>5 DEF vars, screen, SInv
<1> QED BY <1>1, <1>2, <1>3, <1>4, <1>5 DEF Next

IrqT == irq \in BOOLEAN

LEMMA StepIrq == IrqT /\ [Next]_vars => IrqT'
<1> SUFFICES ASSUME IrqT, [Next]_vars PROVE IrqT'
  OBVIOUS
<1>1. irq' = irq \/ irq' = TRUE \/ irq' = (Len(buf) > 1)
  BY Zenon DEF Next, Press, Release, Stroke, interruptHandler, ioapic_init, stdinRead, Echo,
         Prompt, Exit, stdoutWrite, kbd, vars
<1>2. (Len(buf) > 1) \in BOOLEAN
  OBVIOUS
<1> QED BY <1>1, <1>2, Zenon DEF IrqT

LEMMA InsideOfInv == KInv /\ SInv /\ IrqT => DrawsInside
<1> SUFFICES ASSUME KInv, SInv, IrqT PROVE DrawsInside
  OBVIOUS
<1>1. lost \in 0 .. MaxStrokes
  <2>1. /\ buf \in Seq(Byte) /\ typed \in Seq(Char) /\ got \in Seq(Char) /\ lost \in Nat
        /\ strokes \in Nat /\ strokes <= MaxStrokes /\ Len(typed) <= strokes
        /\ Reads(buf, shift, lost + Len(got), Target(held, caps), typed)
    BY DEF KInv, KbdT, InStep
  <2>2. lost + Len(got) \in 0 .. Len(typed) /\ Len(got) \in Nat /\ Len(typed) \in Nat
    BY <2>1, ReadsCount
  <2> QED BY <2>1, <2>2, ConsoleAssumption
<1>2. x \in 0 .. Width /\ y \in 0 .. Height
  BY ConsoleAssumption DEF SInv
<1>3. irq \in BOOLEAN
  BY Zenon DEF IrqT
<1>4. TypeOK
  <2>1. mode \in {"boot", "read", "echo", "run", "exited"} /\ (mode = "echo" <=> c # NO)
    BY DEF KInv, KbdT, ModeT
  <2> QED BY <1>1, <1>2, <1>3, <2>1 DEF TypeOK, KInv, KbdT, Flags
<1>5. y % BYTES_PER_CHAR = 0
  <2>1. PICK k \in Nat : y = k * BYTES_PER_CHAR
    BY DEF SInv
  <2>2. BYTES_PER_CHAR \in Nat \ {0}
    BY ConsoleAssumption
  <2> QED BY <2>1, <2>2
<1> QED BY <1>4, <1>5 DEF SInv, DrawsInside

LEMMA SafetyPart == Spec => Init /\ [][Next]_vars
  BY PTL DEF Spec

(* For every keyboard, whatever is typed and whoever reads it, the decoder  *)
(* of ps2_kbd_getc follows the keys: when the buffer is empty its modifiers *)
(* are those held, also if boot ends between the two bytes of a key.        *)
THEOREM DecoderFollows ==
    ASSUME OneKeyEach
    PROVE  Spec => []ModifiersTrack
<1>1. KInv /\ [Next]_vars => KInv'
  BY StepK
<1> QED BY <1>1, InitK, TrackOfK, SafetyPart, PTL

(* The shell reads what was typed, in that order and each character with    *)
(* the modifiers it was typed with; only what the interrupt took during     *)
(* boot is missing.                                                         *)
THEOREM ShellReadsTyped ==
    ASSUME OneKeyEach
    PROVE  Spec => []InOrder
<1>1. KInv /\ [Next]_vars => KInv'
  BY StepK
<1> QED BY <1>1, InitK, OrderOfK, SafetyPart, PTL

(* On a screen of any size, any text without a backspace at the start of a  *)
(* line is drawn inside the screen, on lines that do not overlap.           *)
THEOREM TextInsideScreen ==
    ASSUME OneKeyEach, ~Back
    PROVE  Spec /\ []NoBackAtStart => []DrawsInside
<1> DEFINE Inv == KInv /\ SInv /\ IrqT
<1>1. Init => Inv
  BY InitK, InitS, Zenon DEF Init, IrqT
<1>2. NoBackAtStart /\ Inv /\ [Next]_vars => Inv'
  BY StepK, StepS, StepIrq
<1>3. Inv => DrawsInside
  BY InsideOfInv
<1> QED BY <1>1, <1>2, <1>3, SafetyPart, PTL
================================================================================
