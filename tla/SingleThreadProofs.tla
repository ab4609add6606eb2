------------------------- MODULE SingleThreadProofs -------------------------
(***************************************************************************)
(* Proofs about three parts that take their steps one after another:        *)
(* the kernel's keyboard, for any of the keys and any length of the queue;  *)
(* RoundRobin, for every number of processes and every input; the mouse     *)
(* shim, for any number of blocks.  Keyboard and shim are instances with    *)
(* variables of their own.                                                  *)
(***************************************************************************)
EXTENDS RoundRobin, Sequences, FiniteSets, TLAPS

-----------------------------------------------------------------------------
(* The keyboard *)

CONSTANTS Keys, QueueSize, Funcs
VARIABLES held, queue, modifiers, last_escape, typed, ch, power, pci
K == INSTANCE Keyboard

(* What keymap makes of each key's code. *)
Meaning == [lshift |-> "SHIFT", rshift |-> "SHIFT", lctrl |-> "CONTROL", rctrl |-> "CONTROL",
            lalt |-> "ALT", ralt |-> "ALT", caps |-> "CAPSLOCK", a |-> "a", c |-> "c",
            q |-> "q", one |-> "CKEY(0)", pad8 |-> "8", up |-> "UP"]
Key == {"lshift", "rshift", "lctrl", "rctrl", "lalt", "ralt", "caps", "a", "c", "q", "one",
        "pad8", "up"}
Controls == {"lctrl", "rctrl"}
Shifts == {"lshift", "rshift"}

Code(key) == K!Scan[key] % 128
Extended(key) == K!Scan[key] > 128

(* Each key's code, with 128 added after a prefix, selects its meaning. *)
LEMMA Decoding ==
  \A key \in Key :
    /\ Code(key) \in 1 .. 95
    /\ K!keymap(Code(key) + (IF Extended(key) THEN 128 ELSE 0)) = Meaning[key]
<1> USE DEF Key, Code, Extended, Meaning, K!Scan, K!keymap, K!KEY_SHIFT, K!KEY_CONTROL, K!KEY_ALT, K!KEY_CAPSLOCK
<1>1. ASSUME NEW key \in Key
      PROVE  K!Scan[key] \in {42, 54, 29, 157, 56, 184, 58, 30, 46, 16, 2, 72, 200}
  BY SMTT(30)
<1>2. QED
  BY SMTT(30)

(* The keys that set a modifier are the keys of its group. *)
LEMMA Groups ==
  \A key \in Key :
    /\ Meaning[key] = "CONTROL" <=> key \in Controls
    /\ Meaning[key] = "SHIFT" <=> key \in Shifts
BY DEF Key, Meaning, Controls, Shifts

(* The bytes of the queue: a prefix is followed by the byte it belongs to,   *)
(* and last_escape says that the prefix has been read already.               *)
Entry == [byte : 0 .. 255, key : Keys, held : SUBSET Keys]

(* The bytes are numbers. *)
LEMMA EntryByte == \A e \in Entry : e.byte \in Nat
BY DEF Entry

Final(e) == e.byte # K!Prefix
Prefixed(x) == IF x = 1 THEN last_escape ELSE ~Final(queue[x - 1])

QueueType == queue \in Seq(Entry)

KeyboardType ==
  /\ held \in SUBSET Keys /\ QueueType
  /\ modifiers \in SUBSET {"SHIFT", "CONTROL", "ALT", "CAPSLOCK"}
  /\ last_escape \in BOOLEAN

Fits(x) ==
  IF Final(queue[x])
  THEN /\ queue[x].byte \in {Code(queue[x].key), Code(queue[x].key) + 128}
       /\ Prefixed(x) <=> Extended(queue[x].key)
  ELSE x < Len(queue) /\ Final(queue[x + 1])

WellFormed ==
  /\ last_escape => queue # <<>> /\ Final(queue[1])
  /\ \A x \in 1 .. Len(queue) : Fits(x)

(* A key of group is released, or pressed, by an entry. *)
Releases(e, group) == Final(e) /\ e.byte >= 128 /\ e.key \in group
Presses(e, group) == e.byte < 128 /\ e.key \in group

(* From the time a modifier is set, by the bytes read or by one in the       *)
(* queue, until a key of its group is released, such a key is held.          *)
Starts(y, group, modifier) ==
  IF y = 0 THEN modifier \in modifiers ELSE Presses(queue[y], group)
Held(x) == IF x = Len(queue) + 1 THEN held ELSE queue[x].held
Complete(x) == x = Len(queue) + 1 \/ Final(queue[x])
StaysHeld(group, modifier) ==
  \A y \in 0 .. Len(queue), x \in 1 .. Len(queue) + 1 :
    /\ y <= x /\ Starts(y, group, modifier) /\ Complete(x)
    /\ \A z \in 1 .. Len(queue) : y <= z /\ z <= x => ~Releases(queue[z], group)
    => Held(x) \cap group # {}

KeyboardInv ==
  /\ KeyboardType /\ WellFormed
  /\ StaysHeld(Controls, "CONTROL") /\ StaysHeld(Shifts, "SHIFT")
  /\ K!CharactersAsTyped

(* What a press or a release adds to the queue. *)
Appended(key, code, keys) ==
  LET n == Len(queue') - Len(queue)
  IN  /\ n = (IF Extended(key) THEN 2 ELSE 1)
      /\ \A x \in 1 .. Len(queue) : queue'[x] = queue[x]
      /\ n = 2 => queue'[Len(queue) + 1] = [byte |-> K!Prefix, key |-> key, held |-> keys]
      /\ queue'[Len(queue')] = [byte |-> code, key |-> key, held |-> keys]

(* A key's bytes go to the end of the queue. *)
LEMMA SendAppends ==
  ASSUME K!ConstantsOK, KeyboardType, NEW key \in Keys, NEW code, NEW keys \in SUBSET Keys,
         \/ code = Code(key) /\ K!Send(key, TRUE, keys)
         \/ code = Code(key) + 128 /\ K!Send(key, FALSE, keys)
  PROVE  QueueType' /\ Appended(key, code, keys)
<1> DEFINE E(b) == [byte |-> b, key |-> key, held |-> keys]
<1>1. queue \in Seq(Entry) /\ Len(queue) \in Nat
  <2>1. queue \in Seq(Entry)
    BY Zenon DEF KeyboardType, QueueType
  <2>2. QED
    BY <2>1
<1>2. key \in Key /\ code \in 0 .. 255 /\ K!Prefix \in 0 .. 255
  <2>1. key \in Key
    BY Zenon DEF K!ConstantsOK, Key, K!Scan
  <2>2. Code(key) \in 1 .. 95
    BY <2>1, Decoding, Zenon
  <2>3. code = Code(key) \/ code = Code(key) + 128
    BY Zenon
  <2>4. QED
    BY <2>1, <2>2, <2>3 DEF K!Prefix
<1>3. E(code) \in Entry /\ E(K!Prefix) \in Entry
  BY <1>2, Zenon DEF Entry
<1>4. /\ Extended(key) => queue' = Append(Append(queue, E(K!Prefix)), E(code))
      /\ ~Extended(key) => queue' = Append(queue, E(code))
  <2>1. Code(key) + 0 = Code(key)
    BY <1>2, Decoding
  <2>2. \/ code = K!ScanCode(key, TRUE) /\ K!Send(key, TRUE, keys)
        \/ code = K!ScanCode(key, FALSE) /\ K!Send(key, FALSE, keys)
    BY <2>1, Zenon DEF K!ScanCode, Code
  <2>3. QED
    BY <2>2, Zenon DEF K!Send, Extended
<1> HIDE DEF E
<1>5. CASE Extended(key)
  <2> DEFINE escaped == Append(queue, E(K!Prefix))
  <2>1. /\ escaped \in Seq(Entry) /\ Len(escaped) = Len(queue) + 1 /\ escaped[Len(queue) + 1] = E(K!Prefix)
        /\ \A x \in 1 .. Len(queue) : escaped[x] = queue[x]
    BY <1>1, <1>3
  <2>2. queue' = Append(escaped, E(code))
    BY <1>4, <1>5, Zenon
  <2> HIDE DEF escaped
  <2>3. /\ queue' \in Seq(Entry) /\ Len(queue') = Len(queue) + 2
        /\ \A x \in 1 .. Len(queue) + 1 : queue'[x] = escaped[x]
        /\ queue'[Len(queue) + 2] = E(code)
    BY <1>1, <1>3, <2>1, <2>2
  <2>4. Len(queue') - Len(queue) = 2 /\ Len(queue') = Len(queue) + 2
    BY <1>1, <2>3
  <2>5. /\ Len(queue) + 1 \in 1 .. Len(queue) + 1
        /\ \A x \in 1 .. Len(queue) : x \in 1 .. Len(queue) + 1
    BY <1>1
  <2>6. /\ \A x \in 1 .. Len(queue) : queue'[x] = queue[x]
        /\ queue'[Len(queue) + 1] = E(K!Prefix) /\ queue'[Len(queue')] = E(code)
    BY <2>1, <2>3, <2>4, <2>5, Zenon
  <2>7. QED
    BY <1>5, <2>3, <2>4, <2>6, Zenon DEF QueueType, Appended, E
<1>6. CASE ~Extended(key)
  <2>1. /\ queue' \in Seq(Entry) /\ Len(queue') = Len(queue) + 1
        /\ \A x \in 1 .. Len(queue) : queue'[x] = queue[x]
        /\ queue'[Len(queue) + 1] = E(code)
    BY <1>1, <1>3, <1>4, <1>6
  <2>2. Len(queue') - Len(queue) = 1 /\ 1 # 2
    BY <1>1, <2>1
  <2>3. QED
    BY <1>6, <2>1, <2>2, Zenon DEF QueueType, Appended, E
<1>7. QED
  BY <1>5, <1>6, Zenon

(* Sending keeps a group's keys held until one of them is released. *)
LEMMA SendStaysHeld ==
  ASSUME KeyboardType, QueueType', UNCHANGED modifiers,
         NEW key \in Key, NEW code, Appended(key, code, held'),
         \/ code = Code(key) /\ held' = held \cup {key}
         \/ code = Code(key) + 128 /\ held' = held \ {key},
         NEW group, NEW modifier, StaysHeld(group, modifier)
  PROVE  StaysHeld(group, modifier)'
<1> DEFINE L == Len(queue)
           M == Len(queue')
<1>1. L \in Nat /\ M \in Nat /\ M \in {L + 1, L + 2}
  <2>1. queue \in Seq(Entry) /\ queue' \in Seq(Entry)
    BY Zenon DEF KeyboardType, QueueType
  <2>2. L \in Nat /\ M \in Nat
    BY <2>1
  <2>3. QED
    BY <2>2 DEF Appended
<1>2. \A x \in 1 .. L : queue'[x] = queue[x]
  BY Zenon DEF Appended
<1>5. Code(key) \in 1 .. 95
  BY Decoding, Zenon
<1>3. queue'[M].byte = code /\ queue'[M].key = key /\ queue'[M].held = held'
  BY DEF Appended
<1>4. M = L + 2 => ~Final(queue'[L + 1])
  BY <1>1 DEF Appended, Final
<1>6. Final(queue'[M]) /\ (code < 128 <=> code = Code(key)) /\ ~(code >= 128 /\ code < 128)
  <2>1. code = Code(key) \/ code = Code(key) + 128
    BY Zenon
  <2>2. code # 224 /\ (code < 128 <=> code = Code(key)) /\ ~(code >= 128 /\ code < 128)
    BY <1>5, <2>1
  <2>3. QED
    BY <1>3, <2>2, Zenon DEF Final, K!Prefix
<1>7. /\ code = Code(key) => held' = held \cup {key}
      /\ code # Code(key) => held' = held \ {key} /\ code >= 128
  <2>1. Code(key) + 128 >= 128 /\ Code(key) + 128 # Code(key)
    BY <1>5
  <2>2. QED
    BY <2>1, Zenon
<1>8. ASSUME NEW y \in 0 .. M, NEW x \in 1 .. M + 1, y <= x,
             Starts(y, group, modifier)', Complete(x)',
             \A z \in 1 .. M : y <= z /\ z <= x => ~Releases(queue'[z], group)
      PROVE  Held(x)' \cap group # {}
  <2>1. CASE x <= L
    <3>1. y \in 0 .. L /\ x \in 1 .. L + 1 /\ Starts(y, group, modifier)
      BY <1>1, <1>2, <1>8, <2>1 DEF Starts
    <3>2. Complete(x) /\ Held(x)' = Held(x)
      BY <1>1, <1>2, <1>8, <2>1 DEF Complete, Held
    <3>3. \A z \in 1 .. L : y <= z /\ z <= x => ~Releases(queue[z], group)
      BY <1>1, <1>2, <1>8
    <3>4. Held(x) \cap group # {}
      BY <1>8, <3>1, <3>2, <3>3, Zenon DEF StaysHeld
    <3>5. QED
      BY <3>2, <3>4, Zenon
  <2>2. CASE x > L
    <3>1. x \in {M, M + 1}
      BY <1>1, <1>4, <1>8, <2>2 DEF Complete
    <3>2. Held(x)' = held'
      BY <1>1, <1>3, <3>1, Zenon DEF Held
    <3>3. CASE y <= L
      <4>1. y \in 0 .. L /\ L + 1 \in 1 .. L + 1 /\ y <= L + 1 /\ Starts(y, group, modifier)
        BY <1>1, <1>2, <1>8, <3>3 DEF Starts
      <4>2. Complete(L + 1) /\ Held(L + 1) = held
        BY <1>1, Zenon DEF Complete, Held
      <4>3. \A z \in 1 .. L : y <= z /\ z <= L + 1 => ~Releases(queue[z], group)
        BY <1>1, <1>2, <1>8, <2>2
      <4>4. held \cap group # {}
        BY <4>1, <4>2, <4>3, Zenon DEF StaysHeld
      <4>5. ~Releases(queue'[M], group)
        BY <1>1, <1>8, <3>1, <3>3
      <4>6. code = Code(key) \/ key \notin group
        BY <1>3, <1>6, <1>7, <4>5, Zenon DEF Releases
      <4>7. QED
        BY <1>7, <3>2, <4>4, <4>6, Zenon
    <3>4. CASE y > L
      <4>1. Presses(queue'[y], group)
        BY <1>1, <1>8, <3>4 DEF Starts
      <4>2. y = M
        <5>1. CASE M = L + 2 /\ y = L + 1
          BY <1>4, <4>1, <5>1 DEF Final, Presses, K!Prefix
        <5>2. QED
          BY <1>1, <3>4, <5>1
      <4>3. code = Code(key) /\ key \in group
        BY <1>3, <1>6, <4>1, <4>2, Zenon DEF Presses
      <4>4. QED
        BY <1>7, <3>2, <4>3, Zenon
    <3>5. QED
      BY <1>1, <3>3, <3>4
  <2>3. QED
    BY <1>1, <2>1, <2>2
<1>9. QED
  BY <1>8, Zenon DEF StaysHeld

(* Sending keeps every prefix together with its byte. *)
LEMMA SendWellFormed ==
  ASSUME KeyboardType, QueueType', UNCHANGED last_escape, WellFormed,
         NEW key \in Key, NEW code, NEW keys, Appended(key, code, keys),
         code = Code(key) \/ code = Code(key) + 128
  PROVE  WellFormed'
<1> DEFINE L == Len(queue)
           M == Len(queue')
<1>1. L \in Nat /\ M \in Nat /\ M = (IF Extended(key) THEN L + 2 ELSE L + 1)
  <2>1. queue \in Seq(Entry) /\ queue' \in Seq(Entry)
    BY Zenon DEF KeyboardType, QueueType
  <2>2. L \in Nat /\ M \in Nat
    BY <2>1
  <2>3. QED
    BY <2>2 DEF Appended
<1>2. \A x \in 1 .. L : queue'[x] = queue[x]
  BY Zenon DEF Appended
<1>3. queue'[M].byte = code /\ queue'[M].key = key
  BY DEF Appended
<1>4. M = L + 2 => ~Final(queue'[L + 1])
  BY <1>1 DEF Appended, Final
<1>5. Final(queue'[M])
  <2>1. Code(key) \in 1 .. 95
    BY Decoding, Zenon
  <2>2. code # 224
    BY <2>1
  <2>3. QED
    BY <1>3, <2>2, Zenon DEF Final, K!Prefix
<1>6. last_escape => L >= 1 /\ Final(queue[1])
  <2>1. queue # <<>> => L # 0
    <3>1. queue \in Seq(Entry)
      BY Zenon DEF KeyboardType, QueueType
    <3>2. QED
      BY <3>1
  <2>2. QED
    BY <1>1, <2>1 DEF WellFormed
<1>7. last_escape' => queue' # <<>> /\ Final(queue'[1])
  <2>1. queue' # <<>>
    BY <1>1
  <2>2. QED
    BY <1>1, <1>2, <1>6, <2>1
<1>8. ASSUME NEW x \in 1 .. M PROVE Fits(x)'
  <2>1. CASE x <= L
    <3>1. Fits(x) /\ queue'[x] = queue[x]
      BY <1>1, <1>2, <2>1 DEF WellFormed
    <3>2. Prefixed(x)' = Prefixed(x)
      BY <1>1, <1>2, <2>1 DEF Prefixed
    <3>3. CASE Final(queue[x])
      BY <3>1, <3>2, <3>3, Zenon DEF Fits
    <3>4. CASE ~Final(queue[x])
      <4>1. x + 1 \in 1 .. L /\ Final(queue[x + 1])
        BY <1>1, <2>1, <3>1, <3>4 DEF Fits
      <4>2. x < M /\ Final(queue'[x + 1])
        BY <1>1, <1>2, <2>1, <4>1
      <4>3. QED
        BY <3>1, <3>4, <4>2, Zenon DEF Fits
    <3>5. QED
      BY <3>3, <3>4, Zenon
  <2>2. CASE x = M
    <3>1. Prefixed(x)' <=> Extended(key)
      <4>1. CASE Extended(key)
        BY <2>2, <1>1, <1>4, <4>1 DEF Prefixed
      <4>2. CASE ~Extended(key) /\ L = 0
        BY <2>2, <1>1, <1>6, <4>2 DEF Prefixed
      <4>3. CASE ~Extended(key) /\ L # 0
        <5>1. Fits(L) /\ L \in 1 .. L /\ queue'[L] = queue[L]
          BY <1>1, <1>2, <4>3 DEF WellFormed
        <5>2. Final(queue'[L])
          BY <1>1, <5>1 DEF Fits
        <5>3. QED
          BY <2>2, <1>1, <4>3, <5>2 DEF Prefixed
      <4>4. QED
        BY <4>1, <4>2, <4>3, Zenon
    <3>2. QED
      BY <1>3, <1>5, <2>2, <3>1, Zenon DEF Fits
  <2>3. CASE x = L + 1 /\ M = L + 2
    <3>1. ~Final(queue'[x]) /\ x < M /\ x + 1 = M
      BY <1>1, <1>4, <2>3
    <3>2. QED
      BY <1>5, <3>1, Zenon DEF Fits
  <2>4. QED
    BY <1>1, <2>1, <2>2, <2>3
<1>9. QED
  BY <1>7, <1>8, Zenon DEF WellFormed

(* A key that goes down or comes up keeps the invariant. *)
LEMMA SendInv ==
  ASSUME K!ConstantsOK, KeyboardInv, K!Press \/ K!Release
  PROVE  KeyboardInv'
<1>1. KeyboardType /\ WellFormed
  BY Zenon DEF KeyboardInv
<1>2. PICK key \in Keys :
         \/ K!Send(key, TRUE, held \cup {key})
         \/ K!Send(key, FALSE, held \ {key})
  <2>1. held \in SUBSET Keys
    BY <1>1, Zenon DEF KeyboardType
  <2>2. QED
    BY <2>1, Zenon DEF K!Press, K!Release
<1>3. key \in Key
  BY Zenon DEF K!ConstantsOK, Key, K!Scan
<1>4. PICK code :
         \/ code = Code(key) /\ K!Send(key, TRUE, held \cup {key})
         \/ code = Code(key) + 128 /\ K!Send(key, FALSE, held \ {key})
  BY <1>2, Zenon
<1>5. /\ UNCHANGED <<modifiers, last_escape, typed, ch>>
      /\ held' \in SUBSET Keys
      /\ \/ code = Code(key) /\ held' = held \cup {key} /\ K!Send(key, TRUE, held')
         \/ code = Code(key) + 128 /\ held' = held \ {key} /\ K!Send(key, FALSE, held')
  <2>1. held \in SUBSET Keys
    BY <1>1, Zenon DEF KeyboardType
  <2>2. QED
    BY <1>4, <2>1, Zenon DEF K!Send
<1>6. QueueType' /\ Appended(key, code, held')
  BY <1>1, <1>5, SendAppends, Zenon
<1>7. KeyboardType'
  BY <1>1, <1>5, <1>6, Zenon DEF KeyboardType
<1>8. WellFormed'
  BY <1>1, <1>3, <1>5, <1>6, SendWellFormed, Zenon
<1>9. StaysHeld(Controls, "CONTROL")' /\ StaysHeld(Shifts, "SHIFT")'
  BY <1>1, <1>3, <1>5, <1>6, SendStaysHeld, Zenon DEF KeyboardInv
<1>10. K!CharactersAsTyped'
  BY <1>5, Zenon DEF KeyboardInv, K!CharactersAsTyped
<1>11. QED
  BY <1>7, <1>8, <1>9, <1>10, Zenon DEF KeyboardInv

(* keyboard_readc takes the first byte. *)
LEMMA ReadShifts ==
  ASSUME KeyboardType, K!keyboard_readc
  PROVE  /\ QueueType' /\ Len(queue) \in Nat /\ Len(queue) >= 1
         /\ Len(queue') = Len(queue) - 1
         /\ \A x \in 1 .. Len(queue') : queue'[x] = queue[x + 1]
         /\ queue[1] \in Entry /\ typed' = queue[1]
         /\ last_escape' = (queue[1].byte = K!Prefix) /\ held' = held
<1>1. queue \in Seq(Entry)
  BY Zenon DEF KeyboardType, QueueType
<1>2. queue # <<>> /\ queue' = Tail(queue) /\ typed' = Head(queue)
  BY Zenon DEF K!keyboard_readc
<1>3. /\ queue' \in Seq(Entry) /\ Len(queue) \in Nat /\ Len(queue) >= 1
      /\ Len(queue') = Len(queue) - 1
      /\ \A x \in 1 .. Len(queue') : queue'[x] = queue[x + 1]
      /\ Head(queue) = queue[1] /\ queue[1] \in Entry
  BY <1>1, <1>2
<1>4. last_escape' = (Head(queue).byte = K!Prefix) /\ held' = held
  BY Zenon DEF K!keyboard_readc, K!Escape
<1>5. QED
  BY <1>2, <1>3, <1>4, Zenon DEF QueueType

(* What it makes of a byte: a byte that is not a prefix is decoded as the    *)
(* key it was sent for.                                                      *)
LEMMA ReadDecodes ==
  ASSUME K!ConstantsOK, KeyboardType, WellFormed, K!keyboard_readc,
         Final(queue[1])
  PROVE  /\ queue[1].key \in Key
         /\ queue[1].byte \in {Code(queue[1].key), Code(queue[1].key) + 128}
         /\ queue[1].byte >= 128 =>
              /\ modifiers' = modifiers \ ({Meaning[queue[1].key]} \cap K!Modifier)
              /\ ch' = <<"none", "none">>
         /\ queue[1].byte < 128 =>
              /\ Meaning[queue[1].key] # "CAPSLOCK" =>
                   modifiers' = modifiers \cup ({Meaning[queue[1].key]} \cap K!Modifier)
              /\ Meaning[queue[1].key] = "CAPSLOCK" =>
                   modifiers' = (modifiers \cup {"CAPSLOCK"}) \ (modifiers \cap {"CAPSLOCK"})
              /\ ch' = K!Character(Meaning[queue[1].key])
<1> DEFINE e == queue[1]
           m == K!keymap((e.byte % 128) + (IF last_escape THEN 128 ELSE 0))
<1>1. e \in Entry /\ Len(queue) \in Nat /\ Len(queue) >= 1
  BY ReadShifts, Zenon
<1>2. e.key \in Key
  BY <1>1, Zenon DEF Entry, K!ConstantsOK, Key, K!Scan
<1>3. Fits(1)
  BY <1>1 DEF WellFormed
<1>4. e.byte \in {Code(e.key), Code(e.key) + 128} /\ (last_escape <=> Extended(e.key))
  BY <1>3, Zenon DEF Fits, Prefixed
<1>5. Code(e.key) \in 1 .. 95
  BY <1>2, Decoding, Zenon
<1>6. e.byte % 128 = Code(e.key) /\ e.byte \in Nat
  BY <1>4, <1>5
<1>7. m = Meaning[e.key]
  <2>1. CASE last_escape
    BY <1>2, <1>4, <1>6, <2>1, Decoding
  <2>2. CASE ~last_escape
    BY <1>2, <1>4, <1>6, <2>2, Decoding
  <2>3. QED
    BY <2>1, <2>2, Zenon
<1>8. queue # <<>> => Head(queue) = e
  <2>1. queue \in Seq(Entry)
    BY Zenon DEF KeyboardType, QueueType
  <2>2. QED
    BY <2>1
<1> DEFINE Effect(data, key) ==
      /\ modifiers' =
           CASE data = K!Prefix -> modifiers
             [] data # K!Prefix /\ data >= 128 -> K!Released(key)
             [] data < 128 ->
                  IF key = K!KEY_CAPSLOCK
                  THEN (modifiers \union {key}) \ (modifiers \intersect {key})
                  ELSE modifiers \union ({key} \intersect K!Modifier)
      /\ ch' = IF data >= 128 THEN <<"none", "none">> ELSE K!Character(key)
<1>9. Effect(e.byte, m)
  <2>1. Head(queue) = e
    BY <1>8, Zenon DEF K!keyboard_readc
  <2>2. Effect(Head(queue).byte,
               K!keymap((Head(queue).byte % 128) + (IF last_escape THEN 128 ELSE 0)))
    BY Zenon DEF K!keyboard_readc
  <2> HIDE DEF Effect
  <2>3. QED
    BY <2>1, <2>2, Zenon
<1> HIDE DEF m, e
<1>10. e.byte # K!Prefix
  BY Zenon DEF e, Final
<1>11. e.byte >= 128 => modifiers' = K!Released(m) /\ ch' = <<"none", "none">>
  BY <1>6, <1>9, <1>10 DEF K!Prefix
<1>12. e.byte < 128 =>
         /\ m # "CAPSLOCK" => modifiers' = modifiers \cup ({m} \cap K!Modifier)
         /\ m = "CAPSLOCK" => modifiers' = (modifiers \cup {m}) \ (modifiers \cap {m})
         /\ ch' = K!Character(m)
  BY <1>6, <1>9, <1>10 DEF K!Prefix, K!KEY_CAPSLOCK
<1>13. QED
  BY <1>2, <1>4, <1>7, <1>11, <1>12, Zenon DEF K!Released, e

(* So does reading: last_escape remembers a prefix that was taken off. *)
LEMMA ReadWellFormed ==
  ASSUME KeyboardType, WellFormed, K!keyboard_readc
  PROVE  WellFormed'
<1> DEFINE L == Len(queue)
           M == Len(queue')
<1>1. /\ L \in Nat /\ L >= 1 /\ M = L - 1
      /\ \A x \in 1 .. M : queue'[x] = queue[x + 1]
      /\ last_escape' = ~Final(queue[1])
  BY ReadShifts, Zenon DEF Final
<1> HIDE DEF L, M
<1>2. \A x \in 1 .. L : Fits(x)
  BY Zenon DEF WellFormed, L
<1>3. last_escape' => queue' # <<>> /\ Final(queue'[1])
  <2>1. ASSUME ~Final(queue[1]) PROVE M >= 1 /\ Final(queue'[1])
    <3>1. Fits(1)
      BY <1>1, <1>2
    <3>2. 1 < L /\ Final(queue[1 + 1])
      BY <2>1, <3>1, Zenon DEF Fits, L
    <3>3. QED
      BY <1>1, <3>2
  <2>2. queue' = <<>> => ~(M >= 1)
    BY DEF M
  <2>3. last_escape' => ~Final(queue[1])
    BY <1>1, Zenon
  <2>4. QED
    BY <2>1, <2>2, <2>3, Zenon
<1>4. ASSUME NEW x \in 1 .. M PROVE Fits(x)'
  <2>1. x + 1 \in 1 .. L /\ Fits(x + 1) /\ queue'[x] = queue[x + 1]
    BY <1>1, <1>2
  <2>2. Prefixed(x)' = Prefixed(x + 1)
    <3>1. CASE x = 1
      BY <1>1, <3>1 DEF Prefixed
    <3>2. CASE x # 1
      <4>1. x - 1 \in 1 .. M /\ queue'[x - 1] = queue[x] /\ x + 1 # 1 /\ (x + 1) - 1 = x
        <5>1. x - 1 \in 1 .. M /\ (x - 1) + 1 = x /\ x + 1 # 1 /\ (x + 1) - 1 = x
          BY <1>1, <3>2
        <5>2. QED
          BY <1>1, <5>1, Zenon
      <4>2. QED
        BY <3>2, <4>1, Zenon DEF Prefixed
    <3>3. QED
      BY <3>1, <3>2, Zenon
  <2>3. CASE Final(queue[x + 1])
    BY <2>1, <2>2, <2>3, Zenon DEF Fits
  <2>4. CASE ~Final(queue[x + 1])
    <3>1. x + 1 < L /\ Final(queue[(x + 1) + 1])
      BY <2>1, <2>4, Zenon DEF Fits, L
    <3>2. x < M /\ x + 1 \in 1 .. M
      BY <1>1, <3>1
    <3>3. Final(queue'[x + 1])
      BY <1>1, <3>1, <3>2, Zenon
    <3>4. QED
      BY <2>1, <2>4, <3>2, <3>3, Zenon DEF Fits, M
  <2>5. QED
    BY <2>3, <2>4, Zenon
<1>5. QED
  BY <1>3, <1>4, Zenon DEF WellFormed, M

(* Reading keeps a group's keys held until one of them is released, when the *)
(* modifier is set by a press of the group only and cleared by a release.    *)
LEMMA ReadStaysHeld ==
  ASSUME KeyboardType, K!keyboard_readc, NEW group, NEW modifier,
         StaysHeld(group, modifier),
         modifier \in modifiers' =>
           \/ modifier \in modifiers /\ ~Releases(queue[1], group)
           \/ Presses(queue[1], group)
  PROVE  StaysHeld(group, modifier)'
<1> DEFINE L == Len(queue)
           M == Len(queue')
<1>1. /\ L \in Nat /\ L >= 1 /\ M = L - 1
      /\ \A x \in 1 .. M : queue'[x] = queue[x + 1]
      /\ held' = held /\ queue[1] \in Entry
  BY ReadShifts, Zenon
<1>2. ASSUME NEW y \in 0 .. M, NEW x \in 1 .. M + 1, y <= x,
             Starts(y, group, modifier)', Complete(x)',
             \A z \in 1 .. M : y <= z /\ z <= x => ~Releases(queue'[z], group)
      PROVE  Held(x)' \cap group # {}
  <2>1. Complete(x + 1) /\ Held(x)' = Held(x + 1) /\ x + 1 \in 1 .. L + 1
    <3>1. CASE x = M + 1
      BY <1>1, <3>1 DEF Complete, Held
    <3>2. CASE x # M + 1
      <4>1. x \in 1 .. M /\ x + 1 # L + 1 /\ queue'[x] = queue[x + 1]
        BY <1>1, <3>2
      <4>2. QED
        BY <1>1, <1>2, <3>2, <4>1 DEF Complete, Held
    <3>3. QED
      BY <3>1, <3>2, Zenon
  <2>2. ASSUME NEW z \in 1 .. L, z # 1, y <= z - 1, z <= x + 1
        PROVE  ~Releases(queue[z], group)
    <3>1. z - 1 \in 1 .. M /\ (z - 1) + 1 = z /\ z - 1 <= x
      BY <1>1, <2>2
    <3>2. queue'[z - 1] = queue[z]
      BY <1>1, <3>1, Zenon
    <3>3. QED
      BY <1>2, <2>2, <3>1, <3>2, Zenon
  <2>3. CASE y # 0
    <3>1. y \in 1 .. M /\ queue'[y] = queue[y + 1] /\ y + 1 \in 0 .. L /\ y + 1 <= x + 1
      BY <1>1, <1>2, <2>3
    <3>2. Starts(y + 1, group, modifier)
      BY <1>2, <2>3, <3>1 DEF Starts
    <3>3. \A z \in 1 .. L : y + 1 <= z /\ z <= x + 1 => ~Releases(queue[z], group)
      BY <1>1, <2>2, <2>3
    <3>4. QED
      BY <2>1, <3>1, <3>2, <3>3, Zenon DEF StaysHeld
  <2>4. CASE y = 0 /\ modifier \in modifiers /\ ~Releases(queue[1], group)
    <3>1. \A z \in 1 .. L : 0 <= z /\ z <= x + 1 => ~Releases(queue[z], group)
      BY <1>1, <2>2, <2>4
    <3>2. Starts(0, group, modifier) /\ 0 \in 0 .. L /\ 0 <= x + 1
      BY <1>1, <2>4 DEF Starts
    <3>3. QED
      BY <2>1, <3>1, <3>2, Zenon DEF StaysHeld
  <2>5. CASE y = 0 /\ Presses(queue[1], group)
    <3>1. ~Releases(queue[1], group)
      <4>1. queue[1].byte \in Nat
        BY <1>1, EntryByte, Zenon
      <4>2. QED
        BY <2>5, <4>1 DEF Presses, Releases
    <3>2. \A z \in 1 .. L : 1 <= z /\ z <= x + 1 => ~Releases(queue[z], group)
      BY <1>1, <2>2, <2>5, <3>1
    <3>3. Starts(1, group, modifier) /\ 1 \in 0 .. L /\ 1 <= x + 1
      BY <1>1, <2>5 DEF Starts
    <3>4. QED
      BY <2>1, <3>2, <3>3, Zenon DEF StaysHeld
  <2>6. y = 0 => modifier \in modifiers'
    BY <1>2, Zenon DEF Starts
  <2>7. QED
    BY <2>3, <2>4, <2>5, <2>6, Zenon
<1>3. QED
  BY <1>2, Zenon DEF StaysHeld

(* A prefix changes nothing but last_escape. *)
LEMMA ReadPrefix ==
  ASSUME KeyboardType, K!keyboard_readc, ~Final(queue[1])
  PROVE  modifiers' = modifiers /\ ch' = <<"none", "none">>
<1>1. queue # <<>>
  BY Zenon DEF K!keyboard_readc
<1>2. Head(queue) = queue[1]
  <2>1. queue \in Seq(Entry)
    BY Zenon DEF KeyboardType, QueueType
  <2>2. QED
    BY <1>1, <2>1
<1>3. Head(queue).byte = 224
  BY <1>2, Zenon DEF Final, K!Prefix
<1>4. QED
  BY <1>3 DEF K!keyboard_readc, K!Prefix

(* The character of a key under the modifiers. *)
Suits(key, c) ==
  /\ c[2] \in K!Symbols[key]
  /\ c[1] = "ctrl" => "CONTROL" \in modifiers
  /\ (c[1] = "upper" /\ "CAPSLOCK" \notin modifiers) \/ c[2] = "!" => "SHIFT" \in modifiers
  /\ Meaning[key] \notin {"SHIFT", "CONTROL", "ALT", "CAPSLOCK"}

(* What Meaning and Symbols say of the keys, by their kind. *)
LEMMA KeyTables ==
  /\ \A key \in {"a", "c", "q"} : Meaning[key] = key /\ K!Symbols[key] = {key}
  /\ Meaning["one"] = "CKEY(0)" /\ K!Symbols["one"] = {"1", "!"}
  /\ Meaning["pad8"] = "8" /\ K!Symbols["pad8"] = {"8"}
  /\ Meaning["up"] = "UP" /\ K!Symbols["up"] = {"UP"}
  /\ \A key \in {"lshift", "rshift", "lctrl", "rctrl", "lalt", "ralt", "caps"} :
        Meaning[key] \in {"SHIFT", "CONTROL", "ALT", "CAPSLOCK"}
<1>1. \A key \in {"a", "c", "q"} : Meaning[key] = key
  BY DEF Meaning
<1>2. \A key \in {"a", "c", "q"} : K!Symbols[key] = {key}
  BY DEF K!Symbols
<1>3. Meaning["one"] = "CKEY(0)" /\ Meaning["pad8"] = "8" /\ Meaning["up"] = "UP"
  BY Zenon DEF Meaning
<1>4. K!Symbols["one"] = {"1", "!"} /\ K!Symbols["pad8"] = {"8"} /\ K!Symbols["up"] = {"UP"}
  BY Zenon DEF K!Symbols
<1>5. \A key \in {"lshift", "rshift", "lctrl", "rctrl", "lalt", "ralt", "caps"} :
        Meaning[key] \in {"SHIFT", "CONTROL", "ALT", "CAPSLOCK"}
  BY DEF Meaning
<1>6. QED
  BY <1>1, <1>2, <1>3, <1>4, <1>5, Zenon

(* The character of each kind of key, under the modifiers. *)
LEMMA LetterCharacter ==
  \A key \in {"a", "c", "q"} :
    \/ K!Character(key) = <<"ctrl", key>> /\ "CONTROL" \in modifiers
    \/ /\ K!Character(key) = <<"upper", key>>
       /\ "CAPSLOCK" \notin modifiers => "SHIFT" \in modifiers
    \/ K!Character(key) = <<"plain", key>>
BY DEF K!Character, K!Letters, K!KEY_CONTROL, K!KEY_SHIFT, K!KEY_CAPSLOCK

LEMMA OtherCharacter ==
  /\ \/ K!Character("CKEY(0)") = <<"none", "none">>
     \/ K!Character("CKEY(0)") = <<"plain", "!">> /\ "SHIFT" \in modifiers
     \/ K!Character("CKEY(0)") = <<"plain", "1">>
  /\ K!Character("8") \in {<<"none", "none">>, <<"plain", "8">>}
  /\ K!Character("UP") = <<"special", "UP">>
  /\ \A m \in {"SHIFT", "CONTROL", "ALT", "CAPSLOCK"} : K!Character(m) = <<"none", "none">>
<1> USE DEF K!Character, K!Letters, K!KEY_CONTROL, K!KEY_SHIFT
<1>1. \/ K!Character("CKEY(0)") = <<"none", "none">>
      \/ K!Character("CKEY(0)") = <<"plain", "!">> /\ "SHIFT" \in modifiers
      \/ K!Character("CKEY(0)") = <<"plain", "1">>
  BY Zenon DEF K!complex_keymap
<1>2. K!Character("8") \in {<<"none", "none">>, <<"plain", "8">>}
  BY Zenon
<1>3. K!Character("UP") = <<"special", "UP">>
  BY Zenon
<1>4. \A m \in {"SHIFT", "CONTROL", "ALT", "CAPSLOCK"} : K!Character(m) = <<"none", "none">>
  BY Zenon
<1>5. QED
  BY <1>1, <1>2, <1>3, <1>4, Zenon

(* The character that is returned for a key is of that key, and needs the    *)
(* modifiers it shows.                                                       *)
LEMMA CharacterSuits ==
  ASSUME NEW key \in Key, K!Character(Meaning[key]) # <<"none", "none">>
  PROVE  Suits(key, K!Character(Meaning[key]))
<1>1. CASE key \in {"a", "c", "q"}
  <2>1. Meaning[key] = key /\ K!Symbols[key] = {key}
    BY <1>1, KeyTables, Zenon
  <2>2. key # "!" /\ Meaning[key] \notin {"SHIFT", "CONTROL", "ALT", "CAPSLOCK"}
    BY <1>1, <2>1, Zenon
  <2>3. QED
    BY <1>1, <2>1, <2>2, LetterCharacter DEF Suits
<1>2. CASE key = "one"
  BY <1>2, KeyTables, OtherCharacter DEF Suits
<1>3. CASE key = "pad8"
  BY <1>3, KeyTables, OtherCharacter DEF Suits
<1>4. CASE key = "up"
  BY <1>4, KeyTables, OtherCharacter DEF Suits
<1>5. CASE key \in {"lshift", "rshift", "lctrl", "rctrl", "lalt", "ralt", "caps"}
  BY <1>5, KeyTables, OtherCharacter, Zenon
<1>6. QED
  BY <1>1, <1>2, <1>3, <1>4, <1>5, Zenon DEF Key

(* keyboard_readc keeps the invariant. *)
LEMMA ReadInv ==
  ASSUME K!ConstantsOK, KeyboardInv, K!keyboard_readc
  PROVE  KeyboardInv'
<1> DEFINE e == queue[1]
<1>1. KeyboardType /\ WellFormed /\ StaysHeld(Controls, "CONTROL") /\ StaysHeld(Shifts, "SHIFT")
  BY Zenon DEF KeyboardInv
<1>2. /\ QueueType' /\ Len(queue) \in Nat /\ Len(queue) >= 1 /\ e \in Entry /\ typed' = e
      /\ last_escape' = (e.byte = K!Prefix) /\ held' = held
  BY <1>1, ReadShifts, Zenon
<1>3. WellFormed'
  BY <1>1, ReadWellFormed, Zenon
<1>4. e.byte \in Nat
  <2>1. e.byte \in 0 .. 255
    BY <1>2, Zenon DEF Entry
  <2>2. QED
    BY <2>1
<1>5. ASSUME Final(e)
      PROVE  /\ e.key \in Key
             /\ e.byte >= 128 =>
                  /\ modifiers' = modifiers \ ({Meaning[e.key]} \cap K!Modifier)
                  /\ ch' = <<"none", "none">>
             /\ e.byte < 128 =>
                  /\ Meaning[e.key] # "CAPSLOCK" =>
                       modifiers' = modifiers \cup ({Meaning[e.key]} \cap K!Modifier)
                  /\ Meaning[e.key] = "CAPSLOCK" =>
                       modifiers' = (modifiers \cup {"CAPSLOCK"}) \ (modifiers \cap {"CAPSLOCK"})
                  /\ ch' = K!Character(Meaning[e.key])
  BY <1>1, <1>5, ReadDecodes, Zenon
<1>6. ~Final(e) => modifiers' = modifiers /\ ch' = <<"none", "none">>
  BY <1>1, ReadPrefix, Zenon
<1> HIDE DEF e
<1>7. e.byte >= 128 \/ e.byte < 128
  BY <1>4
<1>8. modifiers' \in SUBSET {"SHIFT", "CONTROL", "ALT", "CAPSLOCK"}
  <2>1. modifiers \in SUBSET {"SHIFT", "CONTROL", "ALT", "CAPSLOCK"}
    BY <1>1, Zenon DEF KeyboardType
  <2>2. QED
    BY <1>5, <1>6, <1>7, <2>1, Zenon DEF K!Modifier, K!KEY_SHIFT, K!KEY_CONTROL, K!KEY_ALT
<1>9. KeyboardType'
  <2>1. last_escape' \in BOOLEAN
    BY <1>2, Zenon
  <2>2. QED
    BY <1>1, <1>2, <1>8, <2>1, Zenon DEF KeyboardType
<1>10. ASSUME NEW group, NEW modifier \in {"SHIFT", "CONTROL"},
              \A key \in Key : Meaning[key] = modifier <=> key \in group,
              StaysHeld(group, modifier)
       PROVE  StaysHeld(group, modifier)'
  <2>1. CASE ~Final(e)
    <3>1. modifiers' = modifiers /\ ~Releases(e, group)
      BY <1>6, <2>1, Zenon DEF Releases
    <3>2. QED
      BY <1>1, <1>10, <3>1, ReadStaysHeld, Zenon DEF e
  <2>2. CASE Final(e)
    <3>1. e.key \in Key /\ modifier \in K!Modifier /\ modifier # "CAPSLOCK"
      BY <1>5, <1>10, <2>2, Zenon DEF K!Modifier, K!KEY_SHIFT, K!KEY_CONTROL
    <3>2. CASE e.byte >= 128
      <4>1. modifiers' = modifiers \ ({Meaning[e.key]} \cap K!Modifier)
        BY <1>5, <2>2, <3>2, Zenon
      <4>2. modifier \in modifiers' => modifier \in modifiers /\ ~Releases(e, group)
        BY <1>10, <3>1, <4>1, Zenon DEF Releases
      <4>3. QED
        BY <1>1, <1>10, <4>2, ReadStaysHeld, Zenon DEF e
    <3>3. CASE e.byte < 128
      <4>1. ~(e.byte >= 128)
        BY <1>4, <3>3
      <4>2. modifier \in modifiers' => modifier \in modifiers \/ Meaning[e.key] = modifier
        BY <1>5, <2>2, <3>1, <3>3, Zenon
      <4>3. modifier \in modifiers' =>
              (modifier \in modifiers /\ ~Releases(e, group)) \/ Presses(e, group)
        BY <1>10, <3>1, <3>3, <4>1, <4>2, Zenon DEF Releases, Presses
      <4>4. QED
        BY <1>1, <1>10, <4>3, ReadStaysHeld, Zenon DEF e
    <3>4. QED
      BY <1>7, <3>2, <3>3, Zenon
  <2>3. QED
    BY <2>1, <2>2, Zenon
<1>11. StaysHeld(Controls, "CONTROL")' /\ StaysHeld(Shifts, "SHIFT")'
  BY <1>1, <1>10, Groups, Zenon
<1>12. K!CharactersAsTyped'
  <2> SUFFICES ASSUME ch' # <<"none", "none">> PROVE K!CharactersAsTyped'
    BY Zenon DEF K!CharactersAsTyped
  <2>1. Final(e) /\ e.byte < 128 /\ ~(e.byte >= 128) /\ e.key \in Key
    <3>1. Final(e)
      BY <1>6, Zenon
    <3>2. QED
      BY <1>4, <1>5, <1>7, <3>1, Zenon
  <2>2. ch' = K!Character(Meaning[e.key])
    BY <1>5, <2>1, Zenon
  <2>3. Suits(e.key, ch')
    BY <2>1, <2>2, CharacterSuits, Zenon
  <2>4. modifiers' = modifiers
    <3>1. Meaning[e.key] \notin {"SHIFT", "CONTROL", "ALT", "CAPSLOCK"}
      BY <2>3, Zenon DEF Suits
    <3>2. QED
      BY <1>5, <2>1, <3>1, Zenon DEF K!Modifier, K!KEY_SHIFT, K!KEY_CONTROL, K!KEY_ALT
  <2>5. ASSUME NEW group, NEW modifier, StaysHeld(group, modifier), modifier \in modifiers
        PROVE  e.held \cap group # {}
    <3>1. Starts(0, group, modifier) /\ 0 \in 0 .. Len(queue) /\ 1 \in 1 .. Len(queue) + 1
      BY <1>2, <2>5 DEF Starts
    <3>2. 1 # Len(queue) + 1
      BY <1>2
    <3>3. Complete(1) /\ Held(1) = e.held
      BY <2>1, <3>2, Zenon DEF Complete, Held, e
    <3>4. \A z \in 1 .. Len(queue) : 0 <= z /\ z <= 1 => ~Releases(queue[z], group)
      <4>1. ~Releases(queue[1], group)
        BY <2>1, Zenon DEF Releases, e
      <4>2. \A z \in 1 .. Len(queue) : z <= 1 => z = 1
        BY <1>2
      <4>3. QED
        BY <4>1, <4>2, Zenon
    <3>5. QED
      BY <2>5, <3>1, <3>3, <3>4 DEF StaysHeld
  <2>6. /\ "CONTROL" \in modifiers => e.held \cap {"lctrl", "rctrl"} # {}
        /\ "SHIFT" \in modifiers => e.held \cap {"lshift", "rshift"} # {}
    BY <1>1, <2>5, Zenon DEF Controls, Shifts
  <2>7. QED
    BY <1>2, <2>3, <2>4, <2>6, Zenon DEF Suits, K!CharactersAsTyped, K!KEY_CAPSLOCK
<1>13. QED
  BY <1>3, <1>9, <1>11, <1>12, Zenon DEF KeyboardInv

(* keyboard_readc returns the character of the key that was pressed, for     *)
(* every set of keys and every queue: a control or a shifted character only  *)
(* if such a key was held at the press, however late the bytes are read.     *)
THEOREM CharactersStayTyped == ASSUME K!ConstantsOK PROVE K!Spec => []K!CharactersAsTyped
<1>1. K!Init => KeyboardInv
  <2> SUFFICES ASSUME K!Init PROVE KeyboardInv
    BY Zenon
  <2>1. /\ held = {} /\ queue = <<>> /\ modifiers = {} /\ last_escape = FALSE
        /\ ch = <<"none", "none">>
    BY Zenon DEF K!Init
  <2>2. QueueType /\ Len(queue) = 0
    BY <2>1 DEF QueueType
  <2>3. KeyboardType
    BY <2>1, <2>2, Zenon DEF KeyboardType
  <2>7. WellFormed
    <3>1. ~last_escape
      BY <2>1, Zenon
    <3>2. \A x \in 1 .. Len(queue) : Fits(x)
      BY <2>2
    <3>3. QED
      BY <3>1, <3>2, Zenon DEF WellFormed
  <2>4. ASSUME NEW group, NEW modifier PROVE StaysHeld(group, modifier)
    BY <2>1, <2>2 DEF StaysHeld, Starts
  <2>5. K!CharactersAsTyped
    BY <2>1, Zenon DEF K!CharactersAsTyped
  <2>6. QED
    BY <2>3, <2>4, <2>5, <2>7, Zenon DEF KeyboardInv
<1>2. KeyboardInv /\ [K!Next]_K!vars => KeyboardInv'
  <2> SUFFICES ASSUME KeyboardInv, [K!Next]_K!vars PROVE KeyboardInv'
    BY Zenon
  <2>1. CASE K!Press \/ K!Release
    BY <2>1, SendInv, Zenon
  <2>2. CASE K!check_keyboard
    BY <2>2, ReadInv, Zenon DEF K!check_keyboard
  <2>3. CASE UNCHANGED K!vars
    <3>1. /\ held' = held /\ queue' = queue /\ modifiers' = modifiers /\ typed' = typed /\ ch' = ch
          /\ last_escape' = last_escape
      BY <2>3, Zenon DEF K!vars
    <3>2. KeyboardType'
      BY <3>1, Zenon DEF KeyboardInv, KeyboardType, QueueType
    <3>3. WellFormed'
      BY <3>1, Zenon DEF KeyboardInv, WellFormed, Fits, Prefixed
    <3>4. StaysHeld(Controls, "CONTROL")' /\ StaysHeld(Shifts, "SHIFT")'
      BY <3>1, Zenon DEF KeyboardInv, StaysHeld, Starts, Held, Complete
    <3>5. K!CharactersAsTyped'
      BY <3>1, Zenon DEF KeyboardInv, K!CharactersAsTyped
    <3>6. QED
      BY <3>2, <3>3, <3>4, <3>5, Zenon DEF KeyboardInv
  <2>4. QED
    BY <2>1, <2>2, <2>3, Zenon DEF K!Next
<1>3. KeyboardInv => K!CharactersAsTyped
  BY Zenon DEF KeyboardInv
<1> QED
  BY <1>1, <1>2, <1>3, PTL DEF K!Spec

-----------------------------------------------------------------------------
(* The round robin *)

(* A process that can run has been passed over at most as often as the     *)
(* pointer has moved towards it since the pointer last left it behind, and *)
(* one that cannot run has not been passed over.                           *)
PassedOver ==
  \A p \in Process :
    /\ skipped[p] <= N - 1 - Distance(i, p)
    /\ ~Runnable(p) => skipped[p] = 0

(* A process that has run did so after its arrival, and the clock has      *)
(* moved on by at least what it has used.                                  *)
ClockCovers ==
  \A p \in Process :
    rem[p] < bt[p] => now >= at[p] + (bt[p] - rem[p])

IndInv ==
  /\ TypeOK
  /\ \A p \in Process : rem[p] <= bt[p]
  /\ PassedOver
  /\ ClockCovers
  /\ WaitingTimeSound

LEMMA DistanceBound ==
  \A j, p \in Process : Distance(j, p) \in 0 .. N - 1
BY NAssumption DEF Distance, Process

(* Different processes are at different distances. *)
LEMMA DistanceInjective ==
  ASSUME NEW j \in Process, NEW p \in Process, NEW k \in Process,
         Distance(j, p) = Distance(j, k)
  PROVE  p = k
<1> USE NAssumption DEF Distance, Process
<1>1. CASE p >= j
  BY <1>1
<1>2. CASE p < j
  BY <1>2
<1> QED
  BY <1>1, <1>2

(* The process after p is closer to everything the search finds after p. *)
LEMMA FollowingIsCloser ==
  ASSUME NEW j \in Process, NEW p \in Process, NEW k \in Process,
         k # p, Distance(j, p) < Distance(j, k)
  PROVE  Distance(Following(p), k) < Distance(j, k)
<1> USE NAssumption DEF Process
<1>1. CASE p = N - 1
  BY <1>1 DEF Distance, Following
<1>2. CASE p # N - 1
  BY <1>2 DEF Distance, Following
<1> QED
  BY <1>1, <1>2, Zenon

LEMMA InitInd == Init => IndInv
<1> SUFFICES ASSUME Init PROVE IndInv
  BY Zenon
<1>1. TypeOK
  <2>1. at \in [Process -> Int] /\ bt \in [Process -> Nat \ {0}]
    BY ArrivalsAssumption, BurstsAssumption, Zenon DEF Init
  <2>2. finish \in [Process -> Nat \cup {-1}] /\ skipped \in [Process -> Nat]
    BY Zenon DEF Init
  <2>3. now \in Nat /\ i \in Process /\ q \in Nat \ {0}
    BY NAssumption, QuantaAssumption DEF Init, Process
  <2>4. rem \in [Process -> Nat]
    BY <2>1, Zenon DEF Init
  <2> QED
    BY <2>1, <2>2, <2>3, <2>4, Zenon DEF TypeOK
<1>2. PassedOver
  BY NAssumption DEF Init, PassedOver, Distance, Process
<1> QED
  BY <1>1, <1>2
     DEF Init, IndInv, TypeOK, ClockCovers, WaitingTimeSound, Process

(* Running the nearest runnable process keeps the bound: the pointer gets  *)
(* closer to every other runnable process by as much as they wait longer.  *)
LEMMA SliceInd ==
  ASSUME IndInv, NEW p \in Process, Slice(p)
  PROVE  IndInv'
<1> DEFINE used == IF rem[p] < q THEN rem[p] ELSE q
<1>1. used \in Nat \ {0} /\ used <= rem[p]
  BY DEF IndInv, TypeOK, Slice, Runnable
<1>2. /\ rem' = [rem EXCEPT ![p] = @ - used]
      /\ now' = now + used
      /\ finish' = IF rem[p] = used THEN [finish EXCEPT ![p] = now + used]
                   ELSE finish
      /\ i' = Following(p)
      /\ skipped' = [k \in Process |-> IF k = p THEN 0
                                       ELSE IF Runnable(k) THEN skipped[k] + 1
                                       ELSE skipped[k]]
      /\ at' = at /\ bt' = bt /\ q' = q
  BY Zenon DEF Slice
<1>3. Runnable(p) /\ \A k \in Process :
                        Runnable(k) => Distance(i, p) <= Distance(i, k)
  BY Zenon DEF Slice
<1> HIDE DEF used
<1>4. TypeOK'
  <2>1. i' \in Process
    BY <1>2, NAssumption DEF Following, Process
  <2>2. rem' \in [Process -> Nat]
    BY <1>1, <1>2 DEF IndInv, TypeOK
  <2>3. finish' \in [Process -> Nat \cup {-1}]
    BY <1>1, <1>2 DEF IndInv, TypeOK
  <2>4. skipped' \in [Process -> Nat]
    BY <1>2 DEF IndInv, TypeOK
  <2> QED
    BY <1>1, <1>2, <2>1, <2>2, <2>3, <2>4 DEF IndInv, TypeOK
<1>5. \A k \in Process : rem'[k] <= bt'[k]
  BY <1>1, <1>2 DEF IndInv, TypeOK
<1>6. PassedOver'
  <2> SUFFICES ASSUME NEW k \in Process
               PROVE  /\ skipped'[k] <= N - 1 - Distance(i', k)
                      /\ ~Runnable(k)' => skipped'[k] = 0
    BY Zenon DEF PassedOver, Distance, Runnable
  <2>0. Distance(i, k) \in 0 .. N - 1 /\ Distance(i', k) \in 0 .. N - 1
    BY <1>4, DistanceBound, Zenon DEF IndInv, TypeOK
  <2>1. CASE k = p
    BY <2>0, <2>1, <1>2, NAssumption
  <2>2. CASE k # p /\ Runnable(k)
    <3>1. Distance(i, p) < Distance(i, k)
      <4>1. Distance(i, p) # Distance(i, k)
        BY <2>2, DistanceInjective, Zenon DEF IndInv, TypeOK
      <4>2. Distance(i, p) \in 0 .. N - 1
        BY DistanceBound, Zenon DEF IndInv, TypeOK
      <4> QED
        BY <2>0, <2>2, <1>3, <4>1, <4>2, NAssumption
    <3>2. Distance(i', k) < Distance(i, k)
      BY <3>1, <2>2, <1>2, FollowingIsCloser, Zenon DEF IndInv, TypeOK
    <3>3. skipped'[k] = skipped[k] + 1
      BY <2>2, <1>2, Zenon
    <3>4. skipped[k] <= N - 1 - Distance(i, k) /\ skipped[k] \in Nat
      BY Zenon DEF IndInv, PassedOver, TypeOK
    <3>5. skipped'[k] <= N - 1 - Distance(i', k)
      BY <2>0, <3>2, <3>3, <3>4, NAssumption
    <3>6. Runnable(k)'
      BY <2>2, <1>1, <1>2 DEF IndInv, TypeOK, Runnable
    <3> QED
      BY <3>5, <3>6, Zenon
  <2>3. CASE k # p /\ ~Runnable(k)
    BY <2>0, <2>3, <1>2, NAssumption DEF IndInv, PassedOver
  <2> QED
    BY <2>1, <2>2, <2>3, Zenon
<1>7. ClockCovers'
  BY <1>1, <1>2, <1>3 DEF IndInv, TypeOK, ClockCovers, Runnable
<1>8. WaitingTimeSound'
  BY <1>1, <1>2, <1>3 DEF IndInv, TypeOK, ClockCovers, WaitingTimeSound, Runnable
<1> QED
  BY <1>4, <1>5, <1>6, <1>7, <1>8, Zenon DEF IndInv

LEMMA IdleInd ==
  ASSUME IndInv, Idle
  PROVE  IndInv'
<1>1. PICK k \in Process : rem[k] > 0 /\ now' = at[k]
  BY Zenon DEF Idle
<1>2. now' \in Nat /\ now' > now
  BY <1>1 DEF Idle, IndInv, TypeOK, Runnable
<1>3. UNCHANGED <<at, bt, q, rem, finish, i, skipped>>
  BY Zenon DEF Idle
<1>4. PassedOver'
  <2> SUFFICES ASSUME NEW p \in Process
               PROVE  /\ skipped[p] <= N - 1 - Distance(i, p)
                      /\ skipped[p] = 0
    BY <1>3, Zenon DEF PassedOver, Distance, Runnable
  <2> QED
    BY Zenon DEF Idle, IndInv, PassedOver
<1> QED
  BY <1>2, <1>3, <1>4 DEF IndInv, TypeOK, ClockCovers, WaitingTimeSound

LEMMA Inductive == IndInv /\ [Next]_vars => IndInv'
<1> SUFFICES ASSUME IndInv, [Next]_vars PROVE IndInv'
  BY Zenon
<1>1. CASE Idle
  BY <1>1, IdleInd, Zenon
<1>2. CASE \E p \in Process : Slice(p)
  BY <1>2, SliceInd, Zenon
<1>3. CASE UNCHANGED vars
  BY <1>3, Zenon DEF vars, IndInv, TypeOK, PassedOver, Distance, Runnable, ClockCovers,
              WaitingTimeSound
<1> QED
  BY <1>1, <1>2, <1>3, Zenon DEF Next

LEMMA Invariance == Spec => []IndInv
BY InitInd, Inductive, PTL DEF Spec

(* The simulation's variables keep their types, for every number of        *)
(* processes and every input main accepts.                                 *)
THEOREM TypeCorrect == Spec => []TypeOK
<1>1. IndInv => TypeOK
  BY Zenon DEF IndInv
<1> QED
  BY <1>1, Invariance, PTL

(* No process that can run is passed over more than N - 1 times: the       *)
(* pointer and the cyclic search of main.c:206-246 starve nobody.          *)
THEOREM NoStarvation == Spec => []BoundedWaiting
<1>1. IndInv => BoundedWaiting
  <2> SUFFICES ASSUME IndInv, NEW p \in Process PROVE skipped[p] <= N - 1
    BY Zenon DEF BoundedWaiting
  <2>1. skipped[p] <= N - 1 - Distance(i, p) /\ skipped[p] \in Nat
    BY Zenon DEF IndInv, PassedOver, TypeOK
  <2>2. Distance(i, p) \in 0 .. N - 1
    BY DistanceBound, Zenon DEF IndInv, TypeOK
  <2> QED
    BY <2>1, <2>2, NAssumption
<1> QED
  BY <1>1, Invariance, PTL

(* Waiting times are never negative, also for negative arrival times, so   *)
(* the clamp of main.c:262 changes nothing.                                *)
THEOREM WaitingSound == Spec => []WaitingTimeSound
<1>1. IndInv => WaitingTimeSound
  BY Zenon DEF IndInv
<1> QED
  BY <1>1, Invariance, PTL

-----------------------------------------------------------------------------
(* Turnaround *)

Arrived(p) == IF at[p] < 0 THEN 0 ELSE at[p]

(* A process that is not finished has only had whole quanta.  Since its      *)
(* arrival, each of them has cost it a round of N quanta at most, and the    *)
(* round it is in has cost it one quantum for each place the pointer has     *)
(* moved towards it.                                                         *)
Paced ==
  \A p \in Process :
    /\ now >= bt[p] - rem[p]
    /\ rem[p] > 0 => \E d \in Nat : bt[p] - rem[p] = q * d
    /\ Runnable(p) =>
         now - Arrived(p) <= N * (bt[p] - rem[p]) + q * (N - 1 - Distance(i, p))

LEMMA TimesMonotonic ==
  ASSUME NEW a \in Nat, NEW b \in Int, NEW c \in Int, b <= c
  PROVE  a * b \in Int /\ a * b <= a * c
<1>1. c - b \in Nat /\ a * (c - b) \in Nat
  OBVIOUS
<1>2. a * c = a * b + a * (c - b)
  OBVIOUS
<1>3. QED
  BY <1>1, <1>2

(* The quanta of a burst, counted by rounding up, when the last is the one   *)
(* that is left.                                                             *)
LEMMA SlicesIs ==
  ASSUME NEW a \in Nat \ {0}, NEW d \in Nat, NEW left \in 1 .. a
  PROVE  (a * d + left + a - 1) \div a = d + 1
<1> DEFINE b == left - 1
<1>1. b \in 0 .. a - 1
  OBVIOUS
<1>2. a * d + left + a - 1 = a * (d + 1) + b
  OBVIOUS
<1>3. (a * (d + 1) + b) \div a = d + 1
  BY <1>1
<1>4. QED
  BY <1>2, <1>3, Zenon

LEMMA PacedInit == Init => Paced /\ TurnaroundBounded
<1> SUFFICES ASSUME Init PROVE Paced /\ TurnaroundBounded
  BY Zenon
<1>1. IndInv
  BY InitInd, Zenon
<1>2. ASSUME NEW p \in Process
      PROVE  /\ now >= bt[p] - rem[p]
             /\ bt[p] - rem[p] = q * 0
             /\ now - Arrived(p) <= N * (bt[p] - rem[p]) + q * (N - 1 - Distance(i, p))
  <2>1. bt[p] - rem[p] = 0 /\ now = 0 /\ Arrived(p) \in Nat /\ q \in Nat
    BY <1>1 DEF Init, IndInv, TypeOK, Arrived
  <2>2. N - 1 - Distance(i, p) \in Nat
    BY <1>1, DistanceBound, NAssumption DEF IndInv, TypeOK
  <2>3. q * (N - 1 - Distance(i, p)) \in Nat /\ N * 0 = 0 /\ q * 0 = 0
    BY <2>1, <2>2, NAssumption
  <2>4. QED
    BY <2>1, <2>3
<1>3. QED
  BY <1>2, Zenon DEF Paced, TurnaroundBounded, Init

(* A slice costs the others one quantum and brings the pointer closer to     *)
(* each of them; the process that runs has had a round of its own.           *)
LEMMA PacedSlice ==
  ASSUME IndInv, Paced, TurnaroundBounded, NEW p \in Process, Slice(p)
  PROVE  Paced' /\ TurnaroundBounded'
<1> DEFINE used == IF rem[p] < q THEN rem[p] ELSE q
<1>1. /\ used \in Nat \ {0} /\ used <= rem[p] /\ used <= q
      /\ rem[p] # used => used = q
  BY DEF IndInv, TypeOK, Slice, Runnable
<1>2. /\ rem' = [rem EXCEPT ![p] = @ - used]
      /\ now' = now + used
      /\ finish' = IF rem[p] = used THEN [finish EXCEPT ![p] = now + used]
                   ELSE finish
      /\ i' = Following(p)
      /\ at' = at /\ bt' = bt /\ q' = q
  BY Zenon DEF Slice
<1>3. Runnable(p) /\ \A k \in Process :
                        Runnable(k) => Distance(i, p) <= Distance(i, k)
  BY Zenon DEF Slice
<1> HIDE DEF used
<1>4. /\ at \in [Process -> Int] /\ bt \in [Process -> Nat] /\ q \in Nat \ {0}
      /\ rem \in [Process -> Nat] /\ now \in Nat /\ i \in Process /\ i' \in Process
      /\ finish \in [Process -> Nat \cup {-1}]
      /\ \A k \in Process : rem[k] <= bt[k] /\ Distance(i, k) \in 0 .. N - 1
      /\ \A k \in Process : Distance(i', k) \in 0 .. N - 1
  <2>1. i' \in Process
    BY <1>2, NAssumption DEF Following, Process
  <2>2. QED
    BY <2>1, DistanceBound, Zenon DEF IndInv, TypeOK
<1>5. /\ rem'[p] = rem[p] - used
      /\ \A k \in Process : k # p => rem'[k] = rem[k]
      /\ \A k \in Process : Arrived(k)' = Arrived(k) /\ Arrived(k) \in Nat
  BY <1>2, <1>4 DEF Arrived
<1>6. ASSUME NEW k \in Process, k # p
      PROVE  Distance(i', k) <= N - 2
  BY <1>2, <1>6, NAssumption DEF Distance, Following, Process
<1>7. ASSUME NEW k \in Process, k # p, Runnable(k)
      PROVE  Distance(i', k) <= Distance(i, k) - 1
  <2>1. Distance(i, p) # Distance(i, k)
    BY <1>4, <1>7, DistanceInjective, Zenon
  <2>2. Distance(i, p) < Distance(i, k)
    BY <1>3, <1>4, <1>7, <2>1
  <2>3. Distance(i', k) < Distance(i, k)
    BY <1>2, <1>4, <1>7, <2>2, FollowingIsCloser, Zenon
  <2>4. QED
    BY <1>4, <2>3
<1>8. \A k \in Process : now' >= bt[k] - rem'[k]
  BY <1>1, <1>2, <1>4, <1>5 DEF Paced
<1>9. ASSUME NEW k \in Process, rem'[k] > 0
      PROVE  \E d \in Nat : bt[k] - rem'[k] = q * d
  <2>0. rem[k] > 0
    BY <1>1, <1>4, <1>5, <1>9
  <2>1. PICK d \in Nat : bt[k] - rem[k] = q * d
    BY <2>0, Zenon DEF Paced
  <2>2. CASE k # p
    BY <1>5, <2>1, <2>2, Zenon
  <2>3. CASE k = p
    <3>1. used = q
      BY <1>1, <1>4, <1>5, <1>9, <2>3
    <3>2. q * (d + 1) = q * d + q
      BY <1>4
    <3>3. bt[k] - rem'[k] = q * (d + 1)
      BY <1>4, <1>5, <2>1, <2>3, <3>1, <3>2
    <3>4. QED
      BY <3>3
  <2>4. QED
    BY <2>2, <2>3, Zenon
<1>10. ASSUME NEW k \in Process
       PROVE  /\ q * (N - 1 - Distance(i, k)) \in Int /\ q * (N - 1 - Distance(i', k)) \in Int
              /\ N * (bt[k] - rem[k]) \in Nat
  <2>1. bt[k] - rem[k] \in Nat
    BY <1>4
  <2>2. N - 1 - Distance(i, k) \in Int /\ N - 1 - Distance(i', k) \in Int
    BY <1>4, NAssumption
  <2>3. QED
    BY <1>4, <2>1, <2>2, NAssumption
<1>11. ASSUME NEW k \in Process, Runnable(k)'
       PROVE  now' - Arrived(k) <= N * (bt[k] - rem'[k]) + q * (N - 1 - Distance(i', k))
  <2>1. rem'[k] > 0 /\ at[k] <= now'
    BY <1>2, <1>11, Zenon DEF Runnable
  <2>2. CASE k # p /\ Runnable(k)
    <3> DEFINE x == N - 1 - Distance(i, k)
               y == N - 1 - Distance(i', k)
    <3>1. x \in Int /\ y \in Int /\ x + 1 <= y
      BY <1>4, <1>7, <2>2, NAssumption
    <3>2. now - Arrived(k) <= N * (bt[k] - rem[k]) + q * x
      BY <2>2, Zenon DEF Paced
    <3> HIDE DEF x, y
    <3>3. q * (x + 1) = q * x + q /\ q * (x + 1) <= q * y /\ q * x \in Int /\ q * y \in Int
      <4>1. q * (x + 1) <= q * y /\ q * x \in Int /\ q * y \in Int
        BY <1>4, <3>1, TimesMonotonic
      <4>2. q * (x + 1) = q * x + q
        BY <1>4, <3>1
      <4>3. QED
        BY <4>1, <4>2, Zenon
    <3>4. now' - Arrived(k) <= N * (bt[k] - rem[k]) + q * y
      BY <1>1, <1>2, <1>4, <1>5, <1>10, <3>2, <3>3
    <3>5. QED
      BY <1>5, <2>2, <3>4, Zenon DEF y
  <2>3. CASE k # p /\ ~Runnable(k)
    <3> DEFINE y == N - 1 - Distance(i', k)
    <3>1. 1 <= y /\ y \in Int
      BY <1>4, <1>6, <2>3, NAssumption
    <3>2. at[k] > now /\ now' - Arrived(k) <= q
      BY <1>1, <1>2, <1>4, <1>5, <2>1, <2>3 DEF Runnable, Arrived
    <3> HIDE DEF y
    <3>3. q * 1 <= q * y /\ q * 1 = q
      BY <1>4, <3>1, TimesMonotonic
    <3>4. now' - Arrived(k) <= N * (bt[k] - rem[k]) + q * y
      BY <1>2, <1>4, <1>5, <1>10, <3>1, <3>2, <3>3, TimesMonotonic
    <3>5. QED
      BY <1>5, <2>3, <3>4, Zenon DEF y
  <2>4. CASE k = p
    <3>1. used = q
      BY <1>1, <1>4, <1>5, <2>1, <2>4
    <3> DEFINE x == N - 1 - Distance(i, k)
               y == N - 1 - Distance(i', k)
               w == bt[k] - rem[k]
    <3>2. x \in Int /\ x <= N - 1 /\ y \in Nat /\ w \in Nat
      BY <1>4, NAssumption
    <3>3. now - Arrived(k) <= N * w + q * x
      BY <1>3, <2>4, Zenon DEF Paced
    <3>4. bt[k] - rem'[k] = w + q
      BY <1>4, <1>5, <2>4, <3>1
    <3> HIDE DEF x, y, w
    <3>5. q * x <= q * (N - 1) /\ q * x \in Int
      BY <1>4, <3>2, NAssumption, TimesMonotonic
    <3>6. q * (N - 1) = q * N - q /\ N * (w + q) = N * w + q * N /\ q * N \in Int /\ N * w \in Int
      BY <1>4, <3>2, NAssumption
    <3>7. q * y \in Nat
      BY <1>4, <3>2
    <3> DEFINE v == bt[k] - rem'[k]
    <3>8. now' = now + q /\ v = w + q
      BY <1>2, <3>1, <3>4, Zenon
    <3> HIDE DEF v
    <3>9. now' - Arrived(k) <= N * v + q * y
      <4>1. N * v = N * w + q * N
        BY <3>6, <3>8, Zenon
      <4>2. QED
        BY <1>4, <1>5, <3>3, <3>5, <3>6, <3>7, <3>8, <4>1
    <3>10. QED
      BY <3>9, Zenon DEF v, y
  <2>5. QED
    BY <2>2, <2>3, <2>4, Zenon
<1>12. Paced'
  BY <1>2, <1>5, <1>8, <1>9, <1>11, Zenon DEF Paced
<1>13. ASSUME NEW k \in Process, finish'[k] # -1
       PROVE  finish'[k] - Arrived(k) \in bt[k] .. ((bt[k] + q - 1) \div q) * N * q
  <2>1. CASE finish'[k] = finish[k]
    BY <1>13, <2>1, Zenon DEF TurnaroundBounded, Arrived
  <2>2. CASE finish'[k] # finish[k]
    <3>1. k = p /\ rem[p] = used /\ finish'[k] = now + used
      BY <1>2, <1>4, <2>2, Zenon
    <3> DEFINE x == N - 1 - Distance(i, k)
               w == bt[k] - rem[k]
    <3>2. x \in Int /\ x <= N - 1 /\ w \in Nat
      BY <1>4, NAssumption
    <3>3. now - Arrived(k) <= N * w + q * x
      BY <1>3, <3>1, Zenon DEF Paced
    <3>4. PICK d \in Nat : w = q * d
      <4>1. rem[k] > 0
        BY <1>1, <3>1
      <4>2. QED
        BY <4>1, Zenon DEF Paced
    <3>5. now + used - Arrived(k) >= bt[k]
      BY <1>1, <1>3, <1>4, <1>8, <1>2, <3>1 DEF Arrived, IndInv, ClockCovers, Runnable
    <3>6. bt[k] = w + used
      BY <1>4, <3>1
    <3> HIDE DEF x, w
    <3>7. (bt[k] + q - 1) \div q = d + 1
      <4>1. bt[k] + q - 1 = q * d + used + q - 1
        BY <3>4, <3>6, Zenon
      <4>2. used \in 1 .. q
        BY <1>1, <1>4
      <4>3. QED
        BY <1>4, <4>1, <4>2, SlicesIs, Zenon
    <3>8. q * x <= q * (N - 1) /\ q * x \in Int
      BY <1>4, <3>2, NAssumption, TimesMonotonic
    <3>9. q * (N - 1) = q * N - q /\ q * N \in Int /\ N * w \in Int
      BY <1>4, <3>2, NAssumption
    <3>10. (d + 1) * N * q = N * w + q * N
      <4>1. (d + 1) * N * q = N * (q * (d + 1))
        BY <1>4, NAssumption
      <4>2. q * (d + 1) = w + q
        BY <1>4, <3>4
      <4>3. N * (w + q) = N * w + q * N
        BY <1>4, <3>2, NAssumption
      <4>4. QED
        BY <4>1, <4>2, <4>3, Zenon
    <3>11. now + used - Arrived(k) <= N * w + q * N
      BY <1>1, <1>4, <1>5, <3>3, <3>8, <3>9
    <3>12. QED
      BY <1>1, <1>4, <1>5, <3>1, <3>5, <3>7, <3>9, <3>10, <3>11
  <2>3. QED
    BY <2>1, <2>2, Zenon
<1>14. TurnaroundBounded'
  BY <1>2, <1>13, Zenon DEF TurnaroundBounded, Arrived
<1>15. QED
  BY <1>12, <1>14, Zenon

LEMMA PacedIdle ==
  ASSUME IndInv, Paced, TurnaroundBounded, Idle
  PROVE  Paced' /\ TurnaroundBounded'
<1>1. PICK j \in Process :
        rem[j] > 0 /\ now' = at[j] /\ \A k \in Process : rem[k] > 0 => at[j] <= at[k]
  BY Zenon DEF Idle
<1>2. UNCHANGED <<at, bt, q, rem, finish, i>>
  BY Zenon DEF Idle
<1>3. now' \in Nat /\ now' > now
  BY <1>1 DEF Idle, IndInv, TypeOK, Runnable
<1>4. TurnaroundBounded'
  BY <1>2, Zenon DEF TurnaroundBounded
<1>5. ASSUME NEW k \in Process, Runnable(k)'
      PROVE  now' - Arrived(k) <= N * (bt[k] - rem[k]) + q * (N - 1 - Distance(i, k))
  <2>1. rem[k] > 0 /\ at[k] <= now' /\ at[k] \in Int
    BY <1>2, <1>5, Zenon DEF Runnable, IndInv, TypeOK
  <2>2. now' - Arrived(k) = 0
    BY <1>1, <1>3, <2>1 DEF Arrived
  <2>3. N - 1 - Distance(i, k) \in Nat /\ bt[k] - rem[k] \in Nat /\ q \in Nat
    BY DistanceBound, NAssumption DEF IndInv, TypeOK
  <2>4. q * (N - 1 - Distance(i, k)) \in Nat /\ N * (bt[k] - rem[k]) \in Nat
    BY <2>3, NAssumption
  <2>5. QED
    BY <2>2, <2>4
<1>6. \A k \in Process : now' >= bt[k] - rem[k]
  BY <1>3 DEF Paced, IndInv, TypeOK
<1>7. \A k \in Process : rem[k] > 0 => \E d \in Nat : bt[k] - rem[k] = q * d
  BY Zenon DEF Paced
<1>8. Paced'
  BY <1>2, <1>5, <1>6, <1>7, Zenon DEF Paced, Arrived
<1>9. QED
  BY <1>4, <1>8, Zenon

(* Every process of the simulation finishes within one round of N quanta for *)
(* each quantum of its burst, counted from its arrival, and not before it    *)
(* has had its burst: no order of arrivals makes main's loop exceed it.      *)
THEOREM TurnaroundIsBounded == Spec => []TurnaroundBounded
<1>1. IndInv /\ Paced /\ TurnaroundBounded /\ [Next]_vars => Paced' /\ TurnaroundBounded'
  <2> SUFFICES ASSUME IndInv, Paced, TurnaroundBounded, [Next]_vars
               PROVE  Paced' /\ TurnaroundBounded'
    BY Zenon
  <2>1. CASE Idle
    BY <2>1, PacedIdle, Zenon
  <2>2. CASE \E p \in Process : Slice(p)
    BY <2>2, PacedSlice, Zenon
  <2>3. CASE UNCHANGED vars
    BY <2>3, Zenon DEF vars, Paced, TurnaroundBounded, Arrived, Runnable
  <2>4. QED
    BY <2>1, <2>2, <2>3, Zenon DEF Next
<1>2. QED
  BY <1>1, PacedInit, Invariance, PTL DEF Spec

-----------------------------------------------------------------------------
(* The mouse shim *)

CONSTANTS Blocks, MaxCalls
VARIABLES next_malloc, test_mode, test_event, test_name, memory, marked, recent, calls
G == INSTANCE NoGrab

BlockSize == {"event", "name", "other"}

Cell == [size : {"none"} \cup BlockSize, used : BOOLEAN,
         name : Blocks \cup {0}, mouse : BOOLEAN, absolute : {0, 1}]

ShimType ==
  /\ next_malloc \in BOOLEAN /\ calls \in Nat
  /\ test_mode \in {-1, 0, 1, 2}
  /\ test_event \in Blocks \cup {0} /\ test_name \in Blocks \cup {0}
  /\ marked \in Blocks \cup {0}
  /\ memory \in [Blocks -> Cell]
  /\ \A b \in Blocks : memory[b].name # b
  /\ recent \in {<<>>} \cup {<<b>> : b \in Blocks} \cup (Blocks \X Blocks)

Newest == recent[Len(recent)]

(* test_mode says of what sizes the last blocks are, whatever was freed and  *)
(* handed out again, until an entry is marked; then tracking is over.        *)
LastTwo ==
  /\ recent # <<>> => next_malloc
  /\ marked # 0 <=> test_mode = -1
  /\ test_mode = 1 => recent # <<>> /\ Newest = test_event
  /\ test_mode = 2 =>
       /\ recent = <<test_event, test_name>> /\ memory[test_name].size = "name"
       /\ test_event # test_name => memory[test_event].size = "event"
  /\ test_mode >= 0 /\ recent # <<>> =>
       (test_mode = 1 <=> memory[Newest].size = "event")
  /\ test_mode >= 0 /\ Len(recent) = 2 =>
       (memory[recent[1]].size = "event" /\ memory[recent[2]].size = "name" => test_mode = 2)

ShimInv == ShimType /\ LastTwo

LEMMA ShimInit == ASSUME G!ConstantsOK, G!Init PROVE ShimInv
<1> USE DEF G!ConstantsOK, G!Init
<1>1. ShimType
  BY Zenon DEF ShimType, Cell
<1>2. LastTwo
  BY DEF LastTwo, Newest
<1>3. QED
  BY <1>1, <1>2, Zenon DEF ShimInv

(* What an allocation does to the sizes of the blocks. *)
LEMMA HandOutSizes ==
  ASSUME G!ConstantsOK, ShimType, NEW b \in Blocks, NEW sz \in BlockSize, NEW clear \in BOOLEAN,
         G!HandOut(sz, b, clear)
  PROVE  /\ memory' \in [Blocks -> Cell]
         /\ \A c \in Blocks : memory'[c].size = IF c = b THEN sz ELSE memory[c].size
         /\ \A c \in Blocks : memory'[c].name # c
         /\ calls' \in Nat
<1> DEFINE m == IF G!check THEN [memory EXCEPT ![test_event].absolute = 1] ELSE memory
           cell == [size |-> sz, used |-> TRUE,
                    name |-> IF clear THEN 0 ELSE m[b].name,
                    mouse |-> ~clear /\ m[b].mouse,
                    absolute |-> IF clear THEN 0 ELSE m[b].absolute]
<1>1. memory \in [Blocks -> Cell] /\ test_event \in Blocks \cup {0} /\ calls \in Nat
      /\ \A c \in Blocks : memory[c].name # c /\ c # 0
  BY Zenon DEF ShimType, G!ConstantsOK
<1>2. m \in [Blocks -> Cell] /\ \A c \in Blocks : m[c].size = memory[c].size /\ m[c].name # c
  BY <1>1 DEF G!check, Cell
<1>3. memory' = [m EXCEPT ![b] = cell] /\ calls' = calls + 1
  BY Zenon DEF G!HandOut
<1> HIDE DEF m
<1>4. cell \in Cell /\ cell.size = sz /\ cell.name # b
  <2>1. m[b] \in Cell
    BY <1>2, Zenon
  <2>2. m[b].name \in Blocks \cup {0} /\ m[b].mouse \in BOOLEAN /\ m[b].absolute \in {0, 1}
    BY <2>1, Zenon DEF Cell
  <2>3. /\ (IF clear THEN 0 ELSE m[b].name) \in Blocks \cup {0}
        /\ (IF clear THEN 0 ELSE m[b].absolute) \in {0, 1}
    BY <2>2, Zenon
  <2>4. (~clear /\ m[b].mouse) \in BOOLEAN
    BY Zenon
  <2>5. QED
    BY <1>1, <1>2, <2>3, <2>4, Zenon DEF Cell
<1> HIDE DEF cell
<1>5. memory' \in [Blocks -> Cell]
  BY <1>2, <1>3, <1>4, Zenon
<1>6. \A c \in Blocks : memory'[c].size = IF c = b THEN sz ELSE memory[c].size
  BY <1>2, <1>3, <1>4, Zenon
<1>7. \A c \in Blocks : memory'[c].name # c
  BY <1>2, <1>3, <1>4, Zenon
<1>8. QED
  BY <1>1, <1>3, <1>5, <1>6, <1>7

(* Adding to a sequence of one block, and taking one of two away. *)
LEMMA Pairs ==
  ASSUME NEW a \in Blocks, NEW b \in Blocks
  PROVE  Append(<<a>>, b) = <<a, b>> /\ Tail(<<a, b>>) = <<b>>
<1>1. \A s \in Seq(Blocks) : Len(s) = 2 => s = <<s[1], s[2]>>
  OBVIOUS
<1>2. \A s \in Seq(Blocks) : Len(s) = 1 => s = <<s[1]>>
  OBVIOUS
<1>3. <<a>> \in Seq(Blocks) /\ Len(<<a>>) = 1 /\ <<a>>[1] = a
  OBVIOUS
<1>4. /\ Append(<<a>>, b) \in Seq(Blocks) /\ Len(Append(<<a>>, b)) = 2
      /\ Append(<<a>>, b)[1] = a /\ Append(<<a>>, b)[2] = b
  BY <1>3
<1>5. <<a, b>> \in Seq(Blocks) /\ Len(<<a, b>>) = 2 /\ <<a, b>>[2] = b
  OBVIOUS
<1>6. /\ Tail(<<a, b>>) \in Seq(Blocks) /\ Len(Tail(<<a, b>>)) = 1
      /\ Tail(<<a, b>>)[1] = b
  BY <1>5
<1>7. QED
  BY <1>1, <1>2, <1>4, <1>6, Zenon

(* An allocation that is tracked. *)
LEMMA TrackedStep ==
  ASSUME G!ConstantsOK, ShimInv, NEW b \in Blocks, NEW sz \in BlockSize, NEW clear \in BOOLEAN,
         G!HandOut(sz, b, clear), G!Tracked(sz, b), next_malloc' = TRUE
  PROVE  ShimInv'
<1>1. ShimType /\ LastTwo
  BY Zenon DEF ShimInv
<1>2. /\ memory' \in [Blocks -> Cell]
      /\ \A c \in Blocks : memory'[c].size = IF c = b THEN sz ELSE memory[c].size
      /\ \A c \in Blocks : memory'[c].name # c
      /\ calls' \in Nat
  BY <1>1, HandOutSizes, Zenon
<1>3. \/ recent = <<>> /\ recent' = <<b>>
      \/ recent # <<>> /\ Newest \in Blocks /\ recent' = <<Newest, b>>
  <2>0. recent' = Append(IF Len(recent) < 2 THEN recent ELSE Tail(recent), b)
    BY Zenon DEF G!Tracked
  <2>1. CASE recent = <<>>
    BY <2>0, <2>1
  <2>2. ASSUME NEW a \in Blocks, recent = <<a>>
        PROVE  recent # <<>> /\ Newest \in Blocks /\ recent' = <<Newest, b>>
    <3>1. Len(<<a>>) = 1 /\ <<a>> # <<>> /\ <<a>>[1] = a /\ Append(<<a>>, b) = <<a, b>>
      BY Pairs, Zenon
    <3>2. QED
      BY <2>0, <2>2, <3>1 DEF Newest
  <2>3. ASSUME NEW a \in Blocks, NEW c \in Blocks, recent = <<a, c>>
        PROVE  recent # <<>> /\ Newest \in Blocks /\ recent' = <<Newest, b>>
    <3>1. /\ Len(<<a, c>>) = 2 /\ <<a, c>> # <<>> /\ <<a, c>>[2] = c
          /\ Tail(<<a, c>>) = <<c>> /\ Append(<<c>>, b) = <<c, b>>
      BY Pairs, Zenon
    <3>2. QED
      BY <2>0, <2>3, <3>1 DEF Newest
  <2>4. QED
    BY <1>1, <2>1, <2>2, <2>3 DEF ShimType
<1>4. recent' # <<>> /\ Newest' = b
  <2>1. <<b>> # <<>> /\ <<b>>[Len(<<b>>)] = b
    BY Zenon
  <2>2. ASSUME NEW a PROVE <<a, b>> # <<>> /\ <<a, b>>[Len(<<a, b>>)] = b
    BY Zenon
  <2>3. QED
    BY <1>3, <2>1, <2>2, SMTT(30) DEF Newest
<1>5. CASE G!check
  <2>1. /\ marked' = test_event /\ test_mode' = -1 /\ test_event' = test_event
        /\ test_name' = test_name /\ test_event # 0
    BY <1>5, Zenon DEF G!Tracked, G!check
  <2>2. ShimType'
    BY <1>1, <1>2, <1>3, <2>1 DEF ShimType
  <2>3. LastTwo'
    BY <2>1 DEF LastTwo
  <2>4. QED
    BY <2>2, <2>3, Zenon DEF ShimInv
<1>6. CASE ~G!check /\ test_mode = -1
  <2>1. UNCHANGED <<marked, test_mode, test_event, test_name>>
    BY <1>6 DEF G!Tracked
  <2>2. ShimType'
    BY <1>1, <1>2, <1>3, <2>1 DEF ShimType
  <2>3. LastTwo'
    BY <1>1, <1>6, <2>1 DEF LastTwo
  <2>4. QED
    BY <2>2, <2>3, Zenon DEF ShimInv
<1>7. CASE ~G!check /\ test_mode # -1
  <2>1. test_mode \in {0, 1, 2} /\ marked' = marked /\ marked = 0
    BY <1>1, <1>7, Zenon DEF G!Tracked, ShimType, LastTwo
  <2>2. /\ test_mode' = (IF test_mode = 1 /\ sz = "name" THEN 2
                         ELSE IF sz = "event" THEN 1 ELSE 0)
        /\ test_event' = (IF sz = "event" THEN b ELSE test_event)
        /\ test_name' = (IF test_mode = 1 /\ sz = "name" THEN b ELSE test_name)
    BY <1>7, <2>1 DEF G!Tracked, G!track
  <2>3. ShimType'
    <3>1. /\ test_mode' \in {-1, 0, 1, 2} /\ test_event' \in Blocks \cup {0}
          /\ test_name' \in Blocks \cup {0} /\ marked' \in Blocks \cup {0}
      BY <1>1, <2>1, <2>2, Zenon DEF ShimType
    <3>2. recent' \in {<<>>} \cup {<<c>> : c \in Blocks} \cup (Blocks \X Blocks)
      BY <1>3
    <3>3. QED
      BY <1>2, <3>1, <3>2, Zenon DEF ShimType
  <2>4. memory'[b].size = sz
    BY <1>2, Zenon
  <2>5. test_mode' = 1 <=> sz = "event"
    BY <2>2
  <2>6. ASSUME test_mode' = 1 PROVE recent' # <<>> /\ Newest' = test_event'
    BY <1>4, <2>2, <2>5, <2>6, Zenon
  <2>7. ASSUME test_mode' = 2
        PROVE  /\ recent' = <<test_event', test_name'>> /\ memory'[test_name'].size = "name"
               /\ test_event' # test_name' => memory'[test_event'].size = "event"
    <3>1. test_mode = 1 /\ sz = "name" /\ test_event' = test_event /\ test_name' = b
      BY <2>2, <2>7
    <3>2. recent # <<>> /\ Newest = test_event /\ memory[Newest].size = "event"
      BY <1>1, <3>1 DEF LastTwo
    <3>3. recent' = <<test_event, b>> /\ test_event \in Blocks
      BY <1>3, <3>2, Zenon
    <3>4. QED
      BY <1>2, <2>4, <3>1, <3>2, <3>3, Zenon
  <2>8. ASSUME Len(recent') = 2, memory'[recent'[1]].size = "event",
               memory'[recent'[2]].size = "name"
        PROVE  test_mode' = 2
    <3>1. recent # <<>> /\ Newest \in Blocks /\ recent' = <<Newest, b>>
      BY <1>3, <2>8, Zenon
    <3>2. sz = "name" /\ Newest # b /\ memory[Newest].size = "event"
      BY <1>2, <2>4, <2>8, <3>1, Zenon
    <3>3. test_mode = 1
      BY <1>1, <2>1, <3>1, <3>2 DEF LastTwo
    <3>4. QED
      BY <2>2, <3>2, <3>3, Zenon
  <2>9. LastTwo'
    BY <1>4, <2>1, <2>2, <2>4, <2>5, <2>6, <2>7, <2>8 DEF LastTwo
  <2>10. QED
    BY <2>3, <2>9, Zenon DEF ShimInv
<1>8. QED
  BY <1>5, <1>6, <1>7, Zenon

(* Steps that leave the sizes of the blocks and the tracking alone. *)
LEMMA QuietStep ==
  ASSUME ShimInv,
         memory' \in [Blocks -> Cell],
         \A c \in Blocks : memory'[c].name # c,
         recent # <<>> => \A c \in Blocks : memory'[c].size = memory[c].size,
         UNCHANGED <<next_malloc, test_mode, test_event, test_name, marked, recent>>,
         calls' \in Nat
  PROVE  ShimInv'
<1>1. ShimType /\ LastTwo
  BY Zenon DEF ShimInv
<1>2. ShimType'
  BY <1>1, Zenon DEF ShimType
<1>3. recent # <<>> => Newest \in Blocks /\ (Len(recent) = 2 => recent[1] \in Blocks /\ recent[2] \in Blocks)
  <2>1. CASE \E a \in Blocks : recent = <<a>>
    BY <2>1 DEF Newest
  <2>2. CASE recent \in Blocks \X Blocks
    BY <2>2, Zenon DEF Newest
  <2>3. QED
    BY <1>1, <2>1, <2>2, Zenon DEF ShimType
<1>4. CASE recent = <<>>
  <2>1. test_mode \notin {1, 2} /\ Len(recent) # 2
    BY <1>1, <1>4 DEF LastTwo
  <2>2. QED
    BY <1>1, <1>2, <1>4, <2>1, Zenon DEF LastTwo, ShimInv
<1>5. CASE recent # <<>>
  <2>1. Newest' = Newest
    BY Zenon DEF Newest
  <2>2. test_mode = 2 => test_event \in Blocks /\ test_name \in Blocks
    BY <1>1, <1>3, <1>5 DEF LastTwo
  <2>3. LastTwo'
    BY <1>1, <1>3, <1>5, <2>1, <2>2, Zenon DEF LastTwo
  <2>4. QED
    BY <1>2, <2>3, Zenon DEF ShimInv
<1>6. QED
  BY <1>4, <1>5, Zenon

(* Every step of the shim and of QEMU keeps the invariant, and is a step of  *)
(* the property.                                                             *)
LEMMA ShimStep ==
  ASSUME G!ConstantsOK, ShimInv, [G!Next]_G!vars
  PROVE  ShimInv'
<1>1. ShimType /\ LastTwo
  BY Zenon DEF ShimInv
<1>2. ASSUME NEW b \in Blocks, NEW sz \in BlockSize, G!malloc(sz, b) PROVE ShimInv'
  BY <1>2, TrackedStep, Zenon DEF G!malloc
<1>3. ASSUME NEW b \in Blocks, NEW sz \in BlockSize, G!calloc(sz, b) PROVE ShimInv'
  <2>1. CASE next_malloc
    <3>1. G!HandOut(sz, b, TRUE) /\ G!Tracked(sz, b) /\ next_malloc' = TRUE
      BY <1>3, <2>1, Zenon DEF G!calloc
    <3>2. QED
      BY <3>1, TrackedStep, Zenon
  <2>2. CASE ~next_malloc
    <3>1. G!HandOut(sz, b, TRUE)
      BY <1>3, Zenon DEF G!calloc
    <3>2. UNCHANGED <<next_malloc, test_mode, test_event, test_name, marked, recent>>
      BY <1>3, <2>2, Zenon DEF G!calloc
    <3>3. recent = <<>>
      BY <1>1, <2>2, Zenon DEF LastTwo
    <3>4. QED
      BY <1>1, <3>1, <3>2, <3>3, HandOutSizes, QuietStep, Zenon
  <2>3. QED
    BY <2>1, <2>2, Zenon
<1>4. ASSUME NEW b \in Blocks, G!WriteBlock(b) \/ G!FreeBlock(b) PROVE ShimInv'
  <2> DEFINE Same == \A c \in Blocks : memory'[c].name # c /\ memory'[c].size = memory[c].size
  <2>1. memory' \in [Blocks -> Cell] /\ Same
    <3>1. /\ memory \in [Blocks -> Cell]
          /\ \A c \in Blocks : memory[c].name # c /\ memory[c] \in Cell
      BY <1>1, Zenon DEF ShimType
    <3>2. ASSUME NEW v \in Cell, memory' = [memory EXCEPT ![b] = v],
                 v.name # b, v.size = memory[b].size
          PROVE  memory' \in [Blocks -> Cell] /\ Same
      BY <3>1, <3>2, Zenon
    <3>3. ASSUME NEW n \in Blocks \ {b}, memory' = [memory EXCEPT ![b].name = n]
          PROVE  memory' \in [Blocks -> Cell] /\ Same
      <4>1. [memory[b] EXCEPT !.name = n] \in Cell
        BY <3>1 DEF Cell
      <4>2. /\ [memory[b] EXCEPT !.name = n].name = n
            /\ [memory[b] EXCEPT !.name = n].size = memory[b].size
        BY <3>1 DEF Cell
      <4>3. QED
        BY <3>3, <3>2, <4>1, <4>2, Zenon
    <3>4. CASE memory' = [memory EXCEPT ![b].mouse = TRUE]
      <4>1. [memory[b] EXCEPT !.mouse = TRUE] \in Cell
        BY <3>1, ZenonT(40) DEF Cell
      <4>2. /\ [memory[b] EXCEPT !.mouse = TRUE].name # b
            /\ [memory[b] EXCEPT !.mouse = TRUE].size = memory[b].size
        BY <3>1, Zenon DEF Cell
      <4>3. QED
        BY <3>4, <3>2, <4>1, <4>2, Zenon
    <3>5. CASE memory' = [memory EXCEPT ![b].used = FALSE]
      <4>1. [memory[b] EXCEPT !.used = FALSE] \in Cell
        BY <3>1, ZenonT(40) DEF Cell
      <4>2. /\ [memory[b] EXCEPT !.used = FALSE].name # b
            /\ [memory[b] EXCEPT !.used = FALSE].size = memory[b].size
        BY <3>1, Zenon DEF Cell
      <4>3. QED
        BY <3>5, <3>2, <4>1, <4>2, Zenon
    <3>6. QED
      BY <1>4, <3>3, <3>4, <3>5, Zenon DEF G!WriteBlock, G!FreeBlock
  <2>2. UNCHANGED <<next_malloc, test_mode, test_event, test_name, marked, recent>> /\ calls' \in Nat
    BY <1>1, <1>4, Zenon DEF ShimType, G!WriteBlock, G!FreeBlock
  <2>3. QED
    BY <2>1, <2>2, QuietStep, Zenon
<1>5. CASE UNCHANGED G!vars
  BY <1>1, <1>5 DEF G!vars, ShimInv, ShimType, LastTwo, Newest
<1>6. QED
  BY <1>2, <1>3, <1>4, <1>5, Zenon DEF G!Next, BlockSize

LEMMA MouseStep ==
  ASSUME G!ConstantsOK, ShimInv, [G!Next]_G!vars
  PROVE  [G!FindsMouseStep]_G!vars
<1>1. ShimType /\ LastTwo
  BY Zenon DEF ShimInv
<1>2. ASSUME G!Registered PROVE marked # 0 \/ G!check
  <2>1. Len(recent) = 2 /\ memory[recent[1]].size = "event" /\ memory[recent[2]].size = "name"
    BY <1>2, Zenon DEF G!Registered
  <2>2. recent # <<>>
    BY <2>1
  <2>3. CASE test_mode = -1
    BY <1>1, <2>3, Zenon DEF LastTwo
  <2>4. CASE test_mode # -1
    <3>1. test_mode = 2 /\ recent = <<test_event, test_name>>
      BY <1>1, <2>1, <2>4 DEF ShimType, LastTwo
    <3>2. recent \in Blocks \X Blocks
      BY <1>1, <3>1, Zenon DEF ShimType
    <3>3. test_event \in Blocks /\ recent[1] = test_event /\ recent[2] = test_name
      BY <3>1, <3>2, Zenon
    <3>4. test_event # 0
      BY <3>3, Zenon DEF G!ConstantsOK
    <3>5. QED
      BY <1>2, <3>1, <3>3, <3>4, Zenon DEF G!Registered, G!check
  <2>5. QED
    BY <2>3, <2>4, Zenon
<1>3. ASSUME G!check
      PROVE  /\ marked = 0 /\ test_event # 0 /\ memory[test_event].size = "event"
             /\ memory[memory[test_event].name].size = "name"
  <2>1. test_mode = 2 /\ test_event # 0 /\ memory[test_event].name = test_name
    BY <1>3, Zenon DEF G!check
  <2>2. test_event # test_name
    BY <1>1, <2>1, Zenon DEF ShimType
  <2>3. QED
    BY <1>1, <2>1, <2>2 DEF LastTwo
<1>4. ASSUME NEW b \in Blocks, NEW sz \in BlockSize, G!Tracked(sz, b) PROVE G!FindsMouseStep
  <2>1. marked' = IF G!check THEN test_event ELSE marked
    BY <1>4, Zenon DEF G!Tracked
  <2>2. QED
    BY <1>2, <1>3, <2>1, Zenon DEF G!FindsMouseStep
<1>5. ASSUME NEW b \in Blocks, NEW sz \in BlockSize, G!malloc(sz, b) \/ G!calloc(sz, b)
      PROVE  G!FindsMouseStep
  <2>1. CASE G!Tracked(sz, b)
    BY <1>4, <2>1, Zenon
  <2>2. CASE ~G!Tracked(sz, b)
    <3>1. ~next_malloc /\ marked' = marked
      BY <1>5, <2>2, Zenon DEF G!malloc, G!calloc
    <3>2. recent = <<>>
      BY <1>1, <3>1, Zenon DEF LastTwo
    <3>3. ~G!Registered
      BY <3>2 DEF G!Registered
    <3>4. QED
      BY <3>1, <3>3, Zenon DEF G!FindsMouseStep
  <2>3. QED
    BY <2>1, <2>2, Zenon
<1>6. ASSUME NEW b \in Blocks, G!WriteBlock(b) \/ G!FreeBlock(b) PROVE G!FindsMouseStep
  BY <1>6, Zenon DEF G!WriteBlock, G!FreeBlock, G!FindsMouseStep
<1>7. QED
  BY <1>5, <1>6, Zenon DEF G!Next, BlockSize

(* The shim of qemu-nograb.c finds the mouse, for any number of blocks and   *)
(* calls: the allocation after an entry and its name marks the entry, and    *)
(* nothing but such an entry is marked, once, although both blocks may have  *)
(* been freed and handed out again in the meantime.                          *)
THEOREM MouseIsFound == ASSUME G!ConstantsOK PROVE G!Spec => [][G!FindsMouseStep]_G!vars
<1>1. G!Init => ShimInv
  BY ShimInit, Zenon
<1>2. ShimInv /\ [G!Next]_G!vars => ShimInv'
  BY ShimStep, Zenon
<1>3. ShimInv /\ [G!Next]_G!vars => [G!FindsMouseStep]_G!vars
  BY MouseStep, Zenon
<1> QED
  BY <1>1, <1>2, <1>3, PTL DEF G!Spec

=============================================================================
