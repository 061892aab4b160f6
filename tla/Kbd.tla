----------------------------------- MODULE Kbd -----------------------------------
(***************************************************************************)
(* The PS/2 keyboard: kernel/drivers/kbd.c.  The interrupt handler decodes *)
(* scan codes one byte at a time and puts events in a ring; a reader takes *)
(* an event out in two sections under the lock, with the encoding of the   *)
(* event between them, and sets the lamps first when a lock key was        *)
(* pressed.                                                                *)
(*                                                                         *)
(* The keyboard sends the whole sequence of one key before it starts the   *)
(* next, and an acknowledgement only between two of them.  A character is  *)
(* not looked at, only how many bytes an event gives.                      *)
(***************************************************************************)
EXTENDS Integers, Sequences, FiniteSets, Functions

CONSTANTS KbRing,        \* KBD_RING_SIZE
          KbSc1, KbSc1E0,\* scan code -> key, plain and after E0
          KbPrintable,   \* keys that have a character
          KbLens,        \* lengths of the reads
          KbReaders,     \* tasks in kbd_cdev_read or kbd_cdev_poll
          KbMaxTyped     \* bound: times a key goes down or up

ASSUME KbAssumption == KbRing \in Nat \ {0, 1} /\ KbLens \subseteq Nat /\ KbMaxTyped \in Nat

VARIABLES kb_ring, kb_head, kb_tail,   \* events, kbd_ring_head and kbd_ring_tail
          kb_mods, kb_dirty,           \* the modifiers that are on, and kbd_leds_dirty
          kb_e0, kb_e1,                \* e0_pending and e1_state
          kb_reader,                   \* where each reader is
          kb_rest,                     \* bytes the keyboard has still to send of this key
          kb_typed,                    \* how many keys it has sent
          kb_key,                      \* ghost: the event that key is
          kb_down, kb_locked,          \* ghost: keys held down, and lock keys that are on
          kb_owed                      \* ghost: the events typed that nobody has had

kbVars == <<kb_ring, kb_head, kb_tail, kb_mods, kb_dirty, kb_e0, kb_e1, kb_reader,
            kb_rest, kb_typed, kb_key, kb_down, kb_locked, kb_owed>>

E0 == 224
E1 == 225
Ack == 250
PauseSeq == <<225, 29, 69, 225, 157, 197>>
NoEvent == [key |-> "NONE", mods |-> {}, release |-> FALSE]

\* kbd_update_modifiers: the flag of each key that is a modifier while it is down, and of
\* each that changes at a press.
HeldMods == [LSHIFT |-> "SHIFT", RSHIFT |-> "SHIFT", LCTRL |-> "CTRL", RCTRL |-> "CTRL",
             LALT |-> "ALT", RALT |-> "ALTGR", LGUI |-> "SUPER", RGUI |-> "SUPER"]
LockMods == [CAPSLOCK |-> "CAPSLOCK", NUMLOCK |-> "NUMLOCK"]

\* kbd_probe_layout and kbd_apply_numlock_boot_state: either, by the keyboard's identity
\* and the command line.
BootMods == {{}, {"NUMLOCK"}}

KbIdle == [pc |-> "idle", call |-> "none", len |-> 0, n |-> 0, ev |-> NoEvent]

KbInit ==
  /\ kb_ring = [i \in 0..(KbRing - 1) |-> NoEvent] /\ kb_head = 0 /\ kb_tail = 0
  /\ kb_mods \in BootMods /\ kb_dirty = FALSE
  /\ kb_e0 = FALSE /\ kb_e1 = 0
  /\ kb_reader = [r \in KbReaders |-> KbIdle]
  /\ kb_rest = <<>> /\ kb_typed = 0 /\ kb_key = NoEvent
  /\ kb_down = {} /\ kb_locked = kb_mods /\ kb_owed = <<>>
-------------------------------------------------------------------------------
\* Mutant: a full ring is not noticed.
EventPutFills(ev) ==
  /\ kb_ring' = [kb_ring EXCEPT ![kb_head] = ev]
  /\ kb_head' = (kb_head + 1) % KbRing

\* event_put of the event, with the lock held: the ring keeps one place empty.
EventPut(ev) ==
  LET next == (kb_head + 1) % KbRing
  IN  IF next # kb_tail
      THEN kb_ring' = [kb_ring EXCEPT ![kb_head] = ev] /\ kb_head' = next
      ELSE UNCHANGED <<kb_ring, kb_head>>

UpdateModifiers(key, release) ==
  IF key \in DOMAIN HeldMods
  THEN /\ kb_mods' = IF release THEN kb_mods \ {HeldMods[key]} ELSE kb_mods \cup {HeldMods[key]}
       /\ UNCHANGED kb_dirty
  ELSE IF key \in DOMAIN LockMods /\ ~release
       THEN LET m == LockMods[key]
            IN  kb_mods' = (IF m \in kb_mods THEN kb_mods \ {m} ELSE kb_mods \cup {m}) /\ kb_dirty' = TRUE
       ELSE UNCHANGED <<kb_mods, kb_dirty>>

\* kbd_deliver_keycode: the event has the modifiers of before.
DeliverKeycode(key, release) ==
  IF key = "NONE" THEN UNCHANGED <<kb_ring, kb_head, kb_mods, kb_dirty>>
  ELSE /\ EventPut([key |-> key, mods |-> kb_mods, release |-> release])
       /\ UpdateModifiers(key, release)

\* scandata_sc1_to_keycode
Sc1ToKeycode(sc, is_e0) ==
  LET table == IF is_e0 THEN KbSc1E0 ELSE KbSc1
      code == sc % 128
  IN  IF code \in DOMAIN table THEN table[code] ELSE "NONE"

FeedScancode(sc, is_e0) == DeliverKeycode(Sc1ToKeycode(sc, is_e0), sc >= 128)

\* The rest of kbd_irq_handler, once the byte is not part of a Pause.
DecodeByte(sc) ==
  IF sc = E1
  THEN kb_e0' = FALSE /\ kb_e1' = 1 /\ UNCHANGED <<kb_ring, kb_head, kb_mods, kb_dirty>>
  ELSE kb_e0' = FALSE /\ kb_e1' = 0 /\ FeedScancode(sc, kb_e0)

KbIrq(sc) ==
  IF sc = E0
  THEN kb_e0' = TRUE /\ kb_e1' = 0 /\ UNCHANGED <<kb_ring, kb_head, kb_mods, kb_dirty>>
  ELSE IF kb_e1 > 0 /\ sc = PauseSeq[kb_e1 + 1]
       THEN /\ UNCHANGED kb_e0
            /\ IF kb_e1 + 1 = Len(PauseSeq)
               THEN kb_e1' = 0 /\ DeliverKeycode("PAUSE", FALSE)
               ELSE kb_e1' = kb_e1 + 1 /\ UNCHANGED <<kb_ring, kb_head, kb_mods, kb_dirty>>
       ELSE DecodeByte(sc)
-------------------------------------------------------------------------------
\* The keyboard: a key goes down or up, and its bytes follow one by one.
Codes(key) ==
  {<<c>> : c \in {c \in DOMAIN KbSc1 : KbSc1[c] = key}}
    \cup {<<E0, c>> : c \in {c \in DOMAIN KbSc1E0 : KbSc1E0[c] = key}}

KbType ==
  /\ kb_rest = <<>> /\ kb_typed < KbMaxTyped /\ kb_typed' = kb_typed + 1
  /\ \/ kb_rest' = PauseSeq /\ kb_key' = [NoEvent EXCEPT !.key = "PAUSE"]
     \/ \E key \in Range(KbSc1) \cup Range(KbSc1E0) : \E seq \in Codes(key) :
          /\ kb_key' = [NoEvent EXCEPT !.key = key, !.release = key \in kb_down]
          /\ kb_rest' = [seq EXCEPT ![Len(seq)] = IF key \in kb_down THEN @ + 128 ELSE @]
  /\ UNCHANGED <<kb_ring, kb_head, kb_tail, kb_mods, kb_dirty, kb_e0, kb_e1, kb_reader,
                 kb_down, kb_locked, kb_owed>>

\* What was typed, as the last byte of it arrives: with the modifiers whose keys are down
\* and the locks that are on, and lost when KbRing - 1 events wait.
Typed ==
  LET mods == {HeldMods[k] : k \in kb_down \cap DOMAIN HeldMods} \cup kb_locked
      key == kb_key.key
  IN  /\ kb_owed' = IF Len(kb_owed) < KbRing - 1 THEN Append(kb_owed, [kb_key EXCEPT !.mods = mods])
                    ELSE kb_owed
      /\ kb_down' = IF key = "PAUSE" THEN kb_down
                    ELSE IF kb_key.release THEN kb_down \ {key} ELSE kb_down \cup {key}
      /\ kb_locked' = IF key \notin DOMAIN LockMods \/ kb_key.release THEN kb_locked
                      ELSE IF LockMods[key] \in kb_locked THEN kb_locked \ {LockMods[key]}
                      ELSE kb_locked \cup {LockMods[key]}

KbByte ==
  /\ kb_rest # <<>>
  /\ KbIrq(Head(kb_rest))
  /\ kb_rest' = Tail(kb_rest)
  /\ IF Len(kb_rest) = 1 THEN Typed /\ kb_key' = NoEvent
                         ELSE UNCHANGED <<kb_owed, kb_down, kb_locked, kb_key>>
  /\ UNCHANGED <<kb_tail, kb_reader, kb_typed>>
-------------------------------------------------------------------------------
KbGoto(r, pc) == kb_reader' = [kb_reader EXCEPT ![r].pc = pc]
RingSame == UNCHANGED <<kb_ring, kb_head, kb_mods, kb_e0, kb_e1, kb_rest, kb_typed, kb_key, kb_down, kb_locked>>

\* kbd_cdev_read and kbd_cdev_poll: the lamps first, when a lock key was pressed.
KbCall(r) ==
  /\ kb_reader[r].pc = "idle"
  /\ \E call \in {<<"poll", 0>>} \cup ({"read"} \X KbLens) :
       kb_reader' = [kb_reader EXCEPT ![r] =
         [KbIdle EXCEPT !.call = call[1], !.len = call[2], !.pc = IF kb_dirty THEN "leds" ELSE "peek"]]
  /\ RingSame /\ UNCHANGED <<kb_tail, kb_dirty, kb_owed>>

\* kbd_sync_leds_if_needed: two bytes to the keyboard.  The interrupt handler may be the one
\* that gets the acknowledgement; the flag is cleared whether the keyboard took them or not.
KbLedAck(r) ==
  /\ kb_reader[r].pc = "leds" /\ kb_rest = <<>>
  /\ KbIrq(Ack)
  /\ KbGoto(r, "leds")
  /\ UNCHANGED <<kb_tail, kb_rest, kb_typed, kb_key, kb_down, kb_locked, kb_owed>>

KbLeds(r) ==
  /\ kb_reader[r].pc = "leds"
  /\ kb_dirty' = FALSE
  /\ KbGoto(r, "peek")
  /\ RingSame /\ UNCHANGED <<kb_tail, kb_owed>>

\* The first section of the loop: a copy of the oldest event, or the end of the call.
KbPeek(r) ==
  /\ kb_reader[r].pc = "peek"
  /\ LET s == kb_reader[r]
     IN  kb_reader' = [kb_reader EXCEPT ![r] =
           IF s.call = "poll" \/ s.n >= s.len \/ kb_tail = kb_head THEN KbIdle
           ELSE [s EXCEPT !.pc = "emit", !.ev = kb_ring[kb_tail]]]
  /\ RingSame /\ UNCHANGED <<kb_tail, kb_dirty, kb_owed>>

\* kbd_try_emit_event: the bytes of an event; a press with Alt alone gives two.
EmitLen(ev) ==
  IF ev.release \/ ev.key \notin KbPrintable THEN 0
  ELSE IF "ALT" \in ev.mods /\ ev.mods \cap {"ALTGR", "CTRL", "SUPER"} = {} THEN 2 ELSE 1

\* An event that does not fit stays in the ring, and the call ends.
KbEmit(r) ==
  /\ kb_reader[r].pc = "emit"
  /\ LET s == kb_reader[r]
     IN  kb_reader' = [kb_reader EXCEPT ![r] =
           IF s.n + EmitLen(s.ev) > s.len THEN KbIdle
           ELSE [s EXCEPT !.pc = "advance", !.n = @ + EmitLen(s.ev)]]
  /\ RingSame /\ UNCHANGED <<kb_tail, kb_dirty, kb_owed>>

\* The place it leaves is not read again before it is written; it is blanked to keep the
\* states few.
KbAdvance(r) ==
  /\ kb_reader[r].pc = "advance"
  /\ kb_tail' = (kb_tail + 1) % KbRing /\ kb_ring' = [kb_ring EXCEPT ![kb_tail] = NoEvent]
  /\ kb_owed' = IF kb_owed = <<>> THEN <<>> ELSE Tail(kb_owed)
  /\ kb_reader' = [kb_reader EXCEPT ![r].pc = "peek", ![r].ev = NoEvent]
  /\ UNCHANGED <<kb_head, kb_mods, kb_dirty, kb_e0, kb_e1, kb_rest, kb_typed, kb_key, kb_down, kb_locked>>

KbRead(r) == KbCall(r) \/ KbLedAck(r) \/ KbLeds(r) \/ KbPeek(r) \/ KbEmit(r) \/ KbAdvance(r)
KbNext == KbType \/ KbByte \/ (\E r \in KbReaders : KbRead(r))
KbSpec == KbInit /\ [][KbNext]_kbVars
-------------------------------------------------------------------------------
\* The ring holds the keys typed and not yet read, in order, each with the modifiers that
\* were held when it was typed, whatever bytes arrive between the two sections in which a
\* reader takes an event out; the event a reader has encoded is the oldest of them.
KeysInOrder ==
  /\ kb_owed = [i \in 1..((kb_head - kb_tail + KbRing) % KbRing) |-> kb_ring[(kb_tail + i - 1) % KbRing]]
  /\ \A r \in KbReaders : kb_reader[r].pc \in {"emit", "advance"} => kb_owed # <<>> /\ kb_reader[r].ev = Head(kb_owed)
================================================================================
