------------------------------- MODULE Keyboard -------------------------------
(***************************************************************************)
(* Key events and keyboard snapshots from the client's main loop to the    *)
(* server's input device: client/handle_frontend_events.cpp and            *)
(* whist_client.cpp send them over UDP under a number drawn in send_wcmsg, *)
(* whist/input/input.c takes those that are newer than the last, and       *)
(* keyboard_mapping.cpp turns a Mac's key combinations into Linux ones.    *)
(*                                                                         *)
(* Messages are lost, repeated and reordered.  wcmsg_id is drawn without a *)
(* lock: another thread of the client, which sends no input, may overwrite *)
(* it with an older value.  The order of the events that one message       *)
(* causes is left out, as is num lock, which is handled like caps lock.    *)
(***************************************************************************)
EXTENDS Integers, Sequences, FiniteSetsExt

CONSTANTS
    Keys,        \* the keys the user may press
    OsTypes,     \* the systems the client may run on
    MaxEvents,   \* bound on the events of the user
    MaxPinches,  \* bound on the pinches among them
    MaxQueued,   \* bound on the client's queue of events
    MaxMessage,  \* bound on wcmsg_id
    MaxRaces,    \* bound on the messages of the other thread
    MaxConnects, \* bound on reconnections
    MaxSpecials  \* bound on the last three kinds together

FK_H == 11
FK_Y == 28
FK_BACKSPACE == 42
FK_TAB == 43
FK_CAPSLOCK == 57
FK_DELETE == 76
FK_RIGHT == 79
FK_LEFT == 80
FK_LCTRL == 224
FK_LSHIFT == 225
FK_LALT == 226
FK_LGUI == 227
FK_RCTRL == 228
FK_RSHIFT == 229
FK_RALT == 230
FK_RGUI == 231

\* The keys that matter, in the order of their codes.
KeyOrder == <<FK_H, FK_Y, FK_BACKSPACE, FK_TAB, FK_CAPSLOCK, FK_DELETE, FK_RIGHT, FK_LEFT,
              FK_LCTRL, FK_LSHIFT, FK_LALT, FK_LGUI, FK_RCTRL, FK_RSHIFT, FK_RALT, FK_RGUI>>
AllKeys == {KeyOrder[i] : i \in DOMAIN KeyOrder}

\* What the constants have to be; the module that instantiates this one assumes it.
KeyboardAssumption ==
    /\ Keys \subseteq AllKeys
    /\ OsTypes \subseteq {"apple", "linux"}
    /\ MaxEvents \in Nat /\ MaxPinches \in Nat /\ MaxQueued \in Nat /\ MaxMessage \in Nat
    /\ MaxRaces \in Nat /\ MaxConnects \in Nat /\ MaxSpecials \in Nat

VARIABLES
    keys, caps,     \* the keys the user holds, and the client's caps lock
    active_pinch,   \* a pinch is going on at the client
    events,         \* the queue of the client's events
    wcmsg_id,       \* the number of the next message
    other,          \* what the other thread read of it, or -1
    net,            \* messages under way
    input,          \* the device and the state of the mapping
    input_os_type,  \* "apple" or "linux"
    last_input_fcmsg_id,
    newest,         \* the highest number sent in this connection
    settled,        \* a snapshot above all others that still shows the keyboard, or 0
    repaired,       \* how many snapshots from that one on were applied, up to 2
    count           \* of user events, pinches, races and reconnections

client == <<keys, caps, active_pinch, events>>
inputVars == <<keys, caps, active_pinch, events, wcmsg_id, other, net, input, input_os_type,
          last_input_fcmsg_id, newest, settled, repaired, count>>

Event == [kind : {"key"}, key : Keys, pressed : BOOLEAN]
         \cup [kind : {"gesture"}, active : BOOLEAN, cancel : BOOLEAN]
Snapshot == [kind : {"state"}, keys : SUBSET Keys, caps : BOOLEAN, pinch : BOOLEAN]

InputTypeOK ==
    /\ keys \subseteq Keys /\ caps \in BOOLEAN /\ active_pinch \in BOOLEAN
    /\ \A i \in DOMAIN events : events[i] \in Event
    /\ wcmsg_id \in 0 .. MaxMessage /\ other \in -1 .. MaxMessage
    /\ \A m \in net : m.id \in 0 .. MaxMessage /\ m.body \in Event \cup Snapshot
    /\ input.keyboard_state \subseteq AllKeys /\ input.caps_lock \in BOOLEAN
    /\ input.holding_keymap \in BOOLEAN
    /\ input.currently_pressed \subseteq AllKeys /\ input.new_key_combination \subseteq AllKeys
    /\ input_os_type \in OsTypes
    /\ {last_input_fcmsg_id, newest, settled} \subseteq 0 .. MaxMessage
    /\ repaired \in 0 .. 2

InputInit ==
    /\ keys = {} /\ caps = FALSE /\ active_pinch = FALSE /\ events = <<>>
    /\ wcmsg_id = 0 /\ other = -1
    /\ net = {}
    /\ input = [keyboard_state |-> {}, caps_lock |-> FALSE, holding_keymap |-> FALSE,
                currently_pressed |-> {}, new_key_combination |-> {}]
    /\ input_os_type \in OsTypes
    /\ last_input_fcmsg_id = 0
    /\ newest = 0 /\ settled = 0 /\ repaired = 0
    /\ count = [events |-> 0, pinches |-> 0, races |-> 0, connects |-> 0]

SpecialsLeft == count.pinches + count.races + count.connects < MaxSpecials

-----------------------------------------------------------------------------
(* keyboard_mapping.cpp and the device (uinput_input_driver.c). *)

modmap(k) ==
    CASE k = FK_RGUI -> FK_LGUI
      [] k = FK_RCTRL -> FK_LCTRL
      [] k = FK_RALT -> FK_LALT
      [] k = FK_RSHIFT -> FK_LSHIFT
      [] OTHER -> k

keyboard_mappings == {
    <<{FK_LCTRL, FK_Y}, {FK_LCTRL, FK_H}>>,
    <<{FK_LCTRL, FK_H}, {}>>,
    <<{FK_LCTRL, FK_LEFT}, {FK_LALT, FK_LEFT}>>,
    <<{FK_LCTRL, FK_RIGHT}, {FK_LALT, FK_RIGHT}>>,
    <<{FK_LALT, FK_LEFT}, {FK_LCTRL, FK_LEFT}>>,
    <<{FK_LALT, FK_RIGHT}, {FK_LCTRL, FK_RIGHT}>>,
    <<{FK_LALT, FK_LSHIFT, FK_LEFT}, {FK_LCTRL, FK_LSHIFT, FK_LEFT}>>,
    <<{FK_LALT, FK_LSHIFT, FK_RIGHT}, {FK_LCTRL, FK_LSHIFT, FK_RIGHT}>>,
    <<{FK_LALT, FK_BACKSPACE}, {FK_LCTRL, FK_BACKSPACE}>>,
    <<{FK_LALT, FK_DELETE}, {FK_LCTRL, FK_DELETE}>>,
    <<{FK_LGUI, FK_TAB}, {FK_LCTRL, FK_TAB}>>,
    <<{FK_LGUI, FK_LSHIFT, FK_TAB}, {FK_LCTRL, FK_LSHIFT, FK_TAB}>>,
    <<{FK_LCTRL, FK_LALT, FK_RIGHT}, {FK_LCTRL, FK_TAB}>>,
    <<{FK_LCTRL, FK_LALT, FK_LEFT}, {FK_LCTRL, FK_LSHIFT, FK_TAB}>>}

\* A press of caps lock toggles it, also if the key was down.
EmitKeyEvent(s, k, pressed) ==
    [s EXCEPT !.keyboard_state = IF pressed THEN @ \cup {k} ELSE @ \ {k},
              !.caps_lock = (@ # (k = FK_CAPSLOCK /\ pressed))]

\* The keymap is given up: its combination is released, and what was held before is pressed
\* again, apart from the key that is being released.
Disengaged(s, k, pressed) ==
    [s EXCEPT !.keyboard_state =
                  (@ \ s.new_key_combination) \cup
                  (IF pressed THEN s.currently_pressed ELSE s.currently_pressed \ {k}),
              !.holding_keymap = FALSE,
              !.currently_pressed = {}, !.new_key_combination = {}]

\* Faulty: the original keys stay down.
EngagesOnTop(s, k) ==
    LET held == s.keyboard_state \cup {k}
        new  == {m \in keyboard_mappings : m[1] = held}
    IN  IF new = {}
        THEN EmitKeyEvent(s, k, TRUE)
        ELSE LET m == CHOOSE m \in new : TRUE
             IN  [s EXCEPT !.keyboard_state = @ \cup m[2], !.holding_keymap = TRUE,
                           !.currently_pressed = held, !.new_key_combination = m[2]]

\* The key is pressed, or the combination it completes is replaced.
PressMapped(s, k) ==
    LET held == s.keyboard_state \cup {k}
        new  == {m \in keyboard_mappings : m[1] = held}
    IN  IF new = {}
        THEN EmitKeyEvent(s, k, TRUE)
        ELSE LET m == CHOOSE m \in new : TRUE
             IN  [s EXCEPT !.keyboard_state = m[2], !.holding_keymap = TRUE,
                           !.currently_pressed = held, !.new_key_combination = m[2]]

EmitMappedKeyEvent(s, os, code, pressed) ==
    LET k  == modmap(code)
        s2 == IF s.holding_keymap THEN Disengaged(s, k, pressed) ELSE s
    IN  IF code = FK_CAPSLOCK \/ os # "apple"
        THEN EmitKeyEvent(s, code, pressed)
        ELSE IF s.holding_keymap /\ (k \in s.currently_pressed) = pressed
             THEN s
             ELSE IF pressed THEN PressMapped(s2, k) ELSE EmitKeyEvent(s2, k, FALSE)

Mapped(os, k) == IF os = "apple" THEN modmap(k) ELSE k

\* Faulty: the device is asked, also while a keymap is held.
AsksTheDevice(s, k) == k \in s.keyboard_state

\* Whether the client's key counts as pressed: behind a keymap, what was pressed before it.
IsPressed(s, k) ==
    IF s.holding_keymap THEN k \in s.currently_pressed ELSE k \in s.keyboard_state

\* One turn of the loop over the keys; the last key that is mapped to k stands for it.
SyncKey(s, os, state, k) ==
    LET origins == {o \in AllKeys : Mapped(os, o) = k}
        down    == origins \cap state.keys # {}
    IN  IF origins = {} \/ (k = FK_LCTRL /\ state.pinch) \/ down = IsPressed(s, k)
        THEN s
        ELSE EmitMappedKeyEvent(s, os, Max(origins), down)

\* Caps lock is pressed and released, or the other way round if the key is held.
SyncCaps(s, state) ==
    LET first == FK_CAPSLOCK \notin state.keys
    IN  IF s.caps_lock = state.caps THEN s
        ELSE EmitKeyEvent(EmitKeyEvent(s, FK_CAPSLOCK, first), FK_CAPSLOCK, ~first)

UpdateMappedKeyboardState(s, os, state) ==
    LET after[i \in 0 .. Len(KeyOrder)] ==
            IF i = 0 THEN s ELSE SyncKey(after[i - 1], os, state, KeyOrder[i])
    IN  SyncCaps(after[Len(KeyOrder)], state)

\* A pinch holds the control key, as long as the client says it is active.
EmitMultigestureEvent(s, e) ==
    IF e.cancel THEN EmitKeyEvent(s, FK_LCTRL, FALSE)
    ELSE IF e.active THEN s ELSE EmitKeyEvent(s, FK_LCTRL, TRUE)

-----------------------------------------------------------------------------
(* The client. *)

\* The frontend has taken an event from the system: its snapshot shows it at once.
Occurs(e) ==
    /\ count.events < MaxEvents
    /\ Len(events) < MaxQueued
    /\ events' = Append(events, e)
    /\ settled' = 0 /\ repaired' = 0
    /\ UNCHANGED <<active_pinch, wcmsg_id, other, net, input, input_os_type,
                   last_input_fcmsg_id, newest>>

\* A key goes down, or repeats itself.
PressKey(k) ==
    /\ Occurs([kind |-> "key", key |-> k, pressed |-> TRUE])
    /\ keys' = keys \cup {k}
    /\ caps' = (caps # (k = FK_CAPSLOCK /\ k \notin keys))
    /\ count' = [count EXCEPT !.events = @ + 1]

ReleaseKey(k) ==
    /\ k \in keys
    /\ Occurs([kind |-> "key", key |-> k, pressed |-> FALSE])
    /\ keys' = keys \ {k}
    /\ caps' = caps
    /\ count' = [count EXCEPT !.events = @ + 1]

\* The fingers move, or are lifted.
Pinch(lifted) ==
    /\ count.pinches < MaxPinches /\ SpecialsLeft
    /\ Occurs([kind |-> "gesture", active |-> FALSE, cancel |-> lifted])
    /\ UNCHANGED <<keys, caps>>
    /\ count' = [count EXCEPT !.events = @ + 1, !.pinches = @ + 1]

\* Faulty: numbers are not compared.
TakesAny(m, last) == TRUE

IsNewer(m, last) == m.id > last

\* The number is taken and then counted up; the other thread may write in between.
\* Messages that will not be taken any more are left out of net.
SendWcmsg(body) ==
    /\ wcmsg_id < MaxMessage
    /\ net' = {m \in net \cup {[id |-> wcmsg_id, body |-> body]} : IsNewer(m, last_input_fcmsg_id)}
    /\ newest' = IF wcmsg_id > newest THEN wcmsg_id ELSE newest
    /\ \/ /\ wcmsg_id' = wcmsg_id + 1
          /\ other' = other
       \/ /\ other # -1 /\ other + 2 <= MaxMessage
          /\ wcmsg_id' = other + 2
          /\ other' = -1

\* What is sent for an event: a gesture carries the flag from before it.
Sent(e) ==
    IF e.kind = "key" THEN e
    ELSE [e EXCEPT !.active = active_pinch, !.cancel = e.cancel /\ active_pinch]

HandleFrontendEvent ==
    /\ events # <<>>
    /\ events' = Tail(events)
    /\ SendWcmsg(Sent(Head(events)))
    /\ active_pinch' = IF Head(events).kind = "key" THEN active_pinch ELSE ~Head(events).cancel
    /\ UNCHANGED <<keys, caps, input, input_os_type, last_input_fcmsg_id, settled, repaired, count>>

SyncKeyboardState ==
    /\ SendWcmsg([kind |-> "state", keys |-> keys, caps |-> caps, pinch |-> active_pinch])
    /\ settled' = IF settled = 0 /\ events = <<>> /\ ~active_pinch /\ wcmsg_id > newest
                  THEN wcmsg_id ELSE settled
    /\ UNCHANGED <<client, input, input_os_type, last_input_fcmsg_id, repaired, count>>

\* Another thread of the client sends something else: it reads the number,
OtherReads ==
    /\ other = -1
    /\ count.races < MaxRaces /\ SpecialsLeft
    /\ other' = wcmsg_id
    /\ count' = [count EXCEPT !.races = @ + 1]
    /\ UNCHANGED <<client, wcmsg_id, net, input, input_os_type, last_input_fcmsg_id,
                   newest, settled, repaired>>

\* and writes the next one, unless that write is overwritten at once.
OtherWrites ==
    /\ other # -1
    /\ wcmsg_id' \in {n \in {other + 1, wcmsg_id} : n <= MaxMessage}
    /\ other' = -1
    /\ UNCHANGED <<client, net, input, input_os_type, last_input_fcmsg_id, newest, settled,
                   repaired, count>>

-----------------------------------------------------------------------------
(* The server. *)

Applied(body) ==
    CASE body.kind = "key"     -> EmitMappedKeyEvent(input, input_os_type, body.key, body.pressed)
      [] body.kind = "gesture" -> EmitMultigestureEvent(input, body)
      [] body.kind = "state"   -> UpdateMappedKeyboardState(input, input_os_type, body)

\* replay_user_input and update_keyboard_state.
HandleMessage(m) ==
    /\ IsNewer(m, last_input_fcmsg_id)
    /\ net' = {n \in net : IsNewer(n, m.id)}
    /\ last_input_fcmsg_id' = m.id
    /\ input' = Applied(m.body)
    /\ repaired' = IF m.body.kind = "state" /\ settled # 0 /\ m.id >= settled /\ repaired < 2
                   THEN repaired + 1 ELSE repaired
    /\ UNCHANGED <<client, wcmsg_id, other, input_os_type, newest, settled, count>>

\* connect_client, with the same client or a new process on the same machine.
ConnectClient ==
    /\ count.connects < MaxConnects /\ SpecialsLeft
    /\ count' = [count EXCEPT !.connects = @ + 1]
    /\ net' = {}
    /\ last_input_fcmsg_id' = 0
    /\ newest' = 0 /\ settled' = 0 /\ repaired' = 0
    /\ \/ UNCHANGED <<wcmsg_id, other, active_pinch, events>>
       \/ wcmsg_id' = 0 /\ other' = -1 /\ active_pinch' = FALSE /\ events' = <<>>
    /\ UNCHANGED <<keys, caps, input, input_os_type>>

InputNext ==
    \/ \E k \in Keys : PressKey(k) \/ ReleaseKey(k)
    \/ \E lifted \in BOOLEAN : Pinch(lifted)
    \/ HandleFrontendEvent \/ SyncKeyboardState
    \/ OtherReads \/ OtherWrites
    \/ \E m \in net : HandleMessage(m)
    \/ ConnectClient

InputSpec == InputInit /\ [][InputNext]_inputVars
-----------------------------------------------------------------------------
(* Properties. *)

\* The periodic snapshots (whist_client.cpp:250) repair what losses, repetitions, late
\* messages and the race for wcmsg_id have done: once one that was sent after the last event,
\* with a number above all earlier ones, has been applied, the server holds the keys that the
\* client does and has its caps lock, and nothing that is still under way undoes it.  Behind
\* a keymap the key of caps lock itself is not looked at (keyboard_mapping.cpp:294): that key
\* takes a second snapshot, and the end of the keymap.
SettledIsSynced ==
    repaired > 0 =>
        /\ input.caps_lock = caps
        /\ \A k \in AllKeys \ (IF repaired = 1 \/ input.holding_keymap THEN {FK_CAPSLOCK} ELSE {}) :
               IsPressed(input, k) = (\E o \in keys : Mapped(input_os_type, o) = k)

\* While a keymap is held the device shows its combination alone, and not the keys it is
\* held with (keyboard_mapping.cpp:234-241), through repeated presses, releases and
\* snapshots; caps lock is not mapped, and a pinch presses the control key by itself.
KeymapStandsAlone ==
    input.holding_keymap =>
        LET apart == {FK_CAPSLOCK} \cup (IF count.pinches = 0 THEN {} ELSE {FK_LCTRL})
        IN  input.keyboard_state \ apart = input.new_key_combination \ apart

\* Snapshots repair what the network did, and a mapped combination stands alone
\* (keyboard_mapping.cpp:156-346).
KeyboardFollows == SettledIsSynced /\ KeymapStandsAlone
=============================================================================
