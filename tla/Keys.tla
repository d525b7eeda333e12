--------------------------------- MODULE Keys ---------------------------------
(***************************************************************************)
(* Keys and the buttons they hold down (keys.c, cl_input.c).               *)
(*                                                                         *)
(* A key that is bound to "+jump" puts this command, with its own number,  *)
(* into the command buffer when it goes down, and "-jump" when it goes up. *)
(* In between the console, a menu, a message box or a change of the        *)
(* binding may take what the key says, and two keys may hold one button.   *)
(*                                                                         *)
(* There are the two buttons that KeyDown and KeyUp tell apart, "jump" and *)
(* "up".  The command buffer has room (CommandBuffer is about its limit),  *)
(* and may wait.                                                           *)
(***************************************************************************)
EXTENDS Integers, Sequences, FiniteSets

CONSTANTS
  NumKeys,         \* the keys are numbered from 1 (255 of them)
  TypingKeys,      \* those that type a character: the console wants them
  FunctionKeys,    \* those that work in a menu too (menubound)
  Bindings,        \* what the keys may be bound to at first
  MaxText,         \* bound: commands in the buffer
  MaxOdd           \* bound: message boxes, new bindings, typed commands

GameKeys == 1..NumKeys
Button == {"jump", "up"}
NoButton == "none"           \* the binding is another command
Typed == -1                  \* the number of a command that was typed

ASSUME KeysAssumption ==
  /\ NumKeys \in Nat
  /\ TypingKeys \subseteq GameKeys
  /\ FunctionKeys \subseteq GameKeys \ TypingKeys
  /\ Bindings \subseteq [GameKeys -> Button \cup {NoButton}]

VARIABLES
  key_dest,        \* who gets the keys: "game", "console", "message", "menu"
  key_count,       \* events since a message box, up to 1; none passes below
  keydown, keygamedown,
  key_repeats,     \* up to 1
  keybindings,     \* a button, or NoButton
  text,            \* the button commands in the command buffer
  down,            \* down[b]: the keys that hold the button, two at most
  isDown,          \* bit 0 of its state
  in_smartjump,    \* pq_moveup, which stays as it is
  odd,             \* bound on: how much of what MaxOdd counts has happened
  astray           \* history: see ButtonsFollowKeys

keyVars == <<key_count, keydown, keygamedown, key_repeats>>
buttonVars == <<down, isDown, in_smartjump>>
keysVars == <<key_dest, keyVars, keybindings, text, buttonVars, odd,
              astray>>

KeysInit ==
  /\ key_dest = "game" /\ key_count = 1
  /\ keydown = [k \in GameKeys |-> FALSE]
  /\ keygamedown = [k \in GameKeys |-> FALSE]
  /\ key_repeats = [k \in GameKeys |-> 0]
  /\ keybindings \in Bindings
  /\ text = <<>>
  /\ down = [b \in Button |-> {}]
  /\ isDown = [b \in Button |-> FALSE]
  /\ in_smartjump \in BOOLEAN
  /\ odd = 0 /\ astray = {}

\* A key is astray until it is up, holds no button and is not about to.
GoAstray(ks) ==
  astray' = {k \in astray \cup ks :
               \/ keygamedown'[k]
               \/ \E b \in Button : k \in down'[b]
               \/ \E i \in DOMAIN text' : text'[i].key = k}

OneMore == odd < MaxOdd /\ odd' = odd + 1

-----------------------------------------------------------------------------
(* Events.                                                                 *)

ButtonCommand(sign, k) == [sign |-> sign, button |-> keybindings[k], key |-> k]

\* Key_Event counts on; what it counts up to 0 goes to the message box.
CountEvents(n) ==
  key_count' = IF key_count + n > 1 THEN 1 ELSE key_count + n

IsButtonHeld(k) == keygamedown[k] /\ keybindings[k] # NoButton

\* Mutant: where a key goes decides about its release as about its press.
ReleaseCommandsInGame(keys) ==
  LET after[k \in 0..NumKeys] ==
        IF k = 0 THEN text
        ELSE IF k \in keys /\ key_dest = "game"
             THEN Append(after[k - 1], ButtonCommand("-", k))
             ELSE after[k - 1]
  IN  after[NumKeys]

\* What the keys say when they go up, the lowest first.  The release of a key is
\* a command if its press was one ("to keep the character from continuing an
\* action started before a console switch").
ReleaseCommands(keys) ==
  LET after[k \in 0..NumKeys] ==
        IF k = 0 THEN text
        ELSE IF k \in keys THEN Append(after[k - 1], ButtonCommand("-", k))
             ELSE after[k - 1]
  IN  after[NumKeys]

\* The release that goes to a message box, and is no command.
Taken(released) ==
  {k \in released : key_count = -1 /\ \A j \in released : k <= j}

\* Key_Event for the release of keys.
ReleaseKeys(released) ==
  /\ keydown' = [k \in GameKeys |-> keydown[k] /\ k \notin released]
  /\ keygamedown' = [k \in GameKeys |-> keygamedown[k] /\ k \notin released]
  /\ key_repeats' = [k \in GameKeys |-> IF k \in released THEN 0
                                        ELSE key_repeats[k]]
  /\ CountEvents(Cardinality(released))
  /\ text' = ReleaseCommands({k \in released \ Taken(released) :
                                IsButtonHeld(k)})
  /\ Len(text') <= MaxText
  /\ UNCHANGED <<key_dest, keybindings, buttonVars, odd>>
  /\ GoAstray({k \in Taken(released) : IsButtonHeld(k)})

KeyGoesUp == \E k \in GameKeys : ReleaseKeys({k})

\* WM_ACTIVATE: the window is left, or entered.
Key_ClearAllStates ==
  /\ \E k \in GameKeys : keydown[k]
  /\ ReleaseKeys({k \in GameKeys : keydown[k]})

\* Autorepeat counts where characters are typed.
IsIgnoredRepeat(k, connected) ==
  key_repeats[k] >= 1
  /\ (k \notin TypingKeys \/ (key_dest = "game" /\ connected))

\* "if not a consolekey, send to the interpreter no matter what mode is"
GoesToBinding(k, forcedup) ==
  CASE key_dest = "game" -> ~forcedup \/ k \notin TypingKeys
    [] key_dest = "console" -> k \notin TypingKeys
    [] key_dest = "menu" -> k \in FunctionKeys
    [] OTHER -> FALSE

Acts(k, connected, forcedup) ==
  key_count # -1 /\ ~IsIgnoredRepeat(k, connected) /\ GoesToBinding(k, forcedup)

\* What the game is at when a key goes down is open: whether there is one, and
\* whether the console is forced up.
MayAct(k) ==
  {acts \in BOOLEAN : \E connected, forcedup \in BOOLEAN :
                        acts = Acts(k, connected, forcedup)}

\* Key_Event for a press, or its repetition.
KeyGoesDown ==
  \E k \in GameKeys : \E acts \in MayAct(k) :
    /\ keydown' = [keydown EXCEPT ![k] = TRUE]
    /\ CountEvents(1)
    /\ key_repeats' = [key_repeats EXCEPT ![k] = IF key_count = -1 THEN @
                                                 ELSE 1]
    /\ keygamedown' = [keygamedown EXCEPT ![k] = @ \/ acts]
    /\ text' = IF acts /\ keybindings[k] # NoButton
               THEN Append(text, ButtonCommand("+", k)) ELSE text
    /\ Len(text') <= MaxText
    /\ UNCHANGED <<key_dest, keybindings, buttonVars, odd>>
    /\ GoAstray({})

\* SCR_ModalMessage, at every round of its loop.
SCR_ModalMessage ==
  /\ OneMore
  /\ key_count # -1
  /\ key_count' = -1
  /\ UNCHANGED <<key_dest, keydown, keygamedown, key_repeats, keybindings,
                 text, buttonVars, astray>>

-----------------------------------------------------------------------------
(* Who gets the keys.                                                      *)

\* The console is toggled, a menu or a message begun or left, a map or a demo
\* begun: whoever has the keys, anybody else may get them.
ChangeKeyDest ==
  /\ key_dest' \in {"game", "console", "message", "menu"} \ {key_dest}
  /\ UNCHANGED <<keyVars, keybindings, text, buttonVars, odd, astray>>

-----------------------------------------------------------------------------
(* Bindings and commands.                                                  *)

\* A key that is down under its old binding says the new one's "-".
Key_SetBinding ==
  \E k \in GameKeys, b \in Button \cup {NoButton} :
    /\ OneMore
    /\ b # keybindings[k]
    /\ keybindings' = [keybindings EXCEPT ![k] = b]
    /\ UNCHANGED <<key_dest, keyVars, text, buttonVars>>
    /\ GoAstray(IF keygamedown[k] THEN {k} ELSE {})

\* A button command without a number.
TypeCommand ==
  \E sign \in {"+", "-"}, b \in Button :
    /\ OneMore
    /\ Len(text) < MaxText
    /\ text' = Append(text, [sign |-> sign, button |-> b, key |-> Typed])
    /\ UNCHANGED <<key_dest, keyVars, keybindings, buttonVars, astray>>

\* KeyDown, with the jump key for "up" in water (pq_moveup).
KeyDown(button, k, inwater) ==
  LET b == IF button = "jump" /\ in_smartjump /\ inwater THEN "up" ELSE button
      isFree == k \notin down[b] /\ Cardinality(down[b]) < 2
      isElsewhere == \E c \in Button \ {b} : k \in down[c]
  IN /\ down' = [down EXCEPT ![b] = IF isFree THEN @ \cup {k} ELSE @]
     /\ isDown' = [isDown EXCEPT ![b] = @ \/ isFree]
     /\ GoAstray(IF k # Typed /\ (isElsewhere \/ k \notin down'[b])
                 THEN {k} ELSE {})

\* KeyUp: one key leaves the button it holds, and a command that was typed
\* frees the button.  The jump key frees "up", "in case a -moveup got lost".
KeyUp(button, k) ==
  LET isJump == k # Typed /\ button = "jump" /\ in_smartjump
      isSwimming == isJump /\ k \in down["up"]
      kept(b) == CASE isSwimming -> IF b = "up" THEN down[b] \ {k} ELSE down[b]
                   [] isJump /\ b = "up" -> {}
                   [] k = Typed /\ b = button -> {}
                   [] b = button -> down[b] \ {k}
                   [] OTHER -> down[b]
  IN /\ down' = [b \in Button |-> kept(b)]
     /\ isDown' = [b \in Button |-> kept(b) # {}]
     /\ GoAstray((UNION {down[b] \ kept(b) : b \in Button}) \ {k, Typed})

\* Cbuf_Execute comes to the next button command.
ExecuteCommand ==
  /\ text # <<>>
  /\ text' = Tail(text)
  /\ UNCHANGED <<key_dest, keyVars, keybindings, in_smartjump, odd>>
  /\ LET c == Head(text)
     IN \/ /\ c.sign = "+"
           /\ \E inwater \in BOOLEAN : KeyDown(c.button, c.key, inwater)
        \/ c.sign = "-" /\ KeyUp(c.button, c.key)

KeysNext ==
  \/ KeyGoesDown
  \/ KeyGoesUp
  \/ Key_ClearAllStates
  \/ SCR_ModalMessage
  \/ ChangeKeyDest
  \/ Key_SetBinding
  \/ TypeCommand
  \/ ExecuteCommand

KeysSpec == KeysInit /\ [][KeysNext]_keysVars

-----------------------------------------------------------------------------
(* Properties.                                                             *)

HoldsFor(k) == IF keybindings[k] = "jump" THEN Button ELSE {keybindings[k]}

\* The button "should only be released when both of the pressing key have been
\* released", and is released then: once the commands are run, a button is down
\* just if a key or a command that was typed holds it, the keys that hold it
\* are down, and a key that is down for a button holds it.  What the comments
\* do not say is kept in astray: keys whose release a message box took, which
\* were bound anew while down, which came third, and whose button a typed
\* command, or the jump key, freed or changed.
ButtonsFollowKeys ==
  text = <<>> =>
    /\ \A b \in Button : /\ isDown[b] <=> down[b] # {}
                         /\ \A k \in down[b] \ (astray \cup {Typed}) :
                              keydown[k]
    /\ \A k \in GameKeys \ astray :
         IsButtonHeld(k) => \E b \in HoldsFor(k) : k \in down[b]
=============================================================================
