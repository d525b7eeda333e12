---------------------------- MODULE CommandBuffer ----------------------------
(***************************************************************************)
(* The command buffer and the aliases (cmd.c).                             *)
(*                                                                         *)
(* Keys, menus, scripts, the server's stufftext and the demo loop put text *)
(* into one buffer; Cbuf_Execute takes line after line from its front once *)
(* per frame, until the buffer is empty or a line was "wait".  A line may  *)
(* be a script or an alias, whose text goes to the front of what remains.  *)
(*                                                                         *)
(* A text is a sequence of commands and line ends ("\n", or ";" outside    *)
(* quotes), each of which counts for one character.  A line is run by its  *)
(* first word, so that a command that lost its line end to a later one     *)
(* takes it for its arguments.                                             *)
(***************************************************************************)
EXTENDS Integers, Sequences

CONSTANTS
  MaxText,         \* cmd_text.maxsize
  Command,         \* the commands
  Meaning,         \* Meaning[c]: its kind and operand
  Content,         \* Content[f]: the text of script f
  AliasName,       \* the names aliases have
  Given,           \* the texts that are added or inserted
  KeysSplit        \* whether the command of a key may just fit into the
                   \* buffer and the line end that is added next not

NL == "\n"
Text == Seq(Command \cup {NL})

ASSUME CommandAssumption ==
  /\ MaxText \in Nat \ {0}
  /\ NL \notin Command
  /\ DOMAIN Meaning = Command
  /\ Given \subseteq Text
  /\ \A f \in DOMAIN Content : Content[f] \in Text
  /\ KeysSplit \in BOOLEAN

\* What the operands are that the kinds of commands have.
ASSUME MeaningAssumption ==
  \A c \in Command :
    /\ Meaning[c].kind \in {"plain", "wait", "exec", "call", "alias",
                           "unalias", "unaliasall"}
    /\ Meaning[c].kind = "exec" => Meaning[c].of \in DOMAIN Content
    /\ Meaning[c].kind \in {"call", "alias", "unalias"} =>
         Meaning[c].of \in AliasName
    /\ Meaning[c].kind = "alias" => Meaning[c].as \in Seq(Command)

VARIABLES
  cmd_text,        \* the buffer
  cmd_wait,
  cmd_alias,       \* the list of aliases, the one defined last first
  executing,       \* Cbuf_Execute is running
  ended            \* how the program has ended: "no", by the Sys_Error of
                   \* SZ_GetSpace, or in behaviour C leaves undefined

commandVars == <<cmd_text, cmd_wait, cmd_alias, executing, ended>>

CommandInit ==
  /\ cmd_text = <<>>
  /\ cmd_wait = FALSE
  /\ cmd_alias = <<>>
  /\ executing = FALSE
  /\ ended = "no"

-----------------------------------------------------------------------------
(* The buffer.                                                             *)

\* Cbuf_AddText: text that does not fit is dropped with a warning.
WithText(buffer, text) ==
  IF Len(buffer) + Len(text) >= MaxText THEN buffer ELSE buffer \o text

\* SZ_GetSpace ends the program: the text fits, what was in the buffer does
\* not fit behind it.
InsertOverflows(text, rest) ==
  Len(WithText(<<>>, text)) + Len(rest) > MaxText

\* Mutant: the text goes behind what the buffer holds.
Cbuf_InsertTextBehind(text, rest) ==
  IF InsertOverflows(text, rest)
  THEN ended' = "overflow" /\ UNCHANGED cmd_text
  ELSE cmd_text' = rest \o WithText(<<>>, text) /\ UNCHANGED ended

\* Cbuf_InsertText(text) when the buffer holds rest: the rest is copied off,
\* the text added to the empty buffer and the rest written back.
Cbuf_InsertText(text, rest) ==
  IF InsertOverflows(text, rest)
  THEN ended' = "overflow" /\ UNCHANGED cmd_text
  ELSE cmd_text' = WithText(<<>>, text) \o rest /\ UNCHANGED ended

\* The end of the first line of the buffer, one past the last command if it
\* is not terminated.
LineEnd ==
  LET ends == {i \in 1..Len(cmd_text) : cmd_text[i] = NL}
  IN IF ends = {} THEN Len(cmd_text) + 1
     ELSE CHOOSE i \in ends : \A j \in ends : i <= j
Line == SubSeq(cmd_text, 1, LineEnd - 1)

Rest == SubSeq(cmd_text, LineEnd + 1, Len(cmd_text))

\* Each command on a line of its own.
Lines(commands) ==
  [i \in 1..2 * Len(commands) |->
     IF i % 2 = 1 THEN commands[(i + 1) \div 2] ELSE NL]

-----------------------------------------------------------------------------
(* The aliases.                                                            *)

Places(name) == {i \in 1..Len(cmd_alias) : cmd_alias[i].name = name}
PlaceOf(name) == CHOOSE i \in Places(name) : \A j \in Places(name) : i <= j

\* cmd_alias points at memory that has been freed: whatever walks the list
\* reads it.
ListIsFreed == cmd_alias # <<>> /\ ~cmd_alias[1].live

\* Cmd_Alias_f with a name and a text: the alias of that name gets the text,
\* or a new one is put in front.
Cmd_Alias_f(name, text) ==
  cmd_alias' =
    IF Places(name) # {}
    THEN [cmd_alias EXCEPT ![PlaceOf(name)].value = text]
    ELSE <<[name |-> name, value |-> text, live |-> TRUE]>> \o cmd_alias

\* Cmd_Unalias_f: the alias is freed and its predecessor linked to its
\* successor.  The first one is taken for its own predecessor, and cmd_alias
\* goes on pointing at what is freed.
Cmd_Unalias_f(name) ==
  cmd_alias' =
    IF Places(name) = {} THEN cmd_alias
    ELSE IF PlaceOf(name) = 1 THEN [cmd_alias EXCEPT ![1].live = FALSE]
    ELSE SubSeq(cmd_alias, 1, PlaceOf(name) - 1)
           \o SubSeq(cmd_alias, PlaceOf(name) + 1, Len(cmd_alias))

-----------------------------------------------------------------------------
(* Execution.                                                              *)

\* Cmd_ExecuteString of command c, with the buffer holding rest.  A script is
\* inserted as it is in its file, an alias with the "\n" it was stored with.
Cmd_ExecuteString(c, rest) ==
  LET command == Meaning[c]
      Nothing == cmd_text' = rest /\ UNCHANGED ended
  IN \/ /\ command.kind \in {"plain", "wait"}
        /\ Nothing /\ UNCHANGED cmd_alias
     \/ /\ command.kind = "exec"
        /\ Cbuf_InsertText(Content[command.of], rest)
        /\ UNCHANGED cmd_alias
     \/ /\ command.kind \in {"call", "alias", "unalias", "unaliasall"}
        /\ ListIsFreed
        /\ ended' = "undefined"
        /\ UNCHANGED <<cmd_text, cmd_alias>>
     \/ /\ command.kind = "call" /\ ~ListIsFreed
        /\ IF Places(command.of) = {}
             THEN Nothing
             ELSE Cbuf_InsertText(cmd_alias[PlaceOf(command.of)].value, rest)
        /\ UNCHANGED cmd_alias
     \/ /\ command.kind = "alias" /\ ~ListIsFreed
        /\ Cmd_Alias_f(command.of, Lines(command.as)) /\ Nothing
     \/ /\ command.kind = "unalias" /\ ~ListIsFreed
        /\ Cmd_Unalias_f(command.of) /\ Nothing
     \/ /\ command.kind = "unaliasall" /\ ~ListIsFreed
        /\ cmd_alias' = <<>> /\ Nothing

IsWait(c) == Meaning[c].kind = "wait"

\* One round of the loop of Cbuf_Execute: the first line leaves the buffer
\* and is run; after a wait the rest stays for the next frame.
RunLine ==
  /\ executing /\ ended = "no"
  /\ cmd_text # <<>>
  /\ IF Line = <<>>
       THEN cmd_text' = Rest /\ UNCHANGED <<cmd_alias, ended>>
       ELSE Cmd_ExecuteString(Head(Line), Rest)
  /\ LET wait == cmd_wait \/ (Line # <<>> /\ IsWait(Head(Line))) IN
     /\ cmd_wait' = FALSE
     /\ executing' = ~wait

\* Cbuf_Execute returns from the empty buffer.
ExecuteReturns ==
  /\ executing /\ ended = "no"
  /\ cmd_text = <<>>
  /\ executing' = FALSE
  /\ UNCHANGED <<cmd_text, cmd_wait, cmd_alias, ended>>

-----------------------------------------------------------------------------
(* Who calls: the rest of the frame, between two calls of Cbuf_Execute.    *)

Outside == ~executing /\ ended = "no"

\* The next frame comes to Cbuf_Execute.
Host_FrameExecutes ==
  /\ Outside
  /\ executing' = TRUE
  /\ UNCHANGED <<cmd_text, cmd_wait, cmd_alias, ended>>

\* A stufftext of the server, the menu, a configuration.
Cbuf_AddText(text) ==
  /\ Outside
  /\ cmd_text' = WithText(cmd_text, text)
  /\ UNCHANGED <<cmd_wait, cmd_alias, executing, ended>>

\* Key_Event: the command bound to a key and the line end, added one by one.
Key_Event(c) ==
  /\ Outside
  /\ KeysSplit \/ Len(cmd_text) + 2 # MaxText
  /\ cmd_text' = WithText(WithText(cmd_text, <<c>>), <<NL>>)
  /\ UNCHANGED <<cmd_wait, cmd_alias, executing, ended>>

\* CL_NextDemo and the key menu insert before what a wait has left.
InsertText(text) ==
  /\ Outside
  /\ Cbuf_InsertText(text, cmd_text)
  /\ UNCHANGED <<cmd_wait, cmd_alias, executing>>

\* The server runs a command of a remote console, not by way of the buffer.
Rcon(c) ==
  /\ Outside
  /\ Cmd_ExecuteString(c, cmd_text)
  /\ cmd_wait' = (cmd_wait \/ IsWait(c))
  /\ UNCHANGED executing

\* Q_Version: a player asks what the client is, in a message the client reads
\* in whatever part of the frame; the answer is run at once, and with it what
\* a wait has left.
Q_Version(text) ==
  /\ Outside
  /\ cmd_text' = WithText(cmd_text, text)
  /\ executing' = TRUE
  /\ UNCHANGED <<cmd_wait, cmd_alias, ended>>

CommandNext ==
  \/ RunLine
  \/ ExecuteReturns
  \/ Host_FrameExecutes
  \/ \E text \in Given :
       Cbuf_AddText(text) \/ InsertText(text) \/ Q_Version(text)
  \/ \E c \in Command : Key_Event(c) \/ Rcon(c)

\* Cbuf_Execute, once called, runs.
CommandFairness == WF_commandVars(RunLine) /\ WF_commandVars(ExecuteReturns)

CommandSpec == CommandInit /\ [][CommandNext]_commandVars /\ CommandFairness

-----------------------------------------------------------------------------
(* Properties.                                                             *)

\* The buffer never holds more than it has room for, whatever jumps the queue
\* while it is full, and the rest has its type.
CommandTypeOK ==
  /\ cmd_text \in Text
  /\ Len(cmd_text) <= MaxText
  /\ cmd_wait \in BOOLEAN
  /\ cmd_alias \in Seq([name : AliasName, value : Text, live : BOOLEAN])
  /\ executing \in BOOLEAN
  /\ ended \in {"no", "overflow", "undefined"}

\* The commands of scripts, aliases, keys and the server are run in the order
\* in which they were given, each where it stands; none is run twice, skipped
\* or swallowed by another, except texts dropped as a whole, until the program
\* ends.  An alias stands for what it was last given, and for nothing when it
\* has been removed.
Commands(text) ==
  LET of[i \in 0..Len(text)] ==
        IF i = 0 THEN <<>>
        ELSE IF text[i] = NL THEN of[i - 1] ELSE Append(of[i - 1], text[i])
  IN of[Len(text)]
TheScript == INSTANCE Script WITH
  Given <- {Commands(text) : text \in Given} \cup {<<c>> : c \in Command},
  Content <- [f \in DOMAIN Content |-> Commands(Content[f])],
  pending <- Commands(cmd_text),
  alias <- [name \in AliasName |->
              IF \E i \in Places(name) : cmd_alias[i].live
              THEN Commands(cmd_alias[PlaceOf(name)].value) ELSE <<>>]
ImplementsScript == TheScript!Spec

\* A frame's Cbuf_Execute comes to an end, although an alias may name itself,
\* as long as it waits before it does.
FrameGoesOn == executing ~> ~executing \/ ended # "no"
=============================================================================
