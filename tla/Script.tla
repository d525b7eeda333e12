------------------------------- MODULE Script -------------------------------
(***************************************************************************)
(* What the console promises to those who write scripts: the commands that *)
(* were given are run one after another in the order they were given, and  *)
(* what a command stands for is run in its place, before what follows it.  *)
(* What is too much may be dropped, but only as a whole.  No buffer, line  *)
(* ends or list of aliases in it.                                          *)
(***************************************************************************)
EXTENDS Sequences

CONSTANTS
  Given,           \* the sequences of commands that may be given
  Meaning,         \* Meaning[c]: what kind of command c is, and its operand
  Content          \* Content[f]: the commands script f holds

VARIABLES
  pending,         \* the commands still to be run
  alias            \* alias[n]: the commands n stands for

vars == <<pending, alias>>

NoAlias == <<>>

Init ==
  /\ pending = <<>>
  /\ \A n \in DOMAIN alias : alias[n] = NoAlias

Give(text) ==
  /\ pending' = pending \o text
  /\ UNCHANGED alias

\* The demo loop and the menu jump the queue.
GiveFirst(text) ==
  /\ pending' = text \o pending
  /\ UNCHANGED alias

\* What is run in the place of command c.
Stands(c) ==
  CASE c.kind = "exec" -> Content[c.of]
    [] c.kind = "call" -> alias[c.of]
    [] OTHER -> <<>>

Aliased(c) ==
  CASE c.kind = "alias" -> [alias EXCEPT ![c.of] = c.as]
    [] c.kind = "unalias" -> [alias EXCEPT ![c.of] = NoAlias]
    [] c.kind = "unaliasall" -> [n \in DOMAIN alias |-> NoAlias]
    [] OTHER -> alias

\* Command c run with what is behind it, at once or when its turn has come.
RunBefore(c, behind) ==
  /\ \E text \in {Stands(Meaning[c]), <<>>} : pending' = text \o behind
  /\ alias' = Aliased(Meaning[c])

Run == pending # <<>> /\ RunBefore(Head(pending), Tail(pending))

\* The remote console does not queue at all.
RunAtOnce(c) == RunBefore(c, pending)

Next ==
  \/ Run
  \/ \E c \in DOMAIN Meaning : RunAtOnce(c)
  \/ \E text \in Given : Give(text) \/ GiveFirst(text)

Spec == Init /\ [][Next]_vars
=============================================================================
