----------------------------- MODULE AddressBook -----------------------------
(***************************************************************************)
(* What the IP log (iplog.c) promises, with no tree or ring in it: a list  *)
(* of who was seen where, the oldest first, without repetitions.  When it  *)
(* is full the oldest is forgotten, and when an address has too many names *)
(* the oldest name is.  What is saved is the list as it is.                *)
(***************************************************************************)
EXTENDS Naturals, Sequences, FiniteSets

CONSTANTS
  Entry,           \* records of an address and a name
  Capacity,        \* the entries the book holds
  NamesPerAddress

VARIABLES
  log,             \* the entries, oldest first
  saved            \* the entries on the disk

vars == <<log, saved>>

Init == log = <<>> /\ saved = <<>>

Known(e) == \E i \in DOMAIN log : log[i] = e
Places(a) == {i \in DOMAIN log : log[i].addr = a}

\* The names of e.addr move up by one place, to make room for e.name.
ForgetName(e) ==
  LET later(i) == {j \in Places(e.addr) : j > i}
      next(i) == CHOOSE j \in later(i) : \A k \in later(i) : j <= k
  IN [i \in DOMAIN log |->
        IF i \notin Places(e.addr) THEN log[i]
        ELSE IF later(i) = {} THEN e ELSE log[next(i)]]

Forget(list) == IF Len(list) > Capacity THEN Tail(list) ELSE list

Add(e) ==
  /\ ~Known(e)
  /\ log' = IF Cardinality(Places(e.addr)) = NamesPerAddress
            THEN ForgetName(e)
            ELSE Forget(Append(log, e))
  /\ UNCHANGED saved

Save == saved' = log /\ UNCHANGED log

\* The program ends, by itself or while it saves.
Stop ==
  /\ log' = <<>>
  /\ saved' = saved \/ \E n \in 0..Len(log) : saved' = SubSeq(log, 1, n)

Next ==
  \/ \E e \in Entry : Add(e)
  \/ Save
  \/ Stop

Spec == Init /\ [][Next]_vars
=============================================================================
