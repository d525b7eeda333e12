------------------------------- MODULE Polling -------------------------------
(***************************************************************************)
(* The poll procedures of the network (NET_Poll, SchedulePollProcedure in  *)
(* net_main.c) and the five of them there are: the two of the search for   *)
(* servers (NET_Slist_f), and those of the commands "test", "test2" and    *)
(* "rcon" (net_dgrm.c), which share a socket, a counter and a flag.        *)
(*                                                                         *)
(* The procedures are linked in the order in which they are due.  NET_Poll *)
(* takes those that are due off the front and runs them, and a procedure   *)
(* that wants to be run again links itself in once more while NET_Poll     *)
(* still stands on it.                                                     *)
(*                                                                         *)
(* Time is counted in ticks, and every time is relative to now.            *)
(***************************************************************************)
EXTENDS Integers, FiniteSets

CONSTANTS
  SendPeriod, SendUntil,   \* Slist_Send: again after 0.75 s, in the first 0.5
  PollPeriod, PollUntil,   \* Slist_Poll: again after 0.1 s, in the first 1.5
  QueryPeriod,             \* the queries: again after 0.05 to 0.25 s
  MaxPolls,                \* testPollCount at the start (20)
  MaxFrame                 \* the longest time from one NET_Poll to the next

ASSUME PollingAssumption ==
  {SendPeriod, PollPeriod, QueryPeriod, MaxPolls} \subseteq Nat \ {0}
ASSUME TimesAssumption == {SendUntil, PollUntil, MaxFrame} \subseteq Nat

Query == {"test", "test2", "rcon"}
Procedure == Query \cup {"slistSend", "slistPoll"}
NoProcedure == "none"

VARIABLES
  list,            \* head: pollProcedureList;  next, nextTime: of procedures
  polling, pp,     \* NET_Poll runs, standing on pp
  net_time,        \* when the last NET_Poll began
  slistInProgress, slistAge,        \* slistAge: the time since slistStartTime
  testInProgress, testPollCount,
  openSockets      \* sockets OpenSocket has given and CloseSocket not taken

pollVars == <<list, polling, pp, net_time, slistInProgress, slistAge,
              testInProgress, testPollCount, openSockets>>
slistVars == <<slistInProgress, slistAge>>
testVars == <<testInProgress, testPollCount, openSockets>>

LongAgo == -MaxFrame - 1     \* no time that is compared is before this one

PollInit ==
  /\ list = [head |-> NoProcedure,
             next |-> [p \in Procedure |-> NoProcedure],
             nextTime |-> [p \in Procedure |-> LongAgo]]
  /\ polling = FALSE /\ pp = NoProcedure /\ net_time = 0
  /\ slistInProgress = FALSE /\ slistAge = 0
  /\ testInProgress = FALSE /\ testPollCount = 0 /\ openSockets = 0

-----------------------------------------------------------------------------
(* The list.                                                               *)

\* The pointers one comes by from the head on.
Chain(l) ==
  LET c[n \in 0..Cardinality(Procedure)] ==
        IF n = 0 THEN l.head
        ELSE IF c[n - 1] = NoProcedure THEN NoProcedure ELSE l.next[c[n - 1]]
  IN c

\* SchedulePollProcedure: before the first procedure that is due no earlier.
SchedulePollProcedure(l, proc, offset) ==
  LET timed == [l EXCEPT !.nextTime[proc] = offset]
      c == Chain(timed)
      n == CHOOSE k \in DOMAIN c :
             /\ c[k] = NoProcedure \/ timed.nextTime[c[k]] >= offset
             /\ \A j \in 0..k - 1 :
                  c[j] # NoProcedure /\ timed.nextTime[c[j]] < offset
  IN IF n = 0
     THEN [timed EXCEPT !.head = proc, !.next[proc] = timed.head]
     ELSE [timed EXCEPT !.next[c[n - 1]] = proc, !.next[proc] = c[n]]

-----------------------------------------------------------------------------
(* The commands, which run before NET_Poll in a frame.                     *)

\* NET_Slist_f, also at the start of NET_Connect and from the search menu.
NET_Slist_f ==
  /\ ~polling /\ ~slistInProgress
  /\ slistInProgress' = TRUE
  /\ slistAge' = 0
  /\ list' = SchedulePollProcedure(
               SchedulePollProcedure(list, "slistSend", 0),
               "slistPoll", PollPeriod)
  /\ UNCHANGED <<polling, pp, net_time, testVars>>

\* Test_f, Test2_f and Rcon_f, when a socket can be opened.
Query_f(query) ==
  /\ ~polling /\ ~testInProgress
  /\ openSockets' = openSockets + 1
  /\ testInProgress' = TRUE
  /\ testPollCount' = MaxPolls
  /\ list' = SchedulePollProcedure(list, query, QueryPeriod)
  /\ UNCHANGED <<polling, pp, net_time, slistVars>>

-----------------------------------------------------------------------------
(* NET_Poll, called in every frame, and over and over by NET_Connect.      *)

NET_Poll ==
  /\ ~polling
  /\ polling' = TRUE
  /\ net_time' = 0
  /\ pp' = list.head
  /\ UNCHANGED <<list, slistVars, testVars>>

\* Mutant: the clock is read anew for every procedure.
DueByNow(p) == list.nextTime[p] <= 0

Due(p) == list.nextTime[p] <= net_time

PollReturns ==
  /\ polling
  /\ pp # NoProcedure => ~Due(pp)
  /\ polling' = FALSE
  /\ pp' = NoProcedure
  /\ UNCHANGED <<list, net_time, slistVars, testVars>>

\* The head of the list is moved past pp before pp is run.
Runs(p) == polling /\ pp = p /\ Due(p)
Unlinked == [list EXCEPT !.head = list.next[pp]]
Goes == pp' = list'.next[pp] /\ UNCHANGED <<polling, net_time>>

Slist_Send ==
  /\ Runs("slistSend")
  /\ list' = IF slistAge < SendUntil
             THEN SchedulePollProcedure(Unlinked, "slistSend", SendPeriod)
             ELSE Unlinked
  /\ Goes
  /\ UNCHANGED <<slistVars, testVars>>

Slist_Poll ==
  /\ Runs("slistPoll")
  /\ IF slistAge < PollUntil
     THEN /\ list' = SchedulePollProcedure(Unlinked, "slistPoll", PollPeriod)
          /\ UNCHANGED slistInProgress
     ELSE list' = Unlinked /\ slistInProgress' = FALSE
  /\ Goes
  /\ UNCHANGED <<slistAge, testVars>>

\* Test_Poll, Test2_Poll and Rcon_Poll: the last answer or a wrong one ends
\* test2 and rcon, and the count all of them.
Query_Poll(query) ==
  /\ Runs(query)
  /\ \E answered \in BOOLEAN :
       /\ answered => query # "test"
       /\ IF answered \/ testPollCount = 1
          THEN /\ openSockets' = openSockets - 1
               /\ testInProgress' = FALSE
               /\ testPollCount' = 0
               /\ list' = Unlinked
          ELSE /\ testPollCount' = testPollCount - 1
               /\ list' = SchedulePollProcedure(Unlinked, query, QueryPeriod)
               /\ UNCHANGED <<openSockets, testInProgress>>
  /\ Goes
  /\ UNCHANGED slistVars

-----------------------------------------------------------------------------
\* Time passes, between frames and while a procedure runs.
Later(t) == IF t = LongAgo THEN t ELSE t - 1
Tick ==
  /\ net_time > -MaxFrame
  /\ net_time' = net_time - 1
  /\ list' = [list EXCEPT !.nextTime = [p \in Procedure |-> Later(@[p])]]
  /\ slistAge' = IF slistAge = PollUntil THEN slistAge ELSE slistAge + 1
  /\ UNCHANGED <<polling, pp, slistInProgress, testVars>>

PollStep ==
  \/ NET_Poll
  \/ PollReturns
  \/ Slist_Send
  \/ Slist_Poll
  \/ \E query \in Query : Query_Poll(query)

PollNext ==
  \/ NET_Slist_f
  \/ \E query \in Query : Query_f(query)
  \/ PollStep
  \/ Tick

\* Frames go on, and so does time.
PollFairness == WF_pollVars(PollStep) /\ SF_pollVars(Tick)

PollSpec == PollInit /\ [][PollNext]_pollVars /\ PollFairness

-----------------------------------------------------------------------------
(* Properties.                                                             *)

Scheduled == {Chain(list)[n] : n \in DOMAIN Chain(list)} \ {NoProcedure}

\* Although procedures link themselves in anew under NET_Poll's feet, the list
\* has an end and is in order, and what is in progress is in it, once: the
\* search until it is over, and one query with its open socket.
PollListIsWhole ==
  LET c == Chain(list) IN
  /\ c[Cardinality(Procedure)] = NoProcedure
  /\ \A n \in 1..Cardinality(Procedure) :
       c[n] # NoProcedure => list.nextTime[c[n - 1]] <= list.nextTime[c[n]]
  /\ slistInProgress <=> "slistPoll" \in Scheduled
  /\ "slistSend" \in Scheduled => slistInProgress \/ polling
  /\ Cardinality(Scheduled \cap Query) = openSockets
  /\ openSockets = IF testInProgress THEN 1 ELSE 0

\* A search for servers ends, and NET_Connect with it, which waits for that in
\* a loop; and a query that nobody answers gives its socket back.
PollsEnd ==
  /\ slistInProgress ~> ~slistInProgress
  /\ testInProgress ~> ~testInProgress
=============================================================================
