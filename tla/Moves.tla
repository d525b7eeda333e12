-------------------------------- MODULE Moves --------------------------------
(***************************************************************************)
(* The moves of a player on their way to the network (cl_input.c).         *)
(*                                                                         *)
(* A frame makes one move.  With "pq_lag", which the player may change at  *)
(* any time, it is not sent at once but lies in a ring until its time has  *)
(* come; the frames after it, and the calls of _Host_Frame between frames, *)
(* send what is due.  The first two moves of a level throw away all that   *)
(* lies in the ring, which may be from the level before, or from a demo,   *)
(* which makes moves and sends none.                                       *)
(*                                                                         *)
(* Time is counted in ticks, and every time is relative to now.            *)
(***************************************************************************)
EXTENDS Integers, Sequences

CONSTANTS
  LagSlots,        \* the size of the ring (32)
  Lags,            \* what pq_lag may be
  MaxMade,         \* bound: moves made on a level
  MaxLagHead,      \* bound: lag_head
  Overruns         \* whether more moves than LagSlots may be under way

ASSUME MovesAssumption ==
  /\ LagSlots \in Nat \ {0}
  /\ Lags \subseteq Nat
  /\ Overruns \in BOOLEAN

VARIABLES
  game,            \* what the client is in: "none", a "demo", a game of a
                   \* "remote" server or, with sv.active, of its own, "listen"
  signon,          \* "no", "begun" by a serverinfo, or "done" (SIGNONS)
  movemessages,    \* those of this level, up to 3
  made,            \* how many moves were made on this level
  cl_net_lag,
  lag_head, lag_tail,
  lag_buff,        \* the numbers of the moves; 0 for one that belongs to no
                   \* game, or to a level that is over
  lag_sendtime,    \* when they are due, 0 if they are
  sending,         \* CL_SendLagMove is running
  out              \* the moves the network has taken on this level

lagVars == <<lag_head, lag_tail, lag_buff, lag_sendtime>>
movesVars == <<game, signon, movemessages, made, cl_net_lag, lagVars, sending,
               out>>

Slot == 0..LagSlots - 1

MovesInit ==
  /\ game = "none" /\ signon = "no"
  /\ movemessages = 0 /\ made = 0 /\ cl_net_lag = 0
  /\ lag_head = 0 /\ lag_tail = 0
  /\ lag_buff = [s \in Slot |-> 0] /\ lag_sendtime = [s \in Slot |-> 0]
  /\ sending = FALSE /\ out = <<>>

-----------------------------------------------------------------------------
(* The ring.                                                               *)

HeadSlot == lag_head % LagSlots
TailSlot == lag_tail % LagSlots

\* CL_SendMove writes over a move that is still to be sent.
OverwritesMove == lag_head - lag_tail >= LagSlots /\ lag_buff[HeadSlot] # 0

\* CL_SendCmd with CL_SendMove: a move is put into the ring and, unless a demo
\* plays, what is due is sent.
CL_SendMove ==
  /\ ~sending
  /\ game # "none" /\ signon = "done"
  /\ made < MaxMade /\ lag_head < MaxLagHead
  /\ Overruns \/ ~OverwritesMove
  /\ made' = IF game = "demo" THEN made ELSE made + 1
  /\ lag_buff' = [lag_buff EXCEPT ![HeadSlot] = IF game = "demo" THEN 0
                                                ELSE made + 1]
  /\ lag_sendtime' = [lag_sendtime EXCEPT ![HeadSlot] = cl_net_lag]
  /\ lag_head' = lag_head + 1
  /\ sending' = (game # "demo")
  /\ UNCHANGED <<game, signon, movemessages, cl_net_lag, lag_tail, out>>

\* _Host_Frame when it is too early for a frame, without a server.
Host_FilterTime ==
  /\ ~sending
  /\ game = "remote" /\ signon = "done" /\ movemessages > 2
  /\ sending' = TRUE
  /\ UNCHANGED <<game, signon, movemessages, made, cl_net_lag, lagVars, out>>

IsDue == lag_tail < lag_head /\ lag_sendtime[TailSlot] = 0

\* Mutant: the move is thrown away, and not what lies behind it.
DumpMoveOnly ==
  /\ lag_tail' = lag_tail + 1
  /\ UNCHANGED <<lag_head, game, signon, out>>

\* CL_SendLagMove on one of the first two: "if cl.movemessages has been reset,
\* we should reset these too".
DumpMoves ==
  /\ lag_head' = 0 /\ lag_tail' = 0
  /\ UNCHANGED <<game, signon, out>>

\* ... and on another: it is sent, or the connection is found lost, and then
\* for all that are due.
SendMove ==
  /\ lag_tail' = lag_tail + 1
  /\ UNCHANGED lag_head
  /\ \/ /\ game # "none"
        /\ out' = Append(out, lag_buff[TailSlot])
        /\ UNCHANGED <<game, signon>>
     \/ game' = "none" /\ signon' = "no" /\ UNCHANGED out

\* One round of the loop of CL_SendLagMove.
SendLagMove ==
  /\ sending /\ IsDue
  /\ movemessages' = IF movemessages = 3 THEN 3 ELSE movemessages + 1
  /\ IF movemessages' <= 2 THEN DumpMoves ELSE SendMove
  /\ UNCHANGED <<made, cl_net_lag, lag_buff, lag_sendtime, sending>>

LagMoveReturns ==
  /\ sending /\ ~IsDue
  /\ sending' = FALSE
  /\ UNCHANGED <<game, signon, movemessages, made, cl_net_lag, lagVars, out>>

-----------------------------------------------------------------------------
(* What happens meanwhile.                                                 *)

\* Time passes.
LagTick ==
  /\ ~sending
  /\ lag_sendtime' = [s \in Slot |-> IF lag_sendtime[s] = 0 THEN 0
                                     ELSE lag_sendtime[s] - 1]
  /\ UNCHANGED <<game, signon, movemessages, made, cl_net_lag, lag_head,
                 lag_tail, lag_buff, sending, out>>

\* "ping +N", or the cvar.
Host_Ping_f ==
  /\ ~sending
  /\ cl_net_lag' \in Lags \ {cl_net_lag}
  /\ UNCHANGED <<game, signon, movemessages, made, lagVars, sending, out>>

\* Host_ClearMemory: a serverinfo, or a server that begins a level.
Host_ClearMemory ==
  /\ ~sending
  /\ game' \in {"remote", "listen", "demo"}
  /\ signon' = "begun"
  /\ movemessages' = 0 /\ made' = 0 /\ out' = <<>>
  /\ lag_buff' = [s \in Slot |-> 0]
  /\ UNCHANGED <<cl_net_lag, lag_head, lag_tail, lag_sendtime, sending>>

\* The last stage of signing on.
CL_SignonDone ==
  /\ ~sending
  /\ signon = "begun"
  /\ signon' = "done"
  /\ UNCHANGED <<game, movemessages, made, cl_net_lag, lagVars, sending, out>>

\* Host_Reconnect_f: a level change is on its way; a demo goes on.
ReconnectMoves ==
  /\ ~sending
  /\ game \in {"remote", "listen"}
  /\ signon' = "no"
  /\ UNCHANGED <<game, movemessages, made, cl_net_lag, lagVars, sending, out>>

LeavesGame ==
  /\ ~sending
  /\ game' = "none" /\ signon' = "no"
  /\ UNCHANGED <<movemessages, made, cl_net_lag, lagVars, sending, out>>

MovesNext ==
  \/ CL_SendMove
  \/ Host_FilterTime
  \/ SendLagMove
  \/ LagMoveReturns
  \/ LagTick
  \/ Host_Ping_f
  \/ Host_ClearMemory
  \/ CL_SignonDone
  \/ ReconnectMoves
  \/ LeavesGame

MovesSpec == MovesInit /\ [][MovesNext]_movesVars

-----------------------------------------------------------------------------
(* Properties.                                                             *)

\* The first of the last LagSlots places of the ring, from lag_tail on.
OldestPlace == IF lag_head - lag_tail > LagSlots THEN lag_head - LagSlots
               ELSE lag_tail

\* The first place with a move of this level, lag_head if there is none.
OldestMove ==
  CHOOSE p \in OldestPlace..lag_head :
    /\ \A q \in OldestPlace..p - 1 : lag_buff[q % LagSlots] = 0
    /\ p < lag_head => lag_buff[p % LagSlots] # 0

\* What lies in the ring to be sent on this level, the oldest first.
InRing == [i \in 1..lag_head - OldestMove |->
             lag_buff[(OldestMove + i - 1) % LagSlots]]

\* The ring delays the moves and does nothing else to them: they are sent in
\* the order they were made, each once, whatever pq_lag was when it was; and
\* none of the level before is sent on the next ("it may contain leftover
\* inputs from the last level").
Delay == INSTANCE DelayLine WITH
  pending <- IF game \in {"remote", "listen"} THEN InRing ELSE <<>>,
  dumps <- IF movemessages > 2 THEN 2 ELSE movemessages
ImplementsDelayLine == Delay!Spec
=============================================================================
