------------------------------ MODULE HostProofs ------------------------------
(***************************************************************************)
(* Proofs about three parts of a host that runs frame after frame.         *)
(*                                                                         *)
(* That the client's session is whole: whatever commands, messages, errors *)
(* and frames within frames follow each other, what client_static_t says   *)
(* of connection, demo, files and download agrees.  The invariant adds to  *)
(* this what the stack may look like: a frame, or a download inside the    *)
(* parsing of a message of a frame, or a frame inside that, and to which   *)
(* of the two frames a longjmp may go.                                     *)
(*                                                                         *)
(* That the list of the poll procedures is whole.  The invariant says that *)
(* there is a sequence of procedures which the pointers link, where in it  *)
(* NET_Poll stands, and when Slist_Send is due.                            *)
(*                                                                         *)
(* That the command buffer keeps what it promises to scripts: the commands *)
(* are run in the order in which they were given.  The invariant says that *)
(* each command in the buffer and in an alias has its line end, that no    *)
(* two aliases have a name in common, and that only the first one can be   *)
(* freed memory.  What a text amounts to is a recursive function, and the  *)
(* lemmas about it follow the text by the facts of module Loops.           *)
(***************************************************************************)
EXTENDS ClientSession, Polling, CommandBuffer, FiniteSetTheorems,
        SequenceTheorems, Loops

-----------------------------------------------------------------------------
(* The client's session.                                                   *)

Game == [state : {"connected", "disconnected"}, netcon : BOOLEAN,
         demoplayback : BOOLEAN, demorecording : BOOLEAN,
         demofile : {"none", "played", "recorded"},
         web : BOOLEAN, disconnect : BOOLEAN, sv_active : BOOLEAN,
         qsockets : Int, putOff : BOOLEAN, broken : BOOLEAN]

\* What the fields of cls say agrees.
Agrees(g) ==
  /\ g.qsockets = IF g.state = "connected" /\ ~g.demoplayback THEN 1 ELSE 0
  /\ g.netcon <=> g.qsockets = 1
  /\ g.sv_active => g.netcon
  /\ g.demoplayback => g.state = "connected"
  /\ g.demofile # "none" => g.demoplayback \/ g.demorecording

\* ... until a CL_Disconnect is put off.
Sound(g) == g \in Game /\ (~g.putOff /\ ~g.broken => Agrees(g))

FrameStage == {"commands", "server", "client", "parsing"}
Shaped(st) ==
  /\ st \in Seq(FrameStage \cup {"download"})
  /\ Len(st) \in 0..3
  /\ Len(st) = 1 => st[1] \in FrameStage
  /\ Len(st) >= 2 => st[1] = "parsing" /\ st[2] = "download"
  /\ Len(st) = 3 => st[3] \in FrameStage

\* The inductive invariant.
StackIsShaped == ~game.broken => Shaped(stack)
JumpsToFrame == host_abortserver \in {0, 1, 3}
WebIsDownload == ~game.putOff /\ ~game.broken => (game.web <=> InDownload)
SessionInv ==
  /\ Sound(game)
  /\ StackIsShaped /\ JumpsToFrame /\ WebIsDownload
  /\ cmd_source \in {"command", "client"}

-----------------------------------------------------------------------------
(* The functions.  What may be wrong before them is only that a server is  *)
(* up already and the client is not on it yet.                             *)

SoundBut(g) == g \in Game /\ Sound([g EXCEPT !.sv_active = FALSE])

\* h comes after g: a download goes on, and what has gone wrong stays wrong.
After(g, h) ==
  h.web = g.web /\ (g.putOff => h.putOff) /\ (g.broken => h.broken)

\* The client is in no game.
Out(g) ==
  ~g.putOff /\ ~g.broken => g.state = "disconnected" /\ ~g.demoplayback

LEMMA StopPlaybackSound ==
  ASSUME NEW g, Sound(g)
  PROVE  LET h == CL_StopPlayback(g) IN
         Sound(h) /\ After(g, h) /\ (g.demoplayback => Out(h))
<1> DEFINE h == CL_StopPlayback(g)
<1>1. CASE ~g.demoplayback
  <2>1. h = g
    BY <1>1 DEF CL_StopPlayback
  <2> QED
    BY <1>1, <2>1 DEF After
<1>2. CASE g.demoplayback
  <2>1. h = [g EXCEPT !.demoplayback = FALSE, !.demofile = "none",
                      !.state = "disconnected",
                      !.broken = g.broken \/ g.demofile = "none"]
    BY <1>2 DEF CL_StopPlayback
  <2>2. g \in Game
    BY DEF Sound
  <2>3. h \in Game
    BY <2>1, <2>2 DEF Game
  <2>4. /\ h.demoplayback = FALSE /\ h.demofile = "none"
        /\ h.state = "disconnected" /\ h.netcon = g.netcon /\ h.web = g.web
        /\ h.qsockets = g.qsockets /\ h.sv_active = g.sv_active
        /\ h.putOff = g.putOff
        /\ h.broken = (g.broken \/ g.demofile = "none")
    BY <2>1, <2>2 DEF Game
  <2>5. ~h.putOff /\ ~h.broken => Agrees(h)
    BY <1>2, <2>4 DEF Sound, Agrees
  <2> QED
    BY <2>3, <2>4, <2>5 DEF Sound, After, Out
<1> QED
  BY <1>1, <1>2
LEMMA StopSound ==
  ASSUME NEW g, Sound(g), NEW source
  PROVE  LET h == CL_Stop_f(g, source) IN
         /\ Sound(h) /\ After(g, h)
         /\ h.state = g.state /\ h.demoplayback = g.demoplayback
         /\ h.netcon = g.netcon /\ h.qsockets = g.qsockets
         /\ h.sv_active = g.sv_active /\ h.putOff = g.putOff
<1> DEFINE h == CL_Stop_f(g, source)
<1>1. CASE ~g.demorecording \/ source # "command"
  <2>1. h = g
    BY <1>1 DEF CL_Stop_f
  <2> QED
    BY <2>1 DEF After
<1>2. CASE ~(~g.demorecording \/ source # "command")
  <2>1. h = [g EXCEPT !.demorecording = FALSE, !.demofile = "none",
                      !.broken = g.broken \/ g.demofile = "none"]
    BY <1>2 DEF CL_Stop_f
  <2>2. g \in Game
    BY DEF Sound
  <2>3. h \in Game
    BY <2>1, <2>2 DEF Game
  <2>4. /\ h.demoplayback = g.demoplayback /\ h.demofile = "none"
        /\ h.state = g.state /\ h.netcon = g.netcon /\ h.web = g.web
        /\ h.qsockets = g.qsockets /\ h.sv_active = g.sv_active
        /\ h.putOff = g.putOff
        /\ h.broken = (g.broken \/ g.demofile = "none")
    BY <2>1, <2>2 DEF Game
  <2>5. ~h.putOff /\ ~h.broken => Agrees(h)
    BY <2>4 DEF Sound, Agrees
  <2> QED
    BY <2>3, <2>4, <2>5 DEF Sound, After
<1> QED
  BY <1>1, <1>2

LEMMA DisconnectSound ==
  ASSUME NEW g, Sound(g), NEW source
  PROVE  LET h == CL_Disconnect(g, source) IN
         /\ Sound(h) /\ After(g, h)
         /\ IF g.web THEN h.putOff ELSE Out(h)
<1> DEFINE h == CL_Disconnect(g, source)
<1>1. g \in Game
  BY DEF Sound
<1>2. CASE g.web
  <2>1. h = [g EXCEPT !.disconnect = TRUE, !.putOff = TRUE]
    BY <1>2 DEF CL_Disconnect
  <2>2. /\ h \in Game /\ h.putOff = TRUE /\ h.web = g.web
        /\ h.broken = g.broken
    BY <1>1, <2>1 DEF Game
  <2> QED
    BY <1>2, <2>2 DEF Sound, After
<1>3. CASE ~g.web /\ g.demoplayback
  <2>1. h = CL_StopPlayback(g)
    BY <1>3 DEF CL_Disconnect
  <2> QED
    BY <1>3, <2>1, StopPlaybackSound
<1>4. CASE ~g.web /\ ~g.demoplayback /\ g.state = "connected"
  <2> DEFINE s == CL_Stop_f(g, source)
  <2>1. h = [s EXCEPT !.qsockets = IF g.netcon THEN s.qsockets - 1
                                   ELSE s.qsockets,
                      !.netcon = FALSE, !.state = "disconnected",
                      !.sv_active = FALSE]
    BY <1>4 DEF CL_Disconnect
  <2>2. /\ Sound(s) /\ After(g, s)
        /\ s.demoplayback = g.demoplayback /\ s.netcon = g.netcon
        /\ s.state = g.state /\ s.qsockets = g.qsockets
        /\ s.putOff = g.putOff
    BY StopSound
  <2> HIDE DEF s
  <2>3. s \in Game
    BY <2>2 DEF Sound
  <2>4. h \in Game
    <3> DEFINE n == IF g.netcon THEN s.qsockets - 1 ELSE s.qsockets
    <3>1. s.qsockets \in Int
      BY <2>3 DEF Game
    <3>2. n \in Int
      BY <3>1
    <3> HIDE DEF n
    <3>3. h = [s EXCEPT !.qsockets = n, !.netcon = FALSE,
                        !.state = "disconnected", !.sv_active = FALSE]
      BY <2>1 DEF n
    <3> QED
      BY <2>3, <3>2, <3>3 DEF Game
  <2>5. /\ h.demoplayback = s.demoplayback /\ h.demofile = s.demofile
        /\ h.demorecording = s.demorecording
        /\ h.state = "disconnected" /\ h.netcon = FALSE /\ h.web = s.web
        /\ h.qsockets = (IF g.netcon THEN s.qsockets - 1 ELSE s.qsockets)
        /\ h.sv_active = FALSE /\ h.putOff = s.putOff /\ h.broken = s.broken
    BY <2>1, <2>3 DEF Game
  <2>6. ~h.putOff /\ ~h.broken => Agrees(h)
    <3> SUFFICES ASSUME ~s.putOff, ~s.broken
                 PROVE  Agrees(h)
      BY <2>5
    <3>1. Agrees(s)
      BY <2>2 DEF Sound
    <3>2. s.qsockets = 1 /\ s.netcon
      BY <1>4, <2>2, <3>1 DEF Agrees
    <3>3. h.qsockets = 0
      BY <2>2, <2>5, <3>2
    <3>4. ~s.demoplayback
      BY <1>4, <2>2
    <3> QED
      BY <2>5, <3>1, <3>3, <3>4 DEF Agrees
  <2> QED
    BY <1>4, <2>2, <2>4, <2>5, <2>6 DEF Sound, After, Out
<1>5. CASE ~g.web /\ ~g.demoplayback /\ g.state # "connected"
  <2>1. h = g
    BY <1>5 DEF CL_Disconnect
  <2>2. g.state = "disconnected"
    BY <1>1, <1>5 DEF Game
  <2> QED
    BY <1>5, <2>1, <2>2 DEF After, Out
<1> QED
  BY <1>2, <1>3, <1>4, <1>5

\* The server goes down, the client of it with it.
LEMMA ShutdownSound ==
  ASSUME NEW g, SoundBut(g), NEW source
  PROVE  LET h == Host_ShutdownServer(g, source) IN
         Sound(h) /\ After(g, h) /\ (Out(g) => Out(h))
<1> DEFINE h == Host_ShutdownServer(g, source)
           down == [g EXCEPT !.sv_active = FALSE]
<1>1. g \in Game /\ Sound(down)
  BY DEF SoundBut
<1>2. CASE ~g.sv_active
  <2>1. h = g
    BY <1>2 DEF Host_ShutdownServer
  <2>2. down = g
    BY <1>1, <1>2 DEF Game
  <2> QED
    BY <1>1, <2>1, <2>2 DEF After
<1>3. CASE g.sv_active
  <2>1. h = IF g.state = "connected" THEN CL_Disconnect(down, source) ELSE down
    BY <1>3 DEF Host_ShutdownServer
  <2>2. /\ After(g, down) /\ down.state = g.state
        /\ down.demoplayback = g.demoplayback
    BY <1>1 DEF Game, After
  <2> HIDE DEF down
  <2>3. Sound(CL_Disconnect(down, source))
        /\ After(down, CL_Disconnect(down, source))
    BY <1>1, DisconnectSound
  <2> QED
    BY <1>1, <2>1, <2>2, <2>3 DEF After, Out
<1> QED
  BY <1>2, <1>3

LEMMA SoundIsSoundBut ==
  ASSUME NEW g, Sound(g)
  PROVE  SoundBut(g)
<1> DEFINE down == [g EXCEPT !.sv_active = FALSE]
<1>1. g \in Game
  BY DEF Sound
<1>2. /\ down \in Game /\ down.state = g.state /\ down.netcon = g.netcon
      /\ down.demoplayback = g.demoplayback
      /\ down.demorecording = g.demorecording /\ down.demofile = g.demofile
      /\ down.sv_active = FALSE /\ down.qsockets = g.qsockets
      /\ down.putOff = g.putOff /\ down.broken = g.broken
  BY <1>1 DEF Game
<1>3. Sound(down)
  BY <1>2 DEF Sound, Agrees
<1> QED
  BY <1>1, <1>3 DEF SoundBut

\* A game of which only sv_active is another.
LEMMA ServerSetSoundBut ==
  ASSUME NEW g, Sound(g), NEW b \in BOOLEAN
  PROVE  LET h == [g EXCEPT !.sv_active = b] IN
         /\ SoundBut(h) /\ After(g, h)
         /\ ~b => Sound(h)
         /\ h.state = g.state /\ h.demoplayback = g.demoplayback
         /\ h.web = g.web /\ h.putOff = g.putOff /\ h.broken = g.broken
<1> DEFINE h == [g EXCEPT !.sv_active = b]
<1>1. SoundBut(g)
  BY SoundIsSoundBut
<1>2. g \in Game
  BY DEF Sound
<1>3. h \in Game /\ [h EXCEPT !.sv_active = FALSE] = [g EXCEPT !.sv_active = FALSE]
  BY <1>2 DEF Game
<1>4. SoundBut(h)
  BY <1>1, <1>3 DEF SoundBut
<1>5. ~b => Sound(h)
  <2>1. ~b => h = [g EXCEPT !.sv_active = FALSE]
    OBVIOUS
  <2> QED
    BY <1>1, <2>1 DEF SoundBut
<1>6. /\ h.state = g.state /\ h.demoplayback = g.demoplayback
      /\ h.web = g.web /\ h.putOff = g.putOff /\ h.broken = g.broken
  BY <1>2 DEF Game
<1> QED
  BY <1>4, <1>5, <1>6 DEF After

LEMMA ShutDownBothSound ==
  ASSUME NEW g, SoundBut(g), NEW source
  PROVE  LET h == ShutDownBoth(g, source) IN
         /\ Sound(h) /\ After(g, h)
         /\ g.web => h.putOff
<1> DEFINE s == Host_ShutdownServer(g, source)
<1>1. Sound(s) /\ After(g, s)
  BY ShutdownSound
<1>2. ShutDownBoth(g, source) = CL_Disconnect(s, source)
  BY DEF ShutDownBoth
<1> HIDE DEF s
<1> QED
  BY <1>1, <1>2, DisconnectSound DEF After

LEMMA Disconnect_fSound ==
  ASSUME NEW g, Sound(g)
  PROVE  LET h == CL_Disconnect_f(g) IN
         /\ Sound(h) /\ After(g, h)
         /\ IF g.web THEN h.putOff ELSE Out(h)
<1> DEFINE d == CL_Disconnect(g, "command")
<1>1. Sound(d) /\ After(g, d) /\ IF g.web THEN d.putOff ELSE Out(d)
  BY DisconnectSound
<1>2. CL_Disconnect_f(g) =
        IF g.web THEN d ELSE Host_ShutdownServer(d, "command")
  BY DEF CL_Disconnect_f
<1> HIDE DEF d
<1>3. SoundBut(d)
  BY <1>1, SoundIsSoundBut
<1>4. LET h == Host_ShutdownServer(d, "command") IN
      Sound(h) /\ After(d, h) /\ (Out(d) => Out(h))
  BY <1>3, ShutdownSound
<1> QED
  BY <1>1, <1>2, <1>4 DEF After

\* CL_EstablishConnection begins with a CL_Disconnect, which leaves the client
\* without a connection; the server it is to connect to may be its own, which
\* it is not on yet.
LEMMA DisconnectFrees ==
  ASSUME NEW g, SoundBut(g), Sound(g) \/ Out(g), NEW source
  PROVE  LET d == CL_Disconnect(g, source) IN
         /\ d \in Game /\ After(g, d)
         /\ ~d.putOff /\ ~d.broken =>
              /\ d.state = "disconnected" /\ ~d.demoplayback
              /\ d.qsockets = 0 /\ ~d.netcon
              /\ d.demofile # "none" => d.demorecording
<1> DEFINE d == CL_Disconnect(g, source)
           down == [g EXCEPT !.sv_active = FALSE]
<1>1. g \in Game /\ Sound(down)
  BY DEF SoundBut
<1>2. CASE Sound(g)
  <2>1. Sound(d) /\ After(g, d) /\ IF g.web THEN d.putOff ELSE Out(d)
    BY <1>2, DisconnectSound
  <2> HIDE DEF d
  <2>2. ~d.putOff /\ ~d.broken => Agrees(d) /\ Out(d)
    BY <2>1 DEF Sound
  <2>3. d \in Game
    BY <2>1 DEF Sound
  <2>4. ASSUME ~d.putOff, ~d.broken
        PROVE  /\ d.state = "disconnected" /\ ~d.demoplayback
               /\ d.qsockets = 0 /\ ~d.netcon
               /\ d.demofile # "none" => d.demorecording
    <3>1. d.state = "disconnected" /\ ~d.demoplayback
      BY <2>2, <2>4 DEF Out
    <3> QED
      BY <2>2, <2>4, <3>1 DEF Agrees
  <2> QED
    BY <2>1, <2>3, <2>4 DEF d
<1>3. CASE ~Sound(g) /\ g.web
  <2>1. d = [g EXCEPT !.disconnect = TRUE, !.putOff = TRUE]
    BY <1>3 DEF CL_Disconnect
  <2>2. /\ d \in Game /\ d.putOff = TRUE /\ d.web = g.web
        /\ d.broken = g.broken
    BY <1>1, <2>1 DEF Game
  <2> QED
    BY <2>2 DEF After
<1>4. CASE ~Sound(g) /\ ~g.web
  <2>1. ~g.putOff /\ ~g.broken
    BY <1>1, <1>4 DEF Sound
  <2>2. g.state = "disconnected" /\ ~g.demoplayback
    BY <1>4, <2>1 DEF Out
  <2>3. d = g
    BY <1>4, <2>2 DEF CL_Disconnect
  <2>4. /\ down.state = g.state /\ down.demoplayback = g.demoplayback
        /\ down.qsockets = g.qsockets /\ down.netcon = g.netcon
        /\ down.demofile = g.demofile /\ down.demorecording = g.demorecording
        /\ down.putOff = g.putOff /\ down.broken = g.broken
    BY <1>1 DEF Game
  <2>5. Agrees(down)
    BY <1>1, <2>1, <2>4 DEF Sound
  <2>6. /\ g.qsockets = 0 /\ ~g.netcon
        /\ g.demofile # "none" => g.demorecording
    BY <2>2, <2>4, <2>5 DEF Agrees
  <2> QED
    BY <1>1, <2>2, <2>3, <2>6 DEF After
<1> QED
  BY <1>2, <1>3, <1>4

LEMMA EstablishedSound ==
  ASSUME NEW g, SoundBut(g), Sound(g) \/ Out(g)
  PROVE  LET h == Established(g) IN
         Sound(h) /\ After(g, h)
<1> DEFINE h == Established(g)
           d == CL_Disconnect(g, "command")
<1>1. /\ d \in Game /\ After(g, d)
      /\ ~d.putOff /\ ~d.broken =>
           /\ ~d.demoplayback /\ d.qsockets = 0
           /\ d.demofile # "none" => d.demorecording
  BY DisconnectFrees
<1>2. h = [d EXCEPT !.qsockets = d.qsockets + 1, !.netcon = TRUE,
                    !.state = "connected"]
  BY DEF Established
<1> HIDE DEF d
<1>3. d.qsockets \in Int
  BY <1>1 DEF Game
<1>4. h \in Game
  <2> DEFINE n == d.qsockets + 1
  <2>1. n \in Int
    BY <1>3
  <2> HIDE DEF n
  <2>2. h = [d EXCEPT !.qsockets = n, !.netcon = TRUE, !.state = "connected"]
    BY <1>2 DEF n
  <2> QED
    BY <1>1, <2>1, <2>2 DEF Game
<1>5. /\ h.state = "connected" /\ h.netcon = TRUE
      /\ h.qsockets = d.qsockets + 1 /\ h.demoplayback = d.demoplayback
      /\ h.demorecording = d.demorecording /\ h.demofile = d.demofile
      /\ h.putOff = d.putOff /\ h.broken = d.broken /\ h.web = d.web
  BY <1>1, <1>2 DEF Game
<1>6. ~h.putOff /\ ~h.broken => Agrees(h)
  <2> SUFFICES ASSUME ~d.putOff, ~d.broken
               PROVE  Agrees(h)
    BY <1>5
  <2>1. h.qsockets = 1 /\ ~h.demoplayback
    BY <1>1, <1>5
  <2> QED
    BY <1>1, <1>5, <2>1 DEF Agrees
<1> QED
  BY <1>1, <1>4, <1>5, <1>6 DEF Sound, After

LEMMA NotEstablishedSound ==
  ASSUME NEW g, SoundBut(g), Sound(g) \/ Out(g)
  PROVE  LET h == NotEstablished(g) IN
         SoundBut(h) /\ After(g, h)
<1> DEFINE h == NotEstablished(g)
           d == CL_Disconnect(g, "command")
           down == [h EXCEPT !.sv_active = FALSE]
<1>1. /\ d \in Game /\ After(g, d)
      /\ ~d.putOff /\ ~d.broken =>
           /\ d.state = "disconnected" /\ ~d.demoplayback /\ d.qsockets = 0
           /\ d.demofile # "none" => d.demorecording
  BY DisconnectFrees
<1>2. h = [d EXCEPT !.netcon = FALSE]
  BY DEF NotEstablished
<1> HIDE DEF d
<1>3. h \in Game /\ h.web = d.web /\ h.putOff = d.putOff /\ h.broken = d.broken
  BY <1>1, <1>2 DEF Game
<1>4. /\ down \in Game /\ down.sv_active = FALSE /\ down.netcon = FALSE
      /\ down.state = d.state /\ down.demoplayback = d.demoplayback
      /\ down.qsockets = d.qsockets /\ down.demofile = d.demofile
      /\ down.demorecording = d.demorecording
      /\ down.putOff = d.putOff /\ down.broken = d.broken
  BY <1>1, <1>2 DEF Game
<1>5. Sound(down)
  <2>1. ASSUME ~d.putOff, ~d.broken
        PROVE  Agrees(down)
    BY <1>1, <1>4, <2>1 DEF Agrees
  <2> QED
    BY <1>4, <2>1 DEF Sound
<1> QED
  BY <1>1, <1>3, <1>5 DEF SoundBut, After

LEMMA LeftSound ==
  ASSUME NEW g, Sound(g)
  PROVE  Sound(Left(g)) /\ After(g, Left(g))
<1> DEFINE s == CL_StopPlayback(g)
<1>1. Sound(s) /\ After(g, s)
  BY StopPlaybackSound
<1>2. Left(g) = IF g.demoplayback THEN CL_Disconnect(s, "command") ELSE g
  BY DEF Left
<1> HIDE DEF s
<1>3. Sound(CL_Disconnect(s, "command"))
      /\ After(s, CL_Disconnect(s, "command"))
  BY <1>1, DisconnectSound
<1> QED
  BY <1>1, <1>2, <1>3 DEF After

-----------------------------------------------------------------------------
(* The stack.                                                              *)

HasDownload(st) == \E i \in DOMAIN st : st[i] = "download"

LEMMA HasDownloadIf ==
  ASSUME NEW st, Shaped(st)
  PROVE  HasDownload(st) <=> Len(st) >= 2
BY DEF Shaped, HasDownload, FrameStage

\* The stage of a frame on top; the download has none.
LEMMA OnTop ==
  ASSUME NEW st, Shaped(st), st # <<>>
  PROVE  /\ Len(st) \in 1..3
         /\ st[Len(st)] = "download" <=> Len(st) = 2
BY DEF Shaped, FrameStage

\* A frame goes to its next stage, or ends.
LEMMA StageChanges ==
  ASSUME NEW st, Shaped(st), st # <<>>, st[Len(st)] # "download",
         NEW t \in FrameStage
  PROVE  LET go == [st EXCEPT ![Len(st)] = t]
             back == SubSeq(st, 1, Len(st) - 1)
         IN /\ Shaped(go) /\ (HasDownload(go) <=> HasDownload(st))
            /\ Shaped(back) /\ (HasDownload(back) <=> HasDownload(st))
<1> DEFINE go == [st EXCEPT ![Len(st)] = t]
           back == SubSeq(st, 1, Len(st) - 1)
<1>1. Len(st) \in {1, 3}
  BY OnTop
<1>2. Shaped(go) /\ Len(go) = Len(st)
  BY <1>1 DEF Shaped
<1>3. Shaped(back) /\ Len(back) = Len(st) - 1
  BY <1>1 DEF Shaped
<1> HIDE DEF go, back
<1>4. /\ HasDownload(go) <=> HasDownload(st)
      /\ HasDownload(back) <=> HasDownload(st)
  BY <1>1, <1>2, <1>3, HasDownloadIf
<1> QED
  BY <1>2, <1>3, <1>4 DEF go, back

\* A longjmp to a frame, which returns.
LEMMA StackCut ==
  ASSUME NEW st, Shaped(st), NEW k \in {0, 1, 3}, k <= Len(st)
  PROVE  LET cut == SubSeq(st, 1, k - 1) IN
         Shaped(cut) /\ (~HasDownload(st) => ~HasDownload(cut))
<1> DEFINE cut == SubSeq(st, 1, k - 1)
<1>1. Shaped(cut) /\ Len(cut) \in {0, 2} /\ Len(cut) <= Len(st)
  BY DEF Shaped
<1> HIDE DEF cut
<1>2. ~HasDownload(st) => ~HasDownload(cut)
  BY <1>1, HasDownloadIf DEF Shaped
<1> QED
  BY <1>1, <1>2 DEF cut

LEMMA Appended ==
  ASSUME NEW S, NEW st \in Seq(S), NEW x \in S
  PROVE  LET a == Append(st, x) IN
         /\ a \in Seq(S) /\ Len(a) = Len(st) + 1
         /\ \A i \in 1..Len(st) : a[i] = st[i]
         /\ a[Len(st) + 1] = x
OBVIOUS

\* A frame begins, or a download.
LEMMA StackGrows ==
  ASSUME NEW st, Shaped(st)
  PROVE  LET inner == Append(st, "commands")
             web == Append(st, "download")
         IN /\ st = <<>> \/ st[Len(st)] = "download" =>
                 /\ Shaped(inner) /\ (HasDownload(inner) <=> HasDownload(st))
                 /\ Len(inner) \in {1, 3}
            /\ st # <<>> /\ st[Len(st)] = "parsing" /\ ~HasDownload(st) =>
                 Shaped(web) /\ HasDownload(web)
<1> DEFINE inner == Append(st, "commands")
           web == Append(st, "download")
           S == FrameStage \cup {"download"}
<1>1. st = <<>> <=> Len(st) = 0
  BY DEF Shaped
<1>2. ASSUME st = <<>> \/ st[Len(st)] = "download"
      PROVE  Shaped(inner) /\ Len(inner) = Len(st) + 1 /\ Len(st) \in {0, 2}
  <2>1. Len(st) \in {0, 2}
    BY <1>1, <1>2, OnTop
  <2>2. st \in Seq(S) /\ "commands" \in S
    BY DEF Shaped, FrameStage
  <2> HIDE DEF S
  <2>3. /\ inner \in Seq(S) /\ Len(inner) = Len(st) + 1
        /\ \A i \in 1..Len(st) : inner[i] = st[i]
        /\ inner[Len(st) + 1] = "commands"
    BY <2>2, Appended
  <2> HIDE DEF inner
  <2>4. "commands" \in FrameStage
    BY DEF FrameStage
  <2>5. Shaped(inner)
    BY <2>1, <2>3, <2>4 DEF Shaped, S
  <2> QED
    BY <2>1, <2>3, <2>5
<1>3. ASSUME st # <<>>, st[Len(st)] = "parsing", ~HasDownload(st)
      PROVE  Shaped(web) /\ Len(web) = 2
  <2>1. Len(st) = 1
    BY <1>1, <1>3, HasDownloadIf DEF Shaped
  <2>2. st \in Seq(S) /\ "download" \in S
    BY DEF Shaped
  <2> HIDE DEF S
  <2>3. /\ web \in Seq(S) /\ Len(web) = Len(st) + 1
        /\ \A i \in 1..Len(st) : web[i] = st[i]
        /\ web[Len(st) + 1] = "download"
    BY <2>2, Appended
  <2> HIDE DEF web
  <2> QED
    BY <1>3, <2>1, <2>3 DEF Shaped, S
<1> HIDE DEF inner, web
<1>4. st = <<>> \/ st[Len(st)] = "download" =>
        /\ Shaped(inner) /\ (HasDownload(inner) <=> HasDownload(st))
        /\ Len(inner) \in {1, 3}
  <2> SUFFICES ASSUME st = <<>> \/ st[Len(st)] = "download"
               PROVE  /\ Shaped(inner)
                      /\ HasDownload(inner) <=> HasDownload(st)
                      /\ Len(inner) \in {1, 3}
    OBVIOUS
  <2>1. Shaped(inner) /\ Len(inner) = Len(st) + 1 /\ Len(st) \in {0, 2}
    BY <1>2
  <2>2. /\ HasDownload(inner) <=> Len(inner) >= 2
        /\ HasDownload(st) <=> Len(st) >= 2
    BY <2>1, HasDownloadIf
  <2>3. (Len(inner) >= 2 <=> Len(st) >= 2) /\ Len(inner) \in {1, 3}
    BY <2>1
  <2> QED
    BY <2>1, <2>2, <2>3
<1>5. st # <<>> /\ st[Len(st)] = "parsing" /\ ~HasDownload(st) =>
        Shaped(web) /\ HasDownload(web)
  BY <1>3, HasDownloadIf
<1> QED
  BY <1>4, <1>5 DEF inner, web

\* A download ends.
LEMMA StackShrinks ==
  ASSUME NEW st, Shaped(st), st # <<>>, st[Len(st)] = "download"
  PROVE  LET back == SubSeq(st, 1, Len(st) - 1) IN
         Shaped(back) /\ ~HasDownload(back)
<1> DEFINE back == SubSeq(st, 1, Len(st) - 1)
<1>1. Len(st) = 2
  BY OnTop
<1>2. Shaped(back) /\ Len(back) = 1
  BY <1>1 DEF Shaped, FrameStage
<1> HIDE DEF back
<1>3. ~HasDownload(back)
  <2>1. HasDownload(back) <=> Len(back) >= 2
    BY <1>2, HasDownloadIf
  <2>2. ~(Len(back) >= 2)
    BY <1>2
  <2> QED
    BY <2>1, <2>2
<1> QED
  BY <1>2, <1>3 DEF back

-----------------------------------------------------------------------------
(* The steps.                                                              *)

LEMMA InitSession ==
  SessionInit => SessionInv
<1> SUFFICES ASSUME SessionInit
             PROVE  SessionInv
  OBVIOUS
<1>1. Sound(game)
  BY DEF SessionInit, Sound, Game, Agrees
<1>2. StackIsShaped /\ JumpsToFrame
  BY DEF SessionInit, StackIsShaped, JumpsToFrame, Shaped
<1>3. game.web = FALSE /\ ~InDownload
  BY DEF SessionInit, InDownload
<1> QED
  BY <1>1, <1>2, <1>3 DEF SessionInv, WebIsDownload, SessionInit

\* A step that leads to a sound game and neither begins nor ends a download.
LEMMA StepKeeps ==
  ASSUME SessionInv, ~game.broken, Sound(game'), After(game, game'),
         ~game'.broken => Shaped(stack')
                          /\ (HasDownload(stack') <=> HasDownload(stack)),
         host_abortserver' \in {0, 1, 3}, cmd_source' \in {"command", "client"}
  PROVE  SessionInv'
<1>1. StackIsShaped'
  BY DEF StackIsShaped
<1>2. JumpsToFrame'
  BY DEF JumpsToFrame
<1>3. (InDownload <=> HasDownload(stack)) /\ (InDownload' <=> HasDownload(stack'))
  BY DEF InDownload, HasDownload
<1>4. WebIsDownload'
  BY <1>3 DEF SessionInv, WebIsDownload, After
<1> QED
  BY <1>1, <1>2, <1>4 DEF SessionInv

\* The stack and the frame to jump to are what they were.
LEMMA GameKeeps ==
  ASSUME SessionInv, ~game.broken, Sound(game'), After(game, game'),
         UNCHANGED <<stack, host_abortserver>>,
         cmd_source' \in {"command", "client"}
  PROVE  SessionInv'
<1>1. Shaped(stack) /\ host_abortserver \in {0, 1, 3}
  BY DEF SessionInv, StackIsShaped, JumpsToFrame
<1> QED
  BY <1>1, StepKeeps

\* A running frame goes to its next stage or returns.
LEMMA FrameKeeps ==
  ASSUME SessionInv, ~game.broken, Sound(game'), After(game, game'),
         stack # <<>>, Stage # "download",
         Returns \/ \E t \in FrameStage : GoTo(t),
         UNCHANGED host_abortserver, cmd_source' \in {"command", "client"}
  PROVE  SessionInv'
<1>1. Shaped(stack) /\ host_abortserver \in {0, 1, 3}
  BY DEF SessionInv, StackIsShaped, JumpsToFrame
<1>2. Shaped(stack') /\ (HasDownload(stack') <=> HasDownload(stack))
  <2>1. stack[Len(stack)] # "download"
    BY DEF Stage
  <2>2. CASE Returns
    <3>1. "client" \in FrameStage
      BY DEF FrameStage
    <3>2. stack' = SubSeq(stack, 1, Len(stack) - 1)
      BY <2>2 DEF Returns
    <3> QED
      BY <1>1, <2>1, <3>1, <3>2, StageChanges
  <2>3. ASSUME NEW t \in FrameStage, GoTo(t)
        PROVE  Shaped(stack') /\ (HasDownload(stack') <=> HasDownload(stack))
    <3>1. stack' = [stack EXCEPT ![Len(stack)] = t]
      BY <2>3 DEF GoTo
    <3> QED
      BY <1>1, <2>1, <3>1, StageChanges
  <2> QED
    BY <2>2, <2>3
<1> QED
  BY <1>1, <1>2, StepKeeps

\* What jumps out of a download has put off a CL_Disconnect.
LEMMA ErrorKeeps ==
  ASSUME SessionInv, ~game.broken, NEW g, SoundBut(g), After(game, g),
         NEW source \in {"command", "client"}, Host_Error(g, source)
  PROVE  SessionInv'
<1> DEFINE h == ShutDownBoth(g, source)
<1>1. Sound(h) /\ After(g, h) /\ (g.web => h.putOff)
  BY ShutDownBothSound
<1>2. Longjmp(h) /\ cmd_source' = source /\ host_abortserver' = host_abortserver
  BY DEF Host_Error
<1> HIDE DEF h
<1>3. Shaped(stack) /\ host_abortserver \in {0, 1, 3}
  BY DEF SessionInv, StackIsShaped, JumpsToFrame
<1>4. CASE host_abortserver <= Len(stack)
  <2>1. game' = h /\ stack' = SubSeq(stack, 1, host_abortserver - 1)
    BY <1>2, <1>4 DEF Longjmp
  <2>2. Shaped(stack') /\ (~HasDownload(stack) => ~HasDownload(stack'))
    BY <1>3, <1>4, <2>1, StackCut
  <2>3. (InDownload <=> HasDownload(stack))
        /\ (InDownload' <=> HasDownload(stack'))
    BY DEF InDownload, HasDownload
  <2>4. WebIsDownload'
    <3> SUFFICES ASSUME ~game'.putOff, ~game'.broken
                 PROVE  game'.web <=> InDownload'
      BY DEF WebIsDownload
    <3>1. ~game.putOff /\ ~game.web /\ game'.web = game.web
      BY <1>1, <2>1 DEF After
    <3>2. ~InDownload
      BY <3>1 DEF SessionInv, WebIsDownload
    <3> QED
      BY <2>2, <2>3, <3>1, <3>2
  <2> QED
    BY <1>1, <1>2, <1>3, <2>1, <2>2, <2>4
      DEF SessionInv, StackIsShaped, JumpsToFrame
<1>5. CASE ~(host_abortserver <= Len(stack))
  <2>1. game' = [h EXCEPT !.broken = TRUE]
    BY <1>2, <1>5 DEF Longjmp
  <2>2. game' \in Game /\ game'.broken = TRUE
    BY <1>1, <2>1 DEF Sound, Game
  <2> QED
    BY <1>2, <1>3, <2>2
      DEF SessionInv, Sound, StackIsShaped, JumpsToFrame, WebIsDownload
<1> QED
  BY <1>4, <1>5

-----------------------------------------------------------------------------
(* The frames.                                                             *)

LEMMA SoundNow ==
  ASSUME SessionInv
  PROVE  /\ Sound(game) /\ SoundBut(game) /\ After(game, game)
         /\ cmd_source \in {"command", "client"}
BY SoundIsSoundBut DEF SessionInv, After

LEMMA HostFrameKeeps ==
  ASSUME SessionInv, _Host_Frame
  PROVE  SessionInv'
<1>1. /\ ~game.broken
      /\ stack = <<>> \/ stack[Len(stack)] = "download"
      /\ stack' = Append(stack, "commands") /\ host_abortserver' = Len(stack')
      /\ game' = game /\ cmd_source' = cmd_source
  BY DEF _Host_Frame, At, Stage
<1>2. Shaped(stack)
  BY <1>1 DEF SessionInv, StackIsShaped
<1>3. /\ Shaped(stack') /\ (HasDownload(stack') <=> HasDownload(stack))
      /\ Len(stack') \in {1, 3}
  BY <1>1, <1>2, StackGrows
<1>4. host_abortserver' \in {0, 1, 3}
  BY <1>1, <1>3
<1> QED
  BY <1>1, <1>3, <1>4, SoundNow, StepKeeps

LEMMA CommandsDoneKeeps ==
  ASSUME SessionInv, CommandsDone
  PROVE  SessionInv'
<1>1. /\ ~game.broken /\ stack # <<>> /\ Stage # "download"
      /\ UNCHANGED <<host_abortserver, cmd_source>>
  BY DEF CommandsDone, At
<1>2. Returns \/ \E t \in FrameStage : GoTo(t)
  BY DEF CommandsDone, FrameStage
<1>3. game' = game \/ game' = CL_Disconnect(game, cmd_source)
  BY DEF CommandsDone
<1>4. Sound(game') /\ After(game, game')
  BY <1>3, SoundNow, DisconnectSound
<1> QED
  BY <1>1, <1>2, <1>4, SoundNow, FrameKeeps

LEMMA ServerFrameKeeps ==
  ASSUME SessionInv, Host_ServerFrame
  PROVE  SessionInv'
<1>1. ~game.broken /\ stack # <<>> /\ Stage # "download"
  BY DEF Host_ServerFrame, At
<1>2. PICK source \in {cmd_source, "client"} :
        \/ /\ GoTo("client")
           /\ cmd_source' = source
           /\ UNCHANGED <<game, host_abortserver>>
        \/ Host_Error(game, source)
  BY DEF Host_ServerFrame
<1>3. source \in {"command", "client"}
  BY SoundNow
<1>4. CASE /\ GoTo("client")
           /\ cmd_source' = source
           /\ UNCHANGED <<game, host_abortserver>>
  <2>1. "client" \in FrameStage
    BY DEF FrameStage
  <2>2. \E t \in FrameStage : GoTo(t)
    BY <1>4, <2>1
  <2> QED
    BY <1>1, <1>3, <1>4, <2>2, SoundNow, FrameKeeps
<1>5. CASE Host_Error(game, source)
  BY <1>1, <1>3, <1>5, SoundNow, ErrorKeeps
<1> QED
  BY <1>2, <1>4, <1>5

LEMMA SendCmdKeeps ==
  ASSUME SessionInv, CL_SendCmd
  PROVE  SessionInv'
<1>1. ~game.broken
  BY DEF CL_SendCmd, At
<1>2. CASE Host_Error(game, cmd_source)
  BY <1>1, <1>2, SoundNow, ErrorKeeps
<1>3. CASE /\ game' = CL_Disconnect(game, cmd_source)
           /\ UNCHANGED <<stack, host_abortserver, cmd_source>>
  BY <1>1, <1>3, SoundNow, DisconnectSound, GameKeeps
<1> QED
  BY <1>2, <1>3 DEF CL_SendCmd

\* Only that a file that is closed was used is set.
LEMMA BrokenSound ==
  ASSUME NEW g, Sound(g), ~g.broken, NEW b \in BOOLEAN
  PROVE  LET h == [g EXCEPT !.broken = b] IN
         Sound(h) /\ After(g, h)
<1> DEFINE h == [g EXCEPT !.broken = b]
<1>1. g \in Game
  BY DEF Sound
<1>2. h \in Game /\ h.broken = b /\ h.putOff = g.putOff /\ h.web = g.web
  BY <1>1 DEF Game
<1>3. ~b => h = g
  BY <1>1 DEF Game
<1>4. Sound(h)
  BY <1>2, <1>3 DEF Sound
<1> QED
  BY <1>2, <1>4 DEF After

LEMMA MessageKeeps ==
  ASSUME SessionInv, NoMessage \/ DemoMessage \/ ServerMessage
  PROVE  SessionInv'
<1>1. ~game.broken /\ stack # <<>> /\ Stage # "download"
  BY DEF NoMessage, DemoMessage, ServerMessage, At
<1>2. "parsing" \in FrameStage
  BY DEF FrameStage
<1>3. CASE NoMessage
  BY <1>1, <1>3, SoundNow, FrameKeeps DEF NoMessage
<1>4. CASE DemoMessage
  <2>1. UNCHANGED <<host_abortserver, cmd_source>>
    BY <1>4 DEF DemoMessage
  <2>2. CASE game' = [game EXCEPT !.broken = TRUE] /\ UNCHANGED stack
    BY <1>1, <2>1, <2>2, SoundNow, BrokenSound, GameKeeps
  <2>3. CASE GoTo("parsing") /\ UNCHANGED game
    BY <1>1, <1>2, <2>1, <2>3, SoundNow, FrameKeeps
  <2>4. CASE Returns /\ game' = CL_StopPlayback(game)
    BY <1>1, <2>1, <2>4, SoundNow, StopPlaybackSound, FrameKeeps
  <2> QED
    BY <1>4, <2>2, <2>3, <2>4 DEF DemoMessage
<1>5. CASE ServerMessage
  <2>1. CASE Host_Error(game, cmd_source)
    BY <1>1, <2>1, SoundNow, ErrorKeeps
  <2>2. CASE /\ game' = [game EXCEPT !.broken =
                           game.demorecording /\ game.demofile = "none"]
             /\ GoTo("parsing")
             /\ UNCHANGED <<host_abortserver, cmd_source>>
    <3>1. (game.demorecording /\ game.demofile = "none") \in BOOLEAN
      OBVIOUS
    <3>2. Sound(game') /\ After(game, game')
      BY <1>1, <2>2, <3>1, SoundNow, BrokenSound
    <3> QED
      BY <1>1, <1>2, <2>2, <3>2, SoundNow, FrameKeeps
  <2> QED
    BY <1>5, <2>1, <2>2 DEF ServerMessage
<1> QED
  BY <1>3, <1>4, <1>5

LEMMA ParseKeeps ==
  ASSUME SessionInv, CL_ParseServerMessage
  PROVE  SessionInv'
<1>1. ~game.broken /\ stack # <<>> /\ Stage # "download"
  BY DEF CL_ParseServerMessage, At
<1>2. "client" \in FrameStage
  BY DEF FrameStage
<1>3. CASE Host_Error(game, cmd_source)
  BY <1>1, <1>3, SoundNow, ErrorKeeps
<1>4. CASE /\ IF game.state = "connected" THEN GoTo("client") ELSE Returns
           /\ UNCHANGED <<game, host_abortserver, cmd_source>>
  BY <1>1, <1>2, <1>4, SoundNow, FrameKeeps
<1> QED
  BY <1>3, <1>4 DEF CL_ParseServerMessage

LEMMA KeepaliveKeeps ==
  ASSUME SessionInv, KeepaliveFails
  PROVE  SessionInv'
<1>1. ~game.broken /\ Host_Error(game, cmd_source)
  BY DEF KeepaliveFails, At
<1> QED
  BY <1>1, SoundNow, ErrorKeeps

LEMMA DownloadBeginsKeeps ==
  ASSUME SessionInv, DownloadBegins
  PROVE  SessionInv'
<1> DEFINE b == InDownload
<1>1. /\ ~game.broken /\ stack # <<>> /\ stack[Len(stack)] = "parsing"
      /\ game' = [game EXCEPT !.web = TRUE, !.disconnect = FALSE, !.broken = b]
      /\ stack' = Append(stack, "download")
      /\ UNCHANGED <<host_abortserver, cmd_source>>
  BY DEF DownloadBegins, At, Stage
<1>2. b \in BOOLEAN /\ (b <=> HasDownload(stack))
  BY DEF InDownload, HasDownload
<1> HIDE DEF b
<1>3. game \in Game /\ Shaped(stack)
  BY <1>1 DEF SessionInv, Sound, StackIsShaped
<1> DEFINE h == game'
<1>4. /\ h \in Game /\ h.web = TRUE /\ h.broken = b
      /\ h.putOff = game.putOff /\ h.qsockets = game.qsockets
      /\ h.state = game.state /\ h.demoplayback = game.demoplayback
      /\ h.netcon = game.netcon /\ h.sv_active = game.sv_active
      /\ h.demofile = game.demofile /\ h.demorecording = game.demorecording
  BY <1>1, <1>2, <1>3 DEF Game
<1> HIDE DEF h
<1>5. Sound(h)
  BY <1>1, <1>4 DEF SessionInv, Sound, Agrees
<1>6. ~b => Shaped(stack') /\ HasDownload(stack')
  BY <1>1, <1>2, <1>3, StackGrows
<1>7. InDownload' <=> HasDownload(stack')
  BY DEF InDownload, HasDownload
<1>8. StackIsShaped' /\ WebIsDownload'
  BY <1>4, <1>6, <1>7 DEF StackIsShaped, WebIsDownload, h
<1> QED
  BY <1>1, <1>5, <1>8 DEF SessionInv, JumpsToFrame, h

LEMMA DownloadEndsKeeps ==
  ASSUME SessionInv, DownloadEnds
  PROVE  SessionInv'
<1>1. /\ ~game.broken /\ stack # <<>> /\ stack[Len(stack)] = "download"
      /\ game' = [game EXCEPT !.web = FALSE]
      /\ stack' = SubSeq(stack, 1, Len(stack) - 1)
      /\ UNCHANGED <<host_abortserver, cmd_source>>
  BY DEF DownloadEnds, At, Stage, Returns
<1>2. game \in Game /\ Shaped(stack)
  BY <1>1 DEF SessionInv, Sound, StackIsShaped
<1> DEFINE h == game'
<1>3. /\ h \in Game /\ h.web = FALSE /\ h.broken = game.broken
      /\ h.putOff = game.putOff /\ h.qsockets = game.qsockets
      /\ h.state = game.state /\ h.demoplayback = game.demoplayback
      /\ h.netcon = game.netcon /\ h.sv_active = game.sv_active
      /\ h.demofile = game.demofile /\ h.demorecording = game.demorecording
  BY <1>1, <1>2 DEF Game
<1> HIDE DEF h
<1>4. Sound(h)
  BY <1>1, <1>3 DEF SessionInv, Sound, Agrees
<1>5. Shaped(stack') /\ ~HasDownload(stack')
  BY <1>1, <1>2, StackShrinks
<1>6. InDownload' <=> HasDownload(stack')
  BY DEF InDownload, HasDownload
<1>7. StackIsShaped' /\ WebIsDownload'
  BY <1>3, <1>5, <1>6 DEF StackIsShaped, WebIsDownload, h
<1> QED
  BY <1>1, <1>4, <1>7 DEF SessionInv, JumpsToFrame, h

-----------------------------------------------------------------------------
(* The commands.                                                           *)

LEMMA CompletesKeeps ==
  ASSUME SessionInv, NEW g, Sound(g), After(game, g), Completes(g)
  PROVE  SessionInv'
<1>1. /\ ~game.broken /\ game' = g /\ cmd_source' = "command"
      /\ UNCHANGED <<stack, host_abortserver>>
  BY DEF Completes, At
<1> QED
  BY <1>1, GameKeeps

LEMMA FailsKeeps ==
  ASSUME SessionInv, NEW g, SoundBut(g), After(game, g), Fails(g)
  PROVE  SessionInv'
<1>1. ~game.broken /\ Host_Error(g, "command")
  BY DEF Fails, At
<1> QED
  BY <1>1, ErrorKeeps

LEMMA AfterAfter ==
  ASSUME NEW f, NEW g, NEW h, After(f, g), After(g, h)
  PROVE  After(f, h)
BY DEF After

\* The client is on no server when its own comes up, unless a disconnect was
\* put off.
LEMMA LeftForServer ==
  ASSUME NEW g, Sound(g), Out(g)
  PROVE  LET up == [g EXCEPT !.sv_active = TRUE] IN
         /\ SoundBut(up) /\ After(g, up) /\ Out(up)
         /\ up.demoplayback => Sound(up)
         /\ SoundBut(Left(up)) /\ After(g, Left(up)) /\ Out(Left(up))
<1> DEFINE up == [g EXCEPT !.sv_active = TRUE]
<1>1. /\ SoundBut(up) /\ After(g, up)
      /\ up.state = g.state /\ up.demoplayback = g.demoplayback
      /\ up.putOff = g.putOff /\ up.broken = g.broken
  BY ServerSetSoundBut
<1> HIDE DEF up
<1>2. Out(up)
  BY <1>1 DEF Out
<1>3. up.demoplayback => Sound(up) /\ (up.putOff \/ up.broken)
  BY <1>1, <1>2 DEF Out, Sound, SoundBut
<1>4. CASE up.demoplayback
  <2>1. Sound(Left(up)) /\ After(up, Left(up))
    BY <1>3, <1>4, LeftSound
  <2>2. SoundBut(Left(up))
    BY <2>1, SoundIsSoundBut
  <2>3. Out(Left(up))
    BY <1>3, <1>4, <2>1 DEF Out, After
  <2>4. After(g, Left(up))
    BY <1>1, <2>1, AfterAfter
  <2> QED
    BY <1>1, <1>2, <1>3, <2>2, <2>3, <2>4 DEF up
<1>5. CASE ~up.demoplayback
  <2>1. Left(up) = up
    BY <1>5 DEF Left
  <2> QED
    BY <1>1, <1>2, <1>3, <2>1 DEF up
<1> QED
  BY <1>4, <1>5

LEMMA ConnectsKeeps ==
  ASSUME SessionInv, NEW g, SoundBut(g), After(game, g), Sound(g) \/ Out(g),
         Completes(Established(g)) \/ Fails(NotEstablished(g))
  PROVE  SessionInv'
<1>1. Sound(Established(g)) /\ After(g, Established(g))
  BY EstablishedSound
<1>2. SoundBut(NotEstablished(g)) /\ After(g, NotEstablished(g))
  BY NotEstablishedSound
<1>3. After(game, Established(g)) /\ After(game, NotEstablished(g))
  BY <1>1, <1>2, AfterAfter
<1>4. CASE Completes(Established(g))
  BY <1>1, <1>3, <1>4, CompletesKeeps
<1>5. CASE Fails(NotEstablished(g))
  BY <1>2, <1>3, <1>5, FailsKeeps
<1> QED
  BY <1>4, <1>5

LEMMA DisconnectKeeps ==
  ASSUME SessionInv, Disconnect \/ Host_Demos_f
  PROVE  SessionInv'
<1> DEFINE d == CL_Disconnect_f(game)
           e == CL_Disconnect(d, "command")
<1>1. Sound(d) /\ After(game, d)
  BY SoundNow, Disconnect_fSound
<1>2. (Disconnect => Completes(d)) /\ (Host_Demos_f => Completes(e))
  BY DEF Disconnect, Host_Demos_f
<1> HIDE DEF d
<1>3. Sound(e) /\ After(d, e)
  BY <1>1, DisconnectSound
<1> HIDE DEF e
<1>4. After(game, e)
  BY <1>1, <1>3, AfterAfter
<1> QED
  BY <1>1, <1>2, <1>3, <1>4, CompletesKeeps

LEMMA ConnectKeeps ==
  ASSUME SessionInv, Host_Connect_f
  PROVE  SessionInv'
<1> DEFINE left == Left(game)
<1>1. Sound(left) /\ After(game, left)
  BY SoundNow, LeftSound
<1>2. Completes(Established(left)) \/ Fails(NotEstablished(left))
  BY DEF Host_Connect_f
<1> HIDE DEF left
<1> QED
  BY <1>1, <1>2, SoundIsSoundBut, ConnectsKeeps

LEMMA MapKeeps ==
  ASSUME SessionInv, Host_Map_f
  PROVE  SessionInv'
<1> DEFINE d == CL_Disconnect(game, "command")
           left == Host_ShutdownServer(d, "command")
           up == Left([left EXCEPT !.sv_active = TRUE])
<1>1. Sound(d) /\ After(game, d) /\ Out(d)
  BY SoundNow, DisconnectSound DEF Out
<1>2. \/ Completes(left) \/ Fails(left)
      \/ Completes(Established(up)) \/ Fails(NotEstablished(up))
  BY DEF Host_Map_f
<1> HIDE DEF d
<1>3. SoundBut(d)
  BY <1>1, SoundIsSoundBut
<1>4. Sound(left) /\ After(d, left) /\ Out(left)
  BY <1>1, <1>3, ShutdownSound
<1> HIDE DEF left
<1>5. After(game, left) /\ SoundBut(left)
  BY <1>1, <1>4, AfterAfter, SoundIsSoundBut
<1>6. SoundBut(up) /\ After(left, up) /\ Out(up)
  BY <1>4, LeftForServer
<1> HIDE DEF up
<1>7. After(game, up)
  BY <1>5, <1>6, AfterAfter
<1>8. CASE Completes(left)
  BY <1>4, <1>5, <1>8, CompletesKeeps
<1>9. CASE Fails(left)
  BY <1>5, <1>9, FailsKeeps
<1>10. CASE Completes(Established(up)) \/ Fails(NotEstablished(up))
  BY <1>6, <1>7, <1>10, ConnectsKeeps
<1> QED
  BY <1>2, <1>8, <1>9, <1>10

LEMMA LoadgameKeeps ==
  ASSUME SessionInv, Host_Loadgame_f
  PROVE  SessionInv'
<1> DEFINE left == CL_Disconnect_f(game)
           up == [left EXCEPT !.sv_active = TRUE]
           off == [left EXCEPT !.sv_active = FALSE]
<1>1. Sound(left) /\ After(game, left) /\ Out(left)
  BY SoundNow, Disconnect_fSound DEF Out
<1>2. \/ Completes(off) \/ Fails(off)
      \/ up.demoplayback /\ Completes(up)
      \/ Completes(Established(up)) \/ Fails(NotEstablished(up))
  BY DEF Host_Loadgame_f
<1> HIDE DEF left
<1>3. /\ SoundBut(up) /\ After(left, up) /\ Out(up)
      /\ up.demoplayback => Sound(up)
  BY <1>1, LeftForServer
<1>4. Sound(off) /\ SoundBut(off) /\ After(left, off)
  BY <1>1, ServerSetSoundBut
<1> HIDE DEF up, off
<1>5. After(game, up) /\ After(game, off)
  BY <1>1, <1>3, <1>4, AfterAfter
<1>6. CASE Completes(off)
  BY <1>4, <1>5, <1>6, CompletesKeeps
<1>7. CASE Fails(off)
  BY <1>4, <1>5, <1>7, FailsKeeps
<1>8. CASE up.demoplayback /\ Completes(up)
  BY <1>3, <1>5, <1>8, CompletesKeeps
<1>9. CASE Completes(Established(up)) \/ Fails(NotEstablished(up))
  BY <1>3, <1>5, <1>9, ConnectsKeeps
<1> QED
  BY <1>2, <1>6, <1>7, <1>8, <1>9

LEMMA ChangelevelKeeps ==
  ASSUME SessionInv, Host_Changelevel_f
  PROVE  SessionInv'
<1> DEFINE off == [game EXCEPT !.sv_active = FALSE]
<1>1. Sound(off) /\ SoundBut(off) /\ After(game, off)
  BY SoundNow, ServerSetSoundBut
<1>2. Completes(game) \/ Completes(off) \/ Fails(off)
  BY DEF Host_Changelevel_f
<1> HIDE DEF off
<1>3. CASE Completes(game)
  BY <1>3, SoundNow, CompletesKeeps
<1>4. CASE Completes(off)
  BY <1>1, <1>4, CompletesKeeps
<1>5. CASE Fails(off)
  BY <1>1, <1>5, FailsKeeps
<1> QED
  BY <1>2, <1>3, <1>4, <1>5

-----------------------------------------------------------------------------
(* The commands of demos.                                                  *)

\* The file is closed, or one to record on is opened.
LEMMA RecordSound ==
  ASSUME NEW g, Sound(g)
  PROVE  LET closed == [g EXCEPT !.demofile = "none"]
             opened == [g EXCEPT !.demofile = "recorded",
                                 !.demorecording = TRUE]
         IN Sound(closed) /\ After(g, closed) /\ Sound(opened) /\ After(g, opened)
<1> DEFINE closed == [g EXCEPT !.demofile = "none"]
           opened == [g EXCEPT !.demofile = "recorded", !.demorecording = TRUE]
<1>1. g \in Game
  BY DEF Sound
<1>2. /\ closed \in Game /\ closed.demofile = "none" /\ closed.web = g.web
      /\ closed.state = g.state /\ closed.demoplayback = g.demoplayback
      /\ closed.netcon = g.netcon /\ closed.qsockets = g.qsockets
      /\ closed.sv_active = g.sv_active
      /\ closed.putOff = g.putOff /\ closed.broken = g.broken
  BY <1>1 DEF Game
<1>3. /\ opened \in Game /\ opened.demorecording = TRUE /\ opened.web = g.web
      /\ opened.state = g.state /\ opened.demoplayback = g.demoplayback
      /\ opened.netcon = g.netcon /\ opened.qsockets = g.qsockets
      /\ opened.sv_active = g.sv_active
      /\ opened.putOff = g.putOff /\ opened.broken = g.broken
  BY <1>1 DEF Game
<1> HIDE DEF closed, opened
<1>4. Sound(closed)
  BY <1>2 DEF Sound, Agrees
<1>5. Sound(opened)
  BY <1>3 DEF Sound, Agrees
<1> QED
  BY <1>2, <1>3, <1>4, <1>5 DEF After, closed, opened

\* A demo begins when the client is in no game.
LEMMA PlaySound ==
  ASSUME NEW g, Sound(g), Out(g)
  PROVE  LET h == [g EXCEPT !.demofile = "played", !.demoplayback = TRUE,
                            !.state = "connected"]
         IN Sound(h) /\ After(g, h)
<1> DEFINE h == [g EXCEPT !.demofile = "played", !.demoplayback = TRUE,
                          !.state = "connected"]
<1>1. g \in Game
  BY DEF Sound
<1>2. /\ h \in Game /\ h.demofile = "played" /\ h.web = g.web
      /\ h.state = "connected" /\ h.demoplayback = TRUE
      /\ h.netcon = g.netcon /\ h.qsockets = g.qsockets
      /\ h.sv_active = g.sv_active
      /\ h.putOff = g.putOff /\ h.broken = g.broken
  BY <1>1 DEF Game
<1> HIDE DEF h
<1>3. ASSUME ~g.putOff, ~g.broken
      PROVE  g.qsockets = 0 /\ ~g.netcon /\ ~g.sv_active
  <2>1. g.state = "disconnected" /\ Agrees(g)
    BY <1>3 DEF Sound, Out
  <2>2. g.qsockets = 0
    BY <2>1 DEF Agrees
  <2> QED
    BY <2>1, <2>2 DEF Agrees
<1>4. ~h.putOff /\ ~h.broken => Agrees(h)
  BY <1>2, <1>3 DEF Agrees
<1> QED
  BY <1>2, <1>4 DEF Sound, After, h

LEMMA DemoKeeps ==
  ASSUME SessionInv,
         CL_PlayDemo_f \/ Host_Stopdemo_f \/ CL_Record_f \/ Stop_f
  PROVE  SessionInv'
<1>1. CASE CL_PlayDemo_f
  <2> DEFINE d == CL_Disconnect(game, "command")
             none == [d EXCEPT !.demofile = "none"]
             plays == [d EXCEPT !.demofile = "played", !.demoplayback = TRUE,
                                !.state = "connected"]
  <2>1. Sound(d) /\ After(game, d) /\ Out(d)
    BY SoundNow, DisconnectSound DEF Out
  <2>2. Completes(none) \/ Completes(plays)
    BY <1>1 DEF CL_PlayDemo_f
  <2> HIDE DEF d
  <2>3. Sound(none) /\ After(d, none)
    BY <2>1, RecordSound
  <2>4. Sound(plays) /\ After(d, plays)
    BY <2>1, PlaySound
  <2> HIDE DEF none, plays
  <2>5. After(game, none) /\ After(game, plays)
    BY <2>1, <2>3, <2>4, AfterAfter
  <2> QED
    BY <2>2, <2>3, <2>4, <2>5, CompletesKeeps
<1>2. CASE Host_Stopdemo_f
  <2>1. Left(game) = CL_Disconnect(CL_StopPlayback(game), "command")
    BY <1>2 DEF Host_Stopdemo_f, Left
  <2>2. Sound(Left(game)) /\ After(game, Left(game))
    BY SoundNow, LeftSound
  <2>3. Completes(Left(game))
    BY <1>2, <2>1 DEF Host_Stopdemo_f
  <2> QED
    BY <2>2, <2>3, CompletesKeeps
<1>3. CASE CL_Record_f \/ Stop_f
  <2> DEFINE s == CL_Stop_f(game, "command")
             none == [s EXCEPT !.demofile = "none"]
             opened == [s EXCEPT !.demofile = "recorded",
                                 !.demorecording = TRUE]
  <2>1. Sound(s) /\ After(game, s)
    BY SoundNow, StopSound
  <2>2. Completes(s) \/ Completes(none) \/ Completes(opened)
    BY <1>3 DEF CL_Record_f, Stop_f
  <2> HIDE DEF s
  <2>3. Sound(none) /\ After(s, none) /\ Sound(opened) /\ After(s, opened)
    BY <2>1, RecordSound
  <2> HIDE DEF none, opened
  <2>4. After(game, none) /\ After(game, opened)
    BY <2>1, <2>3, AfterAfter
  <2> QED
    BY <2>1, <2>2, <2>3, <2>4, CompletesKeeps
<1> QED
  BY <1>1, <1>2, <1>3

-----------------------------------------------------------------------------
(* The theorems.                                                           *)

LEMMA NextKeepsSession ==
  ASSUME SessionInv, [SessionNext]_sessionVars
  PROVE  SessionInv'
<1>1. CASE UNCHANGED sessionVars
  BY <1>1
    DEF sessionVars, SessionInv, StackIsShaped, JumpsToFrame, WebIsDownload,
        InDownload
<1>2. CASE SessionNext
  BY <1>2, HostFrameKeeps, CommandsDoneKeeps, ServerFrameKeeps, SendCmdKeeps,
     MessageKeeps, ParseKeeps, DownloadBeginsKeeps, KeepaliveKeeps,
     DownloadEndsKeeps, DisconnectKeeps, ConnectKeeps, MapKeeps, LoadgameKeeps,
     ChangelevelKeeps, DemoKeeps
    DEF SessionNext
<1> QED
  BY <1>1, <1>2

(***************************************************************************)
(* The invariant holds in every state.                                     *)
(***************************************************************************)
THEOREM SessionInvAlways ==
  SessionSpec => []SessionInv
<1>1. SessionInit => SessionInv
  BY InitSession
<1>2. SessionInv /\ [SessionNext]_sessionVars => SessionInv'
  BY NextKeepsSession
<1> QED
  BY <1>1, <1>2, PTL DEF SessionSpec

(***************************************************************************)
(* Until a disconnect is put off, the client holds one qsocket when it is  *)
(* connected and none otherwise, its own server runs only while it is on   *)
(* it, no file of a demo is left open, and it takes itself to be           *)
(* downloading while it does, however many qsockets it could have.         *)
(***************************************************************************)
THEOREM SessionIsAlwaysWhole ==
  SessionSpec => []SessionIsWhole
<1>1. SessionInv => SessionIsWhole
  <2> SUFFICES ASSUME SessionInv, ~game.putOff, ~game.broken
               PROVE  Agrees(game) /\ (game.web <=> InDownload)
    BY DEF SessionIsWhole, Agrees
  <2> QED
    BY DEF SessionInv, Sound, WebIsDownload
<1> QED
  BY <1>1, SessionInvAlways, PTL

-----------------------------------------------------------------------------
(* The poll procedures.                                                    *)

\* The i-th procedure of s, and the NULL behind the last.
Nth(s, i) == IF i <= Len(s) THEN s[i] ELSE NoProcedure
On(s) == {s[i] : i \in 1..Len(s)}

\* The pointers of l make the list s, which has each procedure once and in the
\* order in which they are due.
Lists ==
  [head : Procedure \cup {NoProcedure},
   next : [Procedure -> Procedure \cup {NoProcedure}],
   nextTime : [Procedure -> Int]]
IsList(l, s) ==
  /\ l \in Lists
  /\ s \in Seq(Procedure)
  /\ \A i, j \in 1..Len(s) : s[i] = s[j] => i = j
  /\ l.head = Nth(s, 1)
  /\ \A i \in 1..Len(s) : l.next[s[i]] = Nth(s, i + 1)
  /\ \A i, j \in 1..Len(s) : i < j => l.nextTime[s[i]] <= l.nextTime[s[j]]

\* p is before q in s.
Before(s, p, q) ==
  \E i, j \in 1..Len(s) : i < j /\ s[i] = p /\ s[j] = q

\* The oldest a search can be when Slist_Send is due.
Latest == SendUntil - 1 + SendPeriod
SendTime == list.nextTime["slistSend"]

\* From the moment at which Slist_Send is due for the last time to the end of the
\* search it is two of the longest frames at least.
SendsInTime == Latest + 2 * MaxFrame <= PollUntil

\* NET_Poll stands on the head of the list, or has passed what is due.
StandsOn(s) == polling /\ pp # NoProcedure /\ Due(pp) => pp = Nth(s, 1)

\* While Slist_Send is scheduled the search goes on, or is about to be over,
\* with Slist_Send the next that NET_Poll runs.
SendIs(s) ==
  "slistSend" \in On(s) =>
    \/ slistInProgress /\ (SendTime = LongAgo \/ SendTime + slistAge <= Latest)
    \/ /\ polling /\ pp = "slistSend" /\ Due(pp) /\ slistAge >= SendUntil

\* When both others wait before Slist_Send none of them has run since it was due,
\* in this frame or an earlier one, and that frame is the first.
BothBefore(s) ==
  /\ Before(s, "slistPoll", "slistSend")
  /\ \E q \in Query : Before(s, q, "slistSend")
SendIsSoon(s) ==
  BothBefore(s) =>
    \/ SendTime > net_time
    \/ polling /\ pp = Nth(s, 1) /\ slistAge + net_time < Latest + MaxFrame

QueriesAre(s) ==
  /\ openSockets = IF testInProgress THEN 1 ELSE 0
  /\ testInProgress <=> On(s) \cap Query # {}
  /\ \A p, q \in On(s) \cap Query : p = q
  /\ testInProgress => testPollCount > 0

PollTypes ==
  /\ polling \in BOOLEAN /\ pp \in Procedure \cup {NoProcedure}
  /\ net_time \in Int /\ -MaxFrame <= net_time /\ net_time <= 0
  /\ slistInProgress \in BOOLEAN /\ slistAge \in 0..PollUntil
  /\ testInProgress \in BOOLEAN /\ testPollCount \in Nat /\ openSockets \in Nat

Scheduling(s) ==
  /\ IsList(list, s)
  /\ StandsOn(s)
  /\ slistInProgress <=> "slistPoll" \in On(s)
  /\ SendIs(s)
  /\ SendIsSoon(s)
  /\ QueriesAre(s)
PollInv == PollTypes /\ \E s \in Seq(Procedure) : Scheduling(s)

-----------------------------------------------------------------------------
\* There are five procedures, and so no more in a list.
LEMMA FiveProcedures == IsFiniteSet(Procedure) /\ Cardinality(Procedure) = 5
<1> DEFINE A1 == {} \cup {"test"}
           A2 == A1 \cup {"test2"}
           A3 == A2 \cup {"rcon"}
           A4 == A3 \cup {"slistSend"}
           A5 == A4 \cup {"slistPoll"}
<1>1. IsFiniteSet({}) /\ Cardinality({}) = 0
  BY FS_EmptySet
<1>2. IsFiniteSet(A1) /\ Cardinality(A1) = 1
  <2>1. "test" \notin {}
    OBVIOUS
  <2> QED BY <1>1, <2>1, FS_AddElement
<1>3. IsFiniteSet(A2) /\ Cardinality(A2) = 2
  <2>1. "test2" \notin A1
    OBVIOUS
  <2> HIDE DEF A1
  <2> QED BY <1>2, <2>1, FS_AddElement
<1>4. IsFiniteSet(A3) /\ Cardinality(A3) = 3
  <2>1. "rcon" \notin A2
    OBVIOUS
  <2> HIDE DEF A2
  <2> QED BY <1>3, <2>1, FS_AddElement
<1>5. IsFiniteSet(A4) /\ Cardinality(A4) = 4
  <2>1. "slistSend" \notin A3
    OBVIOUS
  <2> HIDE DEF A3
  <2> QED BY <1>4, <2>1, FS_AddElement
<1>6. IsFiniteSet(A5) /\ Cardinality(A5) = 5
  <2>1. "slistPoll" \notin A4
    OBVIOUS
  <2> HIDE DEF A4
  <2> QED BY <1>5, <2>1, FS_AddElement
<1>7. Procedure = A5
  BY DEF Procedure, Query
<1> HIDE DEF A5
<1> QED BY <1>6, <1>7

\* No procedure comes twice, so five are all there can be.
LEMMA FiveFit ==
  ASSUME NEW l, NEW s, IsList(l, s)
  PROVE  Len(s) \in Nat /\ Len(s) <= 5
<1> DEFINE n == Len(s)
<1>1. s \in Seq(Procedure) /\ n \in Nat /\ s \in [1..n -> Procedure]
  BY DEF IsList
<1>2. \A i \in 1..n, j \in 1..n : s[i] = s[j] => i = j
  BY DEF IsList
<1> HIDE DEF n
<1>3. s \in Injection(1..n, Procedure)
  BY <1>1, <1>2 DEF Injection, IsInjective
<1>4. Cardinality(1..n) = n
  BY <1>1, FS_Interval
<1>5. Cardinality(1..n) <= Cardinality(Procedure)
  BY <1>3, FiveProcedures, FS_Injection
<1> QED BY <1>1, <1>4, <1>5, FiveProcedures DEF n

\* Nth, in steps that can be cited.
LEMMA NthIs ==
  ASSUME NEW s \in Seq(Procedure), NEW i \in Nat \ {0}
  PROVE  /\ i <= Len(s) => Nth(s, i) = s[i] /\ Nth(s, i) \in Procedure
         /\ i > Len(s) => Nth(s, i) = NoProcedure
         /\ Nth(s, i) \in Procedure \cup {NoProcedure}
         /\ Nth(s, i) # NoProcedure <=> i <= Len(s)
<1>1. \A p \in Procedure : p # NoProcedure
  BY DEF Procedure, Query, NoProcedure
<1>2. CASE i <= Len(s)
  <2>1. s[i] \in Procedure
    BY <1>2
  <2> QED BY <1>1, <1>2, <2>1 DEF Nth
<1>3. CASE i > Len(s)
  BY <1>3 DEF Nth
<1> QED BY <1>2, <1>3

\* From the head on one comes by the procedures of the list, and stays behind
\* the last.
LEMMA ChainIs ==
  ASSUME NEW l, NEW s, IsList(l, s)
  PROVE  /\ DOMAIN Chain(l) = 0..5
         /\ \A n \in 0..5 : Chain(l)[n] = Nth(s, n + 1)
<1> DEFINE g == [n \in 0..5 |-> Nth(s, n + 1)]
           Is(c) == c = [n \in 0..5 |->
                           IF n = 0 THEN l.head
                           ELSE IF c[n - 1] = NoProcedure THEN NoProcedure
                                ELSE l.next[c[n - 1]]]
           f == CHOOSE c : Is(c)
<1>1. Chain(l) = f
  BY FiveProcedures DEF Chain
<1>2. s \in Seq(Procedure) /\ Len(s) \in Nat
  BY DEF IsList
<1>3. ASSUME NEW n \in 1..5
      PROVE  g[n] = IF g[n - 1] = NoProcedure THEN NoProcedure
                    ELSE l.next[g[n - 1]]
  <2>1. n \in 0..5 /\ n - 1 \in 0..5 /\ n \in Nat \ {0} /\ (n - 1) + 1 = n
    OBVIOUS
  <2>2. g[n] = Nth(s, n + 1) /\ g[n - 1] = Nth(s, n)
    BY <2>1
  <2>3. CASE n <= Len(s)
    <3>1. Nth(s, n) = s[n] /\ Nth(s, n) # NoProcedure /\ n \in 1..Len(s)
      BY <1>2, <2>1, <2>3, NthIs
    <3>2. l.next[s[n]] = Nth(s, n + 1)
      BY <3>1 DEF IsList
    <3> HIDE DEF g
    <3> QED BY <2>2, <3>1, <3>2
  <2>4. CASE n > Len(s)
    <3>1. Nth(s, n) = NoProcedure /\ Nth(s, n + 1) = NoProcedure
      BY <1>2, <2>1, <2>4, NthIs
    <3> HIDE DEF g
    <3> QED BY <2>2, <3>1
  <2> QED BY <1>2, <2>3, <2>4
<1>4. g[0] = l.head
  BY DEF IsList
<1>5. Is(g)
  <2> DEFINE h == [n \in 0..5 |->
                     IF n = 0 THEN l.head
                     ELSE IF g[n - 1] = NoProcedure THEN NoProcedure
                          ELSE l.next[g[n - 1]]]
  <2>1. ASSUME NEW n \in 0..5 PROVE g[n] = h[n]
    <3>1. CASE n = 0
      BY <1>4, <3>1
    <3>2. CASE n # 0
      <4>1. n \in 1..5
        BY <3>2
      <4>2. h[n] = IF g[n - 1] = NoProcedure THEN NoProcedure
                   ELSE l.next[g[n - 1]]
        BY <4>1
      <4> QED BY <1>3, <4>1, <4>2
    <3> QED BY <3>1, <3>2
  <2>2. DOMAIN g = 0..5 /\ g = [n \in 0..5 |-> g[n]]
    OBVIOUS
  <2>3. DOMAIN h = 0..5 /\ h = [n \in 0..5 |-> h[n]]
    OBVIOUS
  <2>4. g = h
    <3> HIDE DEF g, h
    <3> QED BY <2>1, <2>2, <2>3
  <2> QED BY <2>4
<1>6. Is(f)
  <2> HIDE DEF Is, g
  <2> QED BY <1>5
<1>7. /\ DOMAIN f = 0..5 /\ f[0] = l.head
      /\ \A n \in 1..5 : f[n] = IF f[n - 1] = NoProcedure THEN NoProcedure
                                ELSE l.next[f[n - 1]]
  <2> HIDE DEF f
  <2>1. f = [n \in 0..5 |->
                           IF n = 0 THEN l.head
                           ELSE IF f[n - 1] = NoProcedure THEN NoProcedure
                                ELSE l.next[f[n - 1]]]
    BY <1>6
  <2> QED BY <2>1
<1> HIDE DEF f, Is
<1> DEFINE S == {n \in 0..5 : f[n] = g[n]}
<1>8. 0 \in S
  BY <1>4, <1>7
<1>9. ASSUME NEW n \in 1..5, n - 1 \in S
      PROVE  n \in S
  <2> HIDE DEF g
  <2> QED BY <1>3, <1>7, <1>9
<1>10. 0..5 \subseteq S
  <2> HIDE DEF S
  <2> QED BY <1>8, <1>9, AfterEveryTurn
<1> QED BY <1>1, <1>7, <1>10

\* s with p before its element k.
Into(s, k, p) ==
  [j \in 1..Len(s) + 1 |->
     IF j < k THEN s[j] ELSE IF j = k THEN p ELSE s[j - 1]]

\* A sequence with one more, at place k.
LEMMA IntoIs ==
  ASSUME NEW s \in Seq(Procedure), NEW k \in 1..Len(s) + 1, NEW p \in Procedure
  PROVE  /\ Into(s, k, p) \in Seq(Procedure)
         /\ Len(Into(s, k, p)) = Len(s) + 1
         /\ \A j \in 1..Len(s) + 1 :
              Into(s, k, p)[j] =
                IF j < k THEN s[j] ELSE IF j = k THEN p ELSE s[j - 1]
<1> DEFINE w == Into(s, k, p)
<1>1. Len(s) \in Nat /\ Len(s) + 1 \in Nat
  OBVIOUS
<1>2. w = [j \in 1..Len(s) + 1 |->
             IF j < k THEN s[j] ELSE IF j = k THEN p ELSE s[j - 1]]
  BY DEF Into
<1>3. ASSUME NEW j \in 1..Len(s) + 1
      PROVE  (IF j < k THEN s[j] ELSE IF j = k THEN p ELSE s[j - 1]) \in Procedure
  <2>1. CASE j < k
    <3>1. j \in 1..Len(s)
      BY <1>1, <2>1
    <3> QED BY <2>1, <3>1
  <2>2. CASE j = k
    BY <2>2
  <2>3. CASE j > k
    <3>1. j - 1 \in 1..Len(s)
      BY <1>1, <2>3
    <3> QED BY <2>3, <3>1
  <2> QED BY <1>1, <2>1, <2>2, <2>3
<1>4. w \in [1..Len(s) + 1 -> Procedure]
  BY <1>2, <1>3
<1>5. w \in Seq(Procedure) /\ Len(w) = Len(s) + 1
  BY <1>1, <1>4
<1> QED BY <1>2, <1>5

\* Where the places of s are in that, and which comes from where.
Place(k, i) == IF i < k THEN i ELSE i + 1

\* Where what was there before is now.
LEMMA IntoPlaces ==
  ASSUME NEW s \in Seq(Procedure), NEW k \in 1..Len(s) + 1, NEW p \in Procedure
  PROVE  /\ Into(s, k, p)[k] = p
         /\ \A i \in 1..Len(s) :
              /\ Place(k, i) \in 1..Len(s) + 1
              /\ Place(k, i) # k
              /\ Into(s, k, p)[Place(k, i)] = s[i]
         /\ \A j \in 1..Len(s) + 1 : j # k =>
              \E i \in 1..Len(s) : j = Place(k, i)
         /\ \A i, j \in 1..Len(s) : Place(k, i) < Place(k, j) <=> i < j
         /\ \A i \in 1..Len(s) : /\ Place(k, i) < k <=> i < k
                                 /\ k < Place(k, i) <=> k <= i
<1> DEFINE w == Into(s, k, p)
           n == Len(s)
<1>1. n \in Nat /\ k \in Int /\ 1 <= k /\ k <= n + 1
  OBVIOUS
<1>2. \A j \in 1..n + 1 :
        w[j] = IF j < k THEN s[j] ELSE IF j = k THEN p ELSE s[j - 1]
  BY IntoIs, ZenonT(40)
<1> HIDE DEF n, w
<1>3. w[k] = p
  BY <1>1, <1>2
<1>4. ASSUME NEW i \in 1..n
      PROVE  /\ Place(k, i) \in 1..n + 1 /\ Place(k, i) # k
             /\ Place(k, i) < k <=> i < k
             /\ k < Place(k, i) <=> k <= i
  BY <1>1 DEF Place
<1>5. ASSUME NEW i \in 1..n
      PROVE  w[Place(k, i)] = s[i]
  <2>1. CASE i < k
    <3>1. Place(k, i) = i /\ i \in 1..n + 1
      BY <1>1, <2>1 DEF Place
    <3> QED BY <1>2, <2>1, <3>1
  <2>2. CASE i >= k
    <3>1. /\ Place(k, i) = i + 1 /\ i + 1 \in 1..n + 1
          /\ ~(i + 1 < k) /\ i + 1 # k /\ (i + 1) - 1 = i
      BY <1>1, <2>2 DEF Place
    <3> QED BY <1>2, <3>1
  <2> QED BY <1>1, <2>1, <2>2
<1>6. ASSUME NEW j \in 1..n + 1, j # k
      PROVE  \E i \in 1..n : j = Place(k, i)
  <2>1. CASE j < k
    <3>1. j \in 1..n /\ Place(k, j) = j
      BY <1>1, <2>1 DEF Place
    <3> QED BY <3>1
  <2>2. CASE j > k
    <3>1. j - 1 \in 1..n /\ Place(k, j - 1) = j
      BY <1>1, <2>2 DEF Place
    <3> QED BY <3>1
  <2> QED BY <1>1, <1>6, <2>1, <2>2
<1>7. ASSUME NEW i \in 1..n, NEW j \in 1..n
      PROVE  Place(k, i) < Place(k, j) <=> i < j
  BY <1>1 DEF Place
<1> QED BY <1>3, <1>4, <1>5, <1>6, <1>7 DEF n, w

\* What stands at k then stands behind p, and the others as before.
LEMMA IntoAt ==
  ASSUME NEW s \in Seq(Procedure), NEW k \in 1..Len(s) + 1, NEW p \in Procedure
  PROVE  /\ Nth(Into(s, k, p), k + 1) = Nth(s, k)
         /\ k > 1 => Nth(Into(s, k, p), 1) = Nth(s, 1)
         /\ k = 1 => Nth(Into(s, k, p), 1) = p
         /\ \A i \in 1..Len(s) : i + 1 # k =>
              Nth(Into(s, k, p), Place(k, i) + 1) = Nth(s, i + 1)
         /\ \A i \in 1..Len(s) : i + 1 = k =>
              Nth(Into(s, k, p), Place(k, i) + 1) = p
<1> DEFINE w == Into(s, k, p)
           n == Len(s)
<1>1. n \in Nat /\ k \in Int /\ 1 <= k /\ k <= n + 1
  OBVIOUS
<1>2. /\ Len(w) = n + 1
      /\ \A j \in 1..n + 1 :
           w[j] = IF j < k THEN s[j] ELSE IF j = k THEN p ELSE s[j - 1]
  BY IntoIs, ZenonT(40)
<1>3. \A i : Nth(s, i) = IF i <= n THEN s[i] ELSE NoProcedure
  BY DEF Nth
<1>4. \A i : Nth(w, i) = IF i <= n + 1 THEN w[i] ELSE NoProcedure
  BY <1>2 DEF Nth
<1> HIDE DEF n, w
<1>5. \A j \in Nat \ {0} : j > k => Nth(w, j) = Nth(s, j - 1)
  <2> SUFFICES ASSUME NEW j \in Nat \ {0}, j > k PROVE Nth(w, j) = Nth(s, j - 1)
    OBVIOUS
  <2>1. CASE j <= n + 1
    <3>1. j \in 1..n + 1 /\ ~(j < k) /\ j # k /\ j - 1 <= n
      BY <1>1, <2>1
    <3> QED BY <1>2, <1>3, <1>4, <2>1, <3>1
  <2>2. CASE j > n + 1
    <3>1. ~(j <= n + 1) /\ ~(j - 1 <= n)
      BY <1>1, <2>2
    <3> QED BY <1>3, <1>4, <3>1
  <2> QED BY <1>1, <2>1, <2>2
<1>6. \A j \in Nat \ {0} : j < k => Nth(w, j) = Nth(s, j)
  <2> SUFFICES ASSUME NEW j \in Nat \ {0}, j < k PROVE Nth(w, j) = Nth(s, j)
    OBVIOUS
  <2>1. j \in 1..n + 1 /\ j <= n /\ j <= n + 1
    BY <1>1
  <2> QED BY <1>2, <1>3, <1>4, <2>1
<1>7. Nth(w, k) = p
  BY <1>1, <1>2, <1>4
<1>8. Nth(w, k + 1) = Nth(s, k)
  <2>1. k + 1 \in Nat \ {0} /\ k + 1 > k /\ (k + 1) - 1 = k
    BY <1>1
  <2> QED BY <1>5, <2>1
<1>9. (k > 1 => Nth(w, 1) = Nth(s, 1)) /\ (k = 1 => Nth(w, 1) = p)
  BY <1>1, <1>6, <1>7
<1>10. ASSUME NEW i \in 1..n, i + 1 # k
       PROVE  Nth(w, Place(k, i) + 1) = Nth(s, i + 1)
  <2>1. CASE i < k
    <3>1. Place(k, i) = i /\ i + 1 \in Nat \ {0} /\ i + 1 < k
      BY <1>1, <1>10, <2>1 DEF Place
    <3> QED BY <1>6, <3>1
  <2>2. CASE i >= k
    <3>1. /\ Place(k, i) = i + 1 /\ i + 2 \in Nat \ {0} /\ i + 2 > k
          /\ (i + 1) + 1 = i + 2 /\ (i + 2) - 1 = i + 1
      BY <1>1, <2>2 DEF Place
    <3> QED BY <1>5, <3>1
  <2> QED BY <1>1, <2>1, <2>2
<1>11. ASSUME NEW i \in 1..n, i + 1 = k
       PROVE  Nth(w, Place(k, i) + 1) = p
  <2>1. Place(k, i) + 1 = k
    BY <1>1, <1>11 DEF Place
  <2> QED BY <1>7, <2>1
<1> QED BY <1>8, <1>9, <1>10, <1>11 DEF n, w

\* proc, due at offset, belongs before the k-th procedure of s.
Gap(times, s, k, offset) ==
  /\ \A i \in 1..k - 1 : times[s[i]] < offset
  /\ \A i \in k..Len(s) : times[s[i]] >= offset

\* l with proc linked in there.
Linked(l, s, k, proc, offset) ==
  [head |-> IF k = 1 THEN proc ELSE l.head,
   next |-> IF k = 1
            THEN [l.next EXCEPT ![proc] = l.head]
            ELSE [l.next EXCEPT ![s[k - 1]] = proc, ![proc] = Nth(s, k)],
   nextTime |-> [l.nextTime EXCEPT ![proc] = offset]]

\* That is what SchedulePollProcedure does with a procedure that is not linked.
LEMMA ScheduleLinks ==
  ASSUME NEW l, NEW s, IsList(l, s), NEW proc \in Procedure \ On(s),
         NEW offset \in Int
  PROVE  \E k \in 1..Len(s) + 1 :
           /\ Gap(l.nextTime, s, k, offset)
           /\ SchedulePollProcedure(l, proc, offset) = Linked(l, s, k, proc, offset)
<1> DEFINE timed == [l EXCEPT !.nextTime[proc] = offset]
           times == timed.nextTime
           c == Chain(timed)
           Fit(k) == /\ c[k] = NoProcedure \/ times[c[k]] >= offset
                     /\ \A j \in 0..k - 1 :
                          c[j] # NoProcedure /\ times[c[j]] < offset
           n == CHOOSE k \in DOMAIN c : Fit(k)
<1>1. /\ l \in Lists /\ s \in Seq(Procedure) /\ Len(s) \in Nat /\ Len(s) <= 5
      /\ \A i \in 1..Len(s) : s[i] \in Procedure /\ s[i] # proc
  BY FiveFit DEF IsList, On
<1> DEFINE N == Len(s)
<1>0. N \in 0..5
  <2>1. N \in Nat /\ N <= 5
    BY FiveFit
  <2> HIDE DEF N
  <2> QED BY <2>1
<1> HIDE DEF N
<1>2. /\ timed \in Lists /\ timed.head = l.head /\ timed.next = l.next
      /\ times = [l.nextTime EXCEPT ![proc] = offset]
      /\ times \in [Procedure -> Int]
      /\ timed = [head |-> l.head, next |-> l.next,
                  nextTime |-> [l.nextTime EXCEPT ![proc] = offset]]
  <2>1. /\ l = [head |-> l.head, next |-> l.next, nextTime |-> l.nextTime]
        /\ l.head \in Procedure \cup {NoProcedure}
        /\ l.next \in [Procedure -> Procedure \cup {NoProcedure}]
        /\ l.nextTime \in [Procedure -> Int]
    BY <1>1 DEF Lists
  <2>2. [l.nextTime EXCEPT ![proc] = offset] \in [Procedure -> Int]
    BY <2>1
  <2>3. timed = [head |-> l.head, next |-> l.next,
                 nextTime |-> [l.nextTime EXCEPT ![proc] = offset]]
    BY <2>1
  <2> HIDE DEF timed
  <2>4. /\ timed.head = l.head /\ timed.next = l.next
        /\ times = [l.nextTime EXCEPT ![proc] = offset]
    BY <2>3
  <2>5. timed \in Lists
    BY <2>1, <2>2, <2>3 DEF Lists
  <2> QED BY <2>2, <2>3, <2>4, <2>5
<1>3. \A i \in 1..Len(s) : times[s[i]] = l.nextTime[s[i]]
  BY <1>1, <1>2 DEF Lists
<1>4. IsList(timed, s)
  <2> HIDE DEF timed
  <2> QED BY <1>1, <1>2, <1>3 DEF IsList
<1>5. DOMAIN c = 0..5 /\ \A j \in 0..5 : c[j] = Nth(s, j + 1)
  <2> HIDE DEF timed
  <2> QED BY <1>4, ChainIs
<1>6. SchedulePollProcedure(l, proc, offset) =
        IF n = 0
        THEN [timed EXCEPT !.head = proc, !.next[proc] = timed.head]
        ELSE [timed EXCEPT !.next[c[n - 1]] = proc, !.next[proc] = c[n]]
  BY DEF SchedulePollProcedure
<1> HIDE DEF timed
<1>7. \A j \in 0..5 : /\ c[j] \in Procedure \cup {NoProcedure}
                      /\ c[j] # NoProcedure <=> j < Len(s)
                      /\ c[j] # NoProcedure => c[j] = s[j + 1]
  <2> SUFFICES ASSUME NEW j \in 0..5
               PROVE  /\ c[j] \in Procedure \cup {NoProcedure}
                      /\ c[j] # NoProcedure <=> j < Len(s)
                      /\ c[j] # NoProcedure => c[j] = s[j + 1]
    OBVIOUS
  <2>1. j + 1 \in Nat \ {0} /\ (j < Len(s) <=> j + 1 <= Len(s))
    BY <1>1
  <2>2. c[j] = Nth(s, j + 1)
    BY <1>5
  <2> HIDE DEF c
  <2> QED BY <1>1, <2>1, <2>2, NthIs
<1>8. \E k \in DOMAIN c : Fit(k)
  <2> DEFINE S == {k \in 0..5 : c[k] = NoProcedure \/ times[c[k]] >= offset}
  <2>1. Len(s) \in S
    <3>1. N \in 0..5 /\ ~(N < N)
      BY <1>0
    <3>2. c[N] = NoProcedure
      BY <1>7, <3>1 DEF N
    <3> HIDE DEF c, timed
    <3> QED BY <3>1, <3>2 DEF N
  <2>2. PICK k \in S : \A j \in S : k <= j
    <3>1. S \in SUBSET Nat /\ S # {}
      <4>1. S \subseteq 0..5
        OBVIOUS
      <4> HIDE DEF S
      <4> QED BY <2>1, <4>1
    <3> HIDE DEF S
    <3> QED BY <3>1, LeastOfSet
  <2>3. ASSUME NEW j \in 0..k - 1
        PROVE  c[j] # NoProcedure /\ times[c[j]] < offset
    <3>1. j \in 0..5 /\ ~(k <= j)
      BY <2>2
    <3>2. j \notin S
      <4> HIDE DEF S
      <4> QED BY <2>2, <3>1
    <3>3. c[j] # NoProcedure /\ ~(times[c[j]] >= offset)
      BY <3>1, <3>2
    <3>4. c[j] \in Procedure
      BY <1>7, <3>1, <3>3
    <3>5. times[c[j]] \in Int
      BY <1>2, <3>4
    <3> QED BY <3>3, <3>5
  <2> QED BY <2>2, <2>3, <1>5
<1>9. n \in 0..5 /\ Fit(n)
  <2> HIDE DEF Fit, c
  <2> QED BY <1>5, <1>8
<1> HIDE DEF n
<1>10. n <= Len(s)
  <2> SUFFICES ASSUME n > Len(s) PROVE FALSE
    BY <1>1, <1>9
  <2>1. Len(s) \in 0..n - 1 /\ Len(s) \in 0..5
    <3>1. n \in 0..5 /\ n > N
      BY <1>9 DEF N
    <3>2. N \in 0..n - 1 /\ N \in 0..5
      BY <1>0, <3>1
    <3> QED BY <3>2 DEF N
  <2>2. c[Len(s)] # NoProcedure
    BY <1>9, <2>1
  <2> QED BY <1>1, <1>7, <2>1, <2>2
<1> DEFINE k == n + 1
<1>11. k \in 1..Len(s) + 1
  BY <1>1, <1>9, <1>10
<1>12. Gap(l.nextTime, s, k, offset)
  <2>1. ASSUME NEW i \in 1..k - 1
        PROVE  l.nextTime[s[i]] < offset
    <3>1. i - 1 \in 0..n - 1 /\ i - 1 \in 0..5 /\ (i - 1) + 1 = i /\ i \in 1..Len(s)
      BY <1>1, <1>9, <1>10
    <3>2. c[i - 1] # NoProcedure /\ times[c[i - 1]] < offset
      BY <1>9, <3>1
    <3>3. c[i - 1] = s[i]
      BY <1>7, <3>1, <3>2
    <3> QED BY <1>3, <3>1, <3>2, <3>3
  <2>2. ASSUME NEW i \in k..Len(s)
        PROVE  l.nextTime[s[i]] >= offset
    <3>1. /\ n < Len(s) /\ k \in 1..Len(s) /\ i \in 1..Len(s) /\ k <= i
          /\ n + 1 = k
      BY <1>1, <1>9, <1>10
    <3>2. c[n] # NoProcedure /\ c[n] = s[k]
      BY <1>7, <1>9, <3>1
    <3>3. times[s[k]] >= offset
      BY <1>9, <3>2
    <3>4. l.nextTime[s[k]] >= offset
      BY <1>3, <3>1, <3>3
    <3>5. l.nextTime[s[k]] <= l.nextTime[s[i]]
      <4>1. CASE k = i
        <5>1. l.nextTime[s[k]] \in Int
          BY <1>1, <3>1 DEF Lists
        <5> QED BY <4>1, <5>1
      <4>2. CASE k < i
        <5> HIDE DEF k
        <5> QED BY <3>1, <4>2 DEF IsList
      <4> HIDE DEF k
      <4> QED BY <3>1, <1>1, <4>1, <4>2
    <3>6. l.nextTime[s[k]] \in Int /\ l.nextTime[s[i]] \in Int
      BY <1>1, <3>1 DEF Lists
    <3> HIDE DEF k
    <3> QED BY <3>4, <3>5, <3>6
  <2> HIDE DEF k
  <2> QED BY <2>1, <2>2 DEF Gap
<1>13. SchedulePollProcedure(l, proc, offset) = Linked(l, s, k, proc, offset)
  <2>1. CASE n = 0
    <3>1. k = 1
      BY <2>1
    <3>2. SchedulePollProcedure(l, proc, offset) =
            [head |-> proc, next |-> [l.next EXCEPT ![proc] = l.head],
             nextTime |-> [l.nextTime EXCEPT ![proc] = offset]]
      BY <1>2, <1>6, <2>1
    <3> HIDE DEF k
    <3> QED BY <3>1, <3>2 DEF Linked
  <2>2. CASE n # 0
    <3>1. n - 1 \in 0..5 /\ n - 1 < Len(s) /\ (n - 1) + 1 = n /\ k - 1 = n /\ k # 1
      BY <1>1, <1>9, <1>10, <2>2
    <3>2. c[n - 1] = s[k - 1]
      BY <1>7, <3>1
    <3>3. c[n] = Nth(s, k)
      BY <1>5, <1>9
    <3>4. SchedulePollProcedure(l, proc, offset) =
            [timed EXCEPT !.next[s[k - 1]] = proc, !.next[proc] = Nth(s, k)]
      BY <1>6, <2>2, <3>2, <3>3
    <3> HIDE DEF k
    <3>5. SchedulePollProcedure(l, proc, offset) =
            [head |-> l.head,
             next |-> [l.next EXCEPT ![s[k - 1]] = proc, ![proc] = Nth(s, k)],
             nextTime |-> [l.nextTime EXCEPT ![proc] = offset]]
      BY <1>2, <3>4
    <3> QED BY <3>1, <3>5 DEF Linked
  <2> QED BY <2>1, <2>2
<1> HIDE DEF k
<1> QED BY <1>11, <1>12, <1>13

\* m and w are l and s with proc linked in, due at offset: before what is due
\* then or later.
Inserted(l, s, proc, offset, m, w) ==
  /\ IsList(m, w)
  /\ m.nextTime = [l.nextTime EXCEPT ![proc] = offset]
  /\ On(w) = On(s) \cup {proc}
  /\ \A p, q \in Procedure \ {proc} : Before(w, p, q) => Before(s, p, q)
  /\ \A q \in Procedure : Before(w, proc, q) => l.nextTime[q] >= offset /\ q # proc
  /\ m.next[proc] \in Procedure => m.nextTime[m.next[proc]] >= offset
  /\ l.head \in Procedure => m.head \in {l.head, proc}

\* The pointers with one procedure linked in make the list with it put in.
LEMMA LinkedIsList ==
  ASSUME NEW l, NEW s, IsList(l, s), NEW proc \in Procedure, proc \notin On(s),
         NEW offset \in Int, NEW k \in 1..Len(s) + 1,
         Gap(l.nextTime, s, k, offset)
  PROVE  IsList(Linked(l, s, k, proc, offset), Into(s, k, proc))
<1> DEFINE m == Linked(l, s, k, proc, offset)
           w == Into(s, k, proc)
           n == Len(s)
<1>1. /\ l \in Lists /\ s \in Seq(Procedure) /\ n \in Nat
      /\ \A i \in 1..n : s[i] \in Procedure /\ s[i] # proc
  BY DEF IsList, On
<1>2. w \in Seq(Procedure) /\ Len(w) = n + 1
  BY <1>1, IntoIs
<1>3. /\ w[k] = proc
      /\ \A i \in 1..n : Place(k, i) \in 1..n + 1 /\ w[Place(k, i)] = s[i]
      /\ \A j \in 1..n + 1 : j # k => \E i \in 1..n : j = Place(k, i)
      /\ \A i, j \in 1..n : Place(k, i) < Place(k, j) <=> i < j
      /\ \A i \in 1..n : /\ Place(k, i) < k <=> i < k
                         /\ k < Place(k, i) <=> k <= i
  BY <1>1, IntoPlaces
<1>4. /\ Nth(w, k + 1) = Nth(s, k)
      /\ k > 1 => Nth(w, 1) = Nth(s, 1)
      /\ k = 1 => Nth(w, 1) = proc
      /\ \A i \in 1..n : i + 1 # k => Nth(w, Place(k, i) + 1) = Nth(s, i + 1)
      /\ \A i \in 1..n : i + 1 = k => Nth(w, Place(k, i) + 1) = proc
  BY <1>1, IntoAt
<1>5. k \in Int /\ 1 <= k /\ k <= n + 1
  BY <1>1
<1>6. Nth(s, k) \in Procedure \cup {NoProcedure}
  BY <1>1, <1>5, NthIs
<1>7. k > 1 => k - 1 \in 1..n /\ s[k - 1] \in Procedure /\ s[k - 1] # proc
  BY <1>1, <1>5
<1>8. /\ l.head \in Procedure \cup {NoProcedure}
      /\ l.next \in [Procedure -> Procedure \cup {NoProcedure}]
      /\ l.nextTime \in [Procedure -> Int]
      /\ l.head = Nth(s, 1)
      /\ \A i \in 1..n : l.next[s[i]] = Nth(s, i + 1)
      /\ \A i, j \in 1..n : s[i] = s[j] => i = j
      /\ \A i, j \in 1..n : i < j => l.nextTime[s[i]] <= l.nextTime[s[j]]
  BY <1>1 DEF IsList, Lists
<1>9. /\ m.head = IF k = 1 THEN proc ELSE l.head
      /\ m.nextTime = [l.nextTime EXCEPT ![proc] = offset]
      /\ k = 1 => m.next = [l.next EXCEPT ![proc] = l.head]
      /\ k # 1 => m.next = [l.next EXCEPT ![s[k - 1]] = proc, ![proc] = Nth(s, k)]
      /\ DOMAIN m = {"head", "next", "nextTime"}
      /\ m = [head |-> m.head, next |-> m.next, nextTime |-> m.nextTime]
  BY DEF Linked
<1>10. Gap(l.nextTime, s, k, offset)
  OBVIOUS
<1> HIDE DEF m, w, n
<1>11. m \in Lists
  <2>1. m.next \in [Procedure -> Procedure \cup {NoProcedure}]
    <3>1. CASE k = 1
      BY <1>8, <1>9, <3>1
    <3>2. CASE k # 1
      BY <1>5, <1>6, <1>7, <1>8, <1>9, <3>2
    <3> QED BY <3>1, <3>2
  <2>2. m.nextTime \in [Procedure -> Int]
    BY <1>8, <1>9
  <2>3. m.head \in Procedure \cup {NoProcedure}
    BY <1>8, <1>9
  <2> QED BY <1>9, <2>1, <2>2, <2>3 DEF Lists
<1>12. ASSUME NEW i \in 1..n + 1, NEW j \in 1..n + 1, w[i] = w[j]
       PROVE  i = j
  <2>1. CASE i = k /\ j = k
    BY <2>1
  <2>2. CASE i = k /\ j # k
    <3>1. PICK a \in 1..n : j = Place(k, a)
      BY <1>3, <2>2
    <3> QED BY <1>1, <1>3, <1>12, <2>2, <3>1
  <2>3. CASE i # k /\ j = k
    <3>1. PICK a \in 1..n : i = Place(k, a)
      BY <1>3, <2>3
    <3> QED BY <1>1, <1>3, <1>12, <2>3, <3>1
  <2>4. CASE i # k /\ j # k
    <3>1. PICK a \in 1..n : i = Place(k, a)
      BY <1>3, <2>4
    <3>2. PICK b \in 1..n : j = Place(k, b)
      BY <1>3, <2>4
    <3>3. s[a] = s[b]
      BY <1>3, <1>12, <3>1, <3>2
    <3> QED BY <1>8, <3>1, <3>2, <3>3
  <2> QED BY <2>1, <2>2, <2>3, <2>4
<1>13. m.head = Nth(w, 1)
  <2>1. CASE k = 1
    BY <1>4, <1>9, <2>1
  <2>2. CASE k > 1
    BY <1>4, <1>8, <1>9, <2>2
  <2> QED BY <1>5, <2>1, <2>2
<1>14. m.next[proc] = Nth(s, k)
  <2>1. CASE k = 1
    BY <1>8, <1>9, <2>1
  <2>2. CASE k # 1
    BY <1>5, <1>7, <1>8, <1>9, <2>2
  <2> QED BY <2>1, <2>2
<1>15. ASSUME NEW i \in 1..n + 1
       PROVE  m.next[w[i]] = Nth(w, i + 1)
  <2>1. CASE i = k
    BY <1>3, <1>4, <1>14, <2>1
  <2>2. CASE i # k
    <3>1. PICK a \in 1..n : i = Place(k, a)
      BY <1>3, <2>2
    <3>2. w[i] = s[a] /\ s[a] \in Procedure /\ s[a] # proc
      BY <1>1, <1>3, <3>1
    <3>3. CASE a + 1 = k
      <4>1. k - 1 = a /\ k # 1
        BY <1>5, <3>3
      <4>2. m.next[s[a]] = proc
        BY <1>8, <1>9, <3>2, <4>1
      <4>3. Nth(w, i + 1) = proc
        BY <1>4, <3>1, <3>3
      <4> QED BY <3>2, <4>2, <4>3
    <3>4. CASE a + 1 # k
      <4>1. Nth(w, i + 1) = Nth(s, a + 1)
        BY <1>4, <3>1, <3>4
      <4>2. l.next[s[a]] = Nth(s, a + 1)
        BY <1>8
      <4>3. m.next[s[a]] = l.next[s[a]]
        <5>1. CASE k = 1
          BY <1>8, <1>9, <3>2, <5>1
        <5>2. CASE k # 1
          <6>1. k - 1 \in 1..n /\ k - 1 # a
            BY <1>5, <1>7, <3>4, <5>2
          <6>2. s[k - 1] # s[a]
            BY <1>8, <6>1
          <6> QED BY <1>7, <1>8, <1>9, <3>2, <5>2, <6>2
        <5> QED BY <5>1, <5>2
      <4> QED BY <3>2, <4>1, <4>2, <4>3
    <3> QED BY <3>3, <3>4
  <2> QED BY <2>1, <2>2
<1>16. \A a \in 1..n : /\ m.nextTime[s[a]] = l.nextTime[s[a]]
                       /\ m.nextTime[s[a]] \in Int
                       /\ a < k => m.nextTime[s[a]] < offset
                       /\ a >= k => m.nextTime[s[a]] >= offset
  <2> SUFFICES ASSUME NEW a \in 1..n
               PROVE  /\ m.nextTime[s[a]] = l.nextTime[s[a]]
                      /\ m.nextTime[s[a]] \in Int
                      /\ a < k => m.nextTime[s[a]] < offset
                      /\ a >= k => m.nextTime[s[a]] >= offset
    OBVIOUS
  <2>1. m.nextTime[s[a]] = l.nextTime[s[a]] /\ l.nextTime[s[a]] \in Int
    BY <1>1, <1>8, <1>9
  <2>2. (a < k => a \in 1..k - 1) /\ (a >= k => a \in k..n)
    BY <1>1, <1>5
  <2> QED BY <1>10, <2>1, <2>2 DEF Gap, n
<1>17. m.nextTime[proc] = offset
  BY <1>8, <1>9
<1>18. ASSUME NEW i \in 1..n + 1, NEW j \in 1..n + 1, i < j
       PROVE  m.nextTime[w[i]] <= m.nextTime[w[j]]
  <2>1. CASE i = k
    <3>1. PICK b \in 1..n : j = Place(k, b)
      BY <1>3, <1>18, <2>1
    <3>2. b >= k /\ w[i] = proc /\ w[j] = s[b]
      BY <1>3, <1>5, <1>18, <2>1, <3>1
    <3> QED BY <1>16, <1>17, <3>2
  <2>2. CASE j = k
    <3>1. PICK a \in 1..n : i = Place(k, a)
      BY <1>3, <1>18, <2>2
    <3>2. a < k /\ w[j] = proc /\ w[i] = s[a]
      BY <1>3, <1>5, <1>18, <2>2, <3>1
    <3> QED BY <1>16, <1>17, <3>2
  <2>3. CASE i # k /\ j # k
    <3>1. PICK a \in 1..n : i = Place(k, a)
      BY <1>3, <2>3
    <3>2. PICK b \in 1..n : j = Place(k, b)
      BY <1>3, <2>3
    <3>3. a < b /\ w[i] = s[a] /\ w[j] = s[b]
      BY <1>3, <1>18, <3>1, <3>2
    <3> QED BY <1>8, <1>16, <3>3
  <2> QED BY <2>1, <2>2, <2>3
<1> QED BY <1>2, <1>11, <1>12, <1>13, <1>15, <1>18 DEF IsList, m, w

\* Where it stands, and that the others keep their order.
LEMMA LinkedInserted ==
  ASSUME NEW l, NEW s, IsList(l, s), NEW proc \in Procedure, proc \notin On(s),
         NEW offset \in Int, NEW k \in 1..Len(s) + 1,
         Gap(l.nextTime, s, k, offset)
  PROVE  Inserted(l, s, proc, offset, Linked(l, s, k, proc, offset),
                  Into(s, k, proc))
<1> DEFINE m == Linked(l, s, k, proc, offset)
           w == Into(s, k, proc)
           n == Len(s)
<1>1. /\ l \in Lists /\ s \in Seq(Procedure) /\ n \in Nat
      /\ \A i \in 1..n : s[i] \in Procedure /\ s[i] # proc
  BY DEF IsList, On
<1>2. w \in Seq(Procedure) /\ Len(w) = n + 1
  BY <1>1, IntoIs
<1>3. /\ w[k] = proc
      /\ \A i \in 1..n : Place(k, i) \in 1..n + 1 /\ w[Place(k, i)] = s[i]
      /\ \A j \in 1..n + 1 : j # k => \E i \in 1..n : j = Place(k, i)
      /\ \A i, j \in 1..n : Place(k, i) < Place(k, j) <=> i < j
      /\ \A i \in 1..n : /\ Place(k, i) < k <=> i < k
                         /\ k < Place(k, i) <=> k <= i
  BY <1>1, IntoPlaces
<1>4. k \in Int /\ 1 <= k /\ k <= n + 1
  BY <1>1
<1>5. IsList(m, w)
  BY LinkedIsList
<1>6. /\ m.nextTime = [l.nextTime EXCEPT ![proc] = offset]
      /\ m.head \in {l.head, proc}
  BY DEF Linked
<1>7. m.next[proc] = Nth(w, k + 1) /\ Nth(w, k + 1) = Nth(s, k)
  <2>1. k \in 1..Len(w)
    BY <1>2, <1>4
  <2>2. m.next[w[k]] = Nth(w, k + 1)
    <3> HIDE DEF m, w
    <3> QED BY <1>5, <2>1 DEF IsList
  <2>3. Nth(w, k + 1) = Nth(s, k)
    BY <1>1, IntoAt
  <2> QED BY <1>3, <2>2, <2>3
<1>8. /\ l.nextTime \in [Procedure -> Int]
      /\ \A i \in k..n : l.nextTime[s[i]] >= offset
  BY <1>1 DEF Lists, Gap
<1> SUFFICES Inserted(l, s, proc, offset, m, w)
  OBVIOUS
<1> HIDE DEF m, w, n
<1>9. On(w) = On(s) \cup {proc}
  <2>1. On(w) = {w[i] : i \in 1..n + 1} /\ On(s) = {s[i] : i \in 1..n}
    BY <1>2 DEF On, n
  <2>2. ASSUME NEW i \in 1..n + 1
        PROVE  w[i] = proc \/ \E a \in 1..n : w[i] = s[a]
    <3>1. CASE i = k
      BY <1>3, <3>1
    <3>2. CASE i # k
      <4>1. PICK a \in 1..n : i = Place(k, a)
        BY <1>3, <3>2
      <4> QED BY <1>3, <4>1
    <3> QED BY <3>1, <3>2
  <2>3. ASSUME NEW a \in 1..n
        PROVE  \E i \in 1..n + 1 : w[i] = s[a]
    BY <1>3
  <2>4. \E i \in 1..n + 1 : w[i] = proc
    BY <1>1, <1>3, <1>4
  <2> QED BY <2>1, <2>2, <2>3, <2>4
<1>10. ASSUME NEW p \in Procedure \ {proc}, NEW q \in Procedure \ {proc},
              Before(w, p, q)
       PROVE  Before(s, p, q)
  <2>1. PICK i \in 1..n + 1, j \in 1..n + 1 : i < j /\ w[i] = p /\ w[j] = q
    BY <1>2, <1>10 DEF Before
  <2>2. i # k /\ j # k
    BY <1>3, <2>1
  <2>3. PICK a \in 1..n : i = Place(k, a)
    BY <1>3, <2>2
  <2>4. PICK b \in 1..n : j = Place(k, b)
    BY <1>3, <2>2
  <2>5. a < b /\ s[a] = p /\ s[b] = q
    BY <1>3, <2>1, <2>3, <2>4
  <2> QED BY <2>5 DEF Before, n
<1>11. ASSUME NEW q \in Procedure, Before(w, proc, q)
       PROVE  l.nextTime[q] >= offset /\ q # proc
  <2>1. PICK i \in 1..n + 1, j \in 1..n + 1 : i < j /\ w[i] = proc /\ w[j] = q
    BY <1>2, <1>11 DEF Before
  <2>2. i = k
    <3>1. k \in 1..n + 1
      BY <1>1, <1>4
    <3> QED BY <1>2, <1>3, <1>5, <2>1, <3>1 DEF IsList
  <2>3. j # k
    BY <1>1, <2>1, <2>2
  <2>4. PICK b \in 1..n : j = Place(k, b)
    BY <1>3, <2>3
  <2>5. k <= b /\ s[b] = q
    BY <1>3, <2>1, <2>2, <2>4
  <2>6. b \in k..n
    BY <1>1, <1>4, <2>5
  <2> QED BY <1>1, <1>8, <2>5, <2>6
<1>12. ASSUME m.next[proc] \in Procedure
       PROVE  m.nextTime[m.next[proc]] >= offset
  <2>1. k <= n /\ Nth(s, k) = s[k]
    <3>1. Nth(s, k) # NoProcedure
      BY <1>7, <1>12 DEF Procedure, Query, NoProcedure
    <3> QED BY <1>1, <1>4, <3>1, NthIs DEF n
  <2>2. k \in k..n /\ k \in 1..n
    BY <1>1, <1>4, <2>1
  <2>3. m.nextTime[s[k]] = l.nextTime[s[k]]
    BY <1>1, <1>6, <1>8, <2>2
  <2> QED BY <1>7, <1>8, <2>1, <2>2, <2>3
<1> QED BY <1>5, <1>6, <1>9, <1>10, <1>11, <1>12 DEF Inserted

\* SchedulePollProcedure of a procedure that is not in the list.
LEMMA ScheduleInserts ==
  ASSUME NEW l, NEW s, IsList(l, s), NEW proc \in Procedure, proc \notin On(s),
         NEW offset \in Int
  PROVE  \E w \in Seq(Procedure) :
           Inserted(l, s, proc, offset, SchedulePollProcedure(l, proc, offset), w)
<1>1. PICK k \in 1..Len(s) + 1 :
        /\ Gap(l.nextTime, s, k, offset)
        /\ SchedulePollProcedure(l, proc, offset) = Linked(l, s, k, proc, offset)
  BY ScheduleLinks
<1>2. Inserted(l, s, proc, offset, Linked(l, s, k, proc, offset),
               Into(s, k, proc))
  BY <1>1, LinkedInserted
<1>3. Into(s, k, proc) \in Seq(Procedure)
  BY IntoIs DEF IsList
<1> QED BY <1>1, <1>2, <1>3

\* w is s without its first procedure p, which the head of l has been moved past.
Popped(l, s, m, w) ==
  /\ IsList(m, w)
  /\ m.next = l.next /\ m.nextTime = l.nextTime
  /\ m.head = l.next[l.head]
  /\ On(w) = On(s) \ {l.head}
  /\ \A p, q \in Procedure : Before(w, p, q) => Before(s, p, q)

\* NET_Poll moves the head past the first procedure.
LEMMA HeadPops ==
  ASSUME NEW l, NEW s, IsList(l, s), l.head # NoProcedure
  PROVE  /\ l.head \in On(s) /\ l.head \in Procedure
         /\ \A q \in On(s) : q # l.head => Before(s, l.head, q)
         /\ \A p, q \in Procedure :
              Before(s, p, q) => /\ p \in On(s) /\ q \in On(s) /\ q # l.head
                                 /\ l.nextTime[p] <= l.nextTime[q]
         /\ \E w \in Seq(Procedure) :
              Popped(l, s, [l EXCEPT !.head = l.next[l.head]], w)
<1> DEFINE n == Len(s)
           w == Tail(s)
           m == [l EXCEPT !.head = l.next[l.head]]
<1>1. /\ l \in Lists /\ s \in Seq(Procedure) /\ n \in Nat
      /\ l.head = Nth(s, 1)
      /\ \A i \in 1..n : s[i] \in Procedure
  BY DEF IsList
<1>2. n >= 1 /\ l.head = s[1] /\ 1 \in 1..n
  BY <1>1, NthIs
<1>3. /\ w \in Seq(Procedure) /\ Len(w) = n - 1
      /\ \A i \in 1..n - 1 : w[i] = s[i + 1]
  BY <1>1, <1>2
<1>4. /\ m.head = l.next[l.head] /\ m.next = l.next /\ m.nextTime = l.nextTime
      /\ m \in Lists
  <2>1. /\ l = [head |-> l.head, next |-> l.next, nextTime |-> l.nextTime]
        /\ l.next \in [Procedure -> Procedure \cup {NoProcedure}]
        /\ l.nextTime \in [Procedure -> Int]
    BY <1>1 DEF Lists
  <2>2. m = [head |-> l.next[l.head], next |-> l.next, nextTime |-> l.nextTime]
    BY <2>1
  <2>3. l.head \in Procedure
    BY <1>1, <1>2
  <2>4. l.next[l.head] \in Procedure \cup {NoProcedure}
    BY <2>1, <2>3
  <2> HIDE DEF m
  <2> QED BY <2>1, <2>2, <2>4 DEF Lists
<1>5. /\ \A i, j \in 1..n : s[i] = s[j] => i = j
      /\ \A i \in 1..n : l.next[s[i]] = Nth(s, i + 1)
      /\ \A i, j \in 1..n : i < j => l.nextTime[s[i]] <= l.nextTime[s[j]]
  BY DEF IsList
<1> HIDE DEF n, w, m
<1>6. On(s) = {s[i] : i \in 1..n}
  BY DEF On, n
<1>7. ASSUME NEW q \in On(s), q # l.head
      PROVE  Before(s, l.head, q)
  <2>1. PICK j \in 1..n : s[j] = q
    BY <1>6
  <2>2. 1 < j
    BY <1>1, <1>2, <1>7, <2>1
  <2> QED BY <1>2, <2>1, <2>2 DEF Before, n
<1>8. ASSUME NEW p \in Procedure, NEW q \in Procedure, Before(s, p, q)
      PROVE  /\ p \in On(s) /\ q \in On(s) /\ q # l.head
             /\ l.nextTime[p] <= l.nextTime[q]
  <2>1. PICK i \in 1..n, j \in 1..n : i < j /\ s[i] = p /\ s[j] = q
    BY <1>8 DEF Before, n
  <2>2. j # 1
    BY <1>1, <2>1
  <2> QED BY <1>2, <1>5, <1>6, <2>1, <2>2
<1>9. \A i \in 1..n - 1 : i + 1 \in 1..n
  BY <1>1
<1>10. \A i \in 1..n : i # 1 => i - 1 \in 1..n - 1 /\ (i - 1) + 1 = i
  BY <1>1
<1>11. \A i \in Nat \ {0} : Nth(w, i) = Nth(s, i + 1)
  <2> SUFFICES ASSUME NEW i \in Nat \ {0} PROVE Nth(w, i) = Nth(s, i + 1)
    OBVIOUS
  <2>1. CASE i <= n - 1
    <3>1. i \in 1..n - 1 /\ i + 1 <= n
      BY <1>1, <2>1
    <3> QED BY <1>3, <2>1, <3>1 DEF Nth, n
  <2>2. CASE ~(i <= n - 1)
    <3>1. ~(i + 1 <= n)
      BY <1>1, <2>2
    <3> QED BY <1>3, <2>2, <3>1 DEF Nth, n
  <2> QED BY <2>1, <2>2
<1>12. IsList(m, w)
  <2>1. m.head = Nth(w, 1)
    <3>1. l.next[s[1]] = Nth(s, 2)
      BY <1>2, <1>5
    <3>2. Nth(w, 1) = Nth(s, 2)
      <4>1. 1 \in Nat \ {0} /\ 1 + 1 = 2
        OBVIOUS
      <4> QED BY <1>11, <4>1
    <3> QED BY <1>2, <1>4, <3>1, <3>2
  <2>2. ASSUME NEW i \in 1..n - 1
        PROVE  m.next[w[i]] = Nth(w, i + 1)
    <3>1. i + 1 \in 1..n /\ i + 1 \in Nat \ {0}
      BY <1>1
    <3> QED BY <1>3, <1>4, <1>5, <1>11, <3>1
  <2>3. ASSUME NEW i \in 1..n - 1, NEW j \in 1..n - 1, w[i] = w[j]
        PROVE  i = j
    <3>1. i + 1 = j + 1
      BY <1>3, <1>5, <1>9, <2>3
    <3> QED BY <1>1, <3>1
  <2>4. ASSUME NEW i \in 1..n - 1, NEW j \in 1..n - 1, i < j
        PROVE  m.nextTime[w[i]] <= m.nextTime[w[j]]
    <3>1. i + 1 < j + 1
      BY <1>1, <2>4
    <3> QED BY <1>3, <1>4, <1>5, <1>9, <3>1
  <2> QED BY <1>3, <1>4, <2>1, <2>2, <2>3, <2>4 DEF IsList
<1>13. On(w) = On(s) \ {l.head}
  <2>1. On(w) = {w[i] : i \in 1..n - 1}
    BY <1>3 DEF On
  <2>2. ASSUME NEW i \in 1..n - 1
        PROVE  w[i] \in On(s) /\ w[i] # l.head
    <3>1. i + 1 # 1
      BY <1>1
    <3> QED BY <1>2, <1>3, <1>5, <1>6, <1>9, <3>1
  <2>3. ASSUME NEW i \in 1..n, s[i] # l.head
        PROVE  \E a \in 1..n - 1 : w[a] = s[i]
    <3>1. i # 1
      BY <1>2, <2>3
    <3> QED BY <1>3, <1>10, <3>1
  <2> QED BY <1>6, <2>1, <2>2, <2>3
<1>14. ASSUME NEW p \in Procedure, NEW q \in Procedure, Before(w, p, q)
       PROVE  Before(s, p, q)
  <2>1. PICK i \in 1..n - 1, j \in 1..n - 1 : i < j /\ w[i] = p /\ w[j] = q
    BY <1>3, <1>14 DEF Before
  <2>2. i + 1 < j + 1
    BY <1>1, <2>1
  <2> QED BY <1>3, <1>9, <2>1, <2>2 DEF Before, n
<1>15. Popped(l, s, m, w)
  BY <1>4, <1>12, <1>13, <1>14 DEF Popped
<1>16. l.head \in On(s) /\ l.head \in Procedure
  BY <1>1, <1>2, <1>6
<1> QED BY <1>3, <1>7, <1>8, <1>15, <1>16 DEF m

\* What is before another is due no later.
LEMMA BeforeIs ==
  ASSUME NEW l, NEW s, IsList(l, s), NEW p, NEW q, Before(s, p, q)
  PROVE  /\ p \in On(s) /\ q \in On(s) /\ p # q
         /\ l.nextTime[p] <= l.nextTime[q]
<1>1. PICK i \in 1..Len(s), j \in 1..Len(s) : i < j /\ s[i] = p /\ s[j] = q
  BY DEF Before
<1>2. i # j
  BY <1>1
<1>3. p # q
  BY <1>1, <1>2 DEF IsList
<1>4. l.nextTime[s[i]] <= l.nextTime[s[j]]
  BY <1>1 DEF IsList
<1> QED BY <1>1, <1>3, <1>4 DEF On

\* There is a head when there is anything.
LEMMA OnIs ==
  ASSUME NEW l, NEW s, IsList(l, s)
  PROVE  On(s) \subseteq Procedure /\ (On(s) # {} => l.head # NoProcedure)
<1>1. s \in Seq(Procedure) /\ l.head = Nth(s, 1) /\ Len(s) \in Nat
  BY DEF IsList
<1>2. On(s) \subseteq Procedure
  BY <1>1 DEF On
<1>3. ASSUME On(s) # {} PROVE l.head # NoProcedure
  <2>1. Len(s) >= 1
    BY <1>1, <1>3 DEF On
  <2> QED BY <1>1, <2>1, NthIs
<1> QED BY <1>2, <1>3

ProcedureNames ==
  /\ "slistSend" \in Procedure /\ "slistPoll" \in Procedure
  /\ Query \subseteq Procedure
  /\ "slistSend" \notin Query /\ "slistPoll" \notin Query
  /\ "slistSend" # "slistPoll" /\ NoProcedure \notin Procedure
  /\ \A p \in Procedure : p \in Query \/ p = "slistSend" \/ p = "slistPoll"

\* The names differ.
LEMMA NamesAre == ProcedureNames
BY DEF ProcedureNames, Procedure, Query, NoProcedure

\* The constants are positive, and nothing compared is as early as LongAgo.
LEMMA ConstantsAre ==
  /\ SendPeriod \in Nat /\ SendPeriod > 0 /\ PollPeriod \in Nat /\ PollPeriod > 0
  /\ QueryPeriod \in Nat /\ QueryPeriod > 0 /\ MaxPolls \in Nat /\ MaxPolls > 0
  /\ SendUntil \in Nat /\ PollUntil \in Nat /\ MaxFrame \in Nat
  /\ LongAgo \in Int /\ LongAgo < -MaxFrame
  /\ Latest \in Nat
<1>1. /\ SendPeriod \in Nat /\ SendPeriod > 0 /\ PollPeriod \in Nat /\ PollPeriod > 0
      /\ QueryPeriod \in Nat /\ QueryPeriod > 0 /\ MaxPolls \in Nat /\ MaxPolls > 0
  BY PollingAssumption
<1>2. SendUntil \in Nat /\ PollUntil \in Nat /\ MaxFrame \in Nat
  BY TimesAssumption
<1> QED BY <1>1, <1>2 DEF LongAgo, Latest

\* What NET_Poll has run and not linked in anew: t is the list without it.
Unlinks(s, t) ==
  /\ IsList(list', t)
  /\ list'.nextTime = list.nextTime
  /\ list'.head = Nth(t, 1)
  /\ pp' = Nth(t, 1)
  /\ On(t) = On(s) \ {pp}
  /\ \A a, b \in Procedure : Before(t, a, b) => Before(s, a, b)

\* A procedure that runs, and is not scheduled again, has left the list.
LEMMA UnlinkIs ==
  ASSUME NEW s, IsList(list, s), StandsOn(s), NEW p \in Procedure, Runs(p),
         list' = Unlinked, Goes
  PROVE  /\ p \in On(s) /\ p = list.head
         /\ \A q \in On(s) : q # p => Before(s, p, q)
         /\ \E t \in Seq(Procedure) : Unlinks(s, t)
<1>1. pp = p /\ p # NoProcedure /\ polling /\ Due(p) /\ pp' = list'.next[p]
  BY NamesAre DEF Runs, Goes, ProcedureNames
<1>2. p = list.head
  BY <1>1 DEF StandsOn, IsList
<1>3. Unlinked = [list EXCEPT !.head = list.next[list.head]]
  BY <1>1, <1>2 DEF Unlinked
<1>4. /\ p \in On(s)
      /\ \A q \in On(s) : q # p => Before(s, p, q)
      /\ \E t \in Seq(Procedure) :
           Popped(list, s, [list EXCEPT !.head = list.next[list.head]], t)
  BY <1>1, <1>2, HeadPops
<1>5. PICK t \in Seq(Procedure) : Popped(list, s, list', t)
  BY <1>3, <1>4
<1>6. /\ IsList(list', t) /\ list'.nextTime = list.nextTime
      /\ list'.next = list.next /\ list'.head = list.next[list.head]
      /\ On(t) = On(s) \ {list.head}
      /\ \A a, b \in Procedure : Before(t, a, b) => Before(s, a, b)
  BY <1>5 DEF Popped
<1>7. list'.head = Nth(t, 1)
  BY <1>6 DEF IsList
<1>8. Unlinks(s, t)
  BY <1>1, <1>2, <1>6, <1>7 DEF Unlinks
<1> QED BY <1>2, <1>4, <1>8

\* What NET_Poll has run and that has linked itself in anew: the list is now w.
Relinks(s, p, offset, w) ==
  /\ IsList(list', w)
  /\ list'.nextTime = [list.nextTime EXCEPT ![p] = offset]
  /\ On(w) = On(s)
  /\ \A a, b \in Procedure \ {p} : Before(w, a, b) => Before(s, a, b)
  /\ \A b \in Procedure : Before(w, p, b) => list.nextTime[b] >= offset
  /\ pp' \in Procedure => list'.nextTime[pp'] >= offset
  /\ pp' \in Procedure \cup {NoProcedure}

\* One that is scheduled again stands behind what is due before.
LEMMA RelinkIs ==
  ASSUME NEW s, IsList(list, s), StandsOn(s), NEW p \in Procedure, Runs(p),
         NEW offset \in Int, list' = SchedulePollProcedure(Unlinked, p, offset),
         Goes
  PROVE  /\ p \in On(s)
         /\ \E w \in Seq(Procedure) : Relinks(s, p, offset, w)
<1>1. pp = p /\ p # NoProcedure /\ polling /\ Due(p) /\ pp' = list'.next[p]
  BY NamesAre DEF Runs, Goes, ProcedureNames
<1>2. p = list.head
  BY <1>1 DEF StandsOn, IsList
<1>3. Unlinked = [list EXCEPT !.head = list.next[list.head]]
  BY <1>1, <1>2 DEF Unlinked
<1>4. /\ p \in On(s)
      /\ \E t \in Seq(Procedure) :
           Popped(list, s, [list EXCEPT !.head = list.next[list.head]], t)
  BY <1>1, <1>2, HeadPops
<1>5. PICK t \in Seq(Procedure) : Popped(list, s, Unlinked, t)
  BY <1>3, <1>4
<1>6. /\ IsList(Unlinked, t) /\ Unlinked.nextTime = list.nextTime
      /\ On(t) = On(s) \ {p}
      /\ \A a, b \in Procedure : Before(t, a, b) => Before(s, a, b)
  BY <1>2, <1>5 DEF Popped
<1>7. PICK w \in Seq(Procedure) : Inserted(Unlinked, t, p, offset, list', w)
  BY <1>6, ScheduleInserts
<1>8. /\ IsList(list', w)
      /\ list'.nextTime = [Unlinked.nextTime EXCEPT ![p] = offset]
      /\ On(w) = On(t) \cup {p}
      /\ \A a, b \in Procedure \ {p} : Before(w, a, b) => Before(t, a, b)
      /\ \A b \in Procedure : Before(w, p, b) => Unlinked.nextTime[b] >= offset
      /\ list'.next[p] \in Procedure => list'.nextTime[list'.next[p]] >= offset
  BY <1>7 DEF Inserted
<1>9. list'.next[p] \in Procedure \cup {NoProcedure}
  BY <1>8 DEF IsList, Lists
<1>10. On(w) = On(s)
  BY <1>4, <1>6, <1>8
<1>11. Relinks(s, p, offset, w)
  BY <1>1, <1>6, <1>8, <1>9, <1>10 DEF Relinks
<1> QED BY <1>4, <1>11

\* Due compares integers.
LEMMA TimesAre ==
  ASSUME NEW l, NEW s, IsList(l, s)
  PROVE  l.nextTime \in [Procedure -> Int]
BY DEF IsList, Lists

\* What SendIs says while the search is on.
LEMMA SearchIs ==
  ASSUME PollTypes, NEW s, Scheduling(s), "slistSend" \in On(s),
         ~polling \/ pp # "slistSend" \/ slistAge < SendUntil
  PROVE  /\ slistInProgress
         /\ SendTime \in Int
         /\ SendTime = LongAgo \/ SendTime + slistAge <= Latest
         /\ SendTime > net_time => slistAge + SendTime <= Latest
<1>1. /\ SendIs(s) /\ IsList(list, s) /\ slistAge \in 0..PollUntil
      /\ net_time \in Int /\ -MaxFrame <= net_time
  BY DEF Scheduling, PollTypes
<1>2. slistAge \in Int /\ SendUntil \in Int
  BY <1>1, ConstantsAre
<1>3. ~(polling /\ pp = "slistSend" /\ Due(pp) /\ slistAge >= SendUntil)
  BY <1>2
<1>4. slistInProgress /\ (SendTime = LongAgo \/ SendTime + slistAge <= Latest)
  BY <1>1, <1>3 DEF SendIs
<1>5. SendTime \in Int
  BY <1>1, TimesAre, NamesAre DEF SendTime, ProcedureNames
<1>6. ASSUME SendTime > net_time PROVE slistAge + SendTime <= Latest
  <2>1. SendTime # LongAgo
    BY <1>1, <1>5, <1>6, ConstantsAre
  <2> QED BY <1>2, <1>4, <1>5, <2>1
<1> QED BY <1>4, <1>5, <1>6

\* NET_Slist_f: both procedures are scheduled, and neither was.
LEMMA SearchKeeps ==
  ASSUME PollTypes, NEW s, Scheduling(s), NET_Slist_f
  PROVE  \E w \in Seq(Procedure) : Scheduling(w)'
<1> DEFINE m == SchedulePollProcedure(list, "slistSend", 0)
<1>1. /\ ~polling /\ ~slistInProgress /\ slistInProgress' = TRUE /\ slistAge' = 0
      /\ list' = SchedulePollProcedure(m, "slistPoll", PollPeriod)
      /\ UNCHANGED <<polling, pp, net_time, testInProgress, testPollCount, openSockets>>
  BY DEF NET_Slist_f, testVars
<1>2. /\ IsList(list, s) /\ "slistPoll" \notin On(s) /\ SendIs(s) /\ QueriesAre(s)
  BY <1>1 DEF Scheduling
<1>3. "slistSend" \notin On(s)
  BY <1>1, <1>2 DEF SendIs
<1>4. ProcedureNames /\ 0 \in Int /\ PollPeriod \in Int
  BY NamesAre, ConstantsAre
<1>5. PICK t \in Seq(Procedure) : Inserted(list, s, "slistSend", 0, m, t)
  BY <1>2, <1>3, <1>4, ScheduleInserts DEF ProcedureNames
<1>6. /\ IsList(m, t) /\ On(t) = On(s) \cup {"slistSend"}
      /\ m.nextTime = [list.nextTime EXCEPT !["slistSend"] = 0]
  BY <1>5 DEF Inserted
<1> HIDE DEF m
<1>7. "slistPoll" \notin On(t)
  BY <1>2, <1>4, <1>6 DEF ProcedureNames
<1>8. PICK w \in Seq(Procedure) :
        Inserted(m, t, "slistPoll", PollPeriod, list', w)
  BY <1>1, <1>4, <1>6, <1>7, ScheduleInserts DEF ProcedureNames
<1>9. /\ IsList(list', w) /\ On(w) = On(t) \cup {"slistPoll"}
      /\ list'.nextTime = [m.nextTime EXCEPT !["slistPoll"] = PollPeriod]
      /\ \A q \in Procedure : Before(w, "slistPoll", q) => m.nextTime[q] >= PollPeriod
  BY <1>8 DEF Inserted
<1>10. m.nextTime["slistSend"] = 0 /\ list'.nextTime["slistSend"] = 0
  BY <1>2, <1>4, <1>6, <1>9, TimesAre DEF ProcedureNames
<1>11. SendIs(w)'
  BY <1>1, <1>10, ConstantsAre DEF SendIs, SendTime
<1>12. ~Before(w, "slistPoll", "slistSend")
  <2> SUFFICES ASSUME Before(w, "slistPoll", "slistSend") PROVE FALSE
    OBVIOUS
  <2>1. 0 >= PollPeriod
    BY <1>4, <1>9, <1>10 DEF ProcedureNames
  <2> QED BY <2>1, ConstantsAre
<1>13. SendIsSoon(w)'
  BY <1>12 DEF SendIsSoon, BothBefore
<1>14. QueriesAre(w)'
  <2>1. On(w) \cap Query = On(s) \cap Query
    BY <1>4, <1>6, <1>9 DEF ProcedureNames
  <2> QED BY <1>1, <1>2, <2>1 DEF QueriesAre
<1>15. StandsOn(w)'
  BY <1>1 DEF StandsOn
<1>16. (slistInProgress <=> "slistPoll" \in On(w))'
  BY <1>1, <1>9
<1>17. IsList(list, w)'
  BY <1>9
<1>18. Scheduling(w)'
  BY <1>11, <1>13, <1>14, <1>15, <1>16, <1>17 DEF Scheduling
<1> QED BY <1>18

\* Test_f, Test2_f, Rcon_f: nothing was in progress.
LEMMA QueryKeeps ==
  ASSUME PollTypes, NEW s, Scheduling(s), NEW query \in Query, Query_f(query)
  PROVE  \E w \in Seq(Procedure) : Scheduling(w)'
<1>1. /\ ~polling /\ ~testInProgress /\ openSockets' = openSockets + 1
      /\ testInProgress' = TRUE /\ testPollCount' = MaxPolls
      /\ list' = SchedulePollProcedure(list, query, QueryPeriod)
      /\ UNCHANGED <<polling, pp, net_time, slistInProgress, slistAge>>
  BY DEF Query_f, slistVars
<1>2. /\ IsList(list, s) /\ QueriesAre(s) /\ SendIs(s)
      /\ slistInProgress <=> "slistPoll" \in On(s)
      /\ net_time \in Int /\ net_time <= 0
  BY DEF Scheduling, PollTypes
<1>3. On(s) \cap Query = {} /\ openSockets = 0
  BY <1>1, <1>2 DEF QueriesAre
<1>4. /\ ProcedureNames /\ QueryPeriod \in Int /\ query \notin On(s)
      /\ query \in Procedure /\ query # "slistSend" /\ query # "slistPoll"
  BY <1>3, NamesAre, ConstantsAre DEF ProcedureNames
<1>5. PICK w \in Seq(Procedure) : Inserted(list, s, query, QueryPeriod, list', w)
  BY <1>1, <1>2, <1>4, ScheduleInserts
<1>6. /\ IsList(list', w) /\ On(w) = On(s) \cup {query}
      /\ list'.nextTime = [list.nextTime EXCEPT ![query] = QueryPeriod]
      /\ \A q \in Procedure : Before(w, query, q) => list.nextTime[q] >= QueryPeriod
  BY <1>5 DEF Inserted
<1>7. list'.nextTime["slistSend"] = SendTime /\ SendTime \in Int
  BY <1>2, <1>4, <1>6, TimesAre DEF SendTime, ProcedureNames
<1>8. SendIs(w)'
  BY <1>1, <1>2, <1>4, <1>6, <1>7 DEF SendIs, SendTime
<1>9. SendIsSoon(w)'
  <2> SUFFICES ASSUME BothBefore(w) PROVE SendTime' > net_time'
    BY DEF SendIsSoon, BothBefore
  <2>1. PICK q \in Query : Before(w, q, "slistSend")
    BY DEF BothBefore
  <2>2. q \in On(w)
    BY <1>6, <2>1, BeforeIs
  <2>3. q = query
    BY <1>3, <1>6, <2>2
  <2>4. SendTime >= QueryPeriod
    BY <1>4, <1>6, <2>1, <2>3 DEF SendTime, ProcedureNames
  <2>5. SendTime' = SendTime
    BY <1>7 DEF SendTime
  <2> QED BY <1>1, <1>2, <1>7, <2>4, <2>5, ConstantsAre
<1>10. QueriesAre(w)'
  <2>1. On(w) \cap Query = {query}
    BY <1>3, <1>6
  <2> QED BY <1>1, <1>3, <2>1, ConstantsAre DEF QueriesAre
<1>11. StandsOn(w)'
  BY <1>1 DEF StandsOn
<1>12. (slistInProgress <=> "slistPoll" \in On(w))'
  BY <1>1, <1>2, <1>4, <1>6
<1>13. IsList(list, w)'
  BY <1>6
<1>14. Scheduling(w)'
  BY <1>8, <1>9, <1>10, <1>11, <1>12, <1>13 DEF Scheduling
<1> QED BY <1>14

\* NET_Poll begins, and what was due in an earlier frame is due.
LEMMA PollKeeps ==
  ASSUME PollTypes, NEW s \in Seq(Procedure), Scheduling(s), NET_Poll
  PROVE  Scheduling(s)'
<1>1. /\ ~polling /\ polling' = TRUE /\ net_time' = 0 /\ pp' = list.head
      /\ UNCHANGED <<list, slistInProgress, slistAge, testInProgress,
                     testPollCount, openSockets>>
  BY DEF NET_Poll, slistVars, testVars
<1>2. /\ IsList(list, s) /\ SendIs(s) /\ SendIsSoon(s) /\ QueriesAre(s)
      /\ slistInProgress <=> "slistPoll" \in On(s)
      /\ slistAge \in Int /\ net_time \in Int /\ -MaxFrame <= net_time
  BY DEF Scheduling, PollTypes
<1>3. pp' = Nth(s, 1)
  BY <1>1, <1>2 DEF IsList
<1>4. StandsOn(s)'
  BY <1>3 DEF StandsOn
<1>5. SendTime' = SendTime
  BY <1>1 DEF SendTime
<1>6. SendIs(s)'
  BY <1>1, <1>2, <1>5 DEF SendIs
<1>7. SendIsSoon(s)'
  <2> SUFFICES ASSUME BothBefore(s)
               PROVE  slistAge' + net_time' < Latest + MaxFrame
    BY <1>1, <1>3 DEF SendIsSoon, BothBefore
  <2>1. SendTime > net_time
    BY <1>1, <1>2 DEF SendIsSoon
  <2>2. "slistSend" \in On(s)
    BY <1>2, BeforeIs DEF BothBefore
  <2>3. slistAge + SendTime <= Latest /\ SendTime \in Int
    BY <1>1, <2>1, <2>2, SearchIs
  <2> QED BY <1>1, <1>2, <2>1, <2>3, ConstantsAre
<1>8. QueriesAre(s)' /\ (slistInProgress <=> "slistPoll" \in On(s))'
      /\ IsList(list, s)'
  BY <1>1, <1>2 DEF QueriesAre
<1> QED BY <1>4, <1>6, <1>7, <1>8 DEF Scheduling

\* NET_Poll is done: nothing is due that stands before where it was.
LEMMA ReturnKeeps ==
  ASSUME PollTypes, NEW s \in Seq(Procedure), Scheduling(s), PollReturns
  PROVE  Scheduling(s)'
<1>1. /\ polling
      /\ pp # NoProcedure => ~Due(pp)
      /\ polling' = FALSE /\ pp' = NoProcedure
      /\ UNCHANGED <<list, net_time, slistInProgress, slistAge, testInProgress,
                     testPollCount, openSockets>>
  BY DEF PollReturns, slistVars, testVars
<1>2. /\ IsList(list, s) /\ SendIs(s) /\ SendIsSoon(s) /\ QueriesAre(s)
      /\ slistInProgress <=> "slistPoll" \in On(s)
      /\ net_time \in Int
  BY DEF Scheduling, PollTypes
<1>3. StandsOn(s)'
  BY <1>1 DEF StandsOn
<1>4. SendTime' = SendTime
  BY <1>1 DEF SendTime
<1>5. "slistSend" # NoProcedure
  BY DEF NoProcedure
<1>6. SendIs(s)'
  BY <1>1, <1>2, <1>4, <1>5 DEF SendIs
<1>7. SendIsSoon(s)'
  <2> SUFFICES ASSUME BothBefore(s), ~(SendTime > net_time) PROVE FALSE
    BY <1>1, <1>4 DEF SendIsSoon, BothBefore
  <2>1. pp = Nth(s, 1)
    BY <1>2 DEF SendIsSoon
  <2>2. "slistPoll" \in On(s) /\ "slistSend" \in On(s)
    BY <1>2, BeforeIs DEF BothBefore
  <2>3. list.head # NoProcedure /\ list.head = pp
    BY <1>2, <2>1, <2>2, OnIs DEF IsList
  <2>4. list.nextTime[list.head] <= SendTime
    <3>1. CASE list.head = "slistSend"
      <4>1. SendTime \in Int
        BY <1>2, TimesAre, NamesAre DEF SendTime, ProcedureNames
      <4> QED BY <3>1, <4>1 DEF SendTime
    <3>2. CASE list.head # "slistSend"
      <4>1. Before(s, list.head, "slistSend")
        BY <1>2, <2>2, <2>3, <3>2, HeadPops
      <4> QED BY <1>2, <4>1, BeforeIs DEF SendTime
    <3> QED BY <3>1, <3>2
  <2>5. list.head \in Procedure
    BY <1>2, <2>3, HeadPops
  <2>6. list.nextTime[list.head] \in Int /\ SendTime \in Int
    BY <1>2, <2>5, TimesAre, NamesAre DEF SendTime, ProcedureNames
  <2>7. Due(pp)
    BY <1>2, <2>3, <2>4, <2>6 DEF Due
  <2> QED BY <1>1, <2>3, <2>7
<1>8. QueriesAre(s)' /\ (slistInProgress <=> "slistPoll" \in On(s))'
      /\ IsList(list, s)'
  BY <1>1, <1>2 DEF QueriesAre
<1> QED BY <1>3, <1>6, <1>7, <1>8 DEF Scheduling

\* Time passes: what is due stays due, and nothing else becomes due.
LEMMA TickKeeps ==
  ASSUME PollTypes, NEW s \in Seq(Procedure), Scheduling(s), Tick
  PROVE  Scheduling(s)'
<1>1. /\ net_time > -MaxFrame /\ net_time' = net_time - 1
      /\ list' = [list EXCEPT !.nextTime = [p \in Procedure |-> Later(@[p])]]
      /\ slistAge' = IF slistAge = PollUntil THEN slistAge ELSE slistAge + 1
      /\ UNCHANGED <<polling, pp, slistInProgress, testInProgress, testPollCount,
                     openSockets>>
  BY DEF Tick, testVars
<1>2. /\ IsList(list, s) /\ SendIs(s) /\ SendIsSoon(s) /\ QueriesAre(s)
      /\ StandsOn(s)
      /\ slistInProgress <=> "slistPoll" \in On(s)
      /\ net_time \in Int /\ slistAge \in Int
      /\ pp \in Procedure \cup {NoProcedure}
  BY DEF Scheduling, PollTypes
<1>3. /\ list = [head |-> list.head, next |-> list.next,
                 nextTime |-> list.nextTime]
      /\ list.nextTime \in [Procedure -> Int]
      /\ list.head \in Procedure \cup {NoProcedure}
      /\ list.next \in [Procedure -> Procedure \cup {NoProcedure}]
  BY <1>2 DEF IsList, Lists
<1>4. /\ list'.head = list.head /\ list'.next = list.next
      /\ list'.nextTime = [p \in Procedure |-> Later(list.nextTime[p])]
      /\ list' = [head |-> list'.head, next |-> list'.next,
                  nextTime |-> list'.nextTime]
  BY <1>1, <1>3
<1>5. \A t \in Int : Later(t) \in Int /\ Later(t) <= t
  BY ConstantsAre DEF Later
<1>6. \A t, u \in Int : t <= u => Later(t) <= Later(u)
  <2> SUFFICES ASSUME NEW t \in Int, NEW u \in Int, t <= u
               PROVE  Later(t) <= Later(u)
    OBVIOUS
  <2> QED BY ConstantsAre DEF Later
<1>7. /\ list'.nextTime \in [Procedure -> Int]
      /\ \A p \in Procedure : list'.nextTime[p] = Later(list.nextTime[p])
  BY <1>3, <1>4, <1>5
<1>8. IsList(list', s)
  <2>1. list' \in Lists
    BY <1>3, <1>4, <1>7 DEF Lists
  <2>2. ASSUME NEW i \in 1..Len(s), NEW j \in 1..Len(s), i < j
        PROVE  list'.nextTime[s[i]] <= list'.nextTime[s[j]]
    <3>1. s[i] \in Procedure /\ s[j] \in Procedure
      OBVIOUS
    <3>2. list.nextTime[s[i]] <= list.nextTime[s[j]]
      BY <1>2, <2>2 DEF IsList
    <3>3. list.nextTime[s[i]] \in Int /\ list.nextTime[s[j]] \in Int
      BY <1>3, <3>1
    <3> QED BY <1>6, <1>7, <3>1, <3>2, <3>3
  <2> QED BY <1>2, <1>4, <2>1, <2>2 DEF IsList
<1>9. \A p \in Procedure : list'.nextTime[p] <= net_time'
                             <=> list.nextTime[p] <= net_time
  <2> SUFFICES ASSUME NEW p \in Procedure
               PROVE  list'.nextTime[p] <= net_time'
                        <=> list.nextTime[p] <= net_time
    OBVIOUS
  <2>1. list.nextTime[p] \in Int /\ list'.nextTime[p] = Later(list.nextTime[p])
    BY <1>3, <1>7
  <2>2. \A t \in Int : Later(t) <= net_time - 1 <=> t <= net_time
    BY <1>1, <1>2, ConstantsAre DEF Later
  <2> QED BY <1>1, <2>1, <2>2
<1>10. pp # NoProcedure => (Due(pp)' <=> Due(pp))
  <2> SUFFICES ASSUME pp # NoProcedure PROVE Due(pp)' <=> Due(pp)
    OBVIOUS
  <2>1. pp \in Procedure /\ pp' = pp
    BY <1>1, <1>2
  <2>2. list'.nextTime[pp] <= net_time' <=> list.nextTime[pp] <= net_time
    BY <1>9, <2>1
  <2> QED BY <2>1, <2>2 DEF Due
<1>11. StandsOn(s)'
  BY <1>1, <1>2, <1>10 DEF StandsOn
<1>12. /\ SendTime \in Int /\ SendTime' = Later(SendTime)
       /\ SendTime' <= net_time' <=> SendTime <= net_time
  BY <1>3, <1>7, <1>9, NamesAre DEF SendTime, ProcedureNames
<1>13. /\ slistAge' \in Int /\ net_time' \in Int /\ slistAge <= slistAge'
       /\ slistAge' + net_time' <= slistAge + net_time
       /\ slistAge' <= slistAge + 1
  BY <1>1, <1>2
<1>14. SendIs(s)'
  <2> SUFFICES ASSUME "slistSend" \in On(s)
               PROVE  \/ /\ slistInProgress'
                         /\ SendTime' = LongAgo \/ SendTime' + slistAge' <= Latest
                      \/ /\ polling' /\ pp' = "slistSend" /\ Due(pp)'
                         /\ slistAge' >= SendUntil
    BY DEF SendIs
  <2>1. CASE slistInProgress /\ SendTime = LongAgo
    <3>1. SendTime' = LongAgo
      BY <1>12, <2>1 DEF Later
    <3> QED BY <1>1, <2>1, <3>1
  <2>2. CASE slistInProgress /\ SendTime # LongAgo /\ SendTime + slistAge <= Latest
    <3>1. SendTime' = SendTime - 1
      BY <1>12, <2>2 DEF Later
    <3>2. /\ SendTime \in Int /\ slistAge \in Int /\ slistAge' \in Int
          /\ slistAge' <= slistAge + 1 /\ Latest \in Int
      BY <1>2, <1>12, <1>13, ConstantsAre
    <3>3. SendTime' \in Int
      BY <1>5, <1>12
    <3>4. SendTime' + slistAge' <= Latest
      <4>1. SendTime' + slistAge' = (SendTime - 1) + slistAge'
        BY <3>1
      <4>2. (SendTime - 1) + slistAge' <= SendTime + slistAge
        <5>1. \A a, b, y \in Int : y <= b + 1 => (a - 1) + y <= a + b
          OBVIOUS
        <5>2. SendTime \in Int /\ slistAge \in Int /\ slistAge' \in Int
          BY <3>2
        <5>3. slistAge' <= slistAge + 1
          BY <3>2
        <5> QED BY <5>1, <5>2, <5>3, Zenon
      <4>3. SendTime + slistAge <= Latest
        BY <2>2
      <4>4. /\ (SendTime - 1) + slistAge' \in Int /\ SendTime + slistAge \in Int
            /\ Latest \in Int
        BY <3>2
      <4>5. (SendTime - 1) + slistAge' <= Latest
        BY <4>2, <4>3, <4>4
      <4> QED BY <4>1, <4>5
    <3> QED BY <1>1, <2>2, <3>4
  <2>3. CASE polling /\ pp = "slistSend" /\ Due(pp) /\ slistAge >= SendUntil
    <3>1. pp # NoProcedure
      BY <2>3 DEF NoProcedure
    <3>2. slistAge' >= SendUntil
      BY <1>2, <1>13, <2>3, ConstantsAre
    <3> QED BY <1>1, <1>10, <2>3, <3>1, <3>2
  <2> QED BY <1>2, <2>1, <2>2, <2>3 DEF SendIs
<1>15. SendIsSoon(s)'
  <2> SUFFICES ASSUME BothBefore(s)
               PROVE  \/ SendTime' > net_time'
                      \/ /\ polling' /\ pp' = Nth(s, 1)
                         /\ slistAge' + net_time' < Latest + MaxFrame
    BY DEF SendIsSoon, BothBefore
  <2>1. CASE SendTime > net_time
    <3>1. SendTime' \in Int
      BY <1>5, <1>12
    <3> QED BY <1>2, <1>12, <1>13, <2>1, <3>1
  <2>2. CASE polling /\ pp = Nth(s, 1) /\ slistAge + net_time < Latest + MaxFrame
    <3> DEFINE sum == slistAge + net_time
               bound == Latest + MaxFrame
    <3>1. sum \in Int /\ bound \in Int /\ sum < bound
      BY <1>2, <2>2, ConstantsAre
    <3>2. sum' \in Int /\ sum' <= sum
      BY <1>13
    <3> HIDE DEF sum, bound
    <3>3. sum' < bound
      BY <3>1, <3>2
    <3>4. slistAge' + net_time' < Latest + MaxFrame
      BY <3>3 DEF sum, bound
    <3> QED BY <1>1, <2>2, <3>4
  <2> QED BY <1>2, <2>1, <2>2 DEF SendIsSoon
<1>16. QueriesAre(s)' /\ (slistInProgress <=> "slistPoll" \in On(s))'
  BY <1>1, <1>2 DEF QueriesAre
<1> QED BY <1>8, <1>11, <1>14, <1>15, <1>16 DEF Scheduling

\* What stands where NET_Poll goes on is not due when the procedure it has just
\* run is behind it in the list.
LEMMA RelinkStands ==
  ASSUME PollTypes, NEW s, NEW p, NEW offset \in Nat, offset > 0, NEW w,
         Relinks(s, p, offset, w), UNCHANGED net_time
  PROVE  StandsOn(w)'
<1> SUFFICES ASSUME pp' # NoProcedure PROVE ~(list'.nextTime[pp'] <= net_time')
  BY DEF StandsOn, Due
<1>1. /\ pp' \in Procedure /\ list'.nextTime[pp'] >= offset
      /\ list'.nextTime \in [Procedure -> Int]
  BY TimesAre DEF Relinks
<1>2. list'.nextTime[pp'] \in Int /\ net_time' = net_time
      /\ net_time \in Int /\ net_time <= 0
  BY <1>1 DEF PollTypes
<1> QED BY <1>1, <1>2

\* Slist_Send: again, in the first half second, or never.
LEMMA SendKeeps ==
  ASSUME PollTypes, NEW s, Scheduling(s), Slist_Send
  PROVE  \E w \in Seq(Procedure) : Scheduling(w)'
<1>1. /\ Runs("slistSend") /\ Goes
      /\ list' = IF slistAge < SendUntil
                 THEN SchedulePollProcedure(Unlinked, "slistSend", SendPeriod)
                 ELSE Unlinked
      /\ UNCHANGED <<polling, net_time, slistInProgress, slistAge,
                     testInProgress, testPollCount, openSockets>>
  BY DEF Slist_Send, Goes, slistVars, testVars
<1>2. /\ IsList(list, s) /\ SendIs(s) /\ QueriesAre(s) /\ StandsOn(s)
      /\ slistInProgress <=> "slistPoll" \in On(s)
      /\ net_time \in Int /\ net_time <= 0 /\ slistAge \in Int
  BY DEF Scheduling, PollTypes
<1>3. ProcedureNames /\ SendPeriod \in Int /\ SendPeriod \in Nat /\ SendPeriod > 0
  BY NamesAre, ConstantsAre
<1>4. CASE slistAge < SendUntil
  <2>1. list' = SchedulePollProcedure(Unlinked, "slistSend", SendPeriod)
    BY <1>1, <1>4
  <2>2. "slistSend" \in On(s)
        /\ \E w \in Seq(Procedure) : Relinks(s, "slistSend", SendPeriod, w)
    BY <1>1, <1>2, <1>3, <2>1, RelinkIs DEF ProcedureNames
  <2>3. PICK w \in Seq(Procedure) : Relinks(s, "slistSend", SendPeriod, w)
    BY <2>2
  <2>4. /\ IsList(list', w) /\ On(w) = On(s)
        /\ list'.nextTime = [list.nextTime EXCEPT !["slistSend"] = SendPeriod]
    BY <2>3 DEF Relinks
  <2>5. list'.nextTime["slistSend"] = SendPeriod
    BY <1>2, <1>3, <2>4, TimesAre DEF ProcedureNames
  <2>6. SendTime' = SendPeriod
    BY <2>5 DEF SendTime
  <2>7. slistInProgress
    BY <1>4, <2>2, SearchIs
  <2>8. SendPeriod + slistAge <= Latest
    BY <1>2, <1>4, ConstantsAre DEF Latest
  <2>9. SendIs(w)'
    BY <1>1, <2>6, <2>7, <2>8 DEF SendIs
  <2>10. SendIsSoon(w)'
    BY <1>1, <1>2, <1>3, <2>6 DEF SendIsSoon
  <2>11. StandsOn(w)'
    BY <1>1, <1>3, <2>3, RelinkStands
  <2>12. QueriesAre(w)' /\ (slistInProgress <=> "slistPoll" \in On(w))'
    BY <1>1, <1>2, <2>4 DEF QueriesAre
  <2>13. Scheduling(w)'
    BY <2>4, <2>9, <2>10, <2>11, <2>12 DEF Scheduling
  <2> QED BY <2>13
<1>5. CASE ~(slistAge < SendUntil)
  <2>1. list' = Unlinked
    BY <1>1, <1>5
  <2>2. \E t \in Seq(Procedure) : Unlinks(s, t)
    BY <1>1, <1>2, <1>3, <2>1, UnlinkIs DEF ProcedureNames
  <2>3. PICK t \in Seq(Procedure) : Unlinks(s, t)
    BY <2>2
  <2>4. /\ IsList(list', t) /\ On(t) = On(s) \ {"slistSend"} /\ pp' = Nth(t, 1)
    BY <1>1, <2>3 DEF Unlinks, Runs
  <2>5. SendIs(t)'
    BY <2>4 DEF SendIs
  <2>6. ~Before(t, "slistPoll", "slistSend")
    BY <2>4, BeforeIs
  <2>7. SendIsSoon(t)'
    BY <2>6 DEF SendIsSoon, BothBefore
  <2>8. StandsOn(t)'
    BY <2>4 DEF StandsOn
  <2>9. On(t) \cap Query = On(s) \cap Query /\ "slistSend" # "slistPoll"
    BY <1>3, <2>4 DEF ProcedureNames
  <2>10. QueriesAre(t)' /\ (slistInProgress <=> "slistPoll" \in On(t))'
    BY <1>1, <1>2, <2>4, <2>9 DEF QueriesAre
  <2>11. Scheduling(t)'
    BY <2>4, <2>5, <2>7, <2>8, <2>10 DEF Scheduling
  <2> QED BY <2>11
<1> QED BY <1>4, <1>5

\* When a search is over, Slist_Send is gone or is the next to run.
LEMMA SearchEnds ==
  ASSUME SendsInTime, PollTypes, NEW s, Scheduling(s), Runs("slistPoll"),
         ~(slistAge < PollUntil), NEW t, Unlinks(s, t),
         "slistSend" \in On(t), "slistPoll" = list.head,
         \A q \in On(s) : q # "slistPoll" => Before(s, "slistPoll", q)
  PROVE  /\ pp' = "slistSend" /\ SendTime <= net_time /\ slistAge >= SendUntil
<1>1. /\ IsList(list, s) /\ SendIsSoon(s) /\ slistAge = PollUntil
      /\ slistAge \in Int /\ net_time \in Int /\ -MaxFrame <= net_time
      /\ net_time <= 0 /\ PollUntil \in Int /\ pp = "slistPoll"
  BY ConstantsAre DEF Scheduling, PollTypes, Runs
<1>2. /\ IsList(list', t) /\ list'.head = Nth(t, 1) /\ pp' = Nth(t, 1)
      /\ On(t) = On(s) \ {"slistPoll"}
      /\ \A a, b \in Procedure : Before(t, a, b) => Before(s, a, b)
  BY <1>1 DEF Unlinks
<1>3. ProcedureNames
  BY NamesAre
<1>4. "slistSend" \in On(s) /\ pp # "slistSend"
  BY <1>1, <1>2, <1>3 DEF ProcedureNames
<1>5. SendTime \in Int /\ (SendTime > net_time => slistAge + SendTime <= Latest)
  BY <1>4, SearchIs
<1>6. /\ Latest \in Int /\ MaxFrame \in Nat /\ SendUntil \in Nat
      /\ SendPeriod \in Nat /\ SendPeriod > 0
      /\ Latest + 2 * MaxFrame <= PollUntil
  BY ConstantsAre DEF SendsInTime
<1>7. SendTime <= net_time
  <2> SUFFICES ASSUME SendTime > net_time PROVE FALSE
    BY <1>1, <1>5
  <2>1. PollUntil + SendTime <= Latest
    BY <1>1, <1>5
  <2> QED BY <1>1, <1>5, <1>6, <2>1
<1>8. slistAge >= SendUntil
  <2>1. SendUntil <= Latest
    BY <1>6 DEF Latest
  <2> QED BY <1>1, <1>6, <2>1
<1>9. pp' = "slistSend"
  <2> SUFFICES ASSUME pp' # "slistSend" PROVE FALSE
    OBVIOUS
  <2>1. list'.head # NoProcedure /\ pp' = list'.head
    BY <1>2, OnIs
  <2>2. pp' \in On(t) /\ pp' \in Procedure /\ Before(t, pp', "slistSend")
    BY <1>2, <2>1, HeadPops
  <2>3. pp' # "slistPoll"
    BY <1>2, <2>2
  <2>4. pp' \in Query
    BY <1>3, <2>2, <2>3 DEF ProcedureNames
  <2>5. Before(s, pp', "slistSend")
    BY <1>2, <1>3, <2>2 DEF ProcedureNames
  <2>6. Before(s, "slistPoll", "slistSend")
    BY <1>3, <1>4 DEF ProcedureNames
  <2>7. BothBefore(s)
    BY <2>4, <2>5, <2>6 DEF BothBefore
  <2>8. slistAge + net_time < Latest + MaxFrame
    BY <1>1, <1>5, <1>7, <2>7 DEF SendIsSoon
  <2> QED BY <1>1, <1>6, <2>8
<1> QED BY <1>7, <1>8, <1>9

\* Slist_Poll: again, or the search is over and Slist_Send runs next or is gone.
LEMMA SlistPollKeeps ==
  ASSUME SendsInTime, PollTypes, NEW s, Scheduling(s), Slist_Poll
  PROVE  \E w \in Seq(Procedure) : Scheduling(w)'
<1>1. /\ Runs("slistPoll") /\ Goes
      /\ IF slistAge < PollUntil
         THEN /\ list' = SchedulePollProcedure(Unlinked, "slistPoll", PollPeriod)
              /\ slistInProgress' = slistInProgress
         ELSE list' = Unlinked /\ slistInProgress' = FALSE
      /\ UNCHANGED <<polling, net_time, slistAge, testInProgress, testPollCount,
                     openSockets>>
  BY DEF Slist_Poll, Goes, testVars
<1>2. /\ IsList(list, s) /\ SendIs(s) /\ QueriesAre(s) /\ StandsOn(s)
      /\ slistInProgress <=> "slistPoll" \in On(s)
      /\ net_time \in Int /\ net_time <= 0
  BY DEF Scheduling, PollTypes
<1>3. /\ ProcedureNames /\ PollPeriod \in Int /\ PollPeriod \in Nat
      /\ PollPeriod > 0
  BY NamesAre, ConstantsAre
<1>4. polling /\ pp = "slistPoll" /\ pp # "slistSend"
  BY <1>1, <1>3 DEF Runs, ProcedureNames
<1>5. SendTime \in Int
  BY <1>2, <1>3, TimesAre DEF SendTime, ProcedureNames
<1>6. CASE slistAge < PollUntil
  <2>1. list' = SchedulePollProcedure(Unlinked, "slistPoll", PollPeriod)
        /\ slistInProgress' = slistInProgress
    BY <1>1, <1>6
  <2>2. "slistPoll" \in On(s)
        /\ \E w \in Seq(Procedure) : Relinks(s, "slistPoll", PollPeriod, w)
    BY <1>1, <1>2, <1>3, <2>1, RelinkIs DEF ProcedureNames
  <2>3. PICK w \in Seq(Procedure) : Relinks(s, "slistPoll", PollPeriod, w)
    BY <2>2
  <2>4. /\ IsList(list', w) /\ On(w) = On(s)
        /\ list'.nextTime = [list.nextTime EXCEPT !["slistPoll"] = PollPeriod]
        /\ \A b \in Procedure :
             Before(w, "slistPoll", b) => list.nextTime[b] >= PollPeriod
    BY <2>3 DEF Relinks
  <2>5. list'.nextTime["slistSend"] = list.nextTime["slistSend"]
    BY <1>2, <1>3, <2>4, TimesAre DEF ProcedureNames
  <2>6. SendTime' = SendTime
    BY <2>5 DEF SendTime
  <2>7. SendIs(w)'
    <3>1. "slistSend" \in On(w) =>
            slistInProgress /\ (SendTime = LongAgo \/ SendTime + slistAge <= Latest)
      BY <1>4, <2>4, SearchIs
    <3> QED BY <1>1, <2>1, <2>6, <3>1 DEF SendIs
  <2>8. SendIsSoon(w)'
    <3> SUFFICES ASSUME Before(w, "slistPoll", "slistSend")
                 PROVE  SendTime' > net_time'
      BY DEF SendIsSoon, BothBefore
    <3>1. SendTime >= PollPeriod
      BY <1>3, <2>4 DEF SendTime, ProcedureNames
    <3> QED BY <1>1, <1>2, <1>3, <1>5, <2>6, <3>1
  <2>9. StandsOn(w)'
    BY <1>1, <1>3, <2>3, RelinkStands
  <2>10. QueriesAre(w)' /\ (slistInProgress <=> "slistPoll" \in On(w))'
    BY <1>1, <1>2, <2>1, <2>4 DEF QueriesAre
  <2>11. Scheduling(w)'
    BY <2>4, <2>7, <2>8, <2>9, <2>10 DEF Scheduling
  <2> QED BY <2>11
<1>7. CASE ~(slistAge < PollUntil)
  <2>1. list' = Unlinked /\ slistInProgress' = FALSE
    BY <1>1, <1>7
  <2>2. /\ "slistPoll" = list.head
        /\ \A q \in On(s) : q # "slistPoll" => Before(s, "slistPoll", q)
        /\ \E t \in Seq(Procedure) : Unlinks(s, t)
    BY <1>1, <1>2, <1>3, <2>1, UnlinkIs DEF ProcedureNames
  <2>3. PICK t \in Seq(Procedure) : Unlinks(s, t)
    BY <2>2
  <2>4. /\ IsList(list', t) /\ On(t) = On(s) \ {"slistPoll"} /\ pp' = Nth(t, 1)
        /\ list'.nextTime = list.nextTime
    BY <1>4, <2>3 DEF Unlinks
  <2>5. SendIs(t)'
    <3> SUFFICES ASSUME "slistSend" \in On(t)
                 PROVE  /\ polling' /\ pp' = "slistSend" /\ Due(pp)'
                        /\ slistAge' >= SendUntil
      BY DEF SendIs
    <3>1. pp' = "slistSend" /\ SendTime <= net_time /\ slistAge >= SendUntil
      BY <1>1, <1>7, <2>2, <2>3, SearchEnds
    <3> QED BY <1>1, <1>4, <2>4, <3>1 DEF Due, SendTime
  <2>6. ~Before(t, "slistPoll", "slistSend")
    BY <2>4, BeforeIs
  <2>7. SendIsSoon(t)'
    BY <2>6 DEF SendIsSoon, BothBefore
  <2>8. StandsOn(t)'
    BY <2>4 DEF StandsOn
  <2>9. On(t) \cap Query = On(s) \cap Query
    BY <1>3, <2>4 DEF ProcedureNames
  <2>10. QueriesAre(t)' /\ (slistInProgress <=> "slistPoll" \in On(t))'
    BY <1>1, <1>2, <2>1, <2>4, <2>9 DEF QueriesAre
  <2>11. Scheduling(t)'
    BY <2>4, <2>5, <2>7, <2>8, <2>10 DEF Scheduling
  <2> QED BY <2>11
<1> QED BY <1>6, <1>7

\* The queries: again, or the flag and the socket are given back.
LEMMA QueryPollKeeps ==
  ASSUME PollTypes, NEW s, Scheduling(s), NEW query \in Query, Query_Poll(query)
  PROVE  /\ \E w \in Seq(Procedure) : Scheduling(w)'
         /\ testPollCount' \in Nat /\ testInProgress' \in BOOLEAN
         /\ openSockets' \in Nat
<1>1. PICK answered \in BOOLEAN :
        IF answered \/ testPollCount = 1
        THEN /\ openSockets' = openSockets - 1
             /\ testInProgress' = FALSE
             /\ testPollCount' = 0
             /\ list' = Unlinked
        ELSE /\ testPollCount' = testPollCount - 1
             /\ list' = SchedulePollProcedure(Unlinked, query, QueryPeriod)
             /\ openSockets' = openSockets /\ testInProgress' = testInProgress
  BY DEF Query_Poll
<1>2. /\ Runs(query) /\ Goes
      /\ UNCHANGED <<polling, net_time, slistAge, slistInProgress>>
  BY DEF Query_Poll, Goes, slistVars
<1>3. /\ IsList(list, s) /\ SendIs(s) /\ QueriesAre(s) /\ StandsOn(s)
      /\ slistInProgress <=> "slistPoll" \in On(s)
      /\ net_time \in Int /\ net_time <= 0 /\ testPollCount \in Nat
      /\ testInProgress \in BOOLEAN /\ openSockets \in Nat
  BY DEF Scheduling, PollTypes
<1>4. /\ ProcedureNames /\ QueryPeriod \in Int /\ QueryPeriod \in Nat
      /\ QueryPeriod > 0
  BY NamesAre, ConstantsAre
<1>5. /\ query \in Procedure /\ query # "slistSend" /\ query # "slistPoll"
      /\ pp = query /\ pp # "slistSend"
  BY <1>2, <1>4 DEF ProcedureNames, Runs
<1>6. SendTime \in Int
  BY <1>3, <1>4, TimesAre DEF SendTime, ProcedureNames
<1>7. CASE answered \/ testPollCount = 1
  <2>1. /\ list' = Unlinked /\ openSockets' = openSockets - 1
        /\ testInProgress' = FALSE /\ testPollCount' = 0
    BY <1>1, <1>7
  <2>2. /\ query \in On(s) /\ \E t \in Seq(Procedure) : Unlinks(s, t)
    BY <1>2, <1>3, <1>5, <2>1, UnlinkIs
  <2>3. PICK t \in Seq(Procedure) : Unlinks(s, t)
    BY <2>2
  <2>4. /\ IsList(list', t) /\ On(t) = On(s) \ {query} /\ pp' = Nth(t, 1)
        /\ list'.nextTime = list.nextTime
    BY <1>5, <2>3 DEF Unlinks
  <2>5. SendTime' = SendTime
    BY <2>4 DEF SendTime
  <2>6. SendIs(t)'
    <3>1. "slistSend" \in On(t) =>
            slistInProgress /\ (SendTime = LongAgo \/ SendTime + slistAge <= Latest)
      BY <1>5, <2>4, SearchIs
    <3> QED BY <1>2, <2>5, <3>1 DEF SendIs
  <2>7. On(s) \cap Query = {query} /\ testInProgress /\ openSockets = 1
    BY <1>3, <2>2 DEF QueriesAre
  <2>8. On(t) \cap Query = {}
    BY <2>4, <2>7
  <2>9. ~BothBefore(t)
    BY <2>4, <2>8, BeforeIs DEF BothBefore
  <2>10. SendIsSoon(t)'
    BY <2>9 DEF SendIsSoon, BothBefore
  <2>11. StandsOn(t)'
    BY <2>4 DEF StandsOn
  <2>12. QueriesAre(t)'
    BY <2>1, <2>7, <2>8 DEF QueriesAre
  <2>13. (slistInProgress <=> "slistPoll" \in On(t))'
    BY <1>2, <1>3, <1>5, <2>4
  <2>14. Scheduling(t)'
    BY <2>4, <2>6, <2>10, <2>11, <2>12, <2>13 DEF Scheduling
  <2>15. testPollCount' \in Nat /\ testInProgress' \in BOOLEAN
    BY <2>1
  <2>16. openSockets = 1 /\ openSockets' = openSockets - 1
    BY <2>1, <2>7
  <2>17. openSockets' \in Nat
    BY <2>16
  <2> QED BY <2>14, <2>15, <2>17
<1>8. CASE ~(answered \/ testPollCount = 1)
  <2>1. /\ list' = SchedulePollProcedure(Unlinked, query, QueryPeriod)
        /\ openSockets' = openSockets /\ testInProgress' = testInProgress
        /\ testPollCount' = testPollCount - 1 /\ testPollCount # 1
    BY <1>1, <1>8
  <2>2. /\ query \in On(s)
        /\ \E w \in Seq(Procedure) : Relinks(s, query, QueryPeriod, w)
    BY <1>2, <1>3, <1>4, <1>5, <2>1, RelinkIs
  <2>3. PICK w \in Seq(Procedure) : Relinks(s, query, QueryPeriod, w)
    BY <2>2
  <2>4. /\ IsList(list', w) /\ On(w) = On(s)
        /\ list'.nextTime = [list.nextTime EXCEPT ![query] = QueryPeriod]
        /\ \A b \in Procedure :
             Before(w, query, b) => list.nextTime[b] >= QueryPeriod
    BY <2>3 DEF Relinks
  <2>5. list'.nextTime["slistSend"] = list.nextTime["slistSend"]
    BY <1>3, <1>4, <1>5, <2>4, TimesAre DEF ProcedureNames
  <2>6. SendTime' = SendTime
    BY <2>5 DEF SendTime
  <2>7. SendIs(w)'
    <3>1. "slistSend" \in On(w) =>
            slistInProgress /\ (SendTime = LongAgo \/ SendTime + slistAge <= Latest)
      BY <1>5, <2>4, SearchIs
    <3> QED BY <1>2, <2>6, <3>1 DEF SendIs
  <2>8. On(w) \cap Query = {query} /\ testInProgress
    BY <1>3, <2>2, <2>4 DEF QueriesAre
  <2>9. SendIsSoon(w)'
    <3> SUFFICES ASSUME BothBefore(w)
                 PROVE  SendTime' > net_time'
      BY DEF SendIsSoon, BothBefore
    <3>1. PICK q \in Query : Before(w, q, "slistSend")
      BY DEF BothBefore
    <3>2. q = query
      BY <2>4, <2>8, <3>1, BeforeIs
    <3>3. SendTime >= QueryPeriod
      BY <1>4, <2>4, <3>1, <3>2 DEF SendTime, ProcedureNames
    <3> QED BY <1>2, <1>3, <1>4, <1>6, <2>6, <3>3
  <2>10. StandsOn(w)'
    BY <1>2, <1>4, <2>3, RelinkStands
  <2>11. testPollCount > 0
    BY <1>3, <2>8 DEF QueriesAre
  <2>12. testPollCount' \in Nat /\ testPollCount' > 0
    BY <1>3, <2>1, <2>11
  <2>13. QueriesAre(w)'
    BY <1>3, <2>1, <2>4, <2>12 DEF QueriesAre
  <2>14. (slistInProgress <=> "slistPoll" \in On(w))'
    BY <1>2, <1>3, <2>4
  <2>15. Scheduling(w)'
    BY <2>4, <2>7, <2>9, <2>10, <2>13, <2>14 DEF Scheduling
  <2> QED BY <1>3, <2>1, <2>12, <2>15
<1> QED BY <1>7, <1>8

\* A list that stays what it is, and a procedure that hands over to the next.
LEMMA GoesOn ==
  ASSUME NEW p \in Procedure, Runs(p), Goes, NEW w, Scheduling(w)'
  PROVE  pp' \in Procedure \cup {NoProcedure} /\ polling' \in BOOLEAN
<1>1. pp = p /\ pp' = list'.next[pp] /\ polling' = polling /\ polling
  BY DEF Runs, Goes
<1>2. list'.next \in [Procedure -> Procedure \cup {NoProcedure}]
  BY DEF Scheduling, IsList, Lists
<1> QED BY <1>1, <1>2

\* The clock is left alone.
LEMMA TimeStays ==
  ASSUME PollTypes, UNCHANGED net_time
  PROVE  net_time' \in Int /\ -MaxFrame <= net_time' /\ net_time' <= 0
BY DEF PollTypes

\* The types, action by action.  Tick:
LEMMA TickTypes ==
  ASSUME PollTypes, Tick
  PROVE  PollTypes'
<1>1. /\ net_time > -MaxFrame /\ net_time' = net_time - 1
      /\ slistAge' = IF slistAge = PollUntil THEN slistAge ELSE slistAge + 1
      /\ UNCHANGED <<polling, pp, slistInProgress, testInProgress, testPollCount,
                     openSockets>>
  BY DEF Tick, testVars
<1>2. net_time \in Int /\ net_time <= 0 /\ slistAge \in 0..PollUntil
  BY DEF PollTypes
<1>3. net_time' \in Int /\ -MaxFrame <= net_time' /\ net_time' <= 0
  BY <1>1, <1>2, ConstantsAre
<1>4. slistAge' \in 0..PollUntil
  BY <1>1, <1>2, ConstantsAre
<1> QED BY <1>1, <1>3, <1>4 DEF PollTypes

\* NET_Slist_f:
LEMMA SlistTypes ==
  ASSUME PollTypes, NET_Slist_f
  PROVE  PollTypes'
<1>1. /\ slistInProgress' = TRUE /\ slistAge' = 0
      /\ UNCHANGED <<polling, pp, net_time, testInProgress, testPollCount,
                     openSockets>>
  BY DEF NET_Slist_f, testVars
<1>2. slistAge' \in 0..PollUntil
  BY <1>1, ConstantsAre
<1> QED BY <1>1, <1>2, TimeStays DEF PollTypes

\* Test_f, Test2_f, Rcon_f:
LEMMA QueryTypes ==
  ASSUME PollTypes, NEW query \in Query, Query_f(query)
  PROVE  PollTypes'
<1>1. /\ testInProgress' = TRUE /\ testPollCount' = MaxPolls
      /\ openSockets' = openSockets + 1
      /\ UNCHANGED <<polling, pp, net_time, slistInProgress, slistAge>>
  BY DEF Query_f, slistVars
<1>2. openSockets' \in Nat
  BY <1>1 DEF PollTypes
<1> QED BY <1>1, <1>2, ConstantsAre, TimeStays DEF PollTypes

\* NET_Poll begins:
LEMMA PollStartTypes ==
  ASSUME PollTypes, NEW s, Scheduling(s), NET_Poll
  PROVE  PollTypes'
<1>1. /\ polling' = TRUE /\ pp' = list.head /\ net_time' = 0
      /\ UNCHANGED <<slistInProgress, slistAge, testInProgress, testPollCount,
                     openSockets>>
  BY DEF NET_Poll, slistVars, testVars
<1>2. list.head \in Procedure \cup {NoProcedure}
  BY DEF Scheduling, IsList, Lists
<1>3. 0 \in Int /\ -MaxFrame <= 0 /\ 0 <= 0
  BY ConstantsAre
<1> QED BY <1>1, <1>2, <1>3 DEF PollTypes

\* NET_Poll ends:
LEMMA ReturnTypes ==
  ASSUME PollTypes, PollReturns
  PROVE  PollTypes'
<1>1. /\ polling' = FALSE /\ pp' = NoProcedure
      /\ UNCHANGED <<net_time, slistInProgress, slistAge, testInProgress,
                     testPollCount, openSockets>>
  BY DEF PollReturns, slistVars, testVars
<1> QED BY <1>1 DEF PollTypes

\* Slist_Send:
LEMMA SendTypes ==
  ASSUME PollTypes, Slist_Send, NEW w, Scheduling(w)'
  PROVE  PollTypes'
<1>1. /\ Runs("slistSend") /\ Goes
      /\ UNCHANGED <<net_time, slistInProgress, slistAge, testInProgress,
                     testPollCount, openSockets>>
  BY DEF Slist_Send, Goes, slistVars, testVars
<1>2. pp' \in Procedure \cup {NoProcedure} /\ polling' \in BOOLEAN
  BY <1>1, GoesOn, NamesAre DEF ProcedureNames
<1> QED BY <1>1, <1>2 DEF PollTypes

\* Slist_Poll:
LEMMA SlistPollTypes ==
  ASSUME PollTypes, Slist_Poll, NEW w, Scheduling(w)'
  PROVE  PollTypes'
<1>1. /\ Runs("slistPoll") /\ Goes
      /\ slistInProgress' \in {slistInProgress, FALSE}
      /\ UNCHANGED <<net_time, slistAge, testInProgress, testPollCount,
                     openSockets>>
  BY DEF Slist_Poll, Goes, testVars
<1>2. pp' \in Procedure \cup {NoProcedure} /\ polling' \in BOOLEAN
  BY <1>1, GoesOn, NamesAre DEF ProcedureNames
<1> QED BY <1>1, <1>2 DEF PollTypes

\* Test_Poll, Test2_Poll, Rcon_Poll:
LEMMA QueryPollTypes ==
  ASSUME PollTypes, NEW query \in Query, Query_Poll(query),
         testPollCount' \in Nat, testInProgress' \in BOOLEAN,
         openSockets' \in Nat, NEW w, Scheduling(w)'
  PROVE  PollTypes'
<1>1. /\ Runs(query) /\ Goes
      /\ UNCHANGED <<net_time, slistInProgress, slistAge>>
  BY DEF Query_Poll, Goes, slistVars
<1>2. pp' \in Procedure \cup {NoProcedure} /\ polling' \in BOOLEAN
  BY <1>1, GoesOn, NamesAre DEF ProcedureNames
<1> QED BY <1>1, <1>2 DEF PollTypes

-----------------------------------------------------------------------------
\* The list is empty at the start.
LEMMA InitPolls == PollInit => PollInv
<1> SUFFICES ASSUME PollInit PROVE PollInv
  OBVIOUS
<1> DEFINE s == <<>>
<1>1. s \in Seq(Procedure) /\ Len(s) = 0
  OBVIOUS
<1>2. On(s) = {} /\ Nth(s, 1) = NoProcedure
  BY DEF On, Nth
<1>3. /\ list = [head |-> NoProcedure,
                 next |-> [p \in Procedure |-> NoProcedure],
                 nextTime |-> [p \in Procedure |-> LongAgo]]
      /\ polling = FALSE /\ pp = NoProcedure /\ net_time = 0
      /\ slistInProgress = FALSE /\ slistAge = 0
      /\ testInProgress = FALSE /\ testPollCount = 0 /\ openSockets = 0
  BY DEF PollInit
<1>4. list \in Lists /\ list.head = NoProcedure
  BY <1>3, ConstantsAre DEF Lists
<1>5. IsList(list, s)
  BY <1>1, <1>2, <1>4 DEF IsList
<1>6. ~BothBefore(s)
  BY <1>1 DEF BothBefore, Before
<1>7. QueriesAre(s)
  BY <1>2, <1>3 DEF QueriesAre
<1>8. Scheduling(s)
  <2> HIDE DEF s
  <2> QED BY <1>2, <1>3, <1>5, <1>6, <1>7
        DEF Scheduling, StandsOn, SendIs, SendIsSoon
<1>9. PollTypes
  <2>1. 0 \in 0..PollUntil /\ 0 \in Nat /\ 0 \in Int /\ -MaxFrame <= 0
    BY ConstantsAre
  <2>2. polling \in BOOLEAN /\ slistInProgress \in BOOLEAN /\ testInProgress \in BOOLEAN
    BY <1>3
  <2>3. /\ net_time \in Int /\ -MaxFrame <= net_time /\ net_time <= 0
        /\ slistAge \in 0..PollUntil /\ testPollCount \in Nat
        /\ openSockets \in Nat /\ pp \in Procedure \cup {NoProcedure}
    BY <1>3, <2>1
  <2> QED BY <2>2, <2>3 DEF PollTypes
<1> QED BY <1>1, <1>8, <1>9 DEF PollInv

\* Every step keeps the invariant.
LEMMA NextKeepsPolls ==
  ASSUME SendsInTime, PollInv, [PollNext]_pollVars
  PROVE  PollInv'
<1>1. PollTypes
  BY DEF PollInv
<1>2. PICK s \in Seq(Procedure) : Scheduling(s)
  BY DEF PollInv
<1>3. CASE NET_Slist_f
  BY <1>1, <1>2, <1>3, SearchKeeps, SlistTypes DEF PollInv
<1>4. ASSUME NEW query \in Query, Query_f(query)
      PROVE  PollInv'
  BY <1>1, <1>2, <1>4, QueryKeeps, QueryTypes DEF PollInv
<1>5. CASE NET_Poll
  BY <1>1, <1>2, <1>5, PollKeeps, PollStartTypes DEF PollInv
<1>6. CASE PollReturns
  BY <1>1, <1>2, <1>6, ReturnKeeps, ReturnTypes DEF PollInv
<1>7. CASE Slist_Send
  BY <1>1, <1>2, <1>7, SendKeeps, SendTypes DEF PollInv
<1>8. CASE Slist_Poll
  BY <1>1, <1>2, <1>8, SlistPollKeeps, SlistPollTypes DEF PollInv
<1>9. ASSUME NEW query \in Query, Query_Poll(query)
      PROVE  PollInv'
  BY <1>1, <1>2, <1>9, QueryPollKeeps, QueryPollTypes DEF PollInv
<1>10. CASE Tick
  BY <1>1, <1>2, <1>10, TickKeeps, TickTypes DEF PollInv
<1>11. CASE UNCHANGED pollVars
  <2>1. UNCHANGED <<list, polling, pp, net_time, slistInProgress, slistAge,
                    testInProgress, testPollCount, openSockets>>
    BY <1>11 DEF pollVars
  <2>2. Scheduling(s)'
    BY <1>2, <2>1 DEF Scheduling, StandsOn, Due, SendIs, SendTime, SendIsSoon,
         QueriesAre
  <2>3. PollTypes'
    BY <1>1, <2>1 DEF PollTypes
  <2> QED BY <2>2, <2>3 DEF PollInv
<1> QED
  BY <1>3, <1>4, <1>5, <1>6, <1>7, <1>8, <1>9, <1>10, <1>11
    DEF PollNext, PollStep

(***************************************************************************)
(* NET_Poll, the commands and the procedures keep the invariant, as long   *)
(* as frames are short beside the last second of a search.                 *)
(***************************************************************************)
THEOREM PollInvAlways ==
  ASSUME SendsInTime
  PROVE  PollSpec => []PollInv
<1>1. PollInit => PollInv
  BY InitPolls
<1>2. PollInv /\ [PollNext]_pollVars => PollInv'
  BY NextKeepsPolls
<1> QED
  BY <1>1, <1>2, PTL DEF PollSpec

\* What the list says of the procedures that are scheduled.
LEMMA ScheduledAre ==
  ASSUME NEW s, IsList(list, s)
  PROVE  Scheduled = On(s)
<1>1. s \in Seq(Procedure) /\ Len(s) \in Nat /\ Len(s) <= 5
  BY FiveFit DEF IsList
<1>2. /\ DOMAIN Chain(list) = 0..5
      /\ \A n \in 0..5 : Chain(list)[n] = Nth(s, n + 1)
  BY ChainIs
<1>3. ASSUME NEW p \in On(s) PROVE p \in Scheduled
  <2>1. PICK i \in 1..Len(s) : s[i] = p
    BY DEF On
  <2>2. /\ i - 1 \in 0..5 /\ (i - 1) + 1 = i /\ i \in Nat \ {0} /\ i <= Len(s)
    BY <1>1
  <2>3. Nth(s, i) = p /\ p # NoProcedure
    BY <1>1, <2>1, <2>2, NthIs
  <2>4. Chain(list)[i - 1] = p
    BY <1>2, <2>2, <2>3
  <2> QED BY <1>2, <2>2, <2>3, <2>4 DEF Scheduled
<1>4. ASSUME NEW p \in Scheduled PROVE p \in On(s)
  <2>1. PICK n \in 0..5 : Chain(list)[n] = p /\ p # NoProcedure
    BY <1>2 DEF Scheduled
  <2>2. n + 1 \in Nat \ {0} /\ p = Nth(s, n + 1)
    BY <1>2, <2>1
  <2>3. n + 1 <= Len(s) /\ p = s[n + 1]
    BY <1>1, <2>1, <2>2, NthIs
  <2>4. n + 1 \in 1..Len(s)
    BY <1>1, <2>2, <2>3
  <2> QED BY <2>3, <2>4 DEF On
<1> QED BY <1>3, <1>4

(***************************************************************************)
(* The poll procedures stay one list in order that has an end, though they *)
(* link themselves in anew while NET_Poll stands on them; the search is in *)
(* it until it is over, one query with its open socket, and nothing else.  *)
(***************************************************************************)
THEOREM PollListIsAlwaysWhole ==
  ASSUME SendsInTime
  PROVE  PollSpec => []PollListIsWhole
<1>1. PollInv => PollListIsWhole
  <2> SUFFICES ASSUME PollInv PROVE PollListIsWhole
    OBVIOUS
  <2>1. PICK s \in Seq(Procedure) : Scheduling(s)
    BY DEF PollInv
  <2>2. /\ IsList(list, s) /\ SendIs(s) /\ QueriesAre(s)
        /\ slistInProgress <=> "slistPoll" \in On(s)
    BY <2>1 DEF Scheduling
  <2>3. Len(s) \in Nat /\ Len(s) <= 5
    BY <2>2, FiveFit
  <2>4. Scheduled = On(s) /\ Cardinality(Procedure) = 5
    BY <2>2, ScheduledAre, FiveProcedures
  <2>5. \A n \in 0..5 : Chain(list)[n] = Nth(s, n + 1)
    BY <2>2, ChainIs
  <2>6. Chain(list)[5] = NoProcedure
    <3>1. Nth(s, 6) = NoProcedure
      BY <2>3 DEF Nth
    <3> QED BY <2>5, <3>1
  <2>7. ASSUME NEW n \in 1..5, Chain(list)[n] # NoProcedure
        PROVE  list.nextTime[Chain(list)[n - 1]] <= list.nextTime[Chain(list)[n]]
    <3>1. /\ n \in 0..5 /\ n - 1 \in 0..5 /\ (n - 1) + 1 = n
          /\ n \in Nat \ {0} /\ n + 1 \in Nat \ {0}
      OBVIOUS
    <3>2. Chain(list)[n] = Nth(s, n + 1) /\ Chain(list)[n - 1] = Nth(s, n)
      BY <2>5, <3>1
    <3>3. n + 1 <= Len(s) /\ Nth(s, n + 1) = s[n + 1]
      BY <2>7, <3>1, <3>2, NthIs
    <3>4. n <= Len(s) /\ n < n + 1 /\ n \in 1..Len(s) /\ n + 1 \in 1..Len(s)
      BY <2>3, <3>1, <3>3
    <3>5. Nth(s, n) = s[n]
      BY <3>1, <3>4, NthIs
    <3>6. list.nextTime[s[n]] <= list.nextTime[s[n + 1]]
      BY <2>2, <3>4 DEF IsList
    <3> QED BY <3>2, <3>3, <3>5, <3>6
  <2>8. "slistSend" \in Scheduled => slistInProgress \/ polling
    BY <2>2, <2>4 DEF SendIs
  <2>9. Cardinality(Scheduled \cap Query) = openSockets
    <3>1. CASE testInProgress
      <4>1. PICK q : q \in On(s) \cap Query
        BY <2>2, <3>1 DEF QueriesAre
      <4>2. On(s) \cap Query = {q}
        BY <2>2, <4>1 DEF QueriesAre
      <4>3. openSockets = 1
        BY <2>2, <3>1 DEF QueriesAre
      <4> QED BY <2>4, <4>2, <4>3, FS_Singleton
    <3>2. CASE ~testInProgress
      <4>1. On(s) \cap Query = {} /\ openSockets = 0
        BY <2>2, <3>2 DEF QueriesAre
      <4> QED BY <2>4, <4>1, FS_EmptySet
    <3> QED BY <3>1, <3>2
  <2>10. openSockets = IF testInProgress THEN 1 ELSE 0
    BY <2>2 DEF QueriesAre
  <2>11. slistInProgress <=> "slistPoll" \in Scheduled
    BY <2>2, <2>4
  <2> QED
    BY <2>4, <2>6, <2>7, <2>8, <2>9, <2>10, <2>11 DEF PollListIsWhole
<1>2. SendsInTime
  OBVIOUS
<1> QED
  BY <1>1, PollInvAlways, PTL

-----------------------------------------------------------------------------
(* The command buffer.                                                     *)

\* The commands of a text, one character after the other.
Step(x, t) == IF t = NL THEN x ELSE Append(x, t)

LEMMA CommandsAre ==
  ASSUME NEW text \in Text
  PROVE  \E of \in [0..Len(text) -> Seq(Command)] :
           /\ of[0] = <<>>
           /\ \A i \in 1..Len(text) : of[i] = Step(of[i - 1], text[i])
           /\ Commands(text) = of[Len(text)]
<1> DEFINE n == Len(text)
           X == Seq(Command)
           F == [p \in X \X (1..n) |-> Step(p[1], text[p[2]])]
           IsOf(a) == a = [i \in 0..n |->
                             IF i = 0 THEN <<>>
                             ELSE IF text[i] = NL THEN a[i - 1]
                                  ELSE Append(a[i - 1], text[i])]
           of == CHOOSE a : IsOf(a)
<1>1. Commands(text) = of[n]
  BY DEF Commands
<1>2. n \in Nat
  BY DEF Text
<1>3. <<>> \in X
  OBVIOUS
<1>4. \A x \in X, i \in 1..n : Step(x, text[i]) \in X
  <2>1. \A i \in 1..n : text[i] \in Command \cup {NL}
    BY DEF Text
  <2> QED
    BY <2>1 DEF Step
<1>5. F \in [X \X (1..n) -> X]
  <2> HIDE DEF X, n
  <2> QED
    BY <1>4
<1>6. \A x \in X, i \in 1..n : F[<<x, i>>] = Step(x, text[i])
  OBVIOUS
<1>7. PICK g \in [0..n -> X] : IsLoop(g, n, <<>>, F)
  <2> HIDE DEF X, F, n
  <2> QED
    BY <1>2, <1>3, <1>5, LoopIsDefined
<1>8. \A i \in 1..n : i - 1 \in 0..n /\ i \in 0..n /\ i # 0
  <2> HIDE DEF n
  <2> QED
    BY <1>2
<1>9. 0 \in 0..n /\ n \in 0..n /\ \A i \in 0..n : i # 0 => i \in 1..n
  <2> HIDE DEF n
  <2> QED
    BY <1>2
<1>10. \A i \in 1..n : g[i] = Step(g[i - 1], text[i])
  <2> HIDE DEF X, F, n
  <2> QED
    BY <1>6, <1>7, <1>8 DEF IsLoop
<1>11. IsOf(g)
  <2> HIDE DEF X, n
  <2> QED
    BY <1>7, <1>9, <1>10 DEF IsLoop, Step
<1>12. IsOf(of)
  <2> HIDE DEF IsOf
  <2> QED
    BY <1>11
<1> HIDE DEF of
<1>13. of[0] = <<>> /\ \A i \in 1..n : of[i] = Step(of[i - 1], text[i])
  <2> HIDE DEF n
  <2> QED
    BY <1>8, <1>9, <1>12 DEF Step
<1>14. of = g
  <2> DEFINE Same == {i \in 0..n : of[i] = g[i]}
  <2>1. 0 \in Same
    BY <1>7, <1>9, <1>13 DEF IsLoop
  <2>2. \A i \in 1..n : i - 1 \in Same => i \in Same
    <3> HIDE DEF n
    <3> QED
      BY <1>8, <1>10, <1>13
  <2>3. 0..n \subseteq Same
    <3> HIDE DEF Same, n
    <3> QED
      BY <1>2, <2>1, <2>2, AfterEveryTurn
  <2> HIDE DEF n
  <2>4. DOMAIN of = 0..n /\ DOMAIN g = 0..n
    BY <1>7, <1>12
  <2> QED
    BY <1>7, <1>12, <2>3, <2>4
<1> QED
  BY <1>1, <1>7, <1>13, <1>14

LEMMA CommandsType ==
  ASSUME NEW text \in Text
  PROVE  Commands(text) \in Seq(Command)
<1>1. PICK of \in [0..Len(text) -> Seq(Command)] :
        Commands(text) = of[Len(text)]
  BY CommandsAre
<1>2. Len(text) \in 0..Len(text)
  BY DEF Text
<1> QED
  BY <1>1, <1>2

LEMMA CommandsOfNone == Commands(<<>>) = <<>>
<1>1. <<>> \in Text /\ Len(<<>>) = 0
  BY DEF Text
<1> QED
  BY <1>1, CommandsAre

LEMMA CommandsOfEnd == <<NL>> \in Text /\ Commands(<<NL>>) = <<>>
<1>1. <<NL>> \in Text /\ Len(<<NL>>) = 1 /\ <<NL>>[1] = NL
  BY DEF Text
<1>2. PICK of \in [0..Len(<<NL>>) -> Seq(Command)] :
        /\ of[0] = <<>>
        /\ \A i \in 1..Len(<<NL>>) : of[i] = Step(of[i - 1], <<NL>>[i])
        /\ Commands(<<NL>>) = of[Len(<<NL>>)]
  BY <1>1, CommandsAre
<1>3. of[1] = Step(of[0], NL)
  BY <1>1, <1>2
<1> QED
  BY <1>1, <1>2, <1>3 DEF Step

LEMMA CommandsOfOne ==
  ASSUME NEW c \in Command
  PROVE  <<c>> \in Text /\ Commands(<<c>>) = <<c>>
<1>1. <<c>> \in Text /\ Len(<<c>>) = 1 /\ <<c>>[1] = c
  BY DEF Text
<1>2. PICK of \in [0..Len(<<c>>) -> Seq(Command)] :
        /\ of[0] = <<>>
        /\ \A i \in 1..Len(<<c>>) : of[i] = Step(of[i - 1], <<c>>[i])
        /\ Commands(<<c>>) = of[Len(<<c>>)]
  BY <1>1, CommandsAre
<1>3. of[1] = Step(of[0], c)
  BY <1>1, <1>2
<1>4. c # NL
  BY CommandAssumption
<1> QED
  BY <1>1, <1>2, <1>3, <1>4 DEF Step

\* The commands of two texts one behind the other.
LEMMA CommandsOfBoth ==
  ASSUME NEW s \in Text, NEW t \in Text
  PROVE  s \o t \in Text /\ Commands(s \o t) = Commands(s) \o Commands(t)
<1> DEFINE u == s \o t
           n == Len(s)
           m == Len(t)
<1>1. n \in Nat /\ m \in Nat /\ u \in Text /\ Len(u) = n + m
  BY DEF Text
<1>2. /\ \A i \in 1..n : u[i] = s[i]
      /\ \A i \in 1..m : u[n + i] = t[i]
  BY DEF Text
<1>3. PICK a \in [0..Len(s) -> Seq(Command)] :
        /\ a[0] = <<>>
        /\ \A i \in 1..Len(s) : a[i] = Step(a[i - 1], s[i])
        /\ Commands(s) = a[Len(s)]
  BY CommandsAre
<1>4. PICK b \in [0..Len(t) -> Seq(Command)] :
        /\ b[0] = <<>>
        /\ \A i \in 1..Len(t) : b[i] = Step(b[i - 1], t[i])
        /\ Commands(t) = b[Len(t)]
  BY CommandsAre
<1>5. PICK c \in [0..Len(u) -> Seq(Command)] :
        /\ c[0] = <<>>
        /\ \A i \in 1..Len(u) : c[i] = Step(c[i - 1], u[i])
        /\ Commands(u) = c[Len(u)]
  <2> HIDE DEF u
  <2> QED
    BY <1>1, CommandsAre
<1> HIDE DEF u, n, m
<1>6. /\ \A i \in 1..n : i \in 1..Len(u) /\ i - 1 \in 0..n
      /\ \A i \in 1..m : /\ n + i \in 1..Len(u) /\ i - 1 \in 0..m
                         /\ (n + i) - 1 = n + (i - 1)
  BY <1>1
<1>7. c[n] = a[n]
  <2> DEFINE Same == {i \in 0..n : c[i] = a[i]}
  <2>1. 0 \in Same
    BY <1>1, <1>3, <1>5
  <2>2. \A i \in 1..n : i - 1 \in Same => i \in Same
    <3>1. ASSUME NEW i \in 1..n, i - 1 \in Same
          PROVE  i \in Same
      <4>1. c[i] = Step(c[i - 1], u[i])
        BY <1>5, <1>6
      <4>2. a[i] = Step(a[i - 1], s[i])
        BY <1>3 DEF n
      <4>3. c[i - 1] = a[i - 1] /\ u[i] = s[i]
        BY <3>1, <1>2
      <4>4. i \in 0..n
        BY <1>1
      <4> QED
        BY <4>1, <4>2, <4>3, <4>4
    <3> QED
      BY <3>1
  <2>3. 0..n \subseteq Same
    <3> HIDE DEF Same
    <3> QED
      BY <1>1, <2>1, <2>2, AfterEveryTurn
  <2> QED
    BY <1>1, <2>3
<1>8. \A i \in 0..m : b[i] \in Seq(Command)
  BY <1>4 DEF m
<1>9. a[n] \in Seq(Command)
  <2>1. \A i \in 0..n : a[i] \in Seq(Command)
    BY <1>3 DEF n
  <2> QED
    BY <1>1, <2>1
<1>10. c[n + m] = a[n] \o b[m]
  <2> DEFINE Same == {i \in 0..m : c[n + i] = a[n] \o b[i]}
  <2>1. 0 \in Same
    <3>1. c[n + 0] = a[n]
      BY <1>1, <1>7
    <3>2. a[n] \o <<>> = a[n]
      BY <1>9
    <3>3. 0 \in 0..m
      BY <1>1
    <3> QED
      BY <1>4, <3>1, <3>2, <3>3
  <2>2. \A i \in 1..m : i - 1 \in Same => i \in Same
    <3>1. ASSUME NEW i \in 1..m, i - 1 \in Same
          PROVE  i \in Same
      <4>1. c[n + i] = Step(c[n + (i - 1)], t[i])
        <5>1. c[n + i] = Step(c[(n + i) - 1], u[n + i])
          BY <1>5, <1>6
        <5> QED
          BY <5>1, <1>2, <1>6
      <4>2. b[i] = Step(b[i - 1], t[i])
        BY <1>4 DEF m
      <4>3. c[n + (i - 1)] = a[n] \o b[i - 1]
        BY <3>1
      <4>4. i \in 0..m /\ b[i - 1] \in Seq(Command)
        BY <1>1, <1>6, <1>8
      <4>5. t[i] # NL => Append(a[n] \o b[i - 1], t[i])
                           = a[n] \o Append(b[i - 1], t[i])
        <5>1. t[i] \in Command \cup {NL}
          BY DEF m, Text
        <5> HAVE t[i] # NL
        <5>2. t[i] \in Command
          BY <5>1
        <5> DEFINE x == t[i]
                   y == b[i - 1]
                   z == a[n]
        <5>3. x \in Command /\ y \in Seq(Command) /\ z \in Seq(Command)
          BY <1>9, <4>4, <5>2
        <5> HIDE DEF x, y, z
        <5>4. Append(z \o y, x) = z \o Append(y, x)
          <6>1. /\ z \o y \in Seq(Command) /\ <<x>> \in Seq(Command)
                /\ Append(y, x) = y \o <<x>>
            BY <5>3, AppendIsConcat
          <6>2. Append(z \o y, x) = (z \o y) \o <<x>>
            BY <5>3, <6>1, AppendIsConcat
          <6> QED
            BY <5>3, <6>1, <6>2, ConcatAssociative, SMTT(20)
        <5> QED
          BY <5>4 DEF x, y, z
      <4>6. c[n + i] = a[n] \o b[i]
        BY <4>1, <4>2, <4>3, <4>5 DEF Step
      <4> QED
        BY <4>4, <4>6
    <3> QED
      BY <3>1
  <2>3. 0..m \subseteq Same
    <3> HIDE DEF Same
    <3> QED
      BY <1>1, <2>1, <2>2, AfterEveryTurn
  <2>4. m \in 0..m
    BY <1>1
  <2>5. m \in Same
    <3> HIDE DEF Same
    <3> QED
      BY <2>3, <2>4
  <2> QED
    BY <2>5
<1>11. Commands(u) = Commands(s) \o Commands(t)
  BY <1>1, <1>3, <1>4, <1>5, <1>7, <1>10 DEF n, m
<1> QED
  BY <1>1, <1>11 DEF u


\* Each command has its line end.
Terminated(text) ==
  \A i \in 1..Len(text) :
    text[i] # NL => i + 1 \in 1..Len(text) /\ text[i + 1] = NL

LEMMA LinesAre ==
  ASSUME NEW commands \in Seq(Command)
  PROVE  LET t == Lines(commands) IN
         /\ t \in Text /\ Len(t) = 2 * Len(commands)
         /\ \A k \in 1..Len(commands) : /\ t[2 * k - 1] = commands[k]
                                        /\ t[2 * k] = NL
         /\ Terminated(t)
<1> DEFINE n == Len(commands)
           Char(i) == IF i % 2 = 1 THEN commands[(i + 1) \div 2] ELSE NL
           t == [i \in 1..2 * n |-> Char(i)]
<1>1. Lines(commands) = t
  BY DEF Lines
<1>2. n \in Nat /\ \A k \in 1..n : commands[k] \in Command
  OBVIOUS
<1>3. \A i \in 1..2 * n : i % 2 = 1 =>
        /\ (i + 1) \div 2 \in 1..n /\ i + 1 \in 1..2 * n /\ (i + 1) % 2 = 0
  <2> HIDE DEF n
  <2> QED
    BY <1>2
<1>4. \A k \in 1..n : /\ 2 * k - 1 \in 1..2 * n /\ (2 * k - 1) % 2 = 1
                      /\ ((2 * k - 1) + 1) \div 2 = k
                      /\ 2 * k \in 1..2 * n /\ (2 * k) % 2 = 0
  <2> HIDE DEF n
  <2> QED
    BY <1>2
<1>5. \A i \in 1..2 * n : Char(i) \in Command \cup {NL}
  <2> HIDE DEF n
  <2> QED
    BY <1>2, <1>3
<1>6. t \in [1..2 * n -> Command \cup {NL}] /\ 2 * n \in Nat
  <2> HIDE DEF n, Char
  <2> QED
    BY <1>2, <1>5
<1>7. t \in Text /\ Len(t) = 2 * n
  <2> HIDE DEF n, t
  <2> QED
    BY <1>6 DEF Text
<1>8. \A k \in 1..n : t[2 * k - 1] = commands[k] /\ t[2 * k] = NL
  <2> HIDE DEF n
  <2> QED
    BY <1>4
<1>9. Terminated(t)
  <2> SUFFICES ASSUME NEW i \in 1..2 * n, t[i] # NL
               PROVE  i + 1 \in 1..2 * n /\ t[i + 1] = NL
    BY <1>7 DEF Terminated
  <2> HIDE DEF n
  <2>1. i % 2 = 1
    OBVIOUS
  <2> QED
    BY <1>3, <2>1
<1> QED
  BY <1>1, <1>7, <1>8, <1>9

LEMMA CommandsOfLines ==
  ASSUME NEW commands \in Seq(Command)
  PROVE  Commands(Lines(commands)) = commands
<1> DEFINE t == Lines(commands)
           n == Len(commands)
<1>1. /\ t \in Text /\ Len(t) = 2 * n
      /\ \A k \in 1..n : t[2 * k - 1] = commands[k] /\ t[2 * k] = NL
  BY LinesAre
<1>2. n \in Nat /\ \A k \in 1..n : commands[k] \in Command /\ commands[k] # NL
  BY CommandAssumption
<1>3. PICK of \in [0..Len(t) -> Seq(Command)] :
        /\ of[0] = <<>>
        /\ \A i \in 1..Len(t) : of[i] = Step(of[i - 1], t[i])
        /\ Commands(t) = of[Len(t)]
  <2> HIDE DEF t
  <2> QED
    BY <1>1, CommandsAre
<1> HIDE DEF t, n
<1> DEFINE Same == {k \in 0..n : of[2 * k] = SubSeq(commands, 1, k)}
<1>4. 0 \in Same
  <2>1. SubSeq(commands, 1, 0) = <<>>
    BY SubSeqEmpty
  <2>2. 2 * 0 = 0 /\ 0 \in 0..n
    BY <1>2
  <2> QED
    BY <1>3, <2>1, <2>2
<1>5. ASSUME NEW k \in 1..n, k - 1 \in Same
      PROVE  k \in Same
  <2>1. /\ 2 * k - 1 \in 1..2 * n /\ 2 * k \in 1..2 * n
        /\ (2 * k - 1) - 1 = 2 * (k - 1) /\ k \in 0..n
    BY <1>2
  <2>2. of[2 * k - 1] = Step(of[2 * (k - 1)], commands[k])
    <3>1. of[2 * k - 1] = Step(of[(2 * k - 1) - 1], t[2 * k - 1])
      BY <1>1, <1>3, <2>1
    <3> QED
      BY <1>1, <2>1, <3>1
  <2>3. of[2 * k] = Step(of[2 * k - 1], NL)
    BY <1>1, <1>3, <2>1
  <2>4. of[2 * (k - 1)] = SubSeq(commands, 1, k - 1)
    BY <1>5
  <2>5. of[2 * k] = Append(SubSeq(commands, 1, k - 1), commands[k])
    BY <1>2, <2>2, <2>3, <2>4 DEF Step
  <2>6. SubSeq(commands, 1, k) = SubSeq(commands, 1, k - 1) \o <<commands[k]>>
    BY <1>2, SubSeqRecursiveSecond DEF n
  <2>7. SubSeq(commands, 1, k - 1) \in Seq(Command)
    <3>1. \A i \in 1..(k - 1) : commands[i] \in Command
      BY <1>2
    <3>2. 1 \in Int /\ k - 1 \in Int
      BY <1>2
    <3> QED
      BY <3>1, <3>2, SubSeqProperties
  <2>8. Append(SubSeq(commands, 1, k - 1), commands[k])
          = SubSeq(commands, 1, k - 1) \o <<commands[k]>>
    BY <1>2, <2>7, AppendIsConcat
  <2> QED
    BY <2>1, <2>5, <2>6, <2>8
<1>6. 0..n \subseteq Same
  <2> HIDE DEF Same
  <2> QED
    BY <1>2, <1>4, <1>5, AfterEveryTurn
<1>7. n \in Same
  <2> HIDE DEF Same
  <2>1. n \in 0..n
    BY <1>2
  <2> QED
    BY <1>6, <2>1
<1>8. SubSeq(commands, 1, n) = commands
  BY SubSeqFull DEF n
<1>9. of[2 * n] = commands
  BY <1>7, <1>8
<1> QED
  BY <1>1, <1>3, <1>9 DEF t

\* The buffer is cut at the first line end.
LEMMA LineIs ==
  ASSUME cmd_text \in Text, cmd_text # <<>>
  PROVE  /\ LineEnd \in 1..Len(cmd_text) + 1
         /\ cmd_text[1] = NL => LineEnd = 1
         /\ cmd_text[1] # NL /\ Len(cmd_text) > 1 /\ cmd_text[2] = NL =>
              LineEnd = 2
         /\ cmd_text[1] # NL => Line # <<>> /\ Head(Line) = cmd_text[1]
         /\ cmd_text[1] = NL => Line = <<>>
<1> DEFINE ends == {i \in 1..Len(cmd_text) : cmd_text[i] = NL}
<1>1. Len(cmd_text) \in Nat /\ Len(cmd_text) > 0
  BY DEF Text
<1>2. CASE ends = {}
  <2>1. LineEnd = Len(cmd_text) + 1
    BY <1>2 DEF LineEnd
  <2>2. cmd_text[1] # NL /\ (Len(cmd_text) > 1 => cmd_text[2] # NL)
    BY <1>1, <1>2
  <2>3. Line = SubSeq(cmd_text, 1, Len(cmd_text))
    BY <1>1, <2>1 DEF Line
  <2>4. Line = cmd_text
    BY <2>3, SubSeqFull DEF Text
  <2>5. Head(cmd_text) = cmd_text[1]
    BY DEF Text
  <2> QED
    BY <1>1, <2>1, <2>2, <2>4, <2>5
<1>3. CASE ends # {}
  <2>1. PICK m \in ends : \A k \in ends : m <= k
    <3>1. ends \in SUBSET Nat
      BY <1>1
    <3> HIDE DEF ends
    <3> QED
      BY <1>3, <3>1, LeastOfSet
  <2>2. LineEnd = CHOOSE i \in ends : \A j \in ends : i <= j
    BY <1>3 DEF LineEnd
  <2>3. LineEnd \in ends /\ \A j \in ends : LineEnd <= j
    <3> HIDE DEF ends
    <3> QED
      BY <2>1, <2>2
  <2>4. LineEnd \in 1..Len(cmd_text) /\ cmd_text[LineEnd] = NL
    BY <2>3
  <2>5. cmd_text[1] = NL => LineEnd = 1
    <3>1. cmd_text[1] = NL => 1 \in ends
      BY <1>1
    <3> QED
      BY <1>1, <2>3, <2>4, <3>1
  <2>6. cmd_text[1] # NL /\ Len(cmd_text) > 1 /\ cmd_text[2] = NL => LineEnd = 2
    <3>1. Len(cmd_text) > 1 /\ cmd_text[2] = NL => 2 \in ends
      BY <1>1
    <3>2. cmd_text[1] # NL => LineEnd # 1
      BY <2>4
    <3> QED
      BY <1>1, <2>3, <2>4, <3>1, <3>2
  <2>7. cmd_text[1] # NL => Line # <<>> /\ Head(Line) = cmd_text[1]
    <3> HAVE cmd_text[1] # NL
    <3>1. LineEnd # 1
      BY <2>4
    <3>2. /\ LineEnd - 1 \in 1..Len(cmd_text) /\ 1 \in 1..Len(cmd_text)
          /\ LineEnd - 1 \in Int /\ 1 <= LineEnd - 1 /\ (LineEnd - 1) - 1 + 1 # 0
      BY <1>1, <2>4, <3>1
    <3>3. Head(Line) = cmd_text[1]
      BY <3>2, HeadTailOfSubSeq DEF Line, Text
    <3>4. \A i \in 1..(LineEnd - 1) : cmd_text[i] \in Command \cup {NL}
      BY <1>1, <2>4 DEF Text
    <3>5. Len(Line) = (LineEnd - 1) - 1 + 1
      <4>1. 1 \in Int
        OBVIOUS
      <4> QED
        BY <3>2, <3>4, <4>1, SubSeqProperties DEF Line
    <3> QED
      BY <3>2, <3>3, <3>5
  <2>8. cmd_text[1] = NL => Line = <<>>
    <3> HAVE cmd_text[1] = NL
    <3>1. LineEnd - 1 = 0
      BY <2>5
    <3>2. SubSeq(cmd_text, 1, 0) = <<>>
      BY SubSeqEmpty
    <3> QED
      BY <3>1, <3>2 DEF Line
  <2>9. LineEnd \in 1..Len(cmd_text) + 1
    BY <1>1, <2>4
  <2> QED
    BY <2>5, <2>6, <2>7, <2>8, <2>9
<1> QED
  BY <1>2, <1>3

LEMMA RestIs ==
  ASSUME cmd_text \in Text, cmd_text # <<>>
  PROVE  /\ Rest \in Text /\ Len(Rest) <= Len(cmd_text)
         /\ Terminated(cmd_text) => Terminated(Rest)
<1> DEFINE n == Len(cmd_text)
           e == LineEnd
<1>1. n \in Nat /\ e \in 1..n + 1
  BY LineIs DEF Text
<1>2. \A i \in (e + 1)..n : cmd_text[i] \in Command \cup {NL}
  <2> HIDE DEF e
  <2> QED
    BY <1>1 DEF Text
<1>3. e + 1 \in Int /\ n \in Int
  BY <1>1
<1>4. /\ Rest \in Text
      /\ Len(Rest) = IF e + 1 <= n THEN n - (e + 1) + 1 ELSE 0
      /\ \A i \in 1..n - (e + 1) + 1 : Rest[i] = cmd_text[(e + 1) + i - 1]
  <2>1. /\ SubSeq(cmd_text, e + 1, n) \in Seq(Command \cup {NL})
        /\ Len(SubSeq(cmd_text, e + 1, n))
             = IF e + 1 <= n THEN n - (e + 1) + 1 ELSE 0
        /\ \A i \in 1..n - (e + 1) + 1 :
             SubSeq(cmd_text, e + 1, n)[i] = cmd_text[(e + 1) + i - 1]
    <3> HIDE DEF n, e
    <3> QED
      BY <1>2, <1>3, SubSeqProperties
  <2> QED
    BY <2>1 DEF Rest, Text
<1> HIDE DEF e, n
<1>5. Len(Rest) <= n
  BY <1>1, <1>4
<1>6. ASSUME Terminated(cmd_text), NEW i \in 1..Len(Rest), Rest[i] # NL
      PROVE  i + 1 \in 1..Len(Rest) /\ Rest[i + 1] = NL
  <2>1. /\ e + i \in 1..n /\ (e + 1) + i - 1 = e + i
        /\ i \in 1..n - (e + 1) + 1
    BY <1>1, <1>4, <1>6
  <2>2. Rest[i] = cmd_text[e + i]
    BY <1>4, <2>1
  <2>3. e + i + 1 \in 1..n /\ cmd_text[e + i + 1] = NL
    BY <1>6, <2>1, <2>2 DEF Terminated, n
  <2>4. /\ i + 1 \in 1..n - (e + 1) + 1 /\ (e + 1) + (i + 1) - 1 = e + i + 1
        /\ i + 1 \in 1..Len(Rest)
    BY <1>1, <1>4, <1>6, <2>3
  <2>5. Rest[i + 1] = cmd_text[e + i + 1]
    BY <1>4, <2>4
  <2> QED
    BY <2>3, <2>4, <2>5
<1> QED
  BY <1>4, <1>5, <1>6 DEF Terminated, n

AliasEntry == [name : AliasName, value : Text, live : BOOLEAN]

\* The texts of a buffer and of a list with their types.
LEMMA InsertTypes ==
  ASSUME CommandTypeOK, NEW text \in Text, NEW rest \in Text,
         Len(rest) <= MaxText, Cbuf_InsertText(text, rest)
  PROVE  /\ cmd_text' \in Text /\ Len(cmd_text') <= MaxText
         /\ ended' \in {ended, "overflow"}
<1>1. CASE InsertOverflows(text, rest)
  BY <1>1 DEF Cbuf_InsertText, CommandTypeOK
<1>2. CASE ~InsertOverflows(text, rest)
  <2>1. cmd_text' = WithText(<<>>, text) \o rest /\ ended' = ended
    BY <1>2 DEF Cbuf_InsertText
  <2>2. WithText(<<>>, text) \in Text
    BY DEF WithText, Text
  <2>3. ~(Len(WithText(<<>>, text)) + Len(rest) > MaxText)
    BY <1>2 DEF InsertOverflows
  <2> DEFINE t == WithText(<<>>, text)
  <2> HIDE DEF t
  <2>4. t \o rest \in Text /\ Len(t \o rest) = Len(t) + Len(rest)
    BY <2>2 DEF t, Text
  <2>5. Len(t) \in Nat /\ Len(rest) \in Nat /\ MaxText \in Nat
    BY <2>2, CommandAssumption DEF t, Text
  <2> QED
    BY <2>1, <2>3, <2>4, <2>5 DEF t
<1> QED
  BY <1>1, <1>2

LEMMA WithTypes ==
  ASSUME NEW buffer \in Text, NEW text \in Text, Len(buffer) <= MaxText
  PROVE  WithText(buffer, text) \in Text /\ Len(WithText(buffer, text)) <= MaxText
<1>1. buffer \o text \in Text /\ Len(buffer \o text) = Len(buffer) + Len(text)
  BY DEF Text
<1>2. Len(buffer) \in Nat /\ Len(text) \in Nat /\ MaxText \in Nat
  BY CommandAssumption DEF Text
<1> QED
  BY <1>1, <1>2 DEF WithText

LEMMA PlaceIs ==
  ASSUME cmd_alias \in Seq(AliasEntry), NEW name, Places(name) # {}
  PROVE  /\ PlaceOf(name) \in 1..Len(cmd_alias)
         /\ cmd_alias[PlaceOf(name)].name = name
<1>1. Places(name) \in SUBSET Nat
  BY DEF Places
<1>2. PICK m \in Places(name) : \A k \in Places(name) : m <= k
  BY <1>1, LeastOfSet
<1>3. PlaceOf(name) \in Places(name)
  BY <1>2 DEF PlaceOf
<1> QED
  BY <1>3 DEF Places

\* The list after an alias and after an unalias.
LEMMA AliasIs ==
  ASSUME cmd_alias \in Seq(AliasEntry), NEW name \in AliasName,
         NEW text \in Text, Cmd_Alias_f(name, text)
  PROVE  /\ cmd_alias' \in Seq(AliasEntry)
         /\ Places(name) # {} =>
              /\ Len(cmd_alias') = Len(cmd_alias)
              /\ \A i \in 1..Len(cmd_alias) :
                   /\ cmd_alias'[i].name = cmd_alias[i].name
                   /\ cmd_alias'[i].live = cmd_alias[i].live
                   /\ cmd_alias'[i].value = IF i = PlaceOf(name) THEN text
                                            ELSE cmd_alias[i].value
         /\ Places(name) = {} =>
              /\ Len(cmd_alias') = Len(cmd_alias) + 1
              /\ cmd_alias'[1] = [name |-> name, value |-> text, live |-> TRUE]
              /\ \A i \in 1..Len(cmd_alias) : cmd_alias'[i + 1] = cmd_alias[i]
<1> DEFINE n == Len(cmd_alias)
           e == [name |-> name, value |-> text, live |-> TRUE]
<1>1. n \in Nat /\ \A i \in 1..n : cmd_alias[i] \in AliasEntry
  OBVIOUS
<1>2. CASE Places(name) # {}
  <2> DEFINE p == PlaceOf(name)
  <2>1. p \in 1..n
    BY <1>2, PlaceIs
  <2>2. cmd_alias' = [cmd_alias EXCEPT ![p] = [@ EXCEPT !.value = text]]
    BY <1>2 DEF Cmd_Alias_f
  <2> HIDE DEF p
  <2>3. [cmd_alias[p] EXCEPT !.value = text] \in AliasEntry
    BY <1>1, <2>1 DEF AliasEntry
  <2>4. cmd_alias' \in Seq(AliasEntry) /\ Len(cmd_alias') = n
    BY <2>1, <2>2, <2>3
  <2>5. \A i \in 1..n : cmd_alias'[i] = IF i = p
                                        THEN [cmd_alias[p] EXCEPT !.value = text]
                                        ELSE cmd_alias[i]
    BY <2>1, <2>2
  <2>6. LET r == [cmd_alias[p] EXCEPT !.value = text]
        IN  r.name = cmd_alias[p].name /\ r.live = cmd_alias[p].live
              /\ r.value = text
    BY <1>1, <2>1 DEF AliasEntry
  <2>7. \A i \in 1..n : /\ cmd_alias'[i].name = cmd_alias[i].name
                        /\ cmd_alias'[i].live = cmd_alias[i].live
                        /\ cmd_alias'[i].value = IF i = p THEN text
                                                 ELSE cmd_alias[i].value
    BY <2>5, <2>6
  <2> QED
    BY <1>2, <2>4, <2>7 DEF p
<1>3. CASE Places(name) = {}
  <2>1. cmd_alias' = <<e>> \o cmd_alias
    BY <1>3 DEF Cmd_Alias_f
  <2>2. e \in AliasEntry
    BY DEF AliasEntry
  <2> HIDE DEF e
  <2>3. /\ cmd_alias' \in Seq(AliasEntry) /\ Len(cmd_alias') = n + 1
        /\ cmd_alias'[1] = e
        /\ \A i \in 1..n : cmd_alias'[i + 1] = cmd_alias[i]
    BY <2>1, <2>2
  <2> QED
    BY <1>3, <2>3 DEF e
<1> QED
  BY <1>2, <1>3

LEMMA UnaliasIs ==
  ASSUME cmd_alias \in Seq(AliasEntry), NEW name, Cmd_Unalias_f(name)
  PROVE  /\ cmd_alias' \in Seq(AliasEntry)
         /\ Places(name) = {} => cmd_alias' = cmd_alias
         /\ Places(name) # {} /\ PlaceOf(name) = 1 =>
              /\ Len(cmd_alias') = Len(cmd_alias)
              /\ cmd_alias'[1] = [cmd_alias[1] EXCEPT !.live = FALSE]
              /\ \A i \in 2..Len(cmd_alias) : cmd_alias'[i] = cmd_alias[i]
         /\ Places(name) # {} /\ PlaceOf(name) # 1 =>
              /\ Len(cmd_alias') = Len(cmd_alias) - 1
              /\ \A i \in 1..Len(cmd_alias') :
                   cmd_alias'[i] = IF i < PlaceOf(name) THEN cmd_alias[i]
                                   ELSE cmd_alias[i + 1]
<1> DEFINE n == Len(cmd_alias)
           p == PlaceOf(name)
<1>1. n \in Nat /\ \A i \in 1..n : cmd_alias[i] \in AliasEntry
  OBVIOUS
<1>2. CASE Places(name) = {}
  BY <1>2 DEF Cmd_Unalias_f
<1>3. CASE Places(name) # {} /\ p = 1
  <2>1. 1 \in 1..n
    BY <1>3, PlaceIs
  <2>2. cmd_alias' = [cmd_alias EXCEPT ![1] = [@ EXCEPT !.live = FALSE]]
    BY <1>3 DEF Cmd_Unalias_f
  <2>3. [cmd_alias[1] EXCEPT !.live = FALSE] \in AliasEntry
    BY <1>1, <2>1 DEF AliasEntry
  <2>4. cmd_alias' \in Seq(AliasEntry) /\ Len(cmd_alias') = n
    BY <2>1, <2>2, <2>3
  <2>5. /\ cmd_alias'[1] = [cmd_alias[1] EXCEPT !.live = FALSE]
        /\ \A i \in 2..n : cmd_alias'[i] = cmd_alias[i]
    <3> DEFINE r == [cmd_alias[1] EXCEPT !.live = FALSE]
    <3>1. cmd_alias' = [cmd_alias EXCEPT ![1] = r] /\ r \in AliasEntry
      BY <2>2, <2>3
    <3>2. \A i \in 2..n : i \in 1..n /\ i # 1
      BY <1>1
    <3> HIDE DEF r, n
    <3>3. cmd_alias'[1] = r /\ \A i \in 2..n : cmd_alias'[i] = cmd_alias[i]
      BY <2>1, <3>1, <3>2, ExceptSeq DEF n
    <3> QED
      BY <3>3 DEF r, n
  <2> QED
    BY <1>3, <2>4, <2>5
<1>4. CASE Places(name) # {} /\ p # 1
  <2>1. p \in 2..n
    <3>1. p \in 1..n
      BY <1>4, PlaceIs
    <3> QED
      BY <1>1, <1>4, <3>1
  <2>2. cmd_alias' = SubSeq(cmd_alias, 1, p - 1) \o SubSeq(cmd_alias, p + 1, n)
    BY <1>4 DEF Cmd_Unalias_f
  <2> HIDE DEF n, p
  <2> DEFINE a == SubSeq(cmd_alias, 1, p - 1)
             b == SubSeq(cmd_alias, p + 1, n)
  <2>3. /\ a \in Seq(AliasEntry) /\ Len(a) = p - 1
        /\ \A i \in 1..p - 1 : a[i] = cmd_alias[i]
    <3>1. /\ \A i \in 1..(p - 1) : cmd_alias[i] \in AliasEntry
          /\ 1 \in Int /\ p - 1 \in Int /\ 1 <= p - 1
          /\ (p - 1) - 1 + 1 = p - 1 /\ \A i \in 1..p - 1 : 1 + i - 1 = i
      BY <1>1, <2>1
    <3>2. /\ a \in Seq(AliasEntry)
          /\ Len(a) = IF 1 <= p - 1 THEN (p - 1) - 1 + 1 ELSE 0
          /\ \A i \in 1..(p - 1) - 1 + 1 : a[i] = cmd_alias[1 + i - 1]
      BY <3>1, SubSeqProperties
    <3> HIDE DEF a
    <3> QED
      BY <3>1, <3>2
  <2>4. /\ b \in Seq(AliasEntry) /\ Len(b) = n - p
        /\ \A i \in 1..n - p : b[i] = cmd_alias[p + i]
    <3>1. /\ \A i \in (p + 1)..n : cmd_alias[i] \in AliasEntry
          /\ p + 1 \in Int /\ n \in Int
          /\ n - (p + 1) + 1 = n - p
          /\ (IF p + 1 <= n THEN n - (p + 1) + 1 ELSE 0) = n - p
          /\ \A i \in 1..n - p : (p + 1) + i - 1 = p + i
      BY <1>1, <2>1
    <3>2. /\ b \in Seq(AliasEntry)
          /\ Len(b) = IF p + 1 <= n THEN n - (p + 1) + 1 ELSE 0
          /\ \A i \in 1..n - (p + 1) + 1 : b[i] = cmd_alias[(p + 1) + i - 1]
      BY <3>1, SubSeqProperties
    <3> HIDE DEF b
    <3> QED
      BY <3>1, <3>2
  <2> HIDE DEF a, b
  <2>5. /\ cmd_alias' \in Seq(AliasEntry)
        /\ Len(cmd_alias') = Len(a) + Len(b)
        /\ \A i \in 1..Len(a) + Len(b) :
             cmd_alias'[i] = IF i <= Len(a) THEN a[i] ELSE b[i - Len(a)]
    <3>1. cmd_alias' = a \o b
      BY <2>2 DEF a, b
    <3> QED
      BY <2>3, <2>4, <3>1, ConcatProperties
  <2>6. Len(cmd_alias') = n - 1
    BY <1>1, <2>1, <2>3, <2>4, <2>5
  <2>7. ASSUME NEW i \in 1..n - 1
        PROVE  cmd_alias'[i] = IF i < p THEN cmd_alias[i] ELSE cmd_alias[i + 1]
    <3>1. i \in 1..Len(a) + Len(b)
      BY <1>1, <2>1, <2>3, <2>4
    <3>2. CASE i < p
      <4>1. i <= Len(a) /\ i \in 1..p - 1
        BY <2>1, <2>3, <3>2
      <4> QED
        BY <2>3, <2>5, <3>1, <3>2, <4>1
    <3>3. CASE ~(i < p)
      <4>1. /\ ~(i <= Len(a)) /\ i - Len(a) \in 1..n - p
            /\ p + (i - Len(a)) = i + 1
        BY <1>1, <2>1, <2>3, <3>3
      <4>2. cmd_alias'[i] = b[i - Len(a)]
        BY <2>5, <3>1, <4>1
      <4>3. b[i - Len(a)] = cmd_alias[i + 1]
        BY <2>4, <4>1
      <4> QED
        BY <3>3, <4>2, <4>3
    <3> QED
      BY <3>2, <3>3
  <2> QED
    BY <1>4, <2>5, <2>6, <2>7 DEF n, p
<1> QED
  BY <1>2, <1>3, <1>4

-----------------------------------------------------------------------------
(* Types.                                                                  *)

LEMMA MeaningIs ==
  ASSUME NEW c \in Command, Meaning[c].kind = "alias"
  PROVE  Meaning[c].of \in AliasName /\ Lines(Meaning[c].as) \in Text
BY LinesAre, MeaningAssumption

LEMMA ExecuteTypes ==
  ASSUME CommandTypeOK, NEW c \in Command, NEW rest \in Text,
         Len(rest) <= MaxText, Cmd_ExecuteString(c, rest)
  PROVE  /\ cmd_text' \in Text /\ Len(cmd_text') <= MaxText
         /\ cmd_alias' \in Seq(AliasEntry)
         /\ ended' \in {ended, "overflow", "undefined"}
<1>1. cmd_alias \in Seq(AliasEntry) /\ cmd_text \in Text /\ Len(cmd_text) <= MaxText
  BY DEF CommandTypeOK, AliasEntry
<1> DEFINE m == Meaning[c]
           Nothing == cmd_text' = rest /\ UNCHANGED ended
<1>2. CASE m.kind \in {"plain", "wait"} /\ Nothing /\ UNCHANGED cmd_alias
  BY <1>1, <1>2
<1>3. CASE /\ m.kind = "exec" /\ Cbuf_InsertText(Content[m.of], rest)
           /\ UNCHANGED cmd_alias
  <2>1. Content[m.of] \in Text
    BY <1>3, MeaningAssumption, CommandAssumption
  <2> QED
    BY <1>1, <1>3, <2>1, InsertTypes
<1>4. CASE ended' = "undefined" /\ UNCHANGED <<cmd_text, cmd_alias>>
  BY <1>1, <1>4
<1>5. CASE /\ m.kind = "call"
           /\ IF Places(m.of) = {} THEN Nothing
              ELSE Cbuf_InsertText(cmd_alias[PlaceOf(m.of)].value, rest)
           /\ UNCHANGED cmd_alias
  <2>1. CASE Places(m.of) = {}
    BY <1>1, <1>5, <2>1
  <2>2. CASE Places(m.of) # {}
    <3>1. PlaceOf(m.of) \in 1..Len(cmd_alias)
      BY <1>1, <2>2, PlaceIs
    <3>2. cmd_alias[PlaceOf(m.of)].value \in Text
      <4>1. cmd_alias[PlaceOf(m.of)] \in AliasEntry
        BY <1>1, <3>1, ElementOfSeq
      <4> QED
        BY <4>1 DEF AliasEntry
    <3> QED
      BY <1>1, <1>5, <2>2, <3>2, InsertTypes
  <2> QED
    BY <2>1, <2>2
<1>6. CASE m.kind = "alias" /\ Cmd_Alias_f(m.of, Lines(m.as)) /\ Nothing
  <2>1. m.of \in AliasName /\ Lines(m.as) \in Text
    BY <1>6, MeaningIs
  <2> QED
    BY <1>1, <1>6, <2>1, AliasIs
<1>7. CASE m.kind = "unalias" /\ Cmd_Unalias_f(m.of) /\ Nothing
  BY <1>1, <1>7, UnaliasIs
<1>8. CASE m.kind = "unaliasall" /\ cmd_alias' = <<>> /\ Nothing
  BY <1>8
<1> QED
  BY <1>2, <1>3, <1>4, <1>5, <1>6, <1>7, <1>8 DEF Cmd_ExecuteString

LEMMA HeadIsCommand ==
  ASSUME CommandTypeOK, cmd_text # <<>>, Line # <<>>
  PROVE  Head(Line) \in Command
<1>1. cmd_text[1] # NL /\ Head(Line) = cmd_text[1]
  BY LineIs DEF CommandTypeOK
<1>2. cmd_text[1] \in Command \cup {NL}
  BY DEF CommandTypeOK, Text
<1> QED
  BY <1>1, <1>2

LEMMA NextKeepsTypes ==
  ASSUME CommandTypeOK, [CommandNext]_commandVars
  PROVE  CommandTypeOK'
<1>1. cmd_alias \in Seq(AliasEntry) /\ cmd_text \in Text /\ Len(cmd_text) <= MaxText
  BY DEF CommandTypeOK, AliasEntry
<1>2. cmd_wait \in BOOLEAN /\ executing \in BOOLEAN
  BY DEF CommandTypeOK
<1>3. ended \in {"no", "overflow", "undefined"}
  BY DEF CommandTypeOK
<1>4. \A c \in Command : IsWait(c) \in BOOLEAN
  BY DEF IsWait
<1> SUFFICES /\ cmd_alias' \in Seq(AliasEntry)
             /\ cmd_text' \in Text /\ Len(cmd_text') <= MaxText
             /\ cmd_wait' \in BOOLEAN /\ executing' \in BOOLEAN
             /\ ended' \in {"no", "overflow", "undefined"}
  BY DEF CommandTypeOK, AliasEntry
<1>5. CASE RunLine
  <2>1. Rest \in Text /\ Len(Rest) <= MaxText
    <3>1. Rest \in Text /\ Len(Rest) <= Len(cmd_text)
      BY <1>1, <1>5, RestIs DEF RunLine
    <3>2. Len(Rest) \in Nat /\ Len(cmd_text) \in Nat /\ MaxText \in Nat
      BY <1>1, <3>1, CommandAssumption DEF Text
    <3> QED
      BY <1>1, <3>1, <3>2
  <2>2. cmd_wait' \in BOOLEAN /\ executing' \in BOOLEAN
    BY <1>5 DEF RunLine
  <2>3. CASE Line = <<>>
    BY <1>1, <1>3, <1>5, <2>1, <2>2, <2>3 DEF RunLine
  <2>4. CASE Line # <<>>
    <3>1. Head(Line) \in Command /\ Cmd_ExecuteString(Head(Line), Rest)
      BY <1>5, <2>4, HeadIsCommand DEF RunLine
    <3>2. /\ cmd_text' \in Text /\ Len(cmd_text') <= MaxText
          /\ cmd_alias' \in Seq(AliasEntry)
          /\ ended' \in {ended, "overflow", "undefined"}
      BY <2>1, <3>1, ExecuteTypes
    <3> QED
      BY <1>3, <2>2, <3>2
  <2> QED
    BY <2>3, <2>4
<1>6. CASE ExecuteReturns \/ Host_FrameExecutes
  BY <1>1, <1>2, <1>3, <1>6 DEF ExecuteReturns, Host_FrameExecutes
<1>7. ASSUME NEW text \in Given, Cbuf_AddText(text) \/ Q_Version(text)
      PROVE  /\ cmd_alias' \in Seq(AliasEntry)
             /\ cmd_text' \in Text /\ Len(cmd_text') <= MaxText
             /\ cmd_wait' \in BOOLEAN /\ executing' \in BOOLEAN
             /\ ended' \in {"no", "overflow", "undefined"}
  <2>1. cmd_text' = WithText(cmd_text, text) /\ text \in Text
    BY <1>7, CommandAssumption DEF Cbuf_AddText, Q_Version
  <2>2. cmd_text' \in Text /\ Len(cmd_text') <= MaxText
    BY <1>1, <2>1, WithTypes
  <2> QED
    BY <1>1, <1>2, <1>3, <1>7, <2>2 DEF Cbuf_AddText, Q_Version
<1>8. ASSUME NEW text \in Given, InsertText(text)
      PROVE  /\ cmd_alias' \in Seq(AliasEntry)
             /\ cmd_text' \in Text /\ Len(cmd_text') <= MaxText
             /\ cmd_wait' \in BOOLEAN /\ executing' \in BOOLEAN
             /\ ended' \in {"no", "overflow", "undefined"}
  <2>1. Cbuf_InsertText(text, cmd_text) /\ text \in Text
    BY <1>8, CommandAssumption DEF InsertText
  <2>2. /\ cmd_text' \in Text /\ Len(cmd_text') <= MaxText
        /\ ended' \in {ended, "overflow"}
    BY <1>1, <2>1, InsertTypes
  <2> QED
    BY <1>1, <1>2, <1>3, <1>8, <2>2 DEF InsertText
<1>9. ASSUME NEW c \in Command, Key_Event(c)
      PROVE  /\ cmd_alias' \in Seq(AliasEntry)
             /\ cmd_text' \in Text /\ Len(cmd_text') <= MaxText
             /\ cmd_wait' \in BOOLEAN /\ executing' \in BOOLEAN
             /\ ended' \in {"no", "overflow", "undefined"}
  <2>1. cmd_text' = WithText(WithText(cmd_text, <<c>>), <<NL>>)
    BY <1>9 DEF Key_Event
  <2>2. <<c>> \in Text /\ <<NL>> \in Text
    BY CommandsOfOne, CommandsOfEnd
  <2>3. cmd_text' \in Text /\ Len(cmd_text') <= MaxText
    BY <1>1, <2>1, <2>2, WithTypes
  <2> QED
    BY <1>1, <1>2, <1>3, <1>9, <2>3 DEF Key_Event
<1>10. ASSUME NEW c \in Command, Rcon(c)
      PROVE  /\ cmd_alias' \in Seq(AliasEntry)
             /\ cmd_text' \in Text /\ Len(cmd_text') <= MaxText
             /\ cmd_wait' \in BOOLEAN /\ executing' \in BOOLEAN
             /\ ended' \in {"no", "overflow", "undefined"}
  <2>1. /\ cmd_text' \in Text /\ Len(cmd_text') <= MaxText
        /\ cmd_alias' \in Seq(AliasEntry)
        /\ ended' \in {ended, "overflow", "undefined"}
    BY <1>1, <1>10, ExecuteTypes DEF Rcon
  <2>2. cmd_wait' \in BOOLEAN /\ executing' = executing
    BY <1>2, <1>4, <1>10 DEF Rcon
  <2> QED
    BY <1>2, <1>3, <2>1, <2>2
<1>11. CASE UNCHANGED commandVars
  BY <1>1, <1>2, <1>3, <1>11 DEF commandVars
<1> QED
  BY <1>5, <1>6, <1>7, <1>8, <1>9, <1>10, <1>11 DEF CommandNext

\* Whatever the texts are, the buffer never holds more than it has room for.
THEOREM CommandTypesHold == CommandSpec => []CommandTypeOK
<1>1. CommandInit => CommandTypeOK
  <2>1. 0 <= MaxText
    BY CommandAssumption
  <2>2. <<>> \in Seq(AliasEntry) /\ <<>> \in Text /\ Len(<<>>) = 0
    BY DEF Text
  <2> QED
    BY <2>1, <2>2 DEF CommandInit, CommandTypeOK, AliasEntry
<1> QED
  BY <1>1, NextKeepsTypes, PTL DEF CommandSpec

-----------------------------------------------------------------------------
(* The aliases as the script knows them.                                   *)

Distinct(l) == \A i, j \in 1..Len(l) : l[i].name = l[j].name => i = j

\* What a name stands for by list l.
StoodIn(l, name) ==
  LET places == {i \in 1..Len(l) : l[i].name = name}
  IN IF \E i \in places : l[i].live
     THEN Commands(l[CHOOSE i \in places : \A j \in places : i <= j].value)
     ELSE <<>>

Aliases == [name \in AliasName |-> StoodIn(cmd_alias, name)]

LEMMA StoodIs ==
  ASSUME NEW l \in Seq(AliasEntry), Distinct(l), NEW name
  PROVE  /\ \A i \in 1..Len(l) : l[i].name = name /\ l[i].live =>
              StoodIn(l, name) = Commands(l[i].value)
         /\ (\A i \in 1..Len(l) : ~(l[i].name = name /\ l[i].live)) =>
              StoodIn(l, name) = <<>>
<1> DEFINE places == {i \in 1..Len(l) : l[i].name = name}
<1>1. ASSUME NEW i \in 1..Len(l), l[i].name = name, l[i].live
      PROVE  StoodIn(l, name) = Commands(l[i].value)
  <2>1. places = {i}
    BY <1>1 DEF Distinct
  <2>2. i <= i
    OBVIOUS
  <2> HIDE DEF places
  <2>3. (CHOOSE k \in places : \A j \in places : k <= j) = i
    BY <2>1, <2>2
  <2>4. \E k \in places : l[k].live
    BY <1>1, <2>1
  <2> QED
    BY <2>3, <2>4 DEF StoodIn, places
<1>2. (\A i \in 1..Len(l) : ~(l[i].name = name /\ l[i].live)) =>
        StoodIn(l, name) = <<>>
  BY DEF StoodIn
<1> QED
  BY <1>1, <1>2

\* A name stands for the same when an entry for it is where one was.
LEMMA StoodSame ==
  ASSUME NEW l \in Seq(AliasEntry), NEW k \in Seq(AliasEntry),
         Distinct(l), Distinct(k), NEW name,
         \A i \in 1..Len(l) : l[i].name = name /\ l[i].live =>
           \E j \in 1..Len(k) :
             k[j].name = name /\ k[j].live /\ k[j].value = l[i].value,
         \A j \in 1..Len(k) : k[j].name = name /\ k[j].live =>
           \E i \in 1..Len(l) : l[i].name = name /\ l[i].live
  PROVE  StoodIn(k, name) = StoodIn(l, name)
<1>1. CASE \E i \in 1..Len(l) : l[i].name = name /\ l[i].live
  <2>1. PICK i \in 1..Len(l) : l[i].name = name /\ l[i].live
    BY <1>1
  <2>2. PICK j \in 1..Len(k) :
          k[j].name = name /\ k[j].live /\ k[j].value = l[i].value
    BY <2>1
  <2>3. StoodIn(l, name) = Commands(l[i].value)
    BY <2>1, StoodIs
  <2>4. StoodIn(k, name) = Commands(k[j].value)
    BY <2>2, StoodIs
  <2> QED
    BY <2>2, <2>3, <2>4
<1>2. CASE \A i \in 1..Len(l) : ~(l[i].name = name /\ l[i].live)
  <2>1. \A j \in 1..Len(k) : ~(k[j].name = name /\ k[j].live)
    BY <1>2
  <2> QED
    BY <1>2, <2>1, StoodIs
<1> QED
  BY <1>1, <1>2

\* The list of the aliases: none twice, only the first one perhaps freed,
\* every text with its line ends.
ListIsWhole ==
  /\ Distinct(cmd_alias)
  /\ \A i \in 1..Len(cmd_alias) :
       Terminated(cmd_alias[i].value) /\ (i # 1 => cmd_alias[i].live)

LEMMA AllLive ==
  ASSUME cmd_alias \in Seq(AliasEntry), ListIsWhole, ~ListIsFreed,
         NEW i \in 1..Len(cmd_alias)
  PROVE  cmd_alias[i].live
<1>1. cmd_alias # <<>>
  OBVIOUS
<1>2. cmd_alias[1].live
  BY <1>1 DEF ListIsFreed
<1> QED
  BY <1>2 DEF ListIsWhole

LEMMA AliasStands ==
  ASSUME cmd_alias \in Seq(AliasEntry), ListIsWhole, ~ListIsFreed,
         NEW name \in AliasName, NEW text \in Text, Terminated(text),
         Cmd_Alias_f(name, text)
  PROVE  /\ ListIsWhole'
         /\ \A n \in AliasName :
              StoodIn(cmd_alias', n) = IF n = name THEN Commands(text)
                                       ELSE StoodIn(cmd_alias, n)
<1> DEFINE l == cmd_alias
           k == cmd_alias'
<1>1. /\ l \in Seq(AliasEntry) /\ Distinct(l)
      /\ \A i \in 1..Len(l) : Terminated(l[i].value) /\ (i # 1 => l[i].live)
      /\ \A i \in 1..Len(l) : l[i].live
  BY AllLive DEF ListIsWhole
<1>2. CASE Places(name) # {}
  <2> DEFINE p == PlaceOf(name)
  <2>1. p \in 1..Len(l) /\ l[p].name = name
    BY <1>2, PlaceIs
  <2>2. /\ k \in Seq(AliasEntry) /\ Len(k) = Len(l)
        /\ \A i \in 1..Len(l) :
             /\ k[i].name = l[i].name /\ k[i].live = l[i].live
             /\ k[i].value = IF i = p THEN text ELSE l[i].value
    BY <1>2, AliasIs
  <2> HIDE DEF p, l, k
  <2>3. Distinct(k)
    BY <1>1, <2>2 DEF Distinct
  <2>4. \A i \in 1..Len(k) : Terminated(k[i].value) /\ (i # 1 => k[i].live)
    BY <1>1, <2>2
  <2>5. StoodIn(k, name) = Commands(text)
    <3>1. k[p].name = name /\ k[p].live /\ k[p].value = text /\ p \in 1..Len(k)
      BY <1>1, <2>1, <2>2
    <3> QED
      BY <2>2, <2>3, <3>1, StoodIs
  <2>6. ASSUME NEW n \in AliasName, n # name
        PROVE  StoodIn(k, n) = StoodIn(l, n)
    <3>1. \A i \in 1..Len(l) : l[i].name = n /\ l[i].live =>
            \E j \in 1..Len(k) :
              k[j].name = n /\ k[j].live /\ k[j].value = l[i].value
      BY <2>1, <2>2, <2>6
    <3>2. \A j \in 1..Len(k) : k[j].name = n /\ k[j].live =>
            \E i \in 1..Len(l) : l[i].name = n /\ l[i].live
      BY <2>2
    <3> QED
      BY <1>1, <2>2, <2>3, <3>1, <3>2, StoodSame
  <2> QED
    BY <2>3, <2>4, <2>5, <2>6 DEF ListIsWhole, k, l
<1>3. CASE Places(name) = {}
  <2> DEFINE e == [name |-> name, value |-> text, live |-> TRUE]
  <2>1. \A i \in 1..Len(l) : l[i].name # name
    BY <1>3 DEF Places
  <2>2. /\ k \in Seq(AliasEntry) /\ Len(k) = Len(l) + 1
        /\ k[1] = e /\ \A i \in 1..Len(l) : k[i + 1] = l[i]
    BY <1>3, AliasIs
  <2>3. e.name = name /\ e.value = text /\ e.live
    OBVIOUS
  <2> HIDE DEF e, l, k
  <2>4. Len(l) \in Nat
    BY <1>1
  <2>5. \A i \in 1..Len(k) : i # 1 =>
          /\ i - 1 \in 1..Len(l) /\ (i - 1) + 1 = i
          /\ k[i] = l[i - 1]
    <3>1. \A i \in 1..Len(k) : i # 1 => i - 1 \in 1..Len(l) /\ (i - 1) + 1 = i
      BY <2>2, <2>4
    <3> QED
      BY <2>2, <3>1
  <2>6. \A i \in 1..Len(l) : i + 1 \in 1..Len(k)
    BY <2>2, <2>4
  <2>7. 1 \in 1..Len(k)
    BY <2>2, <2>4
  <2>8. Distinct(k)
    <3> SUFFICES ASSUME NEW i \in 1..Len(k), NEW j \in 1..Len(k),
                        k[i].name = k[j].name
                 PROVE  i = j
      BY DEF Distinct
    <3>1. CASE i = 1 /\ j # 1
      BY <2>1, <2>2, <2>3, <2>5, <3>1
    <3>2. CASE i # 1 /\ j = 1
      BY <2>1, <2>2, <2>3, <2>5, <3>2
    <3>3. CASE i # 1 /\ j # 1
      <4>1. l[i - 1].name = l[j - 1].name
        BY <2>5, <3>3
      <4>2. i - 1 = j - 1
        BY <1>1, <2>5, <3>3, <4>1 DEF Distinct
      <4>3. i \in Int /\ j \in Int
        OBVIOUS
      <4> QED
        BY <4>2, <4>3
    <3> QED
      BY <3>1, <3>2, <3>3
  <2>9. \A i \in 1..Len(k) : Terminated(k[i].value) /\ (i # 1 => k[i].live)
    BY <1>1, <2>2, <2>3, <2>5
  <2>10. StoodIn(k, name) = Commands(text)
    BY <2>2, <2>3, <2>7, <2>8, StoodIs
  <2>11. ASSUME NEW n \in AliasName, n # name
         PROVE  StoodIn(k, n) = StoodIn(l, n)
    <3>1. \A i \in 1..Len(l) : l[i].name = n /\ l[i].live =>
            \E j \in 1..Len(k) :
              k[j].name = n /\ k[j].live /\ k[j].value = l[i].value
      BY <2>2, <2>6
    <3>2. \A j \in 1..Len(k) : k[j].name = n /\ k[j].live =>
            \E i \in 1..Len(l) : l[i].name = n /\ l[i].live
      BY <2>2, <2>3, <2>5, <2>11
    <3> QED
      BY <1>1, <2>2, <2>8, <3>1, <3>2, StoodSame
  <2> QED
    BY <2>8, <2>9, <2>10, <2>11 DEF ListIsWhole, k, l
<1> QED
  BY <1>2, <1>3

LEMMA UnaliasStands ==
  ASSUME cmd_alias \in Seq(AliasEntry), ListIsWhole, ~ListIsFreed,
         NEW name \in AliasName, Cmd_Unalias_f(name)
  PROVE  /\ ListIsWhole'
         /\ \A n \in AliasName :
              StoodIn(cmd_alias', n) = IF n = name THEN <<>>
                                       ELSE StoodIn(cmd_alias, n)
<1> DEFINE l == cmd_alias
           k == cmd_alias'
<1>1. /\ l \in Seq(AliasEntry) /\ Distinct(l)
      /\ \A i \in 1..Len(l) : Terminated(l[i].value) /\ (i # 1 => l[i].live)
      /\ \A i \in 1..Len(l) : l[i].live
  BY AllLive DEF ListIsWhole
<1>2. k \in Seq(AliasEntry)
  BY UnaliasIs
<1>3. Len(l) \in Nat /\ Len(k) \in Nat
  BY <1>1, <1>2
<1> DEFINE p == PlaceOf(name)
<1>4. Places(name) # {} => p \in 1..Len(l) /\ l[p].name = name
  BY PlaceIs
<1>5. CASE Places(name) = {}
  <2>1. k = l
    BY <1>5, UnaliasIs
  <2>2. \A i \in 1..Len(l) : l[i].name # name
    BY <1>5 DEF Places
  <2> HIDE DEF k, l
  <2>3. StoodIn(l, name) = <<>>
    BY <1>1, <2>2, StoodIs
  <2> QED
    BY <1>1, <2>1, <2>3 DEF ListIsWhole, k, l
<1>6. CASE Places(name) # {} /\ p = 1
  <2>1. /\ Len(k) = Len(l) /\ k[1] = [l[1] EXCEPT !.live = FALSE]
        /\ \A i \in 2..Len(l) : k[i] = l[i]
    BY <1>6, UnaliasIs
  <2>2. 1 \in 1..Len(l) /\ l[1].name = name
    BY <1>4, <1>6
  <2> HIDE DEF k, l, p
  <2>3. l[1] \in AliasEntry
    BY <1>1, <2>2, ElementOfSeq
  <2>4. k[1].name = name /\ k[1].value = l[1].value /\ ~k[1].live
    BY <2>1, <2>2, <2>3 DEF AliasEntry
  <2>5. \A i \in 1..Len(l) : i # 1 => k[i] = l[i]
    <3>1. \A i \in 1..Len(l) : i # 1 => i \in 2..Len(l)
      BY <1>3
    <3> QED
      BY <2>1, <3>1
  <2>6. \A i \in 1..Len(l) : k[i].name = l[i].name /\ k[i].value = l[i].value
    BY <2>2, <2>4, <2>5
  <2>7. Distinct(k)
    BY <1>1, <2>1, <2>6 DEF Distinct
  <2>8. \A i \in 1..Len(k) : Terminated(k[i].value) /\ (i # 1 => k[i].live)
    BY <1>1, <2>1, <2>5, <2>6
  <2>9. \A i \in 1..Len(l) : i # 1 => l[i].name # name
    BY <1>1, <2>2 DEF Distinct
  <2>10. StoodIn(k, name) = <<>>
    <3>1. \A i \in 1..Len(k) : ~(k[i].name = name /\ k[i].live)
      BY <2>1, <2>4, <2>6, <2>9
    <3> QED
      BY <1>2, <2>7, <3>1, StoodIs
  <2>11. ASSUME NEW n \in AliasName, n # name
         PROVE  StoodIn(k, n) = StoodIn(l, n)
    <3>1. \A i \in 1..Len(l) : l[i].name = n => i # 1
      BY <2>2, <2>11
    <3>2. \A i \in 1..Len(l) : l[i].name = n /\ l[i].live =>
            \E j \in 1..Len(k) :
              k[j].name = n /\ k[j].live /\ k[j].value = l[i].value
      BY <2>1, <2>5, <3>1
    <3>3. \A j \in 1..Len(k) : k[j].name = n /\ k[j].live =>
            \E i \in 1..Len(l) : l[i].name = n /\ l[i].live
      BY <1>1, <2>1, <2>6
    <3> QED
      BY <1>1, <1>2, <2>7, <3>2, <3>3, StoodSame
  <2> QED
    BY <2>7, <2>8, <2>10, <2>11 DEF ListIsWhole, k, l
<1>7. CASE Places(name) # {} /\ p # 1
  <2>1. /\ Len(k) = Len(l) - 1
        /\ \A i \in 1..Len(k) : k[i] = IF i < p THEN l[i] ELSE l[i + 1]
    BY <1>7, UnaliasIs
  <2>2. p \in 1..Len(l) /\ l[p].name = name /\ p # 1
    BY <1>4, <1>7
  <2> HIDE DEF k, l, p
  \* Entry i of k is entry Was(i) of l, entry j of l is entry Is(j) of k.
  <2> DEFINE Was(i) == IF i < p THEN i ELSE i + 1
             Is(j) == IF j < p THEN j ELSE j - 1
  <2>3. \A i \in 1..Len(k) : Was(i) \in 1..Len(l) /\ Was(i) # p
    BY <1>3, <2>1, <2>2
  <2>4. \A i \in 1..Len(k) : k[i] = l[Was(i)]
    BY <2>1
  <2>5. \A j \in 1..Len(l) : j # p => Is(j) \in 1..Len(k) /\ Was(Is(j)) = j
    BY <1>3, <2>1, <2>2
  <2>6. \A i, j \in 1..Len(k) : Was(i) = Was(j) => i = j
    BY <1>3, <2>1, <2>2
  <2>7. \A i \in 1..Len(k) : i # 1 => Was(i) # 1
    BY <1>3, <2>1, <2>2
  <2> HIDE DEF Was, Is
  <2>8. Distinct(k)
    BY <1>1, <2>3, <2>4, <2>6 DEF Distinct
  <2>9. \A i \in 1..Len(k) : Terminated(k[i].value) /\ (i # 1 => k[i].live)
    BY <1>1, <2>3, <2>4, <2>7
  <2>10. StoodIn(k, name) = <<>>
    <3>1. \A i \in 1..Len(k) : k[i].name # name
      BY <1>1, <2>2, <2>3, <2>4 DEF Distinct
    <3> QED
      BY <1>2, <2>8, <3>1, StoodIs
  <2>11. ASSUME NEW n \in AliasName, n # name
         PROVE  StoodIn(k, n) = StoodIn(l, n)
    <3>1. ASSUME NEW i \in 1..Len(l), l[i].name = n, l[i].live
          PROVE  \E j \in 1..Len(k) :
                   k[j].name = n /\ k[j].live /\ k[j].value = l[i].value
      <4>1. i # p
        BY <2>2, <2>11, <3>1
      <4>2. Is(i) \in 1..Len(k) /\ k[Is(i)] = l[i]
        BY <2>4, <2>5, <4>1
      <4> QED
        BY <3>1, <4>2
    <3>2. \A j \in 1..Len(k) : k[j].name = n /\ k[j].live =>
            \E i \in 1..Len(l) : l[i].name = n /\ l[i].live
      BY <2>3, <2>4
    <3> QED
      BY <1>1, <1>2, <2>8, <3>1, <3>2, StoodSame
  <2> QED
    BY <2>8, <2>9, <2>10, <2>11 DEF ListIsWhole, k, l
<1> QED
  BY <1>5, <1>6, <1>7

-----------------------------------------------------------------------------
(* The buffer implements the script.                                       *)

\* No key is pressed while the buffer has room for exactly one of its two
\* texts, and no text ends without a line end.
TextsAreWhole ==
  /\ ~KeysSplit
  /\ \A text \in Given : Terminated(text)
  /\ \A f \in DOMAIN Content : Terminated(Content[f])

CommandInv == CommandTypeOK /\ Terminated(cmd_text) /\ ListIsWhole

\* The actions of Script in the terms of the buffer.
LEMMA GivesAre ==
  ASSUME NEW text
  PROVE  /\ TheScript!Give(text) <=>
              Commands(cmd_text') = Commands(cmd_text) \o text
                /\ Aliases' = Aliases
         /\ TheScript!GiveFirst(text) <=>
              Commands(cmd_text') = text \o Commands(cmd_text)
                /\ Aliases' = Aliases
BY DEF TheScript!Give, TheScript!GiveFirst, Aliases, StoodIn, Places, PlaceOf,
       Commands

LEMMA StutterIs ==
  (UNCHANGED TheScript!vars) <=>
    Commands(cmd_text') = Commands(cmd_text) /\ Aliases' = Aliases
BY DEF TheScript!vars, Aliases, StoodIn, Places, PlaceOf, Commands

\* Command c is run in this step, with behind left behind the text it stands
\* for.
IsRunAs(c, behind, text) ==
  /\ Commands(cmd_text') = text \o behind
  /\ \/ text = <<>>
     \/ /\ Meaning[c].kind = "exec" /\ Meaning[c].of \in DOMAIN Content
        /\ text = Commands(Content[Meaning[c].of])
     \/ Meaning[c].kind = "call" /\ text = Aliases[Meaning[c].of]
  /\ CASE Meaning[c].kind = "alias" ->
            Aliases' = [Aliases EXCEPT ![Meaning[c].of] = Meaning[c].as]
       [] Meaning[c].kind = "unalias" ->
            Aliases' = [Aliases EXCEPT ![Meaning[c].of] = <<>>]
       [] Meaning[c].kind = "unaliasall" ->
            Aliases' = [n \in AliasName |-> <<>>]
       [] OTHER -> Aliases' = Aliases
IsRun(c, behind) == \E text : IsRunAs(c, behind, text)

LEMMA RunsIs ==
  ASSUME NEW c, NEW behind, NEW text,
         Commands(cmd_text') = text \o behind,
         \/ text = <<>>
         \/ /\ Meaning[c].kind = "exec" /\ Meaning[c].of \in DOMAIN Content
            /\ text = Commands(Content[Meaning[c].of])
         \/ Meaning[c].kind = "call" /\ text = Aliases[Meaning[c].of],
         CASE Meaning[c].kind = "alias" ->
                Aliases' = [Aliases EXCEPT ![Meaning[c].of] = Meaning[c].as]
           [] Meaning[c].kind = "unalias" ->
                Aliases' = [Aliases EXCEPT ![Meaning[c].of] = <<>>]
           [] Meaning[c].kind = "unaliasall" ->
                Aliases' = [n \in AliasName |-> <<>>]
           [] OTHER -> Aliases' = Aliases
  PROVE  IsRun(c, behind)
BY DEF IsRun, IsRunAs

LEMMA RunsAre ==
  ASSUME NEW c \in Command, NEW behind, IsRun(c, behind)
  PROVE  TheScript!RunBefore(c, behind)
<1> PICK text : IsRunAs(c, behind, text)
  BY DEF IsRun
<1> DEFINE a == [name \in AliasName |->
              IF \E i \in Places(name) : cmd_alias[i].live
              THEN Commands(cmd_alias[PlaceOf(name)].value) ELSE <<>>]
           m == Meaning[c]
<1>1. Aliases = a
  BY DEF Aliases, StoodIn, Places, PlaceOf
<1>2. Aliases' = a'
  BY DEF Aliases, StoodIn, Places, PlaceOf, Commands
<1> SUFFICES ASSUME
      Commands(cmd_text') = text \o behind,
      \/ text = <<>>
      \/ m.kind = "exec" /\ text = Commands(Content[m.of]) /\ m.of \in DOMAIN Content
      \/ m.kind = "call" /\ text = Aliases[m.of],
      CASE m.kind = "alias" -> Aliases' = [Aliases EXCEPT ![m.of] = m.as]
        [] m.kind = "unalias" -> Aliases' = [Aliases EXCEPT ![m.of] = <<>>]
        [] m.kind = "unaliasall" -> Aliases' = [n \in AliasName |-> <<>>]
        [] OTHER -> Aliases' = Aliases
    PROVE TheScript!RunBefore(c, behind)
  BY DEF IsRunAs
<1>3. text \in {TheScript!Stands(m), <<>>}
  <2>1. CASE text = <<>>
    BY <2>1
  <2>2. CASE m.kind = "exec" /\ text = Commands(Content[m.of])
             /\ m.of \in DOMAIN Content
    BY <2>2 DEF TheScript!Stands
  <2>3. CASE m.kind = "call" /\ text = Aliases[m.of]
    <3>1. text = a[m.of]
      BY <1>1, <2>3
    <3>2. TheScript!Stands(m) = a[m.of]
      BY <2>3 DEF TheScript!Stands
    <3> QED
      BY <3>1, <3>2
  <2> QED
    BY <2>1, <2>2, <2>3
<1>4. a' = TheScript!Aliased(m)
  <2>1. DOMAIN a = AliasName
    OBVIOUS
  <2>2. TheScript!Aliased(m) =
          CASE m.kind = "alias" -> [a EXCEPT ![m.of] = m.as]
            [] m.kind = "unalias" -> [a EXCEPT ![m.of] = <<>>]
            [] m.kind = "unaliasall" -> [n \in DOMAIN a |-> <<>>]
            [] OTHER -> a
    BY DEF TheScript!Aliased, TheScript!NoAlias
  <2> HIDE DEF a, m
  <2>3. Aliases' = CASE m.kind = "alias" -> [Aliases EXCEPT ![m.of] = m.as]
                     [] m.kind = "unalias" -> [Aliases EXCEPT ![m.of] = <<>>]
                     [] m.kind = "unaliasall" -> [n \in AliasName |-> <<>>]
                     [] OTHER -> Aliases
    OBVIOUS
  <2> QED
    BY <1>1, <1>2, <2>1, <2>2, <2>3
<1>5. Commands(cmd_text)' = text \o behind
  BY DEF Commands
<1> QED
  BY <1>3, <1>4, <1>5 DEF TheScript!RunBefore

LEMMA TerminatedBoth ==
  ASSUME NEW s \in Text, NEW t \in Text, Terminated(s), Terminated(t)
  PROVE  s \o t \in Text /\ Terminated(s \o t)
<1> DEFINE n == Len(s)
           m == Len(t)
           u == s \o t
<1>1. n \in Nat /\ m \in Nat
  BY DEF Text
<1>2. /\ u \in Text /\ Len(u) = n + m
      /\ \A i \in 1..n + m : u[i] = IF i <= n THEN s[i] ELSE t[i - n]
  BY ConcatProperties DEF Text
<1> HIDE DEF u, n, m
<1>3. ASSUME NEW i \in 1..n + m, u[i] # NL
      PROVE  i + 1 \in 1..n + m /\ u[i + 1] = NL
  <2>1. CASE i <= n
    <3>1. i \in 1..n /\ s[i] # NL
      BY <1>1, <1>2, <1>3, <2>1
    <3>2. i + 1 \in 1..n /\ s[i + 1] = NL
      BY <3>1 DEF Terminated, n
    <3>3. i + 1 \in 1..n + m /\ i + 1 <= n
      BY <1>1, <3>2
    <3> QED
      BY <1>2, <3>2, <3>3
  <2>2. CASE ~(i <= n)
    <3>1. i - n \in 1..m /\ t[i - n] # NL
      BY <1>1, <1>2, <1>3, <2>2
    <3>2. i - n + 1 \in 1..m /\ t[i - n + 1] = NL
      BY <3>1 DEF Terminated, m
    <3>3. i + 1 \in 1..n + m /\ ~(i + 1 <= n) /\ (i + 1) - n = i - n + 1
      BY <1>1, <2>2, <3>2
    <3> QED
      BY <1>2, <3>2, <3>3
  <2> QED
    BY <2>1, <2>2
<1> QED
  BY <1>2, <1>3 DEF Terminated, u

LEMMA NoneTerminated == <<>> \in Text /\ Terminated(<<>>)
BY DEF Text, Terminated

\* What is inserted is inserted as a whole or not at all.
LEMMA InsertIs ==
  ASSUME NEW text \in Text, NEW rest \in Text, Cbuf_InsertText(text, rest)
  PROVE  cmd_text' = cmd_text \/ \E t \in {text, <<>>} : cmd_text' = t \o rest
<1>1. <<>> \o text = text
  BY DEF Text
<1>2. WithText(<<>>, text) \in {text, <<>>}
  BY <1>1 DEF WithText
<1> QED
  BY <1>2 DEF Cbuf_InsertText

LEMMA InsertStands ==
  ASSUME NEW text \in Text, NEW rest \in Text, Cbuf_InsertText(text, rest),
         Terminated(text), Terminated(rest), Terminated(cmd_text)
  PROVE  /\ Terminated(cmd_text)'
         /\ \/ cmd_text' = cmd_text
            \/ \E t \in {Commands(text), <<>>} :
                 Commands(cmd_text') = t \o Commands(rest)
<1>1. CASE cmd_text' = cmd_text
  BY <1>1 DEF Terminated
<1>2. ASSUME NEW t \in {text, <<>>}, cmd_text' = t \o rest
      PROVE  /\ Terminated(cmd_text)'
             /\ \E u \in {Commands(text), <<>>} :
                  Commands(cmd_text') = u \o Commands(rest)
  <2>1. t \in Text /\ Terminated(t)
    BY <1>2, NoneTerminated
  <2>2. Commands(t) \in {Commands(text), <<>>}
    BY <1>2, CommandsOfNone
  <2>3. Commands(cmd_text') = Commands(t) \o Commands(rest)
    BY <1>2, <2>1, CommandsOfBoth
  <2>4. Terminated(cmd_text')
    BY <1>2, <2>1, TerminatedBoth
  <2>5. Terminated(cmd_text)'
    BY <2>4 DEF Terminated
  <2> QED
    BY <2>2, <2>3, <2>5
<1> QED
  BY <1>1, <1>2, InsertIs

LEMMA ExecuteStands ==
  ASSUME TextsAreWhole, CommandInv, NEW c \in Command, NEW rest \in Text,
         Terminated(rest), Cmd_ExecuteString(c, rest)
  PROVE  /\ Terminated(cmd_text)' /\ ListIsWhole'
         /\ \/ cmd_text' = cmd_text /\ cmd_alias' = cmd_alias
            \/ IsRun(c, Commands(rest))
<1> DEFINE m == Meaning[c]
           Nothing == cmd_text' = rest /\ UNCHANGED ended
           Goal == /\ Terminated(cmd_text)' /\ ListIsWhole'
                   /\ \/ cmd_text' = cmd_text /\ cmd_alias' = cmd_alias
                      \/ IsRun(c, Commands(rest))
<1>1. /\ cmd_alias \in Seq(AliasEntry) /\ cmd_text \in Text
      /\ Terminated(cmd_text) /\ ListIsWhole
  BY DEF CommandInv, CommandTypeOK, AliasEntry
<1>2. ASSUME cmd_alias' = cmd_alias
      PROVE  ListIsWhole' /\ Aliases' = Aliases
  BY <1>1, <1>2 DEF ListIsWhole, Distinct, Terminated, Aliases, StoodIn, Commands
<1>3. ASSUME Nothing
      PROVE  Terminated(cmd_text)' /\ Commands(cmd_text') = <<>> \o Commands(rest)
  <2>1. cmd_text' = rest
    BY <1>3
  <2>2. Commands(rest) \in Seq(Command)
    BY CommandsType
  <2>3. <<>> \o Commands(rest) = Commands(rest)
    BY <2>2, ConcatEmptySeq
  <2>4. Terminated(cmd_text)'
    BY <2>1 DEF Terminated
  <2> QED
    BY <2>1, <2>3, <2>4
<1>4. CASE m.kind \in {"plain", "wait"} /\ Nothing /\ UNCHANGED cmd_alias
  <2>1. ListIsWhole' /\ Aliases' = Aliases /\ Terminated(cmd_text)'
    BY <1>2, <1>3, <1>4
  <2>2. IsRun(c, Commands(rest))
    BY <1>3, <1>4, <2>1, RunsIs
  <2> QED
    BY <2>1, <2>2
<1>5. CASE /\ m.kind = "exec" /\ Cbuf_InsertText(Content[m.of], rest)
           /\ UNCHANGED cmd_alias
  <2>1. /\ m.of \in DOMAIN Content /\ Content[m.of] \in Text
        /\ Terminated(Content[m.of])
    BY <1>5, MeaningAssumption, CommandAssumption DEF TextsAreWhole
  <2>2. ListIsWhole' /\ Aliases' = Aliases
    BY <1>2, <1>5
  <2>3. /\ Terminated(cmd_text)'
        /\ \/ cmd_text' = cmd_text
           \/ \E t \in {Commands(Content[m.of]), <<>>} :
                Commands(cmd_text') = t \o Commands(rest)
    BY <1>1, <1>5, <2>1, InsertStands
  <2>4. ASSUME NEW t \in {Commands(Content[m.of]), <<>>},
               Commands(cmd_text') = t \o Commands(rest)
        PROVE  IsRun(c, Commands(rest))
    BY <1>5, <2>1, <2>2, <2>4, RunsIs
  <2> QED
    BY <1>5, <2>2, <2>3, <2>4
<1>6. CASE ended' = "undefined" /\ UNCHANGED <<cmd_text, cmd_alias>>
  <2>1. Terminated(cmd_text)'
    BY <1>1, <1>6 DEF Terminated
  <2> QED
    BY <1>2, <1>6, <2>1
<1>7. CASE /\ m.kind = "call" /\ ~ListIsFreed
           /\ IF Places(m.of) = {} THEN Nothing
              ELSE Cbuf_InsertText(cmd_alias[PlaceOf(m.of)].value, rest)
           /\ UNCHANGED cmd_alias
  <2>1. ListIsWhole' /\ Aliases' = Aliases
    BY <1>2, <1>7
  <2>2. m.of \in AliasName
    BY <1>7, MeaningAssumption
  <2>3. CASE Places(m.of) = {}
    <3>1. Terminated(cmd_text)' /\ Commands(cmd_text') = <<>> \o Commands(rest)
      BY <1>3, <1>7, <2>3
    <3>2. IsRun(c, Commands(rest))
      BY <1>7, <2>1, <3>1, RunsIs
    <3> QED
      BY <2>1, <3>1, <3>2
  <2>4. CASE Places(m.of) # {}
    <3> DEFINE p == PlaceOf(m.of)
    <3>1. p \in 1..Len(cmd_alias) /\ cmd_alias[p].name = m.of
      BY <1>1, <2>4, PlaceIs
    <3>2. Cbuf_InsertText(cmd_alias[p].value, rest)
      BY <1>7, <2>4
    <3> HIDE DEF p
    <3>3. cmd_alias[p] \in AliasEntry
      BY <1>1, <3>1, ElementOfSeq
    <3>4. cmd_alias[p].value \in Text /\ Terminated(cmd_alias[p].value)
      BY <1>1, <3>1, <3>3 DEF AliasEntry, ListIsWhole
    <3>5. cmd_alias[p].live
      BY <1>1, <1>7, <3>1, AllLive
    <3>6. Aliases[m.of] = Commands(cmd_alias[p].value)
      <4>1. Distinct(cmd_alias)
        BY <1>1 DEF ListIsWhole
      <4>2. StoodIn(cmd_alias, m.of) = Commands(cmd_alias[p].value)
        BY <1>1, <3>1, <3>5, <4>1, StoodIs
      <4> QED
        BY <2>2, <4>2 DEF Aliases
    <3>7. /\ Terminated(cmd_text)'
          /\ \/ cmd_text' = cmd_text
             \/ \E t \in {Aliases[m.of], <<>>} :
                  Commands(cmd_text') = t \o Commands(rest)
      BY <1>1, <3>2, <3>4, <3>6, InsertStands
    <3>8. ASSUME NEW t \in {Aliases[m.of], <<>>},
                 Commands(cmd_text') = t \o Commands(rest)
          PROVE  IsRun(c, Commands(rest))
      BY <1>7, <2>1, <3>8, RunsIs
    <3> QED
      BY <1>7, <2>1, <3>7, <3>8
  <2> QED
    BY <2>3, <2>4
<1>8. CASE /\ m.kind = "alias" /\ ~ListIsFreed
           /\ Cmd_Alias_f(m.of, Lines(m.as)) /\ Nothing
  <2>1. m.of \in AliasName /\ m.as \in Seq(Command)
    BY <1>8, MeaningAssumption
  <2>2. /\ Lines(m.as) \in Text /\ Terminated(Lines(m.as))
        /\ Commands(Lines(m.as)) = m.as
    BY <2>1, LinesAre, CommandsOfLines
  <2>3. /\ ListIsWhole'
        /\ \A n \in AliasName :
             StoodIn(cmd_alias', n) = IF n = m.of THEN m.as
                                      ELSE StoodIn(cmd_alias, n)
    BY <1>1, <1>8, <2>1, <2>2, AliasStands
  <2>4. Aliases' = [Aliases EXCEPT ![m.of] = m.as]
    <3>1. Aliases' = [n \in AliasName |-> StoodIn(cmd_alias', n)]
      BY DEF Aliases, StoodIn, Commands
    <3>2. Aliases = [n \in AliasName |-> StoodIn(cmd_alias, n)]
      BY DEF Aliases
    <3> QED
      BY <2>1, <2>3, <3>1, <3>2
  <2>5. IsRun(c, Commands(rest))
    BY <1>3, <1>8, <2>4, RunsIs
  <2> QED
    BY <1>3, <1>8, <2>3, <2>5
<1>9. CASE /\ m.kind = "unalias" /\ ~ListIsFreed
           /\ Cmd_Unalias_f(m.of) /\ Nothing
  <2>1. m.of \in AliasName
    BY <1>9, MeaningAssumption
  <2>2. /\ ListIsWhole'
        /\ \A n \in AliasName :
             StoodIn(cmd_alias', n) = IF n = m.of THEN <<>>
                                      ELSE StoodIn(cmd_alias, n)
    BY <1>1, <1>9, <2>1, UnaliasStands
  <2>3. Aliases' = [Aliases EXCEPT ![m.of] = <<>>]
    <3>1. Aliases' = [n \in AliasName |-> StoodIn(cmd_alias', n)]
      BY DEF Aliases, StoodIn, Commands
    <3>2. Aliases = [n \in AliasName |-> StoodIn(cmd_alias, n)]
      BY DEF Aliases
    <3> QED
      BY <2>1, <2>2, <3>1, <3>2
  <2>4. IsRun(c, Commands(rest))
    BY <1>3, <1>9, <2>3, RunsIs
  <2> QED
    BY <1>3, <1>9, <2>2, <2>4
<1>10. CASE /\ m.kind = "unaliasall" /\ ~ListIsFreed
            /\ cmd_alias' = <<>> /\ Nothing
  <2>1. Len(cmd_alias') = 0
    BY <1>10
  <2>2. ListIsWhole'
    BY <2>1 DEF ListIsWhole, Distinct
  <2>3. \A n \in AliasName : StoodIn(cmd_alias', n) = <<>>
    BY <2>1 DEF StoodIn
  <2>4. Aliases' = [n \in AliasName |-> <<>>]
    <3>1. Aliases' = [n \in AliasName |-> StoodIn(cmd_alias', n)]
      BY DEF Aliases, StoodIn, Commands
    <3> QED
      BY <2>3, <3>1
  <2>5. IsRun(c, Commands(rest))
    BY <1>3, <1>10, <2>4, RunsIs
  <2> QED
    BY <1>3, <1>10, <2>2, <2>5
<1> QED
  BY <1>4, <1>5, <1>6, <1>7, <1>8, <1>9, <1>10 DEF Cmd_ExecuteString

\* The line at the front of a buffer whose commands have their line ends.
LEMMA FrontIs ==
  ASSUME cmd_text \in Text, cmd_text # <<>>, Terminated(cmd_text)
  PROVE  /\ Line = <<>> => Commands(cmd_text) = Commands(Rest)
         /\ Line # <<>> =>
              /\ Head(Line) \in Command
              /\ Commands(cmd_text) = <<Head(Line)>> \o Commands(Rest)
<1>1. Len(cmd_text) \in Nat /\ Len(cmd_text) > 0 /\ 1 \in 1..Len(cmd_text)
  BY DEF Text
<1>2. cmd_text[1] \in Command \cup {NL}
  BY <1>1 DEF Text
<1>3. Rest \in Text
  BY RestIs
<1>4. CASE cmd_text[1] = NL
  <2>1. Line = <<>> /\ LineEnd = 1
    BY <1>4, LineIs
  <2>2. SubSeq(cmd_text, 1, 1) \o SubSeq(cmd_text, 1 + 1, Len(cmd_text))
          = SubSeq(cmd_text, 1, Len(cmd_text))
    <3>1. /\ 1 \in 1..Len(cmd_text) + 1 /\ 1 \in 1 - 1..Len(cmd_text)
          /\ Len(cmd_text) \in 1..Len(cmd_text)
      BY <1>1
    <3> QED
      BY <3>1, ConcatAdjacentSubSeq DEF Text
  <2>3. SubSeq(cmd_text, 1, Len(cmd_text)) = cmd_text
    BY SubSeqFull DEF Text
  <2>4. SubSeq(cmd_text, 1, 1) = <<NL>>
    <3>1. SubSeq(cmd_text, 1, 1) = <<cmd_text[1]>> \o SubSeq(cmd_text, 1 + 1, 1)
      <4>1. 1 \in 1..Len(cmd_text) /\ 1 \in 1..1
        BY <1>1
      <4> QED
        BY <4>1, SubSeqRecursiveFirst DEF Text
    <3>2. SubSeq(cmd_text, 1 + 1, 1) = <<>>
      BY SubSeqEmpty
    <3>3. <<NL>> \o <<>> = <<NL>>
      BY CommandsOfEnd, ConcatEmptySeq DEF Text
    <3> QED
      BY <1>4, <3>1, <3>2, <3>3
  <2>5. cmd_text = <<NL>> \o Rest
    BY <2>1, <2>2, <2>3, <2>4 DEF Rest
  <2>6. Commands(cmd_text) = Commands(<<NL>>) \o Commands(Rest)
    BY <1>3, <2>5, CommandsOfBoth, CommandsOfEnd
  <2>7. <<>> \o Commands(Rest) = Commands(Rest)
    BY <1>3, CommandsType, ConcatEmptySeq
  <2> QED
    BY <2>1, <2>6, <2>7, CommandsOfEnd
<1>5. CASE cmd_text[1] # NL
  <2>1. 1 + 1 \in 1..Len(cmd_text) /\ cmd_text[1 + 1] = NL
    BY <1>1, <1>5 DEF Terminated
  <2>2. Len(cmd_text) > 1 /\ cmd_text[2] = NL
    BY <1>1, <2>1
  <2>3. LineEnd = 2 /\ Line # <<>> /\ Head(Line) = cmd_text[1]
    BY <1>5, <2>2, LineIs
  <2> DEFINE c == cmd_text[1]
  <2>4. c \in Command
    BY <1>2, <1>5
  <2>5. SubSeq(cmd_text, 1, 2) \o SubSeq(cmd_text, 2 + 1, Len(cmd_text))
          = SubSeq(cmd_text, 1, Len(cmd_text))
    <3>1. /\ 1 \in 1..Len(cmd_text) + 1 /\ 2 \in 1 - 1..Len(cmd_text)
          /\ Len(cmd_text) \in 2..Len(cmd_text)
      BY <1>1, <2>2
    <3> QED
      BY <3>1, ConcatAdjacentSubSeq DEF Text
  <2>6. SubSeq(cmd_text, 1, Len(cmd_text)) = cmd_text
    BY SubSeqFull DEF Text
  <2>7. SubSeq(cmd_text, 1, 2) = <<c>> \o <<NL>>
    <3>1. 1 \in 1..Len(cmd_text) /\ 2 \in 1..Len(cmd_text)
      BY <1>1, <2>2
    <3>2. /\ SubSeq(cmd_text, 1, 2) = <<cmd_text[1]>> \o SubSeq(cmd_text, 1 + 1, 2)
          /\ SubSeq(cmd_text, 2, 2) = <<cmd_text[2]>> \o SubSeq(cmd_text, 2 + 1, 2)
      <4>1. 2 \in 1..Len(cmd_text) /\ 2 \in 2..Len(cmd_text)
        BY <1>1, <3>1
      <4> QED
        BY <3>1, <4>1, SubSeqRecursiveFirst DEF Text
    <3>3. SubSeq(cmd_text, 2 + 1, 2) = <<>>
      BY SubSeqEmpty
    <3> QED
      BY <2>2, <3>2, <3>3
  <2> HIDE DEF c
  <2>8. cmd_text = (<<c>> \o <<NL>>) \o Rest
    BY <2>3, <2>5, <2>6, <2>7 DEF Rest
  <2>9. /\ <<c>> \in Text /\ Commands(<<c>>) = <<c>>
        /\ <<NL>> \in Text /\ Commands(<<NL>>) = <<>>
    BY <2>4, CommandsOfOne, CommandsOfEnd
  <2>10. /\ <<c>> \o <<NL>> \in Text
         /\ Commands(<<c>> \o <<NL>>) = <<c>> \o <<>>
    BY <2>9, CommandsOfBoth
  <2>11. Commands(cmd_text) = (<<c>> \o <<>>) \o Commands(Rest)
    BY <1>3, <2>8, <2>10, CommandsOfBoth
  <2>12. <<c>> \o <<>> = <<c>>
    BY <2>4
  <2> QED
    BY <2>3, <2>4, <2>11, <2>12 DEF c
<1> QED
  BY <1>4, <1>5

TheScriptGiven ==
  {Commands(text) : text \in Given} \cup {<<c>> : c \in Command}

LEMMA CommandStep ==
  ASSUME TextsAreWhole, CommandInv, [CommandNext]_commandVars
  PROVE  /\ CommandInv'
         /\ \/ UNCHANGED TheScript!vars
            \/ TheScript!Run
            \/ \E c \in Command : TheScript!RunAtOnce(c)
            \/ \E text \in TheScriptGiven :
                 TheScript!Give(text) \/ TheScript!GiveFirst(text)
<1> DEFINE Same == UNCHANGED TheScript!vars
<1>1. /\ cmd_text \in Text /\ Terminated(cmd_text) /\ ListIsWhole
      /\ cmd_alias \in Seq(AliasEntry) /\ CommandTypeOK
  BY DEF CommandInv, CommandTypeOK, AliasEntry
<1>2. CommandTypeOK'
  BY <1>1, NextKeepsTypes
<1>3. ASSUME cmd_alias' = cmd_alias
      PROVE  ListIsWhole' /\ Aliases' = Aliases
  BY <1>1, <1>3 DEF ListIsWhole, Distinct, Terminated, Aliases, StoodIn, Commands
<1>4. ASSUME cmd_text' = cmd_text, cmd_alias' = cmd_alias
      PROVE  CommandInv' /\ Same
  <2>1. Terminated(cmd_text)'
    BY <1>1, <1>4 DEF Terminated
  <2>2. Commands(cmd_text') = Commands(cmd_text)
    BY <1>4
  <2> QED
    BY <1>2, <1>3, <1>4, <2>1, <2>2, StutterIs DEF CommandInv
<1>5. CASE RunLine
  <2>1. Rest \in Text /\ Terminated(Rest) /\ cmd_text # <<>>
    BY <1>1, <1>5, RestIs DEF RunLine
  <2>2. CASE Line = <<>>
    <3>1. cmd_text' = Rest /\ cmd_alias' = cmd_alias
      BY <1>5, <2>2 DEF RunLine
    <3>2. Commands(cmd_text') = Commands(cmd_text)
      BY <1>1, <2>1, <2>2, <3>1, FrontIs
    <3>3. Terminated(cmd_text)'
      BY <2>1, <3>1 DEF Terminated
    <3> QED
      BY <1>2, <1>3, <3>1, <3>2, <3>3, StutterIs DEF CommandInv
  <2>3. CASE Line # <<>>
    <3> DEFINE c == Head(Line)
    <3>1. c \in Command /\ Commands(cmd_text) = <<c>> \o Commands(Rest)
      BY <1>1, <2>1, <2>3, FrontIs
    <3>2. Cmd_ExecuteString(c, Rest)
      BY <1>5, <2>3 DEF RunLine
    <3> HIDE DEF c
    <3>3. /\ Terminated(cmd_text)' /\ ListIsWhole'
          /\ \/ cmd_text' = cmd_text /\ cmd_alias' = cmd_alias
             \/ IsRun(c, Commands(Rest))
      BY <2>1, <3>1, <3>2, ExecuteStands
    <3>4. ASSUME IsRun(c, Commands(Rest))
          PROVE  TheScript!Run
      <4> DEFINE p == Commands(cmd_text)
                 r == Commands(Rest)
      <4>1. r \in Seq(Command)
        BY <2>1, CommandsType
      <4>2. p # <<>> /\ Head(p) = c /\ Tail(p) = r
        <5>1. p = <<c>> \o r
          BY <3>1
        <5> HIDE DEF p, r
        <5> QED
          BY <3>1, <4>1, <5>1
      <4> HIDE DEF r
      <4>3. PICK d, b : d = c /\ b = r
        OBVIOUS
      <4>4. IsRun(d, b)
        BY <3>4, <4>3 DEF r
      <4>5. TheScript!RunBefore(d, b)
        BY <3>1, <4>3, <4>4, RunsAre
      <4>6. d = Head(p) /\ b = Tail(p) /\ p # <<>>
        <5> HIDE DEF p
        <5> QED
          BY <4>2, <4>3
      <4> QED
        BY <4>5, <4>6 DEF TheScript!Run, TheScript!RunBefore
    <3>5. CommandInv'
      BY <1>2, <3>3 DEF CommandInv
    <3> QED
      BY <1>4, <3>3, <3>4, <3>5
  <2> QED
    BY <2>2, <2>3
<1>6. CASE ExecuteReturns \/ Host_FrameExecutes \/ UNCHANGED commandVars
  <2>1. cmd_text' = cmd_text /\ cmd_alias' = cmd_alias
    BY <1>6 DEF ExecuteReturns, Host_FrameExecutes, commandVars
  <2> QED
    BY <1>4, <2>1
<1>7. ASSUME NEW text \in Text, Terminated(text),
             cmd_text' = cmd_text \o text, cmd_alias' = cmd_alias
      PROVE  CommandInv' /\ TheScript!Give(Commands(text))
  <2>1. Commands(cmd_text') = Commands(cmd_text) \o Commands(text)
    BY <1>1, <1>7, CommandsOfBoth
  <2>2. Terminated(cmd_text')
    BY <1>1, <1>7, TerminatedBoth
  <2>3. Terminated(cmd_text)'
    BY <2>2 DEF Terminated
  <2> QED
    BY <1>2, <1>3, <1>7, <2>1, <2>3, GivesAre DEF CommandInv
<1>8. ASSUME NEW text \in Given, Cbuf_AddText(text) \/ Q_Version(text)
      PROVE  CommandInv' /\ (Same \/ TheScript!Give(Commands(text)))
  <2>1. /\ cmd_text' = WithText(cmd_text, text) /\ cmd_alias' = cmd_alias
        /\ text \in Text /\ Terminated(text)
    BY <1>8, CommandAssumption DEF Cbuf_AddText, Q_Version, TextsAreWhole
  <2>2. cmd_text' = cmd_text \/ cmd_text' = cmd_text \o text
    BY <2>1 DEF WithText
  <2> QED
    BY <1>4, <1>7, <2>1, <2>2
<1>9. ASSUME NEW text \in Given, InsertText(text)
      PROVE  CommandInv' /\ (Same \/ TheScript!GiveFirst(Commands(text)))
  <2>1. /\ Cbuf_InsertText(text, cmd_text) /\ cmd_alias' = cmd_alias
        /\ text \in Text /\ Terminated(text)
    BY <1>9, CommandAssumption DEF InsertText, TextsAreWhole
  <2>2. CASE cmd_text' = cmd_text
    BY <1>4, <2>1, <2>2
  <2>3. ASSUME NEW t \in {text, <<>>}, cmd_text' = t \o cmd_text
        PROVE  CommandInv' /\ (Same \/ TheScript!GiveFirst(Commands(text)))
    <3>1. t \in Text /\ Terminated(t)
      BY <2>1, <2>3, NoneTerminated
    <3>2. Commands(cmd_text') = Commands(t) \o Commands(cmd_text)
      BY <1>1, <2>3, <3>1, CommandsOfBoth
    <3>3. Terminated(cmd_text')
      BY <1>1, <2>3, <3>1, TerminatedBoth
    <3>4. CommandInv'
      <4>1. Terminated(cmd_text)'
        BY <3>3 DEF Terminated
      <4> QED
        BY <1>2, <1>3, <2>1, <4>1 DEF CommandInv
    <3>5. CASE t = text
      BY <1>3, <2>1, <3>2, <3>4, <3>5, GivesAre
    <3>6. CASE t = <<>>
      <4>1. cmd_text' = cmd_text
        BY <1>1, <2>3, <3>6, ConcatEmptySeq DEF Text
      <4> QED
        BY <1>4, <2>1, <4>1
    <3> QED
      BY <3>5, <3>6, <2>3
  <2> QED
    BY <1>1, <2>1, <2>2, <2>3, InsertIs
<1>10. ASSUME NEW c \in Command, Key_Event(c)
       PROVE  CommandInv' /\ (Same \/ TheScript!Give(<<c>>))
  <2>1. /\ cmd_text' = WithText(WithText(cmd_text, <<c>>), <<NL>>)
        /\ cmd_alias' = cmd_alias /\ Len(cmd_text) + 2 # MaxText
    BY <1>10 DEF Key_Event, TextsAreWhole
  <2>2. /\ Len(cmd_text) \in Nat /\ MaxText \in Nat
        /\ Len(<<c>>) = 1 /\ Len(<<NL>>) = 1
    BY <1>1, CommandAssumption DEF Text
  <2>3. /\ <<c>> \in Text /\ Commands(<<c>>) = <<c>>
        /\ <<NL>> \in Text /\ Commands(<<NL>>) = <<>>
    BY CommandsOfOne, CommandsOfEnd
  <2>4. CASE Len(cmd_text) + 1 >= MaxText
    <3>1. cmd_text' = cmd_text
      BY <2>1, <2>2, <2>4 DEF WithText
    <3> QED
      BY <1>4, <2>1, <3>1
  <2>5. CASE ~(Len(cmd_text) + 1 >= MaxText)
    <3>1. WithText(cmd_text, <<c>>) = cmd_text \o <<c>>
      BY <2>2, <2>5 DEF WithText
    <3>2. Len(cmd_text \o <<c>>) = Len(cmd_text) + 1
      BY <1>1, <2>2, <2>3, ConcatProperties DEF Text
    <3>3. ~(Len(cmd_text \o <<c>>) + Len(<<NL>>) >= MaxText)
      BY <2>1, <2>2, <2>5, <3>2
    <3>4. cmd_text' = (cmd_text \o <<c>>) \o <<NL>>
      BY <2>1, <3>1, <3>3 DEF WithText
    <3>5. (cmd_text \o <<c>>) \o <<NL>> = cmd_text \o (<<c>> \o <<NL>>)
      BY <1>1, <2>3, ConcatAssociative DEF Text
    <3> DEFINE text == <<c>> \o <<NL>>
    <3>6. text \in Text /\ Commands(text) = <<c>> \o <<>>
      BY <2>3, CommandsOfBoth
    <3>7. <<c>> \o <<>> = <<c>>
      OBVIOUS
    <3>8. Terminated(text)
      <4>1. Len(text) = 2 /\ text[2] = NL
        BY <2>2, <2>3, ConcatProperties DEF Text
      <4>2. \A i \in 1..2 : i = 1 \/ i = 2
        OBVIOUS
      <4> HIDE DEF text
      <4>3. 2 \in 1..2 /\ 1 + 1 = 2
        OBVIOUS
      <4> QED
        BY <4>1, <4>2, <4>3 DEF Terminated
    <3> HIDE DEF text
    <3>9. cmd_text' = cmd_text \o text
      BY <3>4, <3>5 DEF text
    <3> QED
      BY <1>7, <2>1, <3>6, <3>7, <3>8, <3>9
  <2> QED
    BY <2>4, <2>5
<1>11. ASSUME NEW c \in Command, Rcon(c)
       PROVE  CommandInv' /\ (Same \/ TheScript!RunAtOnce(c))
  <2>1. Cmd_ExecuteString(c, cmd_text)
    BY <1>11 DEF Rcon
  <2>2. /\ Terminated(cmd_text)' /\ ListIsWhole'
        /\ \/ cmd_text' = cmd_text /\ cmd_alias' = cmd_alias
           \/ IsRun(c, Commands(cmd_text))
    BY <1>1, <2>1, ExecuteStands
  <2>3. CommandInv'
    BY <1>2, <2>2 DEF CommandInv
  <2>4. ASSUME IsRun(c, Commands(cmd_text))
        PROVE  TheScript!RunAtOnce(c)
    <3>1. PICK b : b = Commands(cmd_text)
      OBVIOUS
    <3>2. TheScript!RunBefore(c, b)
      BY <2>4, <3>1, RunsAre
    <3> QED
      BY <3>1, <3>2 DEF TheScript!RunAtOnce, TheScript!RunBefore
  <2> QED
    BY <1>4, <2>2, <2>3, <2>4
<1>12. \A text \in Given : Commands(text) \in TheScriptGiven
  BY DEF TheScriptGiven
<1>13. \A c \in Command : <<c>> \in TheScriptGiven
  BY DEF TheScriptGiven
<1> HIDE DEF Same
<1>14. CASE \E text \in Given :
              Cbuf_AddText(text) \/ InsertText(text) \/ Q_Version(text)
  <2>1. PICK text \in Given :
          Cbuf_AddText(text) \/ InsertText(text) \/ Q_Version(text)
    BY <1>14
  <2>2. /\ CommandInv'
        /\ \/ Same \/ TheScript!Give(Commands(text))
           \/ TheScript!GiveFirst(Commands(text))
    BY <1>8, <1>9, <2>1
  <2> QED
    BY <1>12, <2>2 DEF Same
<1>15. CASE \E c \in Command : Key_Event(c) \/ Rcon(c)
  <2>1. PICK c \in Command : Key_Event(c) \/ Rcon(c)
    BY <1>15
  <2>2. /\ CommandInv'
        /\ Same \/ TheScript!Give(<<c>>) \/ TheScript!RunAtOnce(c)
    BY <1>10, <1>11, <2>1
  <2> QED
    BY <1>13, <2>2 DEF Same
<1> QED
  BY <1>5, <1>6, <1>14, <1>15 DEF CommandNext, Same

LEMMA CommandsBegin ==
  CommandInit => CommandInv /\ TheScript!Init
<1> HAVE CommandInit
<1>1. 0 <= MaxText
  BY CommandAssumption
<1>2. <<>> \in Seq(AliasEntry) /\ <<>> \in Text /\ Len(<<>>) = 0
  BY DEF Text
<1>3. CommandTypeOK
  BY <1>1, <1>2 DEF CommandInit, CommandTypeOK, AliasEntry
<1>4. Terminated(cmd_text) /\ ListIsWhole
  BY <1>2 DEF CommandInit, Terminated, ListIsWhole, Distinct
<1>5. Commands(cmd_text) = <<>>
  BY CommandsOfNone DEF CommandInit
<1>6. \A name : Places(name) = {}
  BY <1>2 DEF CommandInit, Places
<1>7. TheScript!Init
  BY <1>5, <1>6 DEF TheScript!Init, TheScript!NoAlias
<1> QED
  BY <1>3, <1>4, <1>7 DEF CommandInv

\* The commands of texts with their line ends are run in the order in which
\* they were given (Cbuf_Execute, Cbuf_InsertText, Cmd_Alias_f), with any
\* texts, scripts and aliases, and a buffer of any size.
THEOREM BufferImplementsScript ==
  ASSUME TextsAreWhole
  PROVE  CommandSpec => ImplementsScript
<1>1. CommandInit => CommandInv /\ TheScript!Init
  BY CommandsBegin
<1>2. CommandInv /\ [CommandNext]_commandVars =>
        CommandInv' /\ [TheScript!Next]_(TheScript!vars)
  <2> HAVE CommandInv /\ [CommandNext]_commandVars
  <2>1. /\ CommandInv'
        /\ \/ UNCHANGED TheScript!vars
           \/ TheScript!Run
           \/ \E c \in Command : TheScript!RunAtOnce(c)
           \/ \E text \in TheScriptGiven :
                TheScript!Give(text) \/ TheScript!GiveFirst(text)
    BY CommandStep
  <2>2. DOMAIN Meaning = Command
    BY CommandAssumption
  <2> QED
    BY <2>1, <2>2 DEF TheScript!Next, TheScriptGiven
<1> QED
  BY <1>1, <1>2, PTL DEF CommandSpec, ImplementsScript, TheScript!Spec
=============================================================================
