-------------------------------- MODULE Progs --------------------------------
(***************************************************************************)
(* The QuakeC machine (pr_exec.c) and the errors that end what it runs.    *)
(*                                                                         *)
(* The host runs a program (PR_ExecuteProgram), a function of it calls     *)
(* others and built-in ones, and some of those run a program in turn, on   *)
(* the same two stacks.  The locals of a function lie at fixed places of   *)
(* pr_globals; what stands there when it is entered is saved in localstack *)
(* and comes back when it is left.                                         *)
(*                                                                         *)
(* An error leaves all of this by longjmp (Host_Error), but first shuts    *)
(* the server down, and for that runs ClientDisconnect for every player.   *)
(*                                                                         *)
(* What a function computes is a choice: any statement may come next.      *)
(***************************************************************************)
EXTENDS Integers, Sequences

CONSTANTS
  pr_functions,    \* of each function parm_start, locals and numparms
  Calls,           \* Calls[f]: the functions f may call or have run
  Faulty,          \* the functions that may make errors, or loop
  EntryPoints,     \* the functions the host runs: think, touch, StartFrame...
  ClientDisconnect,
  GlobalValue,     \* the values of a cell
  MAX_STACK_DEPTH, LOCALSTACK_SIZE,
  MaxStatements,   \* statements a program may take (runaway)
  MaxPlayers

Func == DOMAIN pr_functions

ASSUME ProgsAssumption ==
  /\ \A f \in Func :
       LET p == pr_functions[f] IN
       /\ {p.parm_start, p.locals, p.numparms} \subseteq Nat
       /\ p.numparms <= p.locals
       /\ Calls[f] \subseteq Func
  /\ Faulty \cup EntryPoints \cup {ClientDisconnect} \subseteq Func
  /\ "none" \notin Func
  /\ 0 \in GlobalValue
  /\ {MAX_STACK_DEPTH, LOCALSTACK_SIZE, MaxStatements, MaxPlayers}
       \subseteq Nat \ {0}

Locals(f) == LET p == pr_functions[f] IN
             p.parm_start..(p.parm_start + p.locals - 1)
Parms(f) == LET p == pr_functions[f] IN
            p.parm_start..(p.parm_start + p.numparms - 1)
GlobalCell == UNION {Locals(f) : f \in Func}

NoFunc == "none"

VARIABLES
  pr,              \* the machine: globals, stack (the callers of the running
                   \* function; pr_depth is its length), localstack (as far as
                   \* it is used), xfunction
  nest,            \* what the one thread is at, the innermost last: a
                   \* program, the shutdown of the server, an error
  server,          \* state, players, and inerror of Host_Error
  halted           \* the Sys_Error that ended the host, or "no"

progsVars == <<pr, nest, server, halted>>

-----------------------------------------------------------------------------
(* The machine.                                                            *)

Saved(p, f) == [i \in 1..pr_functions[f].locals |->
                  p.globals[pr_functions[f].parm_start + i - 1]]

\* Mutant: the stack of callers may fill up.
StackOverflowsLate(p, f) ==
  \/ Len(p.stack) >= MAX_STACK_DEPTH
  \/ Len(p.localstack) + pr_functions[f].locals > LOCALSTACK_SIZE

StackOverflows(p, f) ==
  \/ Len(p.stack) + 1 >= MAX_STACK_DEPTH
  \/ Len(p.localstack) + pr_functions[f].locals > LOCALSTACK_SIZE

\* Mutant: the parameters are copied before the locals are saved.
PR_EnterFunctionSavesLate(p, f, given) ==
  LET globals == [a \in GlobalCell |-> IF a \in Parms(f) THEN given[a]
                                       ELSE p.globals[a]]
  IN  [globals |-> globals,
       stack |-> Append(p.stack, p.xfunction),
       localstack |-> p.localstack \o Saved([p EXCEPT !.globals = globals], f),
       xfunction |-> f]

\* given: the parameters, from OFS_PARM0 on.
PR_EnterFunction(p, f, given) ==
  [globals |-> [a \in GlobalCell |-> IF a \in Parms(f) THEN given[a]
                                     ELSE p.globals[a]],
   stack |-> Append(p.stack, p.xfunction),
   localstack |-> p.localstack \o Saved(p, f),
   xfunction |-> f]

StackUnderflows(p) ==
  p.stack = <<>> \/ Len(p.localstack) < pr_functions[p.xfunction].locals

PR_LeaveFunction(p) ==
  LET f == pr_functions[p.xfunction]
      kept == Len(p.localstack) - f.locals
  IN  [globals |-> [a \in GlobalCell |->
                      IF a \in Locals(p.xfunction)
                      THEN p.localstack[kept + a - f.parm_start + 1]
                      ELSE p.globals[a]],
       stack |-> SubSeq(p.stack, 1, Len(p.stack) - 1),
       localstack |-> SubSeq(p.localstack, 1, kept),
       xfunction |-> p.stack[Len(p.stack)]]

-----------------------------------------------------------------------------
(* What the thread is at.  Of a program: the depth it began at, the        *)
(* statements it has left, and whether it is that of a player dropped.     *)

Program(exitdepth, drops) ==
  [at |-> "program", exitdepth |-> exitdepth, runaway |-> MaxStatements,
   drops |-> drops]
Shutdown == [at |-> "shutdown"]
Error == [at |-> "error"]

Task == nest[Len(nest)]
Outside == SubSeq(nest, 1, Len(nest) - 1)

Idle == halted = "no" /\ nest = <<>>
At(what) == halted = "no" /\ nest # <<>> /\ Task.at = what
Runs == At("program") /\ Task.runaway > 1

\* Host_Error, with the machine as it is by then.  A server that is active
\* is shut down before the jump.
Host_Error(p) ==
  IF server.inerror
  THEN halted' = "recursively entered" /\ UNCHANGED <<pr, nest, server>>
  ELSE /\ pr' = p
       /\ server' = [server EXCEPT !.inerror = TRUE,
                       !.state = IF @ = "active" THEN "shutdown" ELSE @]
       /\ nest' = IF server.state = "active"
                  THEN nest \o <<Error, Shutdown>> ELSE Append(nest, Error)
       /\ UNCHANGED halted

\* It dumps the stack of callers, and not that of the locals.
PR_RunError(p) == Host_Error([p EXCEPT !.stack = <<>>])

PR_ExecuteProgram(f, drops, outside) ==
  IF StackOverflows(pr, f)
  THEN PR_RunError(pr)
  ELSE /\ \E given \in [Parms(f) -> GlobalValue] :
            pr' = PR_EnterFunction(pr, f, given)
       /\ nest' = Append(outside, Program(Len(pr.stack), drops))
       /\ UNCHANGED <<server, halted>>

-----------------------------------------------------------------------------
(* Statements.                                                             *)

\* Mutant: statements are not counted.
CountedNot == nest

Counted == [nest EXCEPT ![Len(nest)].runaway = @ - 1]

\* A function without fault comes to its end in time.
MayGoOn == Runs /\ (pr.xfunction \in Faulty \/ Task.runaway > 2)

OP_STORE ==
  /\ MayGoOn
  /\ \E a \in Locals(pr.xfunction), v \in GlobalValue :
       pr' = [pr EXCEPT !.globals[a] = v]
  /\ nest' = Counted
  /\ UNCHANGED <<server, halted>>

OP_CALL(f) ==
  /\ MayGoOn
  /\ f \in Calls[pr.xfunction]
  /\ IF StackOverflows(pr, f)
     THEN PR_RunError(pr)
     ELSE /\ \E given \in [Parms(f) -> GlobalValue] :
               pr' = PR_EnterFunction(pr, f, given)
          /\ nest' = Counted
          /\ UNCHANGED <<server, halted>>

\* A built-in function that moves an edict, and touches others by it.
PF_walkmove(f) ==
  /\ MayGoOn
  /\ f \in Calls[pr.xfunction]
  /\ PR_ExecuteProgram(f, FALSE, Counted)

\* An underflow of either stack is an error; here it ends the host.  When a
\* program is done, so is the player it was about (SV_DropClient).
OP_RETURN ==
  /\ Runs
  /\ IF StackUnderflows(pr)
     THEN halted' = "underflow" /\ UNCHANGED <<pr, nest, server>>
     ELSE /\ pr' = PR_LeaveFunction(pr)
          /\ IF Len(pr'.stack) = Task.exitdepth
             THEN /\ nest' = Outside
                  /\ server' = IF Task.drops
                               THEN [server EXCEPT !.players = @ - 1]
                               ELSE server
             ELSE nest' = Counted /\ UNCHANGED server
          /\ UNCHANGED halted

Runaway ==
  /\ At("program")
  /\ Task.runaway <= 1
  /\ PR_RunError(pr)

\* A call of no function, an assignment to the world, a bad opcode...
BadStatement == Runs /\ pr.xfunction \in Faulty /\ PR_RunError(pr)

\* The built-in function error, and others that call Host_Error themselves.
PF_error == Runs /\ pr.xfunction \in Faulty /\ Host_Error(pr)

-----------------------------------------------------------------------------
(* The host.                                                               *)

\* One of the programs of a level, while it is loaded or played.
RunProgram(f) ==
  /\ Idle
  /\ server.state \in {"loading", "active"}
  /\ PR_ExecuteProgram(f, FALSE, nest)

Host_Spawn_Player ==
  /\ Idle
  /\ server.state = "active"
  /\ server.players < MaxPlayers
  /\ server' = [server EXCEPT !.players = @ + 1]
  /\ UNCHANGED <<pr, nest, halted>>

\* A player in the game leaves, of itself or with all others.
SV_DropClient ==
  /\ \/ Idle /\ server.state = "active"
     \/ At("shutdown")
  /\ server.players > 0
  /\ PR_ExecuteProgram(ClientDisconnect, TRUE, nest)

Host_ShutdownServer ==
  /\ Idle
  /\ server.state = "active"
  /\ server' = [server EXCEPT !.state = "shutdown"]
  /\ nest' = <<Shutdown>>
  /\ UNCHANGED <<pr, halted>>

\* Its end: sv and svs.clients are cleared.
ShutdownEnds ==
  /\ At("shutdown")
  /\ server.players = 0
  /\ nest' = Outside
  /\ server' = [server EXCEPT !.state = "none"]
  /\ UNCHANGED <<pr, halted>>

\* longjmp to the main loop.
Host_ErrorEnds ==
  /\ At("error")
  /\ nest' = <<>>
  /\ server' = [server EXCEPT !.inerror = FALSE,
                  !.state = IF @ = "loading" THEN "none" ELSE @]
  /\ UNCHANGED <<pr, halted>>

\* PR_LoadProgs reads the globals anew; the players are to spawn again.
SV_SpawnServer ==
  /\ Idle
  /\ server' = [server EXCEPT !.state = "loading", !.players = 0]
  /\ pr' = [pr EXCEPT !.globals = [a \in GlobalCell |-> 0]]
  /\ UNCHANGED <<nest, halted>>

LevelBegins ==
  /\ Idle
  /\ server.state = "loading"
  /\ server' = [server EXCEPT !.state = "active"]
  /\ UNCHANGED <<pr, nest, halted>>

ProgsInit ==
  /\ pr = [globals |-> [a \in GlobalCell |-> 0], stack |-> <<>>,
           localstack |-> <<>>, xfunction |-> NoFunc]
  /\ nest = <<>>
  /\ server = [state |-> "none", players |-> 0, inerror |-> FALSE]
  /\ halted = "no"

\* What goes on until the thread is back in the main loop.
ProgsStep ==
  \/ OP_STORE
  \/ \E f \in Func : OP_CALL(f) \/ PF_walkmove(f)
  \/ OP_RETURN
  \/ Runaway
  \/ BadStatement
  \/ PF_error
  \/ At("shutdown") /\ SV_DropClient
  \/ ShutdownEnds
  \/ Host_ErrorEnds

ProgsNext ==
  \/ ProgsStep
  \/ Idle /\ SV_DropClient
  \/ \E f \in EntryPoints : RunProgram(f)
  \/ Host_Spawn_Player
  \/ Host_ShutdownServer
  \/ SV_SpawnServer
  \/ LevelBegins

ProgsFairness == WF_progsVars(ProgsStep)
ProgsSpec == ProgsInit /\ [][ProgsNext]_progsVars /\ ProgsFairness

-----------------------------------------------------------------------------
(* Properties.                                                             *)

Machine == [globals : [GlobalCell -> GlobalValue],
            stack : Seq(Func \cup {NoFunc}),
            localstack : Seq(GlobalValue),
            xfunction : Func \cup {NoFunc}]
Tasks == [at : {"program"}, exitdepth : 0..MAX_STACK_DEPTH - 1,
          runaway : 1..MaxStatements, drops : BOOLEAN]
         \cup {Shutdown, Error}

ProgsTypeOK ==
  /\ pr \in Machine
  /\ Len(pr.stack) < MAX_STACK_DEPTH
  /\ Len(pr.localstack) <= LOCALSTACK_SIZE
  /\ nest \in Seq(Tasks)
  /\ server \in [state : {"none", "loading", "active", "shutdown"},
                 players : 0..MaxPlayers, inerror : BOOLEAN]
  /\ halted \in {"no", "underflow", "recursively entered"}

\* However its functions call each other, loop and fail, a program comes to
\* an end, and so does the shutdown in which programs run.  Only an error in
\* that shutdown ends the host: PR_LeaveFunction always finds what
\* PR_EnterFunction has saved, whatever ran inside and failed before.
ProgramsEnd == nest # <<>> ~> nest = <<>> \/ halted = "recursively entered"

\* PR_RunError: "dump the stack so host_error can shutdown functions".
ShutdownFunctionsRun == halted # "recursively entered"

-----------------------------------------------------------------------------
(* The activations there are: those of the programs since the last error.  *)

Since(n) == {i \in DOMAIN n : /\ n[i].at = "program"
                              /\ \A j \in i..Len(n) : n[j].at # "error"}

\* Where the callers of other times end in pr_stack.
Bottom(n) == LET first == CHOOSE i \in Since(n) : \A j \in Since(n) : i <= j
             IN  n[first].exitdepth

\* Their functions, the outermost first, ...
Callees(p, n) ==
  IF Since(n) = {} THEN <<>>
  ELSE Append(SubSeq(p.stack, Bottom(n) + 2, Len(p.stack)), p.xfunction)

\* ... where in localstack each has saved what it stepped on, cs being those
\* functions, ...
SavedAt(p, cs, k) ==
  LET below[m \in 0..Len(cs)] ==
        IF m = 0 THEN Len(p.localstack)
        ELSE below[m - 1] - pr_functions[cs[Len(cs) + 1 - m]].locals
  IN  below[Len(cs) + 1 - k]

\* ... and cell a as it was when the activations from k on did not exist.
CellBefore(p, cs, k, a) ==
  LET later == {j \in k..Len(cs) : a \in Locals(cs[j])} IN
  IF later = {} THEN p.globals[a]
  ELSE LET j == CHOOSE i \in later : \A h \in later : i <= h IN
       p.localstack[SavedAt(p, cs, j) + a - pr_functions[cs[j]].parm_start + 1]

ActiveOf(p, cs) ==
  [k \in 1..Len(cs) |->
     [f |-> cs[k], own |-> [a \in Locals(cs[k]) |-> CellBefore(p, cs, k + 1, a)]]]
BaseOf(p, cs) == [a \in GlobalCell |-> CellBefore(p, cs, 1, a)]

Promised == INSTANCE Activations WITH
  Cell <- GlobalCell, Value <- GlobalValue,
  active <- ActiveOf(pr, Callees(pr, nest)),
  base <- BaseOf(pr, Callees(pr, nest))

\* With one place for the locals of a function and two stacks that programs
\* inside programs share and errors cut short, every activation finds its
\* locals as it left them.
ImplementsActivations == Promised!Spec
=============================================================================
