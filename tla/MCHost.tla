------------------------------- MODULE MCHost -------------------------------
(***************************************************************************)
(* What the host has beside the network game, on small instances: memory   *)
(* (the hunk with the cache, and the zone), the command buffer, the poll   *)
(* procedures, the IP log and the session of the client.  As modelled they *)
(* share no state, so a behaviour looks at one of them.                    *)
(***************************************************************************)
EXTENDS Hunk, Zone, CommandBuffer, Polling, IPLog, ClientSession

CONSTANTS m1, m2, s1

MCModel == {m1, m2}
MCSound == {s1}
MCSize == [u \in MCModel \cup MCSound |-> IF u = m2 THEN 2 ELSE 1]
MCScratchSizes == {0, 2}
MCAllocsize == {2, 3}

\* Alias A waits and calls itself, alias B is two commands, the script f has
\* an empty line and calls B.
MCCommand == {"x", "wait", "exec", "a", "b", "alias_a", "alias_b",
              "unalias_a", "unaliasall"}
MCMeaning == [c \in MCCommand |->
  CASE c = "x" -> [kind |-> "plain"]
    [] c = "wait" -> [kind |-> "wait"]
    [] c = "exec" -> [kind |-> "exec", of |-> "f"]
    [] c = "a" -> [kind |-> "call", of |-> "A"]
    [] c = "b" -> [kind |-> "call", of |-> "B"]
    [] c = "alias_a" -> [kind |-> "alias", of |-> "A",
                         as |-> <<"x", "wait", "a">>]
    [] c = "alias_b" -> [kind |-> "alias", of |-> "B", as |-> <<"x", "x">>]
    [] c = "unalias_a" -> [kind |-> "unalias", of |-> "A"]
    [] c = "unaliasall" -> [kind |-> "unaliasall"]]
MCContent == [f \in {"f"} |-> <<"x", NL, NL, "b", NL>>]
MCAliasName == {"A", "B"}
MCGiven == {<<"x", NL>>, <<"exec", NL>>, <<"a", NL, "b", NL>>}

Player(addr, name) == [addr |-> addr, name |-> name]
MCEntry == {Player(1, "x"), Player(2, "x"), Player(2, "y"), Player(2, "z"),
            Player(3, "x")}
MCImports == {<<Player(3, "x"), Player(1, "x")>>}

VARIABLE part

hostVars == <<hunkVars, zoneVars, commandVars, pollVars, iplogVars,
              sessionVars, part>>

HostInit ==
  /\ part \in {"hunk", "zone", "commands", "polls", "iplog", "session"}
  /\ HunkInit /\ ZoneInit
  /\ CommandInit /\ PollInit /\ IPLogInit /\ SessionInit

HostNext ==
  \/ /\ part = "hunk" /\ HunkNext
     /\ UNCHANGED <<zoneVars, commandVars, pollVars, iplogVars,
                    sessionVars, part>>
  \/ /\ part = "zone" /\ ZoneNext
     /\ UNCHANGED <<hunkVars, commandVars, pollVars, iplogVars,
                    sessionVars, part>>
  \/ /\ part = "commands" /\ CommandNext
     /\ UNCHANGED <<hunkVars, zoneVars, pollVars, iplogVars, sessionVars,
                    part>>
  \/ /\ part = "polls" /\ PollNext
     /\ UNCHANGED <<hunkVars, zoneVars, commandVars, iplogVars,
                    sessionVars, part>>
  \/ /\ part = "iplog" /\ IPLogNext
     /\ UNCHANGED <<hunkVars, zoneVars, commandVars, pollVars, sessionVars,
                    part>>
  \/ /\ part = "session" /\ SessionNext
     /\ UNCHANGED <<hunkVars, zoneVars, commandVars, pollVars, iplogVars,
                    part>>

\* As in each of the modules; only what must not be asked of the polls while
\* another part is looked at says so.
HostFairness ==
  /\ HunkFairness /\ CommandFairness
  /\ WF_pollVars(part = "polls" /\ PollStep)
  /\ SF_pollVars(part = "polls" /\ Tick)

HostSpec == HostInit /\ [][HostNext]_hostVars /\ HostFairness

-----------------------------------------------------------------------------
(* Properties that the parts have in common.                               *)

\* The variables of hunk, command buffer and IP log have their types.
HostTypeOK == HunkTypeOK /\ CommandTypeOK /\ IPLogTypeOK

\* What the host waits for comes to an end: the loops of the hunk while blocks
\* move out of their way, a frame's Cbuf_Execute, and the polls of a search or
\* a query that nobody answers.
CallsReturn == HunkReturns /\ FrameGoesOn /\ PollsEnd
=============================================================================
