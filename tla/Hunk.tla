-------------------------------- MODULE Hunk --------------------------------
(***************************************************************************)
(* The hunk (memory.c) and the cache between its two ends                  *)
(* (memory_mcache.c).                                                      *)
(*                                                                         *)
(* The hunk is one piece of memory.  It is used up from below by whatever  *)
(* lasts as long as a level, released by resetting a mark, and from above  *)
(* by one temporary block at a time.  Models and sounds are cached in what *)
(* is between: when an end of the hunk grows into a cached block, the      *)
(* block is moved, or thrown away and loaded again the next time it is     *)
(* asked for.                                                              *)
(*                                                                         *)
(* Memory is counted in paragraphs of 16 bytes, to which both allocators   *)
(* round.  The header of a hunk block takes one, that of a cached block    *)
(* CACHE_HEADER.  What a loader still has to do is a sequence of steps,    *)
(* "todo", so that the loops of the allocators and the places where a      *)
(* loader may fail are steps of their own.                                 *)
(***************************************************************************)
EXTENDS Integers, Sequences

CONSTANTS
  HunkSize,        \* hunk_size
  HunkLevel,       \* host_hunklevel: what Host_Init leaves allocated below
  Model,           \* alias models, kept in the cache
  Sound,           \* sounds, kept in the cache
  Size,            \* Size[u]: what loading u takes in memory
  ScratchSizes,    \* sizes of what is loaded below for a level or a moment
  ClearModels      \* whether the player may have set host_clearmodels to 1

User == Model \cup Sound

ASSUME HunkAssumption ==
  /\ HunkSize \in Nat
  /\ HunkLevel \in 1..HunkSize       \* the zone is allocated there, first
  /\ Model \cap Sound = {}
  /\ Size \in [User -> Nat]
  /\ ScratchSizes \subseteq Nat
  /\ ClearModels \in BOOLEAN

VARIABLES
  hunk_low_used,
  hunk_high_used,
  hunk_tempactive, \* the upper end is a temporary block...
  hunk_tempmark,   \* ...below which the upper end was at this mark
  cache,           \* the list of cached blocks, from cache_head.next on
  lru,             \* the addresses of the cached blocks, latest used first
  data,            \* data[u]: the address of u's block, NULL if not cached
  needload,        \* needload[m] of the models
  todo,            \* the steps the running operation has still to take
  failed           \* the Sys_Error that ended the program, if one did

endVars == <<hunk_low_used, hunk_high_used, hunk_tempactive, hunk_tempmark>>
cacheVars == <<cache, lru, data>>
hunkVars == <<endVars, cacheVars, needload, todo, failed>>

NULL == 0
HUNK_HEADER == 1
CACHE_HEADER == 3                    \* 40 bytes

HunkInit ==
  /\ hunk_low_used = HunkLevel
  /\ hunk_high_used = 0
  /\ hunk_tempactive = FALSE
  /\ hunk_tempmark = 0
  /\ cache = <<>>
  /\ lru = <<>>
  /\ data = [u \in User |-> NULL]
  /\ needload = [m \in Model |-> TRUE]
  /\ todo = <<>>
  /\ failed = "no"

Room == HunkSize - hunk_low_used - hunk_high_used

Sys_Error(what) ==
  /\ failed' = what
  /\ UNCHANGED <<endVars, cacheVars, needload, todo>>

Running == failed = "no" /\ todo # <<>>
Does(op) == Running /\ Head(todo).op = op
Done == todo' = Tail(todo)
DoneBut(step) == todo' = <<step>> \o Tail(todo)

-----------------------------------------------------------------------------
(* The cache.                                                              *)

\* The gaps between the two ends of the hunk and the cached blocks: gap k
\* lies below block k, the last one above all of them.
GapStart(k) ==
  IF k = 1 THEN hunk_low_used ELSE cache[k - 1].at + cache[k - 1].size
GapEnd(k) ==
  IF k > Len(cache) THEN HunkSize - hunk_high_used ELSE cache[k].at

\* The gaps Cache_TryAlloc accepts, the first of which it takes.
Fitting(size, nobottom) ==
  {k \in 1..Len(cache) + 1 : /\ nobottom => k # 1
                             /\ GapEnd(k) - GapStart(k) >= size}
Lowest(gaps) == CHOOSE k \in gaps : \A j \in gaps : k <= j

CacheBlock(u, k, size) == [user |-> u, at |-> GapStart(k), size |-> size]

\* A list without its i-th element, and one with e in the i-th place.
Without(s, i) ==
  [j \in 1..Len(s) - 1 |-> s[IF j < i THEN j ELSE j + 1]]
With(s, i, e) ==
  [j \in 1..Len(s) + 1 |->
     IF j < i THEN s[j] ELSE IF j = i THEN e ELSE s[j - 1]]

\* Where u's block is in the two lists.
BlockOf(u) == CHOOSE i \in 1..Len(cache) : cache[i].at = data[u]
LRUOf(u) == CHOOSE i \in 1..Len(lru) : lru[i] = data[u]

\* Cache_Free(&u): u's block leaves both lists.
Cache_Free(u) ==
  /\ cache' = Without(cache, BlockOf(u))
  /\ lru' = Without(lru, LRUOf(u))
  /\ data' = [data EXCEPT ![u] = NULL]

\* Cache_Check of a cached u: its block becomes the latest used.
Cache_Check(u) ==
  /\ lru' = With(Without(lru, LRUOf(u)), 1, data[u])
  /\ UNCHANGED <<cache, data>>

\* Block c is linked anew in gap k, and unlinked where it was.
Cache_Relink(c, k) ==
  LET new == CacheBlock(c.user, k, c.size)
      i == BlockOf(c.user)
  IN /\ cache' = With(Without(cache, i), IF i < k THEN k - 1 ELSE k, new)
     /\ lru' = With(Without(lru, LRUOf(c.user)), 1, new.at)
     /\ data' = [data EXCEPT ![c.user] = new.at]

\* Mutant: a block that cannot be moved is left where it is.
Cache_MoveOrLeave(c) ==
  LET gaps == Fitting(c.size, TRUE)
  IN IF gaps = {} THEN UNCHANGED cacheVars ELSE Cache_Relink(c, Lowest(gaps))

\* Cache_Move(c): to the first gap that is not at the bottom, or away.  The
\* old block is freed by its owner's pointer, which is then set anew.
Cache_Move(c) ==
  LET gaps == Fitting(c.size, TRUE)
  IN IF gaps = {} THEN Cache_Free(c.user) ELSE Cache_Relink(c, Lowest(gaps))

\* The body of Cache_FreeLow's loop.
Cache_FreeLow ==
  /\ Does("FreeLow")
  /\ IF cache # <<>> /\ cache[1].at < hunk_low_used
       THEN Cache_Move(cache[1]) /\ UNCHANGED todo
       ELSE Done /\ UNCHANGED cacheVars
  /\ UNCHANGED <<endVars, needload, failed>>

\* The body of Cache_FreeHigh's loop; "prev" is the block it has just moved.
Cache_FreeHigh ==
  /\ Does("FreeHigh")
  /\ LET c == cache[Len(cache)] IN
     IF cache # <<>> /\ c.at + c.size > HunkSize - hunk_high_used
       THEN IF c.at = Head(todo).prev
              THEN Cache_Free(c.user) /\ UNCHANGED todo
              ELSE Cache_Move(c) /\ DoneBut([Head(todo) EXCEPT !.prev = c.at])
       ELSE Done /\ UNCHANGED cacheVars
  /\ UNCHANGED <<endVars, needload, failed>>

\* The body of Cache_Alloc's loop: allocate, or free the least recently used
\* block and try again.  An empty cache has one gap: the whole room.
Cache_Alloc ==
  /\ Does("Cache_Alloc")
  /\ LET u == Head(todo).user
         size == Head(todo).size
         gaps == Fitting(size, FALSE)
         new == CacheBlock(u, Lowest(gaps), size)
     IN IF data[u] # NULL
        THEN Sys_Error("Cache_Alloc: already allocated")
        ELSE \/ /\ gaps # {}
                /\ cache' = With(cache, Lowest(gaps), new)
                /\ lru' = With(lru, 1, new.at)
                /\ data' = [data EXCEPT ![u] = new.at]
                /\ Done
                /\ UNCHANGED <<endVars, needload, failed>>
             \/ /\ gaps = {} /\ cache # <<>>
                /\ \E v \in User : data[v] = lru[Len(lru)] /\ Cache_Free(v)
                /\ UNCHANGED <<endVars, needload, todo, failed>>
             \/ /\ gaps = {} /\ cache = <<>>
                /\ Sys_Error("Cache_TryAlloc: greater than free hunk")

-----------------------------------------------------------------------------
(* The two ends of the hunk.                                               *)

\* Mutant: the upper end is not taken off the room.
Hunk_AllocNameLowOnly ==
  /\ Does("Hunk_AllocName")
  /\ IF HunkSize - hunk_low_used < Head(todo).size
       THEN Sys_Error("Hunk_AllocName: not enough RAM")
       ELSE /\ hunk_low_used' = hunk_low_used + Head(todo).size + HUNK_HEADER
            /\ DoneBut([op |-> "FreeLow"])
            /\ UNCHANGED <<hunk_high_used, hunk_tempactive, hunk_tempmark,
                           cacheVars, needload, failed>>

\* Hunk_AllocName: the size is compared with the room before the header is
\* added to it.
Hunk_AllocName ==
  /\ Does("Hunk_AllocName")
  /\ IF Room < Head(todo).size
       THEN Sys_Error("Hunk_AllocName: not enough RAM")
       ELSE /\ hunk_low_used' = hunk_low_used + Head(todo).size + HUNK_HEADER
            /\ DoneBut([op |-> "FreeLow"])
            /\ UNCHANGED <<hunk_high_used, hunk_tempactive, hunk_tempmark,
                           cacheVars, needload, failed>>

\* Mutant: what is to be released is taken for what is to remain.
Hunk_FreeToLowMarkTakesOff ==
  /\ Does("Hunk_FreeToLowMark")
  /\ hunk_low_used' = Head(todo).mark - hunk_low_used
  /\ Done
  /\ UNCHANGED <<hunk_high_used, hunk_tempactive, hunk_tempmark, cacheVars,
                 needload, failed>>

Hunk_FreeToLowMark ==
  /\ Does("Hunk_FreeToLowMark")
  /\ IF Head(todo).mark > hunk_low_used
       THEN Sys_Error("Hunk_FreeToLowMark: bad mark")
       ELSE /\ hunk_low_used' = Head(todo).mark
            /\ Done
            /\ UNCHANGED <<hunk_high_used, hunk_tempactive, hunk_tempmark,
                           cacheVars, needload, failed>>

\* Hunk_HighMark: asking for the mark releases the temporary block.
Hunk_HighMark == IF hunk_tempactive THEN hunk_tempmark ELSE hunk_high_used

\* Hunk_TempAlloc and, in it, Hunk_HighAllocName.
Hunk_TempAlloc ==
  /\ Does("Hunk_TempAlloc")
  /\ LET mark == Hunk_HighMark
         size == Head(todo).size + HUNK_HEADER
     IN IF HunkSize - hunk_low_used - mark < size
        THEN Sys_Error("Hunk_HighAllocName: not enough RAM")
        ELSE /\ hunk_tempmark' = mark
             /\ hunk_tempactive' = TRUE
             /\ hunk_high_used' = mark + size
             /\ DoneBut([op |-> "FreeHigh", prev |-> NULL])
             /\ UNCHANGED <<hunk_low_used, cacheVars, needload, failed>>

-----------------------------------------------------------------------------
(* Who uses the hunk.  Sys_Error apart, an operation begins only when the  *)
(* previous one has ended.                                                 *)

Idle == failed = "no" /\ todo = <<>>

Temp(n) == [op |-> "Hunk_TempAlloc", size |-> n]
Low(n) == [op |-> "Hunk_AllocName", size |-> n]
Unmark(mark) == [op |-> "Hunk_FreeToLowMark", mark |-> mark]
Cached(u, n) == [op |-> "Cache_Alloc", user |-> u, size |-> n + CACHE_HEADER]

\* QFS_LoadStackFile: a file that does not fit the caller's stack buffer is
\* read into the temporary block.
StackFile(n) == {<<>>, <<Temp(n)>>}

\* Mod_LoadModel of an alias model: built on the low hunk, header and all
\* copied to the cache, and the low hunk reset.
Mod_LoadModel(m) ==
  /\ Idle
  /\ \/ /\ ~needload[m] /\ data[m] # NULL
        /\ Cache_Check(m)
        /\ UNCHANGED <<needload, todo>>
     \/ /\ needload[m] \/ data[m] = NULL
        /\ needload' = [needload EXCEPT ![m] = FALSE]
        /\ \E file \in StackFile(Size[m]) :
             todo' = file \o <<Low(Size[m]), Cached(m, Size[m] + HUNK_HEADER),
                               Unmark(hunk_low_used)>>
        /\ UNCHANGED cacheVars
  /\ UNCHANGED <<endVars, failed>>

\* S_LoadSound: read as a temporary file, resampled into the cache.
S_LoadSound(s) ==
  /\ Idle
  /\ \/ data[s] # NULL /\ Cache_Check(s) /\ UNCHANGED todo
     \/ /\ data[s] = NULL
        /\ \E file \in StackFile(Size[s]) :
             todo' = file \o <<Cached(s, Size[s])>>
        /\ UNCHANGED cacheVars
  /\ UNCHANGED <<endVars, needload, failed>>

\* What lasts as long as the level: Mod_LoadModel_Brush, SV_SpawnServer...
LoadForLevel(n) ==
  /\ Idle
  /\ \E file \in StackFile(n) : todo' = file \o <<Low(n)>>
  /\ UNCHANGED <<endVars, cacheVars, needload, failed>>

\* What lasts for a moment: Cmd_Exec_f's script, SV_Physics's entity lists,
\* the pictures and textures of wad files.
LoadForNow(n) ==
  /\ Idle
  /\ todo' = <<Low(n), Unmark(hunk_low_used)>>
  /\ UNCHANGED <<endVars, cacheVars, needload, failed>>

\* A Host_Error in a loader, or an early return of S_LoadSound: what is left
\* to do is not done, the reset of the low hunk included.
AbandonLoad ==
  /\ Running
  /\ Head(todo).op \in {"Hunk_AllocName", "Cache_Alloc"}
  /\ todo' = <<>>
  /\ UNCHANGED <<endVars, cacheVars, needload, failed>>

\* Host_ClearMemory between levels, with host_clearmodels 0 or 1.
Host_ClearMemory(clearmodels) ==
  /\ Idle
  /\ hunk_low_used' = HunkLevel
  /\ needload' = IF clearmodels THEN [m \in Model |-> TRUE] ELSE needload
  /\ UNCHANGED <<hunk_high_used, hunk_tempactive, hunk_tempmark, cacheVars,
                 todo, failed>>

Cache_Flush ==
  /\ cache' = <<>>
  /\ lru' = <<>>
  /\ data' = [u \in User |-> NULL]

\* The command "flush".
Cache_Flush_f ==
  /\ Idle
  /\ Cache_Flush
  /\ UNCHANGED <<endVars, needload, todo, failed>>

\* The command "gamedir": COM_SetGameDir flushes the cache, then all the
\* models are to be loaded anew.
COM_Gamedir_f ==
  /\ Idle
  /\ Cache_Flush
  /\ needload' = [m \in Model |-> TRUE]
  /\ UNCHANGED <<endVars, todo, failed>>

\* Neh_ResetSFX forgets the sounds of the previous level, one by one.
Neh_ResetSFX(s) ==
  /\ Idle
  /\ data[s] # NULL
  /\ Cache_Free(s)
  /\ UNCHANGED <<endVars, needload, todo, failed>>

HunkStep ==
  \/ Cache_FreeLow
  \/ Cache_FreeHigh
  \/ Cache_Alloc
  \/ Hunk_AllocName
  \/ Hunk_FreeToLowMark
  \/ Hunk_TempAlloc

HunkNext ==
  \/ HunkStep
  \/ \E m \in Model : Mod_LoadModel(m)
  \/ \E s \in Sound : S_LoadSound(s) \/ Neh_ResetSFX(s)
  \/ \E n \in ScratchSizes : LoadForLevel(n) \/ LoadForNow(n)
  \/ AbandonLoad
  \/ \E clearmodels \in {FALSE, ClearModels} : Host_ClearMemory(clearmodels)
  \/ Cache_Flush_f
  \/ COM_Gamedir_f

\* A function that has been called runs: nothing else does meanwhile.
HunkFairness == WF_hunkVars(HunkStep)

HunkSpec == HunkInit /\ [][HunkNext]_hunkVars /\ HunkFairness

-----------------------------------------------------------------------------
(* Properties.                                                             *)

\* The marks stay inside memory and the cache's records have their types.
HunkTypeOK ==
  /\ hunk_low_used \in Nat
  /\ hunk_high_used \in Nat
  /\ hunk_tempactive \in BOOLEAN
  /\ hunk_tempmark \in Nat
  /\ cache \in Seq([user : User, at : Nat, size : Nat])
  /\ lru \in Seq(Nat)
  /\ data \in [User -> Nat]
  /\ needload \in [Model -> BOOLEAN]
  /\ failed \in {"no", "Cache_Alloc: already allocated",
                 "Cache_TryAlloc: greater than free hunk",
                 "Hunk_AllocName: not enough RAM",
                 "Hunk_FreeToLowMark: bad mark",
                 "Hunk_HighAllocName: not enough RAM"}

GrowingLow == Does("FreeLow")
GrowingHigh == Does("FreeHigh")

\* Every cached block belongs to the user who points at it, the blocks are in
\* order and do not overlap, and outside the two loops that make room none
\* reaches into an end of the hunk, where it would be overwritten.  The list in
\* the order of use, from which blocks are thrown out, holds the same blocks,
\* each of them once.
CacheIsWhole ==
  /\ \A i \in 1..Len(cache) : data[cache[i].user] = cache[i].at
  /\ \A u \in User : data[u] # NULL =>
       \E i \in 1..Len(cache) : cache[i].user = u
  /\ \A i \in 1..Len(cache) - 1 : cache[i].at + cache[i].size <= cache[i + 1].at
  /\ cache # <<>> =>
       /\ GrowingLow \/ cache[1].at >= hunk_low_used
       /\ GrowingHigh
          \/ LET last == cache[Len(cache)] IN
             last.at + last.size <= HunkSize - hunk_high_used
  /\ Len(lru) = Len(cache)
  /\ {lru[i] : i \in 1..Len(lru)} = {cache[i].at : i \in 1..Len(cache)}

\* Loading never asks for a block that is there, nor resets the lower end to
\* a mark above it, although a model may be marked for loading, evicted and
\* abandoned half-loaded at any time.
CallersAreRight ==
  failed \notin {"Cache_Alloc: already allocated",
                 "Hunk_FreeToLowMark: bad mark"}

\* The two ends.  Temporary blocks do not pile up: the next one takes the
\* place of the last, whether what loaded it succeeded or not.  And because of
\* the header it does not count Hunk_AllocName may pass the upper end, by that
\* header and never by more.
EndsStayApart ==
  /\ hunk_tempmark = 0
  /\ hunk_high_used > 0 => hunk_tempactive
  /\ Room >= -HUNK_HEADER

\* The blocks between the ends, the ends, and those who use both.
HunkIsWhole == CacheIsWhole /\ EndsStayApart /\ CallersAreRight

\* Whatever is asked of the hunk, its loops come to an end.
HunkReturns == todo # <<>> ~> todo = <<>> \/ failed # "no"
=============================================================================
