------------------------------ MODULE BlockServer ------------------------------
(***************************************************************************)
(* The blocks a mount's server answers reads from                          *)
(* (crates/onelf-rt/src/fuse/fs.rs, BlockCache, Prefetch, handle_read and  *)
(* clear_if_idle): the server decompresses the blocks a read covers into a *)
(* cache with a budget, while worker threads decompress the blocks of the  *)
(* startup profile ahead of it, up to a window, and stop once no read      *)
(* inserted anything for a while.                                          *)
(*                                                                         *)
(* A section under the store's mutex is one step.  Threads share nothing   *)
(* but the store and the index, so a block's decompression is part of the  *)
(* step that keeps it.  The verdict on an entry without block hashes       *)
(* (verify_entry) is left out, and so is what the other requests answer.   *)
(***************************************************************************)
EXTENDS Naturals, Sequences, FiniteSets

CONSTANTS
  Worker,    \* worker threads there is a core for
  Entry,     \* the package's regular files
  Length,    \* blocks of each
  SizeOf,    \* bytes of each block
  Listed,    \* the blocks the startup profile lists, each once
  Window,    \* bytes the workers may have ready before they wait
  Budget     \* bytes the cache may hold

Block == UNION {{e} \X (1..Length[e]) : e \in Entry}
Wanted == {Listed[i] : i \in DOMAIN Listed}

ASSUME BlockAssumption ==
  /\ IsFiniteSet(Worker) /\ IsFiniteSet(Entry)
  /\ Length \in [Entry -> Nat] /\ SizeOf \in [Block -> Nat \ {0}]
  /\ Listed \in Seq(Block)
  /\ \A i, j \in DOMAIN Listed : Listed[i] = Listed[j] => i = j
  /\ Window \in Nat \ {0} /\ Budget \in Nat \ {0}

VARIABLES
  loop,        \* where the server's loop is
  needed,      \* the blocks the read in progress covers
  left,        \* those it has not gone through yet
  data,        \* the blocks in the cache
  order,       \* which of them is older than which
  accessed,    \* something was inserted since the cache was last cleared
  prefetch,    \* the server has a prefetch
  next,        \* index into Listed of the next block a worker takes
  wk,          \* where each worker is
  on,          \* the index it took
  ready,       \* the store: blocks no read has taken yet,
  bytes,       \*   how much they are said to hold,
  taken,       \*   blocks a read decompressed itself,
  stop         \*   and the order to stop

readVars  == <<loop, needed, left>>
cacheVars == <<data, order, accessed>>
storeVars == <<ready, bytes, taken, stop>>
workVars  == <<next, wk, on>>
blockVars == <<readVars, cacheVars, prefetch, workVars, storeVars>>

\* Counted one by one.
Bytes(S) == Cardinality(UNION {{b} \X (1..SizeOf[b]) : b \in S})

\* The blocks a read covers: all from the first to the last of one entry.
Span(e, a, z) == {e} \X (a..z)
Reads == UNION {{Span(b[1], a, b[2]) : a \in 1..b[2]} : b \in Block}

\* As many workers as could be started; none at all without cores or a profile.
BSInit ==
  /\ loop = "serving" /\ needed = {} /\ left = {}
  /\ data = {} /\ order = {} /\ accessed = FALSE
  /\ next = 1 /\ on = [w \in Worker |-> 0]
  /\ \E S \in SUBSET Worker :
       /\ wk = [w \in Worker |-> IF w \in S /\ Listed # <<>> THEN "next" ELSE "done"]
       /\ prefetch = (S # {} /\ Listed # <<>>)
  /\ ready = {} /\ bytes = 0 /\ taken = {} /\ stop = FALSE

-----------------------------------------------------------------------------
(* The workers.                                                            *)

Move(w, to) == wk' = [wk EXCEPT ![w] = to]
GoOn(w, to) == Move(w, to) /\ on' = [on EXCEPT ![w] = 0]

TakeIndex(w) ==
  /\ wk[w] = "next"
  /\ next' = next + 1
  /\ IF next \in DOMAIN Listed
       THEN Move(w, "checking") /\ on' = [on EXCEPT ![w] = next]
       ELSE Move(w, "done") /\ UNCHANGED on
  /\ UNCHANGED <<readVars, cacheVars, prefetch, storeVars>>

\* Before the block is decompressed; a worker that waited looks again.
CheckRoom(w) ==
  /\ wk[w] = "checking"
  /\ \/ stop /\ GoOn(w, "done")
     \/ ~stop /\ bytes >= Window /\ Move(w, "waiting") /\ UNCHANGED on
     \/ ~stop /\ bytes < Window /\ Listed[on[w]] \in taken /\ GoOn(w, "next")
     \/ /\ ~stop /\ bytes < Window /\ Listed[on[w]] \notin taken
        /\ Move(w, "loading") /\ UNCHANGED on
  /\ UNCHANGED <<readVars, cacheVars, prefetch, next, storeVars>>

\* The wait may end for no reason.
AfterWaitUnchecked == "loading" \* slip: the wait is not in a loop
AfterWait == "checking"
WakeSpuriously(w) ==
  /\ wk[w] = "waiting" /\ Move(w, AfterWait)
  /\ UNCHANGED <<readVars, cacheVars, prefetch, next, on, storeVars>>

DropsDoubles(b) == b \in ready \* slip: the first look at taken was enough
Drops(b) == b \in taken \/ b \in ready

\* The block cannot be read, or is not what the manifest says.
Spoiled(w) ==
  /\ wk[w] = "loading" /\ GoOn(w, "next")
  /\ UNCHANGED <<readVars, cacheVars, prefetch, next, storeVars>>

StoreBlock(w) ==
  /\ wk[w] = "loading"
  /\ LET b == Listed[on[w]] IN
     \/ /\ stop /\ GoOn(w, "done") /\ UNCHANGED <<ready, bytes>>
     \/ /\ ~stop /\ Drops(b) /\ GoOn(w, "next") /\ UNCHANGED <<ready, bytes>>
     \/ /\ ~stop /\ ~Drops(b) /\ GoOn(w, "next")
        /\ ready' = ready \cup {b} /\ bytes' = bytes + SizeOf[b]
  /\ UNCHANGED <<readVars, cacheVars, prefetch, next, taken, stop>>

-----------------------------------------------------------------------------
(* The cache: insert_block.                                                *)

SparedNone(b) == FALSE \* slip: oldest first, whoever needs it
Spared(b) == b \in needed

\* How far the search for room may have come: each block it looks at is younger than
\* those it has looked at, and the last of all is the youngest.
Searched == {{}, data} \cup {{d \in data : <<d, c>> \in order} \cup {c} : c \in data}

\* b fits without the blocks looked at, or there is nothing left to look at.
Enough(b, looked) ==
  Bytes({c \in data : c \in looked => Spared(c)}) + SizeOf[b] <= Budget \/ looked = data

\* Oldest first, and no further than it must.
Victims(b) ==
  LET looked == CHOOSE S \in Searched :
                  /\ Enough(b, S)
                  /\ \A T \in Searched : Enough(b, T) /\ T \subseteq S => T = S
  IN  {c \in looked : ~Spared(c)}

\* What was looked at and spared goes back to the front, where it was.
Insert(b) ==
  /\ data' = (data \ Victims(b)) \cup {b}
  /\ order' = (order \cap (data' \X data')) \cup ((data' \ {b}) \X {b})
  /\ accessed' = TRUE

-----------------------------------------------------------------------------
(* handle_read.                                                            *)

BeginRead ==
  /\ loop = "serving" /\ loop' = "reading"
  /\ needed' \in Reads /\ left' = needed'
  /\ UNCHANGED <<cacheVars, prefetch, workVars, storeVars>>

First == CHOOSE b \in left : \A c \in left : b[2] <= c[2]

PassCached ==
  /\ loop = "reading" /\ left # {} /\ First \in data
  /\ left' = left \ {First}
  /\ UNCHANGED <<loop, needed, cacheVars, prefetch, workVars, storeVars>>

Looks == loop = "reading" /\ left # {} /\ First \notin data
Waiting == {w \in Worker : wk[w] = "waiting"}

\* take hands the block over and wakes one worker that waits for room.
TakeReady ==
  /\ Looks /\ prefetch /\ First \in ready
  /\ ready' = ready \ {First} /\ bytes' = bytes - SizeOf[First]
  /\ IF Waiting = {} THEN UNCHANGED wk ELSE \E w \in Waiting : Move(w, AfterWait)
  /\ Insert(First) /\ left' = left \ {First}
  /\ UNCHANGED <<loop, needed, prefetch, next, on, taken, stop>>

\* take has nothing, and no worker shall add the block from now on.
Claims == IF prefetch /\ First \in Wanted THEN {First} ELSE {}

LoadItself ==
  /\ Looks /\ ~(prefetch /\ First \in ready)
  /\ taken' = taken \cup Claims
  /\ Insert(First) /\ left' = left \ {First}
  /\ UNCHANGED <<loop, needed, prefetch, workVars, ready, bytes, stop>>

\* As for a worker, and the read is refused.
LoadFails ==
  /\ Looks /\ ~(prefetch /\ First \in ready)
  /\ taken' = taken \cup Claims
  /\ loop' = "serving" /\ needed' = {} /\ left' = {}
  /\ UNCHANGED <<cacheVars, prefetch, workVars, ready, bytes, stop>>

Reply ==
  /\ loop = "reading" /\ left = {}
  /\ loop' = "serving" /\ needed' = {}
  /\ UNCHANGED <<left, cacheVars, prefetch, workVars, storeVars>>

-----------------------------------------------------------------------------
(* clear_if_idle, and the drop of the prefetch.                            *)

Clear == data' = {} /\ order' = {} /\ accessed' = FALSE

\* CACHE_IDLE_SECS after the last insertion, whether or not reads go on.
ClearIdle ==
  /\ loop = "serving" /\ accessed
  /\ Clear
  /\ loop' = IF prefetch THEN "stopping" ELSE "serving"
  /\ UNCHANGED <<needed, left, prefetch, workVars, storeVars>>

\* bytes keeps its value: nobody looks at it once stop is set.
OrderStop ==
  /\ loop \in {"stopping", "lastStopping"}
  /\ stop' = TRUE /\ ready' = {}
  /\ loop' = IF loop = "stopping" THEN "joining" ELSE "lastJoining"
  /\ UNCHANGED <<needed, left, cacheVars, prefetch, workVars, bytes, taken>>

NotifiedOne == IF Waiting = {} THEN {} ELSE {CHOOSE w \in Waiting : TRUE} \* slip: notify_one
Notified == Waiting

\* notify_all, after the lock is let go.
WakeWorkers ==
  /\ loop \in {"joining", "lastJoining"} /\ prefetch
  /\ prefetch' = FALSE
  /\ wk' = [w \in Worker |-> IF w \in Notified THEN AfterWait ELSE wk[w]]
  /\ UNCHANGED <<readVars, cacheVars, next, on, storeVars>>

\* The store goes with the last that knew it.
JoinWorkers ==
  /\ loop \in {"joining", "lastJoining"} /\ ~prefetch
  /\ \A w \in Worker : wk[w] = "done"
  /\ loop' = IF loop = "joining" THEN "serving" ELSE "gone"
  /\ next' = 1 /\ bytes' = 0 /\ taken' = {} /\ stop' = FALSE
  /\ UNCHANGED <<needed, left, cacheVars, prefetch, wk, on, ready>>

\* The servers of a launch exit with the process and all its threads.
Exit ==
  /\ loop = "serving" /\ loop' = "gone"
  /\ Clear /\ prefetch' = FALSE
  /\ next' = 1 /\ wk' = [w \in Worker |-> "done"] /\ on' = [w \in Worker |-> 0]
  /\ ready' = {} /\ bytes' = 0 /\ taken' = {} /\ stop' = FALSE
  /\ UNCHANGED <<needed, left>>

\* The server of a package mounted by hand goes out of scope (inspect.rs, mount).
GoOutOfScope ==
  /\ loop = "serving"
  /\ Clear
  /\ loop' = IF prefetch THEN "lastStopping" ELSE "gone"
  /\ UNCHANGED <<needed, left, prefetch, workVars, storeVars>>

-----------------------------------------------------------------------------
ReadStep == PassCached \/ TakeReady \/ LoadItself \/ LoadFails \/ Reply
StopStep == OrderStop \/ WakeWorkers \/ JoinWorkers
WorkStep(w) == TakeIndex(w) \/ CheckRoom(w) \/ Spoiled(w) \/ StoreBlock(w)

BSNext ==
  \/ BeginRead \/ ReadStep \/ ClearIdle \/ StopStep \/ Exit \/ GoOutOfScope
  \/ \E w \in Worker : WorkStep(w) \/ WakeSpuriously(w)

BSSpec == BSInit /\ [][BSNext]_blockVars

(***************************************************************************)
(* The server's thread and each worker are scheduled.  Nothing has to be   *)
(* read, the server need not leave, and no wait has to end by itself.      *)
(***************************************************************************)
BSFairness ==
  /\ WF_blockVars(ReadStep) /\ WF_blockVars(StopStep)
  /\ \A w \in Worker : WF_blockVars(WorkStep(w))

-----------------------------------------------------------------------------
(* Properties.                                                             *)

\* A block the read in progress has gone through is still cached when the next is
\* inserted and when the reply is put together, however small the budget
\* ("which therefore must survive regardless of the budget", insert_block).
RepliesWhole == loop = "reading" => needed \ left \subseteq data

\* What the server holds is bounded.  The cache keeps to its budget, but for the
\* blocks of one read that is larger; what the prefetch has ready and no read took
\* is less than the window, but for a block each worker was decompressing when the
\* window filled ("bounds how far it runs ahead of the app").
Largest ==
  CHOOSE n \in {0} \cup {SizeOf[b] : b \in Block} : \A b \in Block : SizeOf[b] <= n

MemoryBounded ==
  /\ Bytes(data) <= Budget \/ \E r \in Reads : data \subseteq r
  /\ Bytes(ready) < Window + Cardinality(Worker) * Largest

\* A block is never kept for a read that already has it: not one a read has
\* decompressed itself while a worker was at it, nor one that is in the cache ("the
\* worker's copy is dropped", Prefetch).
NoneKeptTwice == ready \cap (taken \cup data) = {}

\* Reads never wait for a worker for good, and neither does the drop of the
\* prefetch, whatever the workers are waiting for: the server is back at its
\* requests, or gone, again and again.
ServerAnswers == []<>(loop \in {"serving", "gone"})
=============================================================================
