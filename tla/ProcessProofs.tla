---------------------------- MODULE ProcessProofs -----------------------------
(***************************************************************************)
(* Proofs about what belongs to a process: its TLS indexes, for any number *)
(* of threads and indexes, its files, for chunks of any size, and its heap, *)
(* for any sizes, alignments and number of blocks.                         *)
(***************************************************************************)
EXTENDS Tls, FileIO, Amalloc, SequenceTheorems, WellFoundedInduction, TLAPS

-----------------------------------------------------------------------------
(***************************************************************************)
(* The TLS indexes                                                         *)
(***************************************************************************)

\* What is known of a thread: its place in a call, the index the call is about,
\* and the byte it has loaded.
TlsCall ==
    [at : {"new", "entry", "out", "test", "loadSet", "set", "loadClear", "clear"},
     index : Index, byte : SUBSET Index]

\* Types
TlsTypeOK ==
    /\ appTlsStatus \subseteq Index
    /\ slots \in [TlsThread -> [Index -> {0} \cup TlsThread \cup TlsValues]]
    /\ tls \in [TlsThread -> TlsCall]
    /\ held \in [TlsThread -> SUBSET Index]
    /\ raced \in BOOLEAN

\* Nothing runs before app_startup has taken the first index, which is kept.
StartupFirst ==
    IF tls[TlsMain].at = "new"
    THEN /\ appTlsStatus = {}
         /\ \A t \in TlsThread : tls[t].at = "new" /\ held[t] = {}
    ELSE CurrentThread \in appTlsStatus

\* A thread that is about to set a bit has found it clear, one that is about to
\* clear one has given the index up, and what either has loaded is the byte.
StoresToCome ==
    \A t \in TlsThread :
        /\ tls[t].at \in {"loadSet", "set"} => tls[t].index \notin appTlsStatus
        /\ tls[t].at \in {"loadClear", "clear"} =>
            /\ tls[t].index # CurrentThread
            /\ \A u \in TlsThread : tls[t].index \notin held[u]
        /\ tls[t].at \in {"set", "clear"} => tls[t].byte = appTlsStatus

\* The inductive invariant. Once a store was overtaken, which raced remembers,
\* nothing is promised any more.
TlsInv == TlsTypeOK /\ (~raced => StartupFirst /\ StoresToCome) /\ TlsIndexesKept

\* A step of one thread, from one place in a call to another.
LEMMA TlsCallStep ==
    ASSUME TlsTypeOK, NEW t \in TlsThread, NEW r \in TlsCall, tls' = [tls EXCEPT ![t] = r],
           appTlsStatus' \subseteq Index, UNCHANGED slots,
           held' \in [TlsThread -> SUBSET Index], raced' \in BOOLEAN
    PROVE  TlsTypeOK' /\ tls'[t] = r /\ \A u \in TlsThread \ {t} : tls'[u] = tls[u]
  BY DEF TlsTypeOK

-----------------------------------------------------------------------------
(***************************************************************************)
(* The inductive step of the TLS indexes                                   *)
(***************************************************************************)

\* Before app_startup no index is in use, and none is held.
LEMMA TlsInitInv == TlsInit => TlsInv
<1> SUFFICES ASSUME TlsInit PROVE TlsInv
  OBVIOUS
<1>1. 0 \in Index /\ TlsMain \in TlsThread
  BY TlsAssumption DEF Index
<1>2. \A t \in TlsThread : tls[t].at = "new" /\ tls[t].index = 0 /\ tls[t].byte = {}
  BY DEF TlsInit, NotStarted
<1>3. TlsTypeOK
  BY <1>1 DEF TlsInit, TlsTypeOK, TlsCall, NotStarted
<1>4. StartupFirst /\ StoresToCome
  BY <1>1, <1>2 DEF TlsInit, StartupFirst, StoresToCome
<1>5. TlsIndexesKept
  BY <1>2 DEF TlsInit, TlsIndexesKept
<1> QED BY <1>3, <1>4, <1>5 DEF TlsInv

\* A step of one thread that writes no bit of the byte.
LEMMA TlsQuietStep ==
    ASSUME TlsInv, TlsTypeOK', NEW t \in TlsThread,
           UNCHANGED <<appTlsStatus, raced>>,
           \A u \in TlsThread \ {t} : tls'[u] = tls[u],
           ~raced => tls[TlsMain].at # "new",
           tls'[t].at # "new",
           \A u \in TlsThread : held'[u] \subseteq held[u],
           tls'[t].at \in {"loadSet", "set"} => tls'[t].index \notin appTlsStatus,
           ~raced /\ tls'[t].at \in {"loadClear", "clear"} =>
              /\ tls'[t].index # CurrentThread
              /\ \A u \in TlsThread : tls'[t].index \notin held'[u],
           tls'[t].at \in {"set", "clear"} => tls'[t].byte = appTlsStatus,
           \A u \in TlsThread \ {t} : slots'[u][CurrentThread] = slots[u][CurrentThread],
           ~raced /\ tls'[t].at # "entry" => slots'[t][CurrentThread] = t
    PROVE  TlsInv'
<1>1. StartupFirst' \/ raced
  BY TlsAssumption DEF TlsInv, StartupFirst
<1>2. StoresToCome' \/ raced
  BY DEF TlsInv, StoresToCome
<1>3. TlsIndexesKept'
  BY DEF TlsInv, TlsIndexesKept
<1> QED BY <1>1, <1>2, <1>3 DEF TlsInv

\* A thread stores the byte: the others are not between a test and a store, or
\* the history says so.
LEMMA TlsStoreStep ==
    ASSUME TlsInv, TlsTypeOK', NEW t \in TlsThread,
           tls[t].at \in {"set", "clear"},
           tls' = [tls EXCEPT ![t] = Back],
           raced' = (raced \/ Overtakes(t)),
           UNCHANGED slots,
           ~raced => /\ CurrentThread \in appTlsStatus'
                     /\ \A u \in TlsThread : held'[u] \subseteq appTlsStatus' \ {CurrentThread}
                     /\ \A u, v \in TlsThread : u # v => held'[u] \cap held'[v] = {}
    PROVE  TlsInv'
<1> SUFFICES ASSUME ~raced' PROVE (StartupFirst /\ StoresToCome /\ TlsIndexesKept)'
  BY DEF TlsInv, TlsIndexesKept
<1>1. ~raced /\ ~Overtakes(t)
  OBVIOUS
<1>2. tls'[t].at = "out" /\ \A u \in TlsThread \ {t} : tls'[u] = tls[u]
  BY DEF TlsInv, TlsTypeOK, TlsCall, Back, NotStarted
<1>3. tls[TlsMain].at # "new"
  BY <1>1, TlsAssumption DEF TlsInv, StartupFirst
<1>4. StartupFirst'
  BY <1>1, <1>2, <1>3, TlsAssumption DEF StartupFirst
<1>5. StoresToCome'
  BY <1>1, <1>2 DEF Overtakes, StoresToCome
<1>6. TlsIndexesKept'
  BY <1>1, <1>2 DEF TlsInv, TlsIndexesKept
<1> QED BY <1>4, <1>5, <1>6

\* Every step keeps the invariant. The test, the load and the store of a call
\* are steps of their own, so that what a thread has tested and loaded has to
\* stay true until its store: it does unless another thread stores in between.
LEMMA TlsStep == ASSUME TlsInv, [TlsNext]_tlsVars PROVE TlsInv'
<1> USE DEF IsAt, At
<1>0. TlsTypeOK /\ TlsMain \in TlsThread /\ 0 \in Index
  BY TlsAssumption DEF TlsInv, Index
<1>S. ASSUME NEW t \in TlsThread, ~raced, tls[t].at # "new" PROVE tls[TlsMain].at # "new"
  BY <1>S, <1>0 DEF TlsInv, StartupFirst
<1>1. CASE TlsStartup
  <2>1. TlsTypeOK'
    BY <1>0, <1>1 DEF TlsStartup, TlsTypeOK, TlsCall, CurrentThread
  <2>2. tls'[TlsMain].at = "entry" /\ \A u \in TlsThread \ {TlsMain} : tls'[u] = tls[u]
    BY <1>0, <1>1 DEF TlsStartup, TlsTypeOK, TlsCall
  <2>3. ~raced => \A u \in TlsThread : held'[u] = {} /\ (u = TlsMain \/ tls'[u].at = "new")
    BY <1>1, <2>2 DEF TlsStartup, TlsInv, StartupFirst
  <2> QED BY <2>1, <2>2, <2>3, <1>1 DEF TlsStartup, TlsInv, StartupFirst, StoresToCome, TlsIndexesKept
<1>2. ASSUME NEW t \in TlsThread, TlsCreateThread(t) PROVE TlsInv'
  <2>1. TlsTypeOK'
    BY <1>0, <1>2 DEF TlsCreateThread, TlsTypeOK, TlsCall
  <2>2. tls'[t].at = "entry" /\ \A u \in TlsThread \ {t} : tls'[u] = tls[u]
    BY <1>0, <1>2 DEF TlsCreateThread, TlsTypeOK, TlsCall
  <2>3. ~raced => tls[TlsMain].at # "new"
    BY <1>2, <1>S DEF TlsCreateThread
  <2> QED BY <1>0, <1>2, <2>1, <2>2, <2>3, TlsQuietStep DEF TlsCreateThread
<1>3. ASSUME NEW t \in TlsThread, TlsThreadEntry(t) PROVE TlsInv'
  <2>1. TlsTypeOK'
    BY <1>0, <1>3 DEF TlsThreadEntry, TlsTypeOK, TlsCall, Stored, CurrentThread
  <2>2. tls'[t].at = "out" /\ \A u \in TlsThread \ {t} : tls'[u] = tls[u]
    BY <1>0, <1>3 DEF TlsThreadEntry, TlsTypeOK, TlsCall
  <2>3. ~raced => tls[TlsMain].at # "new"
    BY <1>3, <1>S DEF TlsThreadEntry
  <2>4. ~raced => CurrentThread \in appTlsStatus
    BY <2>3 DEF TlsInv, StartupFirst
  <2>5. ~raced => slots'[t][CurrentThread] = t
    BY <1>0, <1>3, <2>4 DEF TlsThreadEntry, TlsTypeOK, TlsCall, Stored, CurrentThread
  <2>6. \A u \in TlsThread \ {t} : slots'[u][CurrentThread] = slots[u][CurrentThread]
    BY <1>0, <1>3 DEF TlsThreadEntry, TlsTypeOK, TlsCall
  <2> QED BY <1>0, <1>3, <2>1, <2>2, <2>3, <2>5, <2>6, TlsQuietStep DEF TlsThreadEntry
<1>4. ASSUME NEW t \in TlsThread, TlsAllocBegins(t) PROVE TlsInv'
  <2>1. TlsTypeOK'
    BY <1>0, <1>4 DEF TlsAllocBegins, TlsTypeOK, TlsCall
  <2>2. tls'[t].at = "test" /\ \A u \in TlsThread \ {t} : tls'[u] = tls[u]
    BY <1>0, <1>4 DEF TlsAllocBegins, TlsTypeOK, TlsCall
  <2>3. ~raced => slots[t][CurrentThread] = t
    BY <1>4 DEF TlsAllocBegins, TlsInv, TlsIndexesKept
  <2> QED BY <1>0, <1>4, <1>S, <2>1, <2>2, <2>3, TlsQuietStep DEF TlsAllocBegins
<1>5. ASSUME NEW t \in TlsThread, TlsTest(t) PROVE TlsInv'
  <2>t. Back \in TlsCall
    BY <1>0 DEF TlsCall, Back, NotStarted
  <2>0. tls' \in [TlsThread -> TlsCall]
    <3>1. CASE tls[t].index \notin appTlsStatus
      <4>1. tls' = [tls EXCEPT ![t].at = "loadSet"]
        BY <1>5, <3>1 DEF TlsTest
      <4> QED BY <1>0, <4>1 DEF TlsTypeOK, TlsCall
    <3>2. CASE tls[t].index \in appTlsStatus /\ tls[t].index + 1 \in Index
      <4>1. tls' = [tls EXCEPT ![t].index = tls[t].index + 1]
        BY <1>5, <3>2 DEF TlsTest
      <4> QED BY <1>0, <3>2, <4>1 DEF TlsTypeOK, TlsCall
    <3>3. CASE tls[t].index \in appTlsStatus /\ tls[t].index + 1 \notin Index
      BY <1>0, <1>5, <3>3, <2>t DEF TlsTest, TlsTypeOK
    <3> QED BY <3>1, <3>2, <3>3
  <2>1. TlsTypeOK'
    BY <1>0, <1>5, <2>0 DEF TlsTest, TlsTypeOK
  <2>2. \A u \in TlsThread \ {t} : tls'[u] = tls[u]
    BY <1>0, <1>5 DEF TlsTest, TlsTypeOK
  <2>3. \/ tls'[t].at = "loadSet" /\ tls'[t].index = tls[t].index /\ tls[t].index \notin appTlsStatus
        \/ tls'[t].at \in {"test", "out"}
    BY <1>0, <1>5 DEF TlsTest, TlsTypeOK, TlsCall, Back, NotStarted
  <2>4. ~raced => slots[t][CurrentThread] = t
    BY <1>5 DEF TlsTest, TlsInv, TlsIndexesKept
  <2> QED BY <1>0, <1>5, <1>S, <2>1, <2>2, <2>3, <2>4, TlsQuietStep DEF TlsTest
<1>6. ASSUME NEW t \in TlsThread, TlsLoad(t) PROVE TlsInv'
  <2>t. tls[t] \in TlsCall
    BY <1>0 DEF TlsTypeOK
  <2> DEFINE r == [at |-> IF tls[t].at = "loadSet" THEN "set" ELSE "clear",
                   index |-> tls[t].index, byte |-> appTlsStatus]
  <2>r. r \in TlsCall
    BY <1>0, <2>t DEF TlsCall, TlsTypeOK
  <2>1. TlsTypeOK' /\ tls'[t] = r /\ \A u \in TlsThread \ {t} : tls'[u] = tls[u]
    <3>1. tls' = [tls EXCEPT ![t] = r]
      BY <1>6 DEF TlsLoad
    <3>2. /\ appTlsStatus' \subseteq Index /\ UNCHANGED slots
          /\ held' \in [TlsThread -> SUBSET Index] /\ raced' \in BOOLEAN
      BY <1>0, <1>6 DEF TlsLoad, TlsTypeOK
    <3> QED BY <1>0, <2>r, <3>1, <3>2, TlsCallStep
  <2>3. /\ tls'[t].at = IF tls[t].at = "loadSet" THEN "set" ELSE "clear"
        /\ tls'[t].index = tls[t].index /\ tls'[t].byte = appTlsStatus
    BY <2>1
  <2>4. ~raced => slots[t][CurrentThread] = t
    BY <1>6 DEF TlsLoad, TlsInv, TlsIndexesKept
  <2>5. ~raced /\ tls[t].at = "loadSet" => tls[t].index \notin appTlsStatus
    BY DEF TlsInv, StoresToCome
  <2>6. ~raced /\ tls[t].at = "loadClear" =>
          tls[t].index # CurrentThread /\ \A u \in TlsThread : tls[t].index \notin held[u]
    BY DEF TlsInv, StoresToCome
  <2>7. CASE raced
    BY <1>6, <2>1, <2>7 DEF TlsLoad, TlsInv, TlsIndexesKept
  <2>8. CASE ~raced
    BY <1>0, <1>6, <1>S, <2>1, <2>3, <2>4, <2>5, <2>6, <2>8, TlsQuietStep DEF TlsLoad
  <2> QED BY <2>7, <2>8
<1>7. ASSUME NEW t \in TlsThread, TlsSetBit(t) PROVE TlsInv'
  <2>1. TlsTypeOK'
    BY <1>0, <1>7 DEF TlsSetBit, TlsTypeOK, TlsCall, Back, NotStarted
  <2>2. ASSUME ~raced
        PROVE  /\ tls[t].byte = appTlsStatus /\ tls[t].index \notin appTlsStatus
               /\ CurrentThread \in appTlsStatus
               /\ \A u \in TlsThread : held[u] \subseteq appTlsStatus \ {CurrentThread}
    BY <1>7, <1>S, <2>2 DEF TlsSetBit, TlsInv, StoresToCome, StartupFirst, TlsIndexesKept
  <2>3. ASSUME ~raced
        PROVE  /\ CurrentThread \in appTlsStatus'
               /\ \A u \in TlsThread : held'[u] \subseteq appTlsStatus' \ {CurrentThread}
               /\ \A u, v \in TlsThread : u # v => held'[u] \cap held'[v] = {}
    <3>1. appTlsStatus' = appTlsStatus \cup {tls[t].index}
      BY <1>7, <2>2, <2>3 DEF TlsSetBit
    <3>2. \A u \in TlsThread : held'[u] = IF u = t THEN held[u] \cup {tls[t].index} ELSE held[u]
      BY <1>0, <1>7 DEF TlsSetBit, TlsTypeOK, TlsCall
    <3>3. \A u, v \in TlsThread : u # v => held[u] \cap held[v] = {}
      BY <2>3 DEF TlsInv, TlsIndexesKept
    <3>4. \A u \in TlsThread : held'[u] \subseteq appTlsStatus' \ {CurrentThread}
      <4>1. tls[t].index # CurrentThread
        BY <2>2, <2>3
      <4> QED BY <2>2, <2>3, <3>1, <3>2, <4>1
    <3>5. ASSUME NEW u \in TlsThread, NEW v \in TlsThread, u # v
          PROVE  held'[u] \cap held'[v] = {}
      <4>1. tls[t].index \notin held[u] /\ tls[t].index \notin held[v]
        BY <2>2, <2>3
      <4>2. held[u] \cap held[v] = {}
        BY <3>3, <3>5
      <4> QED BY <3>2, <3>5, <4>1, <4>2
    <3> QED BY <2>2, <2>3, <3>1, <3>4, <3>5
  <2> QED BY <1>7, <2>1, <2>3, TlsStoreStep DEF TlsSetBit
<1>8. ASSUME NEW t \in TlsThread, TlsClearBit(t) PROVE TlsInv'
  <2>1. TlsTypeOK'
    BY <1>0, <1>8 DEF TlsClearBit, TlsTypeOK, TlsCall, Back, NotStarted
  <2>2. ASSUME ~raced
        PROVE  /\ appTlsStatus' = appTlsStatus \ {tls[t].index}
               /\ tls[t].index # CurrentThread
               /\ \A u \in TlsThread : tls[t].index \notin held[u]
               /\ CurrentThread \in appTlsStatus
    BY <1>8, <1>S, <2>2 DEF TlsClearBit, TlsInv, StoresToCome, StartupFirst
  <2>3. ASSUME ~raced
        PROVE  /\ CurrentThread \in appTlsStatus'
               /\ \A u \in TlsThread : held'[u] \subseteq appTlsStatus' \ {CurrentThread}
               /\ \A u, v \in TlsThread : u # v => held'[u] \cap held'[v] = {}
    BY <1>8, <2>2, <2>3 DEF TlsClearBit, TlsInv, TlsIndexesKept
  <2> QED BY <1>8, <2>1, <2>3, TlsStoreStep DEF TlsClearBit
<1>9. ASSUME NEW t \in TlsThread, NEW i \in Index, TlsFreeBegins(t, i) PROVE TlsInv'
  <2>1. TlsTypeOK'
    BY <1>0, <1>9 DEF TlsFreeBegins, TlsTypeOK, TlsCall, Back, NotStarted
  <2>2. \A u \in TlsThread \ {t} : tls'[u] = tls[u]
    BY <1>0, <1>9 DEF TlsFreeBegins, TlsTypeOK, TlsCall
  <2>3. tls'[t].at = "out" \/ (tls'[t].at = "loadClear" /\ tls'[t].index = i)
    BY <1>0, <1>9 DEF TlsFreeBegins, TlsTypeOK, TlsCall, Back, NotStarted
  <2>4. \A u \in TlsThread : held'[u] = IF u = t THEN held[u] \ {i} ELSE held[u]
    BY <1>0, <1>9 DEF TlsFreeBegins, TlsTypeOK, TlsCall
  <2>5. ~raced => /\ slots[t][CurrentThread] = t /\ i # CurrentThread
                  /\ \A u \in TlsThread : i \notin held'[u]
    BY <1>9, <2>4 DEF TlsFreeBegins, TlsInv, TlsIndexesKept
  <2>6. CASE raced
    BY <1>9, <2>1, <2>6 DEF TlsFreeBegins, TlsInv, TlsIndexesKept
  <2>7. CASE ~raced
    BY <1>0, <1>9, <1>S, <2>1, <2>2, <2>3, <2>4, <2>5, <2>7, TlsQuietStep DEF TlsFreeBegins
  <2> QED BY <2>6, <2>7
<1>10. ASSUME NEW t \in TlsThread, NEW i \in Index, NEW v \in TlsValues, TlsSet(t, i, v) PROVE TlsInv'
  <2>1. TlsTypeOK'
    BY <1>0, <1>10 DEF TlsSet, TlsTypeOK, TlsCall, Stored
  <2>2. ~raced => i # CurrentThread
    BY <1>10 DEF TlsSet, TlsInv, TlsIndexesKept
  <2>3. ~raced => \A u \in TlsThread : slots'[u][CurrentThread] = slots[u][CurrentThread]
    BY <1>0, <1>10, <2>2 DEF TlsSet, TlsTypeOK, TlsCall, Stored, CurrentThread
  <2> QED BY <1>10, <2>1, <2>3 DEF TlsSet, TlsInv, StartupFirst, StoresToCome, TlsIndexesKept
<1>11. CASE UNCHANGED tlsVars
  BY <1>11 DEF tlsVars, TlsInv, TlsTypeOK, StartupFirst, StoresToCome, TlsIndexesKept
<1> QED BY <1>1, <1>2, <1>3, <1>4, <1>5, <1>6, <1>7, <1>8, <1>9, <1>10, <1>11 DEF TlsNext

\* The invariant of the TLS bitset holds in every reachable state.
THEOREM TlsInvariant == TlsSpec => []TlsInv
<1>1. TlsInv /\ [TlsNext]_tlsVars => TlsInv'
  BY TlsStep
<1> QED BY <1>1, TlsInitInv, PTL DEF TlsSpec

\* app_tlsAlloc never gives an index to two systems, nor index 0, which is that
\* of app_getCurrentThread, for any number of threads and indexes, unless a call
\* of another thread came between its test and its store.
THEOREM NoIndexTwice == TlsSpec => []TlsIndexesKept
<1>1. TlsInv => TlsIndexesKept
  BY DEF TlsInv
<1> QED BY <1>1, TlsInvariant, PTL

-----------------------------------------------------------------------------
(***************************************************************************)
(* Files: the invariant                                                    *)
(***************************************************************************)

\* What an open file may be open for
Modes == {"read", "write", "always", "append", "new"}

\* A call of the program: what it reads or writes, and how far it is.
FileCall ==
    [call : {"none", "read", "write"}, size : Nat, buf : Seq(Nat), todo : Nat,
     done : Nat, from : Nat]

\* Types, and that the position is within the file.
FileTypeOK ==
    /\ file \in [exists : BOOLEAN, bytes : Seq(Nat)]
    /\ fil \in [open : BOOLEAN, flags : SUBSET Modes, pos : Nat, err : BOOLEAN]
    /\ fil.pos <= Len(file.bytes)
    /\ req \in FileCall /\ reply \in FileCall

\* The bytes of the whole chunks among n bytes
Whole(n) == (n \div Chunk) * Chunk

\* The first n bytes of the call's buffer are those of the file.
Same(r, n) == \A i \in 1 .. n : file.bytes[r.from + i] = r.buf[i]

\* What has been done of a call so far.
CallExact(r) ==
    r.call # "none" =>
        /\ fil.pos = r.from + r.done
        /\ r.done + r.todo <= Len(r.buf)
        /\ r.call = "write" => Same(r, r.done)
        /\ r.call = "read" =>
            /\ Same(r, Whole(r.done))
            /\ r.todo > 0 => Whole(r.done) = r.done

\* The inductive invariant: what has been done of the call in progress, or was
\* of the last one, is exact, up to the last chunk of a read, which may fail.
FileInv ==
    /\ FileTypeOK
    /\ CallExact(req) /\ CallExact(reply)
    /\ req.call = "none" \/ reply.call = "none"

-----------------------------------------------------------------------------
(***************************************************************************)
(* Chunks, parts of a sequence, and what a write makes of a file           *)
(***************************************************************************)

\* Chunks: the loops of the two system calls go on only after a whole chunk.
LEMMA WholeFacts ==
    /\ Whole(0) = 0
    /\ \A n \in Nat : Whole(n) \in Nat /\ Whole(n) <= n
    /\ \A m, n \in Nat : Whole(m) = m /\ n < Chunk => Whole(m + n) = m
    /\ \A m \in Nat : Whole(m) = m => Whole(m + Chunk) = m + Chunk
<1>0. Chunk \in Nat \ {0}
  BY FileIOAssumption
<1>1. ASSUME NEW p \in Nat \ {0}, NEW n \in Nat
      PROVE  n \div p \in Nat /\ (n \div p) * p <= n /\ n < (n \div p) * p + p
  OBVIOUS
<1>3. ASSUME NEW p \in Nat \ {0}, NEW q \in Nat
      PROVE  q * p \in Nat /\ (q + 1) * p = q * p + p
  OBVIOUS
<1>9. ASSUME NEW p \in Nat \ {0}, NEW m \in Nat, NEW n \in Nat, m < n
      PROVE  m * p + p <= n * p
  <2>1. ASSUME NEW k \in Nat \ {0} PROVE k * p >= p
    OBVIOUS
  <2>2. (n - m) * p = n * p - m * p /\ m * p \in Int /\ n * p \in Int
    OBVIOUS
  <2>3. (n - m) * p >= p
    BY <1>9, <2>1
  <2> QED BY <2>2, <2>3
<1>2. ASSUME NEW p \in Nat \ {0}, NEW q \in Nat, NEW n \in Nat, n < p
      PROVE  (q * p + n) \div p = q
  <2> DEFINE d == (q * p + n) \div p
  <2>1. q * p \in Nat /\ q * p + n \in Nat
    BY <1>3
  <2>2. d \in Nat /\ d * p <= q * p + n /\ q * p + n < d * p + p
    BY <1>1, <2>1
  <2>3. q < d => q * p + p <= d * p
    BY <1>9, <2>2
  <2>4. d < q => d * p + p <= q * p
    BY <1>9, <2>2
  <2>5. d * p \in Nat
    BY <1>3, <2>2
  <2> HIDE DEF d
  <2>6. d = q
    BY <1>2, <2>1, <2>2, <2>3, <2>4, <2>5
  <2> QED BY <2>6 DEF d
<1>4. \A n \in Nat : Whole(n) \in Nat /\ Whole(n) <= n
  BY <1>0, <1>1, <1>3 DEF Whole
<1>5. ASSUME NEW m \in Nat, NEW n \in Nat, Whole(m) = m, n < Chunk
      PROVE  Whole(m + n) = m
  <2> DEFINE q == m \div Chunk
  <2>1. q \in Nat /\ q * Chunk = m
    BY <1>0, <1>1, <1>5 DEF Whole
  <2>2. (q * Chunk + n) \div Chunk = q
    BY <1>0, <1>2, <1>5, <2>1
  <2> QED BY <2>1, <2>2 DEF Whole
<1>6. ASSUME NEW m \in Nat, Whole(m) = m PROVE Whole(m + Chunk) = m + Chunk
  <2> DEFINE q == m \div Chunk
  <2>1. q \in Nat /\ q * Chunk = m
    BY <1>0, <1>1, <1>6 DEF Whole
  <2>2. (q + 1) * Chunk = m + Chunk
    BY <1>0, <1>3, <2>1
  <2> HIDE DEF q
  <2>3. ((q + 1) * Chunk + 0) \div Chunk = q + 1
    BY <1>0, <1>2, <2>1
  <2>4. (m + Chunk) \div Chunk = q + 1
    BY <2>2, <2>3, <1>0
  <2> QED BY <2>2, <2>4 DEF Whole
<1>7. Whole(0) = 0
  BY <1>4
<1> QED BY <1>4, <1>5, <1>6, <1>7

\* A part of a sequence of bytes.
LEMMA PartOf ==
    ASSUME NEW s \in Seq(Nat), NEW m \in Nat \ {0}, NEW n \in Nat,
           m <= Len(s) + 1, n <= Len(s), n >= m - 1
    PROVE  /\ SubSeq(s, m, n) \in Seq(Nat)
           /\ Len(SubSeq(s, m, n)) = n - m + 1
           /\ \A i \in 1 .. n - m + 1 : SubSeq(s, m, n)[i] = s[m + i - 1]
<1>1. \A i \in m .. n : s[i] \in Nat
  <2> SUFFICES ASSUME NEW i \in m .. n PROVE s[i] \in Nat
    OBVIOUS
  <2>1. i \in 1 .. Len(s)
    OBVIOUS
  <2> QED BY <2>1, ElementOfSeq
<1>2. /\ SubSeq(s, m, n) \in Seq(Nat)
      /\ Len(SubSeq(s, m, n)) = IF m <= n THEN n - m + 1 ELSE 0
      /\ \A i \in 1 .. n - m + 1 : SubSeq(s, m, n)[i] = s[m + i - 1]
  BY <1>1, SubSeqProperties
<1> QED BY <1>2

\* The n bytes behind the first p, which is what f_read returns.
LEMMA Following ==
    ASSUME NEW s \in Seq(Nat), NEW p \in Nat, NEW n \in Nat, p + n <= Len(s)
    PROVE  /\ SubSeq(s, p + 1, p + n) \in Seq(Nat)
           /\ Len(SubSeq(s, p + 1, p + n)) = n
           /\ \A i \in 1 .. n : SubSeq(s, p + 1, p + n)[i] = s[p + i]
<1> DEFINE got == SubSeq(s, p + 1, p + n)
<1>0. Len(s) \in Nat
  BY LenProperties
<1>1. got \in Seq(Nat) /\ Len(got) = (p + n) - (p + 1) + 1
  BY <1>0, PartOf
<1>2. \A i \in 1 .. (p + n) - (p + 1) + 1 : got[i] = s[(p + 1) + i - 1]
  BY <1>0, PartOf
<1> HIDE DEF got
<1>3. ASSUME NEW i \in 1 .. n PROVE got[i] = s[p + i]
  <2>1. i \in 1 .. (p + n) - (p + 1) + 1 /\ (p + 1) + i - 1 = p + i
    OBVIOUS
  <2> QED BY <1>2, <2>1
<1>4. Len(got) = n
  BY <1>1
<1> QED BY <1>1, <1>3, <1>4 DEF got

\* Two pieces of a buffer, joined
LEMMA Joined ==
    ASSUME NEW u \in Seq(Nat), NEW s \in Seq(Nat)
    PROVE  /\ u \o s \in Seq(Nat)
           /\ Len(u \o s) = Len(u) + Len(s)
           /\ \A i \in 1 .. Len(u) : (u \o s)[i] = u[i]
           /\ \A i \in 1 .. Len(s) : (u \o s)[Len(u) + i] = s[i]
<1>1. u \o s \in Seq(Nat) /\ Len(u \o s) = Len(u) + Len(s)
  BY ConcatProperties
<1>2. ASSUME NEW i \in 1 .. Len(u) PROVE (u \o s)[i] = u[i]
  OBVIOUS
<1>3. ASSUME NEW i \in 1 .. Len(s) PROVE (u \o s)[Len(u) + i] = s[i]
  <2>1. Len(u) + i \in 1 .. Len(u) + Len(s) /\ ~(Len(u) + i <= Len(u)) /\ (Len(u) + i) - Len(u) = i
    BY LenProperties
  <2>2. (u \o s)[Len(u) + i] = IF Len(u) + i <= Len(u) THEN u[Len(u) + i] ELSE s[(Len(u) + i) - Len(u)]
    BY <2>1, ConcatProperties
  <2> QED BY <2>1, <2>2
<1> QED BY <1>1, <1>2, <1>3

\* Three pieces of a file, joined: what precedes a write, what it writes, and
\* what follows.
LEMMA JoinedThree ==
    ASSUME NEW u \in Seq(Nat), NEW s \in Seq(Nat), NEW v \in Seq(Nat)
    PROVE  LET w == (u \o s) \o v
           IN  /\ w \in Seq(Nat)
               /\ Len(w) = Len(u) + Len(s) + Len(v)
               /\ \A i \in 1 .. Len(u) : w[i] = u[i]
               /\ \A i \in 1 .. Len(s) : w[Len(u) + i] = s[i]
<1> DEFINE x == u \o s
           w == x \o v
<1>1. x \in Seq(Nat) /\ Len(x) = Len(u) + Len(s)
  BY Joined
<1>2. \A i \in 1 .. Len(u) : x[i] = u[i]
  BY Joined
<1>3. \A i \in 1 .. Len(s) : x[Len(u) + i] = s[i]
  BY Joined
<1> HIDE DEF x
<1>5. w \in Seq(Nat) /\ Len(w) = Len(x) + Len(v)
  BY <1>1, Joined
<1>6. \A i \in 1 .. Len(x) : w[i] = x[i]
  BY <1>1, Joined
<1> HIDE DEF w
<1>7. ASSUME NEW i \in 1 .. Len(u) PROVE w[i] = u[i]
  <2>1. i \in 1 .. Len(x)
    BY <1>1, LenProperties
  <2> QED BY <2>1, <1>2, <1>6
<1>8. ASSUME NEW i \in 1 .. Len(s) PROVE w[Len(u) + i] = s[i]
  <2>1. Len(u) + i \in 1 .. Len(x)
    BY <1>1, LenProperties
  <2> QED BY <2>1, <1>3, <1>6
<1> QED BY <1>1, <1>5, <1>7, <1>8 DEF x, w

\* The sequence b with s written over it behind the first p.
Over(b, p, s) == SubSeq(b, 1, p) \o s \o SubSeq(b, p + Len(s) + 1, Len(b))

\* What f_write makes of a file: the bytes are where they were written, and none
\* before them has changed; the file gets no shorter.
LEMMA Overwritten ==
    ASSUME NEW b \in Seq(Nat), NEW s \in Seq(Nat), NEW p \in 0 .. Len(b)
    PROVE  /\ Over(b, p, s) \in Seq(Nat)
           /\ Len(Over(b, p, s)) >= p + Len(s)
           /\ Len(Over(b, p, s)) >= Len(b)
           /\ \A i \in 1 .. p : Over(b, p, s)[i] = b[i]
           /\ \A i \in 1 .. Len(s) : Over(b, p, s)[p + i] = s[i]
<1> DEFINE u == SubSeq(b, 1, p)
           v == SubSeq(b, p + Len(s) + 1, Len(b))
           w == (u \o s) \o v
<1>0. p \in Nat /\ Len(s) \in Nat /\ Len(b) \in Nat
  BY LenProperties
<1>1. u \in Seq(Nat) /\ Len(u) = p
  BY <1>0, PartOf
<1>2. \A i \in 1 .. p : u[i] = b[i]
  <2>1. \A i \in 1 .. p - 1 + 1 : u[i] = b[1 + i - 1]
    BY <1>0, PartOf
  <2> HIDE DEF u
  <2> QED BY <1>0, <2>1
<1>3. v \in Seq(Nat) /\ Len(v) >= Len(b) - (p + Len(s))
  <2>1. CASE p + Len(s) <= Len(b)
    <3>1. v \in Seq(Nat) /\ Len(v) = Len(b) - (p + Len(s) + 1) + 1
      BY <1>0, <2>1, PartOf
    <3> HIDE DEF v
    <3> QED BY <3>1, <1>0, <2>1
  <2>2. CASE p + Len(s) > Len(b)
    <3>1. v = << >>
      BY <1>0, <2>2, SubSeqEmpty
    <3> HIDE DEF v
    <3>2. v \in Seq(Nat) /\ Len(v) = 0
      BY <3>1
    <3> QED BY <3>2, <1>0, <2>2
  <2> QED BY <1>0, <2>1, <2>2
<1> HIDE DEF u, v
<1>4. w \in Seq(Nat) /\ Len(w) = Len(u) + Len(s) + Len(v)
  BY <1>1, <1>3, JoinedThree
<1>5. \A i \in 1 .. Len(u) : w[i] = u[i]
  BY <1>1, <1>3, JoinedThree
<1>6. \A i \in 1 .. Len(s) : w[Len(u) + i] = s[i]
  BY <1>1, <1>3, JoinedThree
<1> HIDE DEF w
<1>7. Len(w) >= p + Len(s) /\ Len(w) >= Len(b)
  <2> DEFINE lv == Len(v)
             lb == Len(b)
             ls == Len(s)
             lw == Len(w)
  <2>1. lv \in Nat /\ lb \in Nat /\ ls \in Nat /\ lw = p + ls + lv /\ lv >= lb - (p + ls)
    BY <1>1, <1>3, <1>4, LenProperties
  <2> HIDE DEF lv, lb, ls, lw
  <2>2. lw >= p + ls /\ lw >= lb
    BY <1>0, <2>1
  <2> QED BY <2>2 DEF lv, lb, ls, lw
<1>8. \A i \in 1 .. p : w[i] = b[i]
  BY <1>1, <1>2, <1>5
<1>9. \A i \in 1 .. Len(s) : w[p + i] = s[i]
  BY <1>1, <1>6
<1>10. Over(b, p, s) = w
  BY DEF Over, u, v, w
<1> QED BY <1>4, <1>7, <1>8, <1>9, <1>10

\* The first n bytes of a are those of b behind base.
Copies(b, base, a, n) == \A i \in 1 .. n : b[base + i] = a[i]

\* The bytes s are those of a behind done.
Continues(s, a, done) == \A i \in 1 .. Len(s) : s[i] = a[done + i]

\* b with s written over it, behind the bytes that are done.
CopiedOver(b, base, done, s) == Over(b, base + done, s)

\* A chunk written behind those that were: the file has all of them.
LEMMA CopiedOn ==
    ASSUME NEW b \in Seq(Nat), NEW s \in Seq(Nat), NEW a, NEW base \in Nat, NEW done \in Nat,
           base + done <= Len(b), Copies(b, base, a, done), Continues(s, a, done)
    PROVE  /\ CopiedOver(b, base, done, s) \in Seq(Nat)
           /\ Len(CopiedOver(b, base, done, s)) >= base + done + Len(s)
           /\ Len(CopiedOver(b, base, done, s)) >= Len(b)
           /\ Copies(CopiedOver(b, base, done, s), base, a, done + Len(s))
<1> DEFINE p == base + done
           w == Over(b, p, s)
           n == Len(s)
<1>1. p \in 0 .. Len(b) /\ n \in Nat
  BY LenProperties
<1>5. \A i \in 1 .. n : s[i] = a[done + i]
  BY DEF Continues
<1>9. \A i \in 1 .. done : b[base + i] = a[i]
  BY DEF Copies
<1> HIDE DEF p
<1>2. w \in Seq(Nat) /\ Len(w) >= p + n /\ Len(w) >= Len(b)
  BY <1>1, Overwritten
<1>3. \A i \in 1 .. p : w[i] = b[i]
  BY <1>1, Overwritten
<1>4. \A i \in 1 .. n : w[p + i] = s[i]
  BY <1>1, Overwritten
<1> HIDE DEF w, n
<1>6. ASSUME NEW i \in 1 .. done + n PROVE w[base + i] = a[i]
  <2>1. CASE i <= done
    <3>1. base + i \in 1 .. p /\ i \in 1 .. done
      BY <1>1, <2>1 DEF p
    <3> QED BY <1>3, <1>9, <3>1
  <2>2. CASE i > done
    <3> DEFINE k == i - done
    <3>1. k \in 1 .. n /\ p + k = base + i /\ done + k = i
      BY <1>1, <2>2 DEF p
    <3> HIDE DEF k
    <3>2. w[p + k] = s[k] /\ s[k] = a[done + k]
      BY <1>4, <1>5, <3>1
    <3> QED BY <3>1, <3>2
  <2> QED BY <2>1, <2>2, <1>1
<1>7. Copies(w, base, a, done + n)
  BY <1>6 DEF Copies
<1>8. w = CopiedOver(b, base, done, s)
  BY DEF CopiedOver, w, p
<1> QED BY <1>2, <1>7, <1>8 DEF p, n

\* What is done and what is left of a call stay within its buffer.
LEMMA RoomLeft ==
    ASSUME NEW d \in Nat, NEW n \in Nat, NEW l \in Nat, NEW t \in Nat, NEW m \in Nat,
           n <= l, l <= t, d + t <= m
    PROVE  d + n <= m /\ (d + n) + 0 <= m /\ (d + n) + (t - l) <= m
OBVIOUS

-----------------------------------------------------------------------------
(***************************************************************************)
(* The inductive step of files                                             *)
(***************************************************************************)

\* No call is in progress at the start.
LEMMA FileInitInv == FileInit => FileInv
<1> SUFFICES ASSUME FileInit PROVE FileInv
  OBVIOUS
<1>1. NoRequest \in FileCall /\ CallExact(NoRequest)
  BY DEF NoRequest, FileCall, CallExact
<1>2. FileTypeOK
  BY <1>1 DEF FileInit, FileTypeOK, Closed
<1> QED BY <1>1, <1>2 DEF FileInit, FileInv, NoRequest

\* A call begins: nothing was read or written.
LEMMA BeginInv ==
    ASSUME FileInv, NEW call \in {"read", "write"}, NEW size \in Nat, NEW buf \in Seq(Nat),
           Begin(call, size, buf)
    PROVE  FileInv'
<1>1. NoRequest \in FileCall /\ NoRequest.call = "none"
  BY DEF NoRequest, FileCall
<1>2. req' \in FileCall /\ req'.done = 0 /\ req'.from = fil.pos /\ req'.todo = Len(req'.buf)
  BY DEF Begin, FileInv, FileTypeOK, FileCall
<1>3. FileTypeOK'
  <2>1. reply' = NoRequest /\ UNCHANGED <<file, fil>>
    BY DEF Begin
  <2> QED BY <1>1, <1>2, <2>1 DEF FileInv, FileTypeOK
<1>4. CallExact(req)'
  <2>1. fil'.pos = req'.from + req'.done /\ req'.done + req'.todo <= Len(req'.buf)
    <3>1. fil' = fil /\ fil.pos \in Nat /\ req'.todo \in Nat
      BY <1>2 DEF Begin, FileInv, FileTypeOK, FileCall
    <3> QED BY <1>2, <3>1
  <2>2. Whole(req'.done) = 0 /\ Whole(req'.done) = req'.done
    BY <1>2, WholeFacts
  <2> QED BY <1>2, <2>1, <2>2 DEF CallExact, Same
<1> QED BY <1>1, <1>3, <1>4 DEF Begin, FileInv, CallExact

\* syscall_fileWrite writes a chunk, or less of it than it was asked to.
LEMMA WriteChunkInv ==
    ASSUME FileInv, NEW n \in 0 .. Chunk, NEW err \in BOOLEAN, WriteChunk(n, err)
    PROVE  FileInv'
<1>1. /\ FileTypeOK
      /\ req.call = "write"
      /\ req.todo > 0
      /\ reply.call = "none"
      /\ fil.pos = req.from + req.done
      /\ req.done + req.todo <= Len(req.buf)
  BY DEF FileInv, WriteChunk, CallExact
<1>2. \A i \in 1 .. req.done : file.bytes[req.from + i] = req.buf[i]
  BY <1>1 DEF FileInv, CallExact, Same
<1>3. /\ file.bytes \in Seq(Nat)
      /\ req.buf \in Seq(Nat)
      /\ req.from + req.done <= Len(file.bytes)
      /\ req.todo \in Nat
      /\ req.done \in Nat
      /\ req.from \in Nat
      /\ req.size \in Nat
  BY <1>1 DEF FileTypeOK, FileCall
<1>4. n \in Nat /\ n <= Len1 /\ Len1 <= req.todo /\ Len1 \in Nat
  BY <1>1, <1>3, FileIOAssumption DEF WriteChunk, WriteDoes, Len1
<1> DEFINE b == file.bytes
           a == req.buf
           done == req.done
           base == req.from
           s == SubSeq(a, done + 1, done + n)
           w == CopiedOver(b, base, done, s)
<1>5. file' = [exists |-> file.exists, bytes |-> w]
  BY <1>1, <1>3 DEF WriteChunk, Written, FileTypeOK, CopiedOver, Over
<1>6. req' = [call |-> "write", size |-> req.size, buf |-> a,
              todo |-> (IF err \/ n # Len1 THEN 0 ELSE req.todo - Len1),
              done |-> done + n, from |-> base]
  BY <1>1 DEF WriteChunk, FileTypeOK, FileCall
<1>7. fil' = [open |-> fil.open, flags |-> fil.flags, pos |-> fil.pos + n,
              err |-> (fil.err \/ (err /\ "write" \in fil.flags))]
  BY <1>1 DEF WriteChunk, Advanced, FileTypeOK
<1>8. reply' = reply
  BY DEF WriteChunk
<1>9. /\ b \in Seq(Nat)
      /\ a \in Seq(Nat)
      /\ done \in Nat
      /\ base \in Nat
      /\ base + done <= Len(b)
      /\ done + n <= Len(a)
  <2>1. Len(req.buf) \in Nat
    BY <1>3, LenProperties
  <2> QED BY <1>1, <1>3, <1>4, <2>1
<1>10. Copies(b, base, a, done)
  BY <1>2 DEF Copies
<1> HIDE DEF b, a, done, base
<1>11. s \in Seq(Nat) /\ Len(s) = n /\ \A i \in 1 .. n : s[i] = a[done + i]
  BY <1>4, <1>9, Following
<1> HIDE DEF s
<1>12. /\ w \in Seq(Nat)
       /\ Len(w) >= base + done + n
       /\ \A i \in 1 .. done + n : w[base + i] = a[i]
  <2>1. s \in Seq(Nat) /\ Continues(s, a, done)
    BY <1>11 DEF Continues
  <2>2. /\ w \in Seq(Nat)
        /\ Len(w) >= base + done + Len(s)
        /\ Copies(w, base, a, done + Len(s))
    BY <1>9, <1>10, <2>1, CopiedOn
  <2> HIDE DEF w
  <2>3. Copies(w, base, a, done + n)
    BY <1>11, <2>2
  <2> QED BY <1>11, <2>2, <2>3 DEF Copies
<1> HIDE DEF w
<1>13. req' \in FileCall
  <2>1. done + n \in Nat /\ (IF err \/ n # Len1 THEN 0 ELSE req.todo - Len1) \in Nat
    <3>1. req.todo - Len1 \in Nat /\ done + n \in Nat
      BY <1>3, <1>4, <1>9
    <3> QED BY <3>1
  <2> QED BY <1>3, <1>6, <1>9, <2>1 DEF FileCall
<1>14. fil' \in [open : BOOLEAN, flags : SUBSET Modes, pos : Nat, err : BOOLEAN]
  <2>1. fil.pos + n \in Nat
    BY <1>1, <1>4 DEF FileTypeOK
  <2> QED BY <1>1, <1>7, <2>1 DEF FileTypeOK
<1>15. file' \in [exists : BOOLEAN, bytes : Seq(Nat)]
  BY <1>1, <1>5, <1>12 DEF FileTypeOK
<1>16. fil'.pos = base + done + n /\ fil'.pos <= Len(file'.bytes)
  BY <1>1, <1>5, <1>7, <1>12 DEF base, done
<1>17. FileTypeOK'
  BY <1>1, <1>8, <1>13, <1>14, <1>15, <1>16 DEF FileTypeOK
<1>18. req'.done + req'.todo <= Len(req'.buf)
  <2>1. Len(req.buf) \in Nat
    BY <1>3, LenProperties
  <2>2. /\ req'.done = req.done + n /\ req'.buf = req.buf
        /\ req'.todo = 0 \/ req'.todo = req.todo - Len1
    BY <1>6 DEF a, done
  <2>3. (req.done + n) + 0 <= Len(req.buf) /\ (req.done + n) + (req.todo - Len1) <= Len(req.buf)
    BY <1>1, <1>3, <1>4, <2>1, RoomLeft
  <2> QED BY <2>2, <2>3
<1>19. /\ req'.call = "write"
       /\ fil'.pos = req'.from + req'.done
       /\ \A i \in 1 .. req'.done : file'.bytes[req'.from + i] = req'.buf[i]
  <2>1. req'.call = "write" /\ req'.from = base /\ req'.done = done + n /\ req'.buf = a
    BY <1>6
  <2>2. file'.bytes = w
    BY <1>5
  <2>3. fil'.pos = base + (done + n)
    BY <1>4, <1>9, <1>16
  <2> QED BY <1>12, <2>1, <2>2, <2>3
<1>20. CallExact(req)'
  BY <1>18, <1>19 DEF CallExact, Same
<1> QED BY <1>1, <1>8, <1>17, <1>20 DEF FileInv, CallExact

\* syscall_fileRead reads a chunk, or less of it than it was asked for.
LEMMA ReadChunkInv ==
    ASSUME FileInv, NEW n \in 0 .. Chunk, NEW err \in BOOLEAN, ReadChunk(n, err)
    PROVE  FileInv'
<1>1. /\ FileTypeOK
      /\ req.call = "read"
      /\ req.todo > 0
      /\ reply.call = "none"
      /\ fil.pos = req.from + req.done
      /\ req.done + req.todo <= Len(req.buf)
      /\ Whole(req.done) = req.done
  BY DEF FileInv, ReadChunk, CallExact
<1>2. \A i \in 1 .. req.done : req.buf[i] = file.bytes[req.from + i]
  BY <1>1 DEF FileInv, CallExact, Same
<1>3. /\ file.bytes \in Seq(Nat)
      /\ req.buf \in Seq(Nat)
      /\ req.from + req.done <= Len(file.bytes)
      /\ req.todo \in Nat
      /\ req.done \in Nat
      /\ req.from \in Nat
      /\ req.size \in Nat
  BY <1>1 DEF FileTypeOK, FileCall
<1>4. /\ n \in Nat /\ n <= Len1
      /\ Len1 <= req.todo /\ Len1 \in Nat /\ Len1 <= Chunk
      /\ Len1 = Chunk \/ Len1 = req.todo
      /\ err => n < Len1
      /\ n <= Len(file.bytes) - fil.pos
  <2>1. /\ n <= Len1 /\ n <= Len(file.bytes) - fil.pos
        /\ err => n < Len1
    BY DEF ReadChunk, ReadDoes
  <2>2. /\ Len1 <= req.todo /\ Len1 \in Nat /\ Len1 <= Chunk
        /\ Len1 = Chunk \/ Len1 = req.todo
    BY <1>3, FileIOAssumption DEF Len1
  <2>3. n \in Nat
    BY FileIOAssumption
  <2> QED BY <2>1, <2>2, <2>3
<1> DEFINE b == file.bytes
           a == req.buf
           done == req.done
           base == req.from
           short == err \/ n # Len1
           got == SubSeq(b, base + done + 1, base + done + n)
           w == CopiedOver(a, 0, done, got)
<1>5. /\ b \in Seq(Nat)
      /\ a \in Seq(Nat)
      /\ done \in Nat
      /\ base \in Nat
      /\ base + done + n <= Len(b)
      /\ done + n <= Len(a)
  <2>1. Len(req.buf) \in Nat /\ Len(file.bytes) \in Nat
    BY <1>3, LenProperties
  <2>2. req.done + n <= Len(req.buf)
    BY <1>1, <1>3, <1>4, <2>1, RoomLeft
  <2>3. (req.from + req.done) + n <= Len(file.bytes)
    BY <1>1, <1>3, <1>4, <2>1
  <2> QED BY <1>3, <2>2, <2>3
<1>6. Len(SubSeq(a, 1, done)) = done
  <2> HIDE DEF a, done
  <2>1. Len(a) \in Nat /\ done <= Len(a) /\ 1 <= Len(a) + 1 /\ done >= 1 - 1
    BY <1>4, <1>5, LenProperties
  <2>2. Len(SubSeq(a, 1, done)) = done - 1 + 1
    BY <1>5, <2>1, PartOf
  <2> QED BY <1>5, <2>2
<1>7. got \in Seq(Nat) /\ Len(got) = n /\ \A i \in 1 .. n : got[i] = b[base + (done + i)]
  <2> DEFINE p == base + done
  <2> HIDE DEF b, done, base, p
  <2>1. p \in Nat /\ p + n <= Len(b) /\ p = base + done
    BY <1>4, <1>5 DEF p
  <2>2. got = SubSeq(b, p + 1, p + n)
    BY DEF p
  <2>3. /\ got \in Seq(Nat)
        /\ Len(got) = n
        /\ \A i \in 1 .. n : got[i] = b[p + i]
    <3>1. b \in Seq(Nat) /\ n \in Nat
      BY <1>4, <1>5
    <3> QED BY <2>1, <2>2, <3>1, Following
  <2> HIDE DEF got
  <2>4. ASSUME NEW i \in 1 .. n PROVE p + i = base + (done + i)
    BY <1>5, <2>1
  <2> QED BY <2>3, <2>4
<1>0. w = SubSeq(a, 1, done) \o got \o SubSeq(a, done + n + 1, Len(a))
  <2>1. 0 + done = done
    BY <1>5
  <2> HIDE DEF a, done, got
  <2> QED BY <1>7, <2>1 DEF CopiedOver, Over
<1> HIDE DEF w
<1>8. req' = [call |-> "read", size |-> req.size, buf |-> (IF short THEN a ELSE w),
              todo |-> (IF short THEN 0 ELSE req.todo - Len1), done |-> done + n, from |-> base]
  BY <1>0, <1>1, <1>6 DEF ReadChunk, FileTypeOK, FileCall
<1>9. fil' = [open |-> fil.open, flags |-> fil.flags, pos |-> fil.pos + n,
              err |-> (fil.err \/ (err /\ "read" \in fil.flags))]
  BY <1>1 DEF ReadChunk, Advanced, FileTypeOK
<1>10. file' = file /\ reply' = reply
  BY DEF ReadChunk
<1>11. /\ w \in Seq(Nat)
       /\ Len(w) >= Len(a)
       /\ \A i \in 1 .. done + n : w[i] = b[base + i]
  <2> DEFINE d == [i \in 1 .. done + n |-> b[base + i]]
  <2>1. Copies(a, 0, d, done)
    <3>1. ASSUME NEW i \in 1 .. done PROVE 0 + i = i /\ i \in 1 .. done + n
      BY <1>4, <1>5
    <3> QED BY <1>2, <3>1 DEF Copies
  <2>2. Continues(got, d, done)
    <3> HIDE DEF got, done, base, b
    <3>1. ASSUME NEW i \in 1 .. n PROVE done + i \in 1 .. done + n
      BY <1>4, <1>5
    <3> QED BY <1>7, <3>1 DEF Continues
  <2>3. \A i \in 1 .. done + n : d[i] = b[base + i]
    OBVIOUS
  <2> HIDE DEF got, done, base, b, d, a
  <2>4. 0 + done <= Len(a) /\ 0 \in Nat
    <3>1. Len(a) \in Nat
      BY <1>5, LenProperties
    <3> QED BY <1>4, <1>5, <3>1
  <2>5. /\ w \in Seq(Nat)
        /\ Len(w) >= Len(a)
        /\ Copies(w, 0, d, done + Len(got))
    BY <1>5, <1>7, <2>1, <2>2, <2>4, CopiedOn DEF w
  <2>6. Copies(w, 0, d, done + n)
    BY <1>7, <2>5
  <2>7. ASSUME NEW i \in 1 .. done + n PROVE w[i] = b[base + i]
    <3>1. 0 + i = i
      OBVIOUS
    <3>2. w[0 + i] = d[i]
      BY <2>6 DEF Copies
    <3> QED BY <2>3, <3>1, <3>2
  <2> QED BY <2>5, <2>7
<1> HIDE DEF w, got, b, a, base, done
<1>12. req' \in FileCall
  <2>1. req.todo - Len1 \in Nat /\ done + n \in Nat
    BY <1>3, <1>4, <1>5
  <2>2. (IF short THEN 0 ELSE req.todo - Len1) \in Nat /\ (IF short THEN a ELSE w) \in Seq(Nat)
    BY <1>5, <1>11, <2>1
  <2> QED BY <1>3, <1>5, <1>8, <2>1, <2>2 DEF FileCall
<1>13. fil' \in [open : BOOLEAN, flags : SUBSET Modes, pos : Nat, err : BOOLEAN]
  <2>1. fil.pos + n \in Nat
    BY <1>1, <1>4 DEF FileTypeOK
  <2> QED BY <1>1, <1>9, <2>1 DEF FileTypeOK
<1>14. fil'.pos = base + done + n /\ fil'.pos <= Len(file'.bytes)
  BY <1>1, <1>5, <1>9, <1>10 DEF base, done, b
<1>15. FileTypeOK'
  BY <1>1, <1>10, <1>12, <1>13, <1>14 DEF FileTypeOK
<1>16. req'.done + req'.todo <= Len(req'.buf)
  <2>1. Len(a) \in Nat /\ done + req.todo <= Len(a) /\ (~short => Len(w) >= Len(a) /\ Len(w) \in Nat)
    BY <1>1, <1>5, <1>11, LenProperties DEF a, done
  <2>2. CASE short
    <3>1. req'.done = done + n /\ req'.todo = 0 /\ req'.buf = a
      BY <1>8, <2>2
    <3> QED BY <1>4, <1>5, <3>1
  <2>3. CASE ~short
    <3>1. req'.done = done + n /\ req'.todo = req.todo - Len1 /\ req'.buf = w
      BY <1>8, <2>3
    <3>2. req.todo \in Nat /\ n \in Nat /\ Len1 \in Nat /\ n <= Len1 /\ done \in Nat
      BY <1>3, <1>4, <1>5
    <3>3. Len(w) \in Nat /\ Len(w) >= Len(a)
      BY <2>1, <2>3
    <3> HIDE DEF short
    <3> QED BY <2>1, <3>1, <3>2, <3>3
  <2> QED BY <2>2, <2>3
<1>17. /\ req'.call = "read"
       /\ fil'.pos = req'.from + req'.done
       /\ req'.from = base
       /\ req'.done = done + n
       /\ file'.bytes = b
  BY <1>4, <1>5, <1>8, <1>10, <1>14 DEF b
<1>18. Whole(done) = done
  BY <1>1 DEF done
<1>19. CASE short
  <2>1. n < Chunk
    BY <1>4, <1>19, FileIOAssumption
  <2>2. Whole(done + n) = done
    BY <1>4, <1>5, <1>18, <2>1, WholeFacts
  <2>3. req'.buf = a /\ req'.todo = 0
    BY <1>8, <1>19
  <2>4. Same(req, Whole(req.done))'
    BY <1>2, <1>17, <2>2, <2>3 DEF Same, a, b, base, done
  <2>5. CallExact(req)'
    BY <1>16, <1>17, <2>3, <2>4 DEF CallExact
  <2> QED BY <1>1, <1>10, <1>15, <2>5 DEF FileInv, CallExact
<1>20. CASE ~short
  <2>1. req'.buf = w /\ req'.todo = req.todo - Len1 /\ n = Len1
    BY <1>8, <1>20
  <2>2. req'.todo > 0 => Whole(done + n) = done + n
    <3>1. req'.todo > 0 => n = Chunk
      BY <1>3, <1>4, <2>1
    <3> QED BY <1>5, <1>18, <3>1, WholeFacts
  <2>3. Whole(done + n) \in Nat /\ Whole(done + n) <= done + n
    <3>1. done + n \in Nat
      BY <1>4, <1>5
    <3> QED BY <3>1, WholeFacts
  <2>4. \A i \in 1 .. Whole(done + n) : w[i] = b[base + i]
    <3> DEFINE m == Whole(done + n)
    <3> HIDE DEF m
    <3>1. m \in Nat /\ m <= done + n
      BY <2>3 DEF m
    <3>2. \A i \in 1 .. m : w[i] = b[base + i]
      BY <1>4, <1>5, <1>11, <3>1
    <3> QED BY <3>2 DEF m
  <2>5. Same(req, Whole(req.done))'
    BY <1>17, <2>1, <2>4 DEF Same
  <2>6. CallExact(req)'
    BY <1>16, <1>17, <2>2, <2>5 DEF CallExact
  <2> QED BY <1>1, <1>10, <1>15, <2>6 DEF FileInv, CallExact
<1> QED BY <1>19, <1>20

\* Every step keeps the invariant.
LEMMA FileStep == ASSUME FileInv, [FileNext]_fileVars PROVE FileInv'
<1>0. NoRequest \in FileCall /\ NoRequest.call = "none" /\ NoRequest.todo = 0
  BY DEF NoRequest, FileCall
<1>1. ASSUME NEW mode \in DOMAIN FlagsOf, FileOpen(mode) PROVE FileInv'
  <2>1. FlagsOf[mode] \in SUBSET Modes
    BY DEF FlagsOf, Modes
  <2>2. file' \in [exists : BOOLEAN, bytes : Seq(Nat)]
    BY <1>1 DEF FileOpen, Opened, FileInv, FileTypeOK
  <2>3. ~("append" \in FlagsOf[mode] /\ FlagsOf[mode] \cap {"always", "new"} # {})
    BY DEF FlagsOf
  <2>4. fil'.pos \in Nat /\ fil'.pos <= Len(file'.bytes)
    BY <1>1, <2>3 DEF FileOpen, Opened, FileInv, FileTypeOK
  <2>5. FileTypeOK'
    BY <1>0, <1>1, <2>1, <2>2, <2>4 DEF FileOpen, FileInv, FileTypeOK
  <2> QED BY <1>0, <1>1, <2>5 DEF FileOpen, FileInv, CallExact, InUserMode
<1>2. CASE FileOpenFails
  BY <1>0, <1>2 DEF FileOpenFails, FileInv, FileTypeOK, CallExact, InUserMode
<1>3. CASE FileClose
  BY <1>0, <1>3 DEF FileClose, Closed, FileInv, FileTypeOK, CallExact, InUserMode
<1>4. CASE FileCallEnds
  BY <1>0, <1>4 DEF FileCallEnds, FileInv, FileTypeOK, CallExact, Same
<1>5. ASSUME NEW size \in ItemSizes, NEW count \in ItemCounts, FWrite(size, count) PROVE FileInv'
  <2>1. size \in Nat /\ (size * count) % Wrap \in Nat
    <3>1. ASSUME NEW x \in Nat, NEW y \in Nat PROVE x * y \in Nat
      OBVIOUS
    <3>2. ASSUME NEW x \in Nat, NEW y \in Nat \ {0} PROVE x % y \in Nat
      OBVIOUS
    <3> QED BY <3>1, <3>2, FileIOAssumption
  <2>2. PICK first \in FirstBytes :
           Begin("write", size, [i \in 1 .. (size * count) % Wrap |-> first + i])
    BY <1>5 DEF FWrite
  <2>3. [i \in 1 .. (size * count) % Wrap |-> first + i] \in Seq(Nat)
    BY <2>1, FileIOAssumption
  <2> QED BY <2>1, <2>2, <2>3, BeginInv
<1>6. ASSUME NEW size \in ItemSizes, NEW count \in ItemCounts, FRead(size, count) PROVE FileInv'
  <2>1. size \in Nat /\ (size * count) % Wrap \in Nat
    <3>1. ASSUME NEW x \in Nat, NEW y \in Nat PROVE x * y \in Nat
      OBVIOUS
    <3>2. ASSUME NEW x \in Nat, NEW y \in Nat \ {0} PROVE x % y \in Nat
      OBVIOUS
    <3> QED BY <3>1, <3>2, FileIOAssumption
  <2>2. Begin("read", size, [i \in 1 .. (size * count) % Wrap |-> OldByte])
    BY <1>6 DEF FRead
  <2>3. [i \in 1 .. (size * count) % Wrap |-> OldByte] \in Seq(Nat)
    BY <2>1, FileIOAssumption
  <2> QED BY <2>1, <2>2, <2>3, BeginInv
<1>7. ASSUME NEW n \in 0 .. Chunk, NEW err \in BOOLEAN, WriteChunk(n, err) PROVE FileInv'
  BY <1>7, WriteChunkInv
<1>8. ASSUME NEW n \in 0 .. Chunk, NEW err \in BOOLEAN, ReadChunk(n, err) PROVE FileInv'
  BY <1>8, ReadChunkInv
<1>9. CASE UNCHANGED fileVars
  BY <1>9 DEF fileVars, FileInv, FileTypeOK, CallExact, Same
<1> QED BY <1>1, <1>2, <1>3, <1>4, <1>5, <1>6, <1>7, <1>8, <1>9 DEF FileNext

\* The invariant of the loops over the chunks holds in every reachable state.
THEOREM FileInvariant == FileSpec => []FileInv
  BY FileInitInv, FileStep, PTL DEF FileSpec

\* Where the loops end, the call is exact.
LEMMA FileInvExact == ASSUME FileInv PROVE FileIoExact
<1> SUFFICES ASSUME reply.call # "none"
             PROVE  /\ fil.pos = reply.from + reply.done
                    /\ reply.call = "write" => FileBytes(reply.done) = SubSeq(reply.buf, 1, reply.done)
                    /\ reply.call = "read" =>
                        FileBytes(Whole(reply.done)) = SubSeq(reply.buf, 1, Whole(reply.done))
  BY DEF FileIoExact, Whole
<1>1. /\ file.bytes \in Seq(Nat) /\ reply.buf \in Seq(Nat) /\ fil.pos \in Nat
      /\ reply.todo \in Nat /\ reply.done \in Nat /\ reply.from \in Nat
      /\ fil.pos <= Len(file.bytes)
  BY DEF FileInv, FileTypeOK, FileCall
<1>2. fil.pos = reply.from + reply.done /\ reply.done <= Len(reply.buf)
  BY <1>1 DEF FileInv, CallExact
<1>3. ASSUME NEW m \in 0 .. reply.done, Same(reply, m)
      PROVE  FileBytes(m) = SubSeq(reply.buf, 1, m)
  <2> DEFINE x == SubSeq(file.bytes, reply.from + 1, reply.from + m)
             y == SubSeq(reply.buf, 1, m)
  <2>0. \A i \in 1 .. m : file.bytes[reply.from + i] = reply.buf[i]
    BY <1>3 DEF Same
  <2>1. x \in Seq(Nat) /\ Len(x) = m /\ \A i \in 1 .. m : x[i] = file.bytes[reply.from + i]
    <3>1. Len(file.bytes) \in Nat
      BY <1>1, LenProperties
    <3>2. m \in Nat /\ m <= reply.done
      BY <1>1
    <3>3. reply.from + m <= Len(file.bytes)
      BY <1>1, <1>2, <3>1, <3>2
    <3> QED BY <1>1, <3>2, <3>3, Following
  <2>2. y \in Seq(Nat) /\ Len(y) = m /\ \A i \in 1 .. m : y[i] = reply.buf[i]
    <3>1. m \in Nat /\ 0 + m <= Len(reply.buf) /\ 0 + 1 = 1 /\ 0 + m = m
      BY <1>1, <1>2, LenProperties
    <3>2. y = SubSeq(reply.buf, 0 + 1, 0 + m)
      BY <3>1
    <3>3. y \in Seq(Nat) /\ Len(y) = m /\ \A i \in 1 .. m : y[i] = reply.buf[0 + i]
      BY <1>1, <3>1, <3>2, Following
    <3> HIDE DEF y
    <3> QED BY <3>3
  <2> HIDE DEF x, y
  <2>3. \A i \in 1 .. m : x[i] = y[i]
    BY <2>0, <2>1, <2>2
  <2>4. x = y
    BY <2>1, <2>2, <2>3, SeqEqual
  <2> QED BY <2>4 DEF x, y, FileBytes
<1>5. reply.done \in 0 .. reply.done /\ Whole(reply.done) \in 0 .. reply.done
  <2>1. Whole(reply.done) \in Nat /\ Whole(reply.done) <= reply.done
    BY <1>1, WholeFacts
  <2> DEFINE m == Whole(reply.done)
  <2> HIDE DEF m
  <2>2. m \in 0 .. reply.done
    BY <1>1, <2>1 DEF m
  <2> QED BY <1>1, <2>2 DEF m
<1>6. /\ reply.call = "write" => Same(reply, reply.done)
      /\ reply.call = "read" => Same(reply, Whole(reply.done))
  BY DEF FileInv, CallExact
<1> QED BY <1>2, <1>3, <1>5, <1>6

\* After a read or a write the file is where the answer says; what a write counts is
\* in the file, and the whole chunks of what a read counts were delivered; for
\* chunks of any size, any file, any buffer and any call of FatFs that fails or
\* does less than it was asked to.
THEOREM FilesAreExact == FileSpec => []FileIoExact
  BY FileInvariant, FileInvExact, PTL

-----------------------------------------------------------------------------
(***************************************************************************)
(* The heap: least and greatest, and alignment                             *)
(***************************************************************************)

\* A set of numbers that is not empty has a least element.
LEMMA LeastNumber ==
    ASSUME NEW S, S \subseteq Nat, S # {}
    PROVE  \E m \in S : \A n \in S : m <= n
<1>1. PICK m \in S : \A n \in S : ~(<<n, m>> \in OpToRel(<, Nat))
  BY NatLessThanWellFounded, WFMin
<1>2. \A n \in S : ~(n < m)
  BY <1>1 DEF OpToRel
<1> QED BY <1>2

\* A bounded one has a greatest element.
LEMMA GreatestNumber ==
    ASSUME NEW S, NEW bound \in Nat, S \subseteq 0 .. bound, S # {}
    PROVE  \E m \in S : \A n \in S : m >= n
<1> DEFINE D == {bound - n : n \in S}
<1>1. D \subseteq Nat /\ D # {}
  <2>1. \A n \in S : n \in 0 .. bound
    OBVIOUS
  <2>2. \A n \in 0 .. bound : bound - n \in Nat
    OBVIOUS
  <2> QED BY <2>1, <2>2
<1>2. PICK d \in D : \A e \in D : d <= e
  <2> HIDE DEF D
  <2> QED BY <1>1, LeastNumber
<1>3. PICK m \in S : d = bound - m
  OBVIOUS
<1>4. \A n \in S : bound - m <= bound - n
  BY <1>2, <1>3
<1> QED BY <1>4

\* The greatest element, which is what CHOOSE finds
LEMMA MaxIs ==
    ASSUME NEW S, \E m \in S : \A n \in S : m >= n
    PROVE  Max(S) \in S /\ \A n \in S : Max(S) >= n
  BY Zenon DEF Max

\* The least element
LEMMA MinIs ==
    ASSUME NEW S, \E m \in S : \A n \in S : m <= n
    PROVE  Min(S) \in S /\ \A n \in S : Min(S) <= n
  BY Zenon DEF Min

\* The greater of two numbers
LEMMA GreaterOf ==
    ASSUME NEW a \in Int, NEW b \in Int
    PROVE  Max({a, b}) \in {a, b} /\ Max({a, b}) >= a /\ Max({a, b}) >= b
<1>1. \E m \in {a, b} : \A n \in {a, b} : m >= n
  OBVIOUS
<1> QED BY <1>1, MaxIs

\* A multiple of u
LEMMA Quotient ==
    ASSUME NEW u \in Nat \ {0}, NEW x \in Int, x % u = 0
    PROVE  \E k \in Int : x = u * k
  OBVIOUS

\* is what % takes away, and the other way round.
LEMMA Multiple ==
    ASSUME NEW u \in Nat \ {0}, NEW k \in Int
    PROVE  (u * k) % u = 0
  OBVIOUS

\* Sums and differences of what is aligned are aligned.
LEMMA SumAligned ==
    ASSUME NEW u \in Nat \ {0}, NEW x \in Int, NEW y \in Int, x % u = 0, y % u = 0
    PROVE  (x + y) % u = 0 /\ (x - y) % u = 0
<1>1. PICK k \in Int : x = u * k
  BY Quotient
<1>2. PICK l \in Int : y = u * l
  BY Quotient
<1>3. x + y = u * (k + l) /\ x - y = u * (k - l)
  BY <1>1, <1>2
<1>4. k + l \in Int /\ k - l \in Int
  OBVIOUS
<1> QED BY <1>3, <1>4, Multiple

\* What is aligned to pages is aligned to ALIGNMENT.
LEMMA CoarseAligned ==
    ASSUME NEW u \in Nat \ {0}, NEW v \in Nat \ {0}, NEW x \in Int, x % v = 0, v % u = 0
    PROVE  x % u = 0
<1>1. PICK k \in Int : x = v * k
  BY Quotient
<1>2. PICK l \in Int : v = u * l
  BY Quotient
<1>3. x = u * (l * k) /\ l * k \in Int
  BY <1>1, <1>2
<1> QED BY <1>3, Multiple

\* Different aligned numbers are a unit apart.
LEMMA AlignedApart ==
    ASSUME NEW u \in Nat \ {0}, NEW x \in Int, NEW y \in Int, x % u = 0, y % u = 0, x < y
    PROVE  x + u <= y
<1>1. (y - x) % u = 0 /\ y - x \in Int
  <2>1. (y - x) % u = 0
    BY SumAligned, Zenon
  <2> QED BY <2>1
<1>2. PICK k \in Int : y - x = u * k
  BY <1>1, Quotient
<1>3. k >= 1
  BY <1>2
<1>4. u * k >= u
  BY <1>3
<1> QED BY <1>2, <1>4

\* The rounding up of ama_malloc and ama_realloc
LEMMA AlignUpIs ==
    ASSUME NEW u \in Nat \ {0}, NEW n \in Int
    PROVE  /\ AlignUp(n, u) \in Int /\ AlignUp(n, u) % u = 0
           /\ n <= AlignUp(n, u) /\ AlignUp(n, u) < n + u
<1>1. PICK q \in Int : q = (n + u - 1) \div u
  OBVIOUS
<1>2. AlignUp(n, u) = u * q
  BY <1>1 DEF AlignUp
<1>3. (u * q) % u = 0 /\ u * q \in Int
  BY Multiple
<1>4. PICK r \in 0 .. u - 1 : n + u - 1 = u * q + r
  BY <1>1
<1> QED BY <1>2, <1>3, <1>4

\* What is aligned and large enough has room for the aligned size.
LEMMA AlignedRoom ==
    ASSUME NEW u \in Nat \ {0}, NEW n \in Int, NEW room \in Int, room % u = 0
    PROVE  AlignUp(n, u) <= room <=> n <= room
<1>1. /\ AlignUp(n, u) \in Int /\ AlignUp(n, u) % u = 0
      /\ n <= AlignUp(n, u) /\ AlignUp(n, u) < n + u
  BY AlignUpIs
<1>2. room < AlignUp(n, u) => room + u <= AlignUp(n, u)
  BY <1>1, AlignedApart
<1> QED BY <1>1, <1>2

\* The pages of addresses are in the order of the addresses.
LEMMA HeapPages ==
    ASSUME NEW a \in Int, NEW b \in Int
    PROVE  /\ HeapPageOf(a) \in Int
           /\ a <= b => HeapPageOf(a) <= HeapPageOf(b)
           /\ (a < b /\ b % HeapPageSize = 0) => HeapPageOf(a) < HeapPageOf(b)
           /\ HeapPageOf(a - 1) >= HeapPageOf(a) - 1
<1>0. HeapPageSize \in Nat \ {0}
  BY AmallocAssumption
<1>1. ASSUME NEW u \in Nat \ {0} PROVE a \div u \in Int
  OBVIOUS
<1>2. ASSUME NEW u \in Nat \ {0}, a <= b PROVE a \div u <= b \div u
  BY <1>2
<1>3. ASSUME NEW u \in Nat \ {0}, a < b, b % u = 0 PROVE a \div u < b \div u
  BY <1>3
<1>4. ASSUME NEW u \in Nat \ {0} PROVE (a - 1) \div u >= a \div u - 1
  OBVIOUS
<1> QED BY <1>0, <1>1, <1>2, <1>3, <1>4 DEF HeapPageOf

-----------------------------------------------------------------------------
(***************************************************************************)
(* The heap: where its nodes are                                           *)
(***************************************************************************)

\* Where nodes of the sizes z may be, in a heap that ends at brk.
Laid(z, brk) ==
    /\ z \in [DOMAIN z -> Nat] /\ DOMAIN z \subseteq Nat /\ HeapStart \in DOMAIN z
    /\ brk \in Nat /\ brk % Alignment = 0
    /\ \A a \in DOMAIN z : a % Alignment = 0 /\ HeapStart <= a
    /\ \A a \in DOMAIN z : a + NodeSize + Alignment <= brk /\ a + NodeSize + z[a] <= brk
    /\ \A a, b \in DOMAIN z :
            a < b => a + NodeSize + Alignment <= b /\ a + NodeSize + z[a] <= b

\* No two free nodes are neighbours, but for a first one in X or a second one in Y.
Apart(z, X, Y) ==
    \A a, b \in DOMAIN z :
        (a < b /\ z[a] = 0 /\ z[b] = 0 /\ a \notin X /\ b \notin Y)
            => \E c \in DOMAIN z : a < c /\ c < b

\* A heap is a record of its fields, and its nodes are laid out in it.
IsHeap(h) ==
    /\ h = [size |-> h.size, brk |-> h.brk, cursor |-> h.cursor, mem |-> h.mem]
    /\ h.mem = [x \in DOMAIN h.mem |-> h.mem[x]]
    /\ Laid(h.size, h.brk)

\* The facts about the constants
LEMMA Units ==
    /\ Alignment \in Nat \ {0} /\ NodeSize \in Nat \ {0} /\ FreeNodeMin = Alignment
    /\ HeapPageSize \in Nat \ {0} /\ HeapPageSize % Alignment = 0
    /\ NodeSize % Alignment = 0 /\ HeapStart % Alignment = 0
    /\ HeapStart \in Nat /\ InitialBrk \in Nat /\ HeapLimit \in Nat
    /\ InitialBrk % Alignment = 0 /\ InitialBrk % HeapPageSize = 0
    /\ HeapStart + NodeSize + Alignment <= InitialBrk /\ InitialBrk <= HeapLimit
<1>1. /\ Alignment \in Nat \ {0} /\ NodeSize \in Nat \ {0} /\ FreeNodeMin \in Nat \ {0}
      /\ HeapPageSize \in Nat \ {0}
      /\ HeapStart \in Nat /\ InitialBrk \in Nat /\ HeapLimit \in Nat
      /\ InitialBrk >= HeapStart + NodeSize + FreeNodeMin
      /\ InitialBrk % HeapPageSize = 0 /\ HeapLimit >= InitialBrk
      /\ FreeNodeMin <= Alignment
  BY AmallocAssumption
<1>2. /\ NodeSize % Alignment = 0 /\ FreeNodeMin % Alignment = 0
      /\ HeapPageSize % Alignment = 0 /\ HeapStart % Alignment = 0
  BY AmallocAssumption
<1>3. InitialBrk % Alignment = 0
  <2>1. Alignment \in Nat \ {0} /\ HeapPageSize \in Nat \ {0} /\ InitialBrk \in Int
    BY <1>1, AmallocAssumption
  <2> QED BY <1>1, <1>2, <2>1, CoarseAligned, Zenon
<1>4. FreeNodeMin = Alignment
  <2>1. 0 % Alignment = 0 /\ 0 \in Int
    BY <1>1
  <2>2. 0 + Alignment <= FreeNodeMin
    BY <1>1, <1>2, <2>1, AlignedApart
  <2> QED BY <1>1, <2>2
<1> QED BY <1>1, <1>2, <1>3, <1>4

\* The last node, which is head->prev
LEMMA LastIs ==
    ASSUME NEW h, Laid(h.size, h.brk)
    PROVE  LastNode(h) \in NodesOf(h) /\ \A b \in NodesOf(h) : b <= LastNode(h)
<1>0. Alignment \in Nat /\ NodeSize \in Nat
  BY Units
<1>1. NodesOf(h) \subseteq 0 .. h.brk /\ NodesOf(h) # {} /\ h.brk \in Nat /\ NodesOf(h) \subseteq Nat
  BY <1>0 DEF Laid, NodesOf
<1>2. \E m \in NodesOf(h) : \A n \in NodesOf(h) : m >= n
  BY <1>1, GreatestNumber
<1>3. LastNode(h) \in NodesOf(h) /\ \A n \in NodesOf(h) : LastNode(h) >= n
  BY <1>2, MaxIs DEF LastNode
<1> QED BY <1>1, <1>3

\* The next node, which is the first one after the last
LEMMA AfterIs ==
    ASSUME NEW h, Laid(h.size, h.brk), NEW a \in NodesOf(h)
    PROVE  /\ a = LastNode(h) => NodeAfter(h, a) = HeapStart
           /\ a # LastNode(h) => /\ NodeAfter(h, a) \in NodesOf(h)
                                 /\ a < NodeAfter(h, a)
                                 /\ \A b \in NodesOf(h) : a < b => NodeAfter(h, a) <= b
<1> DEFINE S == {b \in NodesOf(h) : b > a}
<1>1. NodesOf(h) \subseteq Nat
  BY DEF Laid, NodesOf
<1>2. CASE a = LastNode(h)
  BY <1>2 DEF NodeAfter
<1>3. CASE a # LastNode(h)
  <2>1. LastNode(h) \in NodesOf(h) /\ a <= LastNode(h)
    BY LastIs
  <2>2. LastNode(h) \in S /\ S \subseteq Nat
    BY <1>1, <1>3, <2>1
  <2>3. NodeAfter(h, a) = Min(S)
    BY <1>3 DEF NodeAfter
  <2>4. Min(S) \in S /\ \A n \in S : Min(S) <= n
    <3> HIDE DEF S
    <3>1. \E m \in S : \A n \in S : m <= n
      BY <2>2, LeastNumber
    <3> QED BY <3>1, MinIs
  <2> QED BY <1>1, <1>3, <2>3, <2>4
<1> QED BY <1>2, <1>3

\* The previous node, which is the last one before the first
LEMMA BeforeIs ==
    ASSUME NEW h, Laid(h.size, h.brk), NEW a \in NodesOf(h)
    PROVE  /\ a = HeapStart => NodeBefore(h, a) = LastNode(h)
           /\ a # HeapStart => /\ NodeBefore(h, a) \in NodesOf(h)
                               /\ NodeBefore(h, a) < a
                               /\ \A b \in NodesOf(h) : b < a => b <= NodeBefore(h, a)
<1> DEFINE S == {b \in NodesOf(h) : b < a}
<1>1. NodesOf(h) \subseteq Nat /\ HeapStart \in NodesOf(h) /\ HeapStart <= a
  BY DEF Laid, NodesOf
<1>2. CASE a = HeapStart
  BY <1>2 DEF NodeBefore
<1>3. CASE a # HeapStart
  <2>2. HeapStart \in S /\ S \subseteq 0 .. a /\ a \in Nat
    BY <1>1, <1>3
  <2>3. NodeBefore(h, a) = Max(S)
    BY <1>3 DEF NodeBefore
  <2>4. Max(S) \in S /\ \A n \in S : Max(S) >= n
    <3> HIDE DEF S
    <3>1. \E m \in S : \A n \in S : m >= n
      BY <2>2, GreatestNumber
    <3> QED BY <3>1, MaxIs
  <2> QED BY <1>1, <1>3, <2>3, <2>4
<1> QED BY <1>2, <1>3

\* The room of a node is up to the next one, or to the end of the heap.
LEMMA CapacityIs ==
    ASSUME NEW h, Laid(h.size, h.brk), NEW a \in NodesOf(h)
    PROVE  /\ Capacity(h, a) \in Nat /\ Capacity(h, a) % Alignment = 0
           /\ Alignment <= Capacity(h, a) /\ h.size[a] <= Capacity(h, a)
           /\ a = LastNode(h) => a + NodeSize + Capacity(h, a) = h.brk
           /\ a # LastNode(h) => a + NodeSize + Capacity(h, a) = NodeAfter(h, a)
           /\ a + NodeSize + Capacity(h, a) <= h.brk
           /\ \A b \in NodesOf(h) : a < b => a + NodeSize + Capacity(h, a) <= b
<1> DEFINE end == IF a = LastNode(h) THEN h.brk ELSE NodeAfter(h, a)
<1>0. Alignment \in Nat \ {0} /\ NodeSize \in Nat /\ NodeSize % Alignment = 0
  BY Units
<1>1. Capacity(h, a) = end - (a + NodeSize)
  BY DEF Capacity
<1>2. /\ a \in Nat /\ h.size[a] \in Nat /\ a % Alignment = 0 /\ h.brk \in Nat
      /\ a + NodeSize + Alignment <= h.brk /\ a + NodeSize + h.size[a] <= h.brk
  BY DEF Laid, NodesOf
<1>3. end \in Nat /\ end % Alignment = 0 /\ end <= h.brk
      /\ a + NodeSize + Alignment <= end /\ a + NodeSize + h.size[a] <= end
      /\ \A b \in NodesOf(h) : a < b => end <= b
  <2>1. CASE a = LastNode(h)
    <3>1. \A b \in NodesOf(h) : b <= a /\ b \in Nat
      BY <2>1, LastIs DEF Laid, NodesOf
    <3>2. end = h.brk /\ h.brk % Alignment = 0
      BY <2>1 DEF Laid
    <3> HIDE DEF end
    <3>3. \A b \in NodesOf(h) : ~(a < b)
      BY <1>2, <3>1
    <3> QED BY <1>2, <3>2, <3>3
  <2>2. CASE a # LastNode(h)
    <3>1. /\ NodeAfter(h, a) \in NodesOf(h)
          /\ a < NodeAfter(h, a)
          /\ \A b \in NodesOf(h) : a < b => NodeAfter(h, a) <= b
      BY <2>2, AfterIs
    <3>2. NodeAfter(h, a) \in Nat /\ NodeAfter(h, a) % Alignment = 0 /\ NodeAfter(h, a) + NodeSize + Alignment <= h.brk
      BY <3>1 DEF Laid, NodesOf
    <3>3. a + NodeSize + Alignment <= NodeAfter(h, a) /\ a + NodeSize + h.size[a] <= NodeAfter(h, a)
      BY <3>1 DEF Laid, NodesOf
    <3>4. end = NodeAfter(h, a)
      BY <2>2
    <3> HIDE DEF end
    <3>5. NodeAfter(h, a) <= h.brk
      BY <1>0, <1>2, <3>2
    <3> QED BY <3>1, <3>2, <3>3, <3>4, <3>5
  <2> QED BY <2>1, <2>2
<1>4. end = h.brk \/ end = NodeAfter(h, a)
  OBVIOUS
<1>5. (end - (a + NodeSize)) % Alignment = 0
  <2> HIDE DEF end
  <2>1. (a + NodeSize) % Alignment = 0
    <3>1. a \in Int /\ NodeSize \in Int
      BY <1>0, <1>2
    <3> QED BY <1>0, <1>2, <3>1, SumAligned, Zenon
  <2>2. a + NodeSize \in Int /\ end \in Int
    BY <1>0, <1>2, <1>3
  <2> QED BY <1>0, <1>3, <2>1, <2>2, SumAligned, Zenon
<1>6. a = LastNode(h) => end = h.brk
  OBVIOUS
<1>7. a # LastNode(h) => end = NodeAfter(h, a)
  OBVIOUS
<1> HIDE DEF end
<1>8. end - (a + NodeSize) \in Nat /\ a + NodeSize + (end - (a + NodeSize)) = end
  BY <1>0, <1>2, <1>3
<1>9. Alignment <= end - (a + NodeSize) /\ h.size[a] <= end - (a + NodeSize)
  BY <1>0, <1>2, <1>3
<1> QED BY <1>1, <1>3, <1>5, <1>6, <1>7, <1>8, <1>9

-----------------------------------------------------------------------------
(***************************************************************************)
(* The heap: nodes removed, resized and added                              *)
(***************************************************************************)

\* A heap, put together from its fields.
MadeOf(r, z, brk, c, m) ==
    /\ r = [size |-> z, brk |-> brk, cursor |-> c, mem |-> m]
    /\ m = [x \in DOMAIN m |-> m[x]]
    /\ Laid(z, brk)

\* A heap has the fields it is made of.
LEMMA HeapMadeOf ==
    ASSUME NEW r, NEW z, NEW brk, NEW c, NEW m, MadeOf(r, z, brk, c, m)
    PROVE  IsHeap(r) /\ r.size = z /\ r.brk = brk /\ r.cursor = c /\ r.mem = m
<1>1. r.size = z /\ r.brk = brk /\ r.cursor = c /\ r.mem = m
  BY DEF MadeOf
<1> QED BY <1>1 DEF IsHeap, MadeOf

\* A node is taken out; its room goes to the one before it.
LEMMA LaidRemoved ==
    ASSUME NEW z, NEW brk, Laid(z, brk), NEW a, a # HeapStart
    PROVE  Laid([b \in DOMAIN z \ {a} |-> z[b]], brk)
  BY DEF Laid

\* A node gets another size, as far as its room goes.
LEMMA LaidResized ==
    ASSUME NEW z, NEW brk, Laid(z, brk), NEW a \in DOMAIN z, NEW n \in Nat,
           a + NodeSize + n <= brk, \A b \in DOMAIN z : a < b => a + NodeSize + n <= b
    PROVE  Laid([z EXCEPT ![a] = n], brk)
  BY DEF Laid

\* A free node is added where there is room for it.
LEMMA LaidAdded ==
    ASSUME NEW z, NEW brk, Laid(z, brk), NEW w \in Nat, w >= brk, w % Alignment = 0,
           NEW p \in DOMAIN z, NEW at \in Nat, at % Alignment = 0,
           p + NodeSize + Alignment <= at, p + NodeSize + z[p] <= at,
           at + NodeSize + Alignment <= w,
           \A b \in DOMAIN z : p < b => at + NodeSize + Alignment <= b
    PROVE  /\ at \notin DOMAIN z
           /\ Laid([b \in DOMAIN z \cup {at} |-> IF b = at THEN 0 ELSE z[b]], w)
<1> DEFINE D == DOMAIN z
           y == [b \in D \cup {at} |-> IF b = at THEN 0 ELSE z[b]]
<1>0. Alignment \in Nat \ {0} /\ NodeSize \in Nat \ {0}
  BY Units
<1>1. /\ z \in [D -> Nat] /\ D \subseteq Nat /\ HeapStart \in D /\ brk \in Nat
      /\ \A a \in D : a % Alignment = 0 /\ HeapStart <= a
      /\ \A a \in D : a + NodeSize + Alignment <= brk /\ a + NodeSize + z[a] <= brk
      /\ \A a, b \in D : a < b => a + NodeSize + Alignment <= b /\ a + NodeSize + z[a] <= b
  BY DEF Laid
<1>2. \A b \in D : b <= p \/ p < b
  BY <1>1
<1>3. \A b \in D : b \in Nat /\ z[b] \in Nat
  BY <1>1
<1>4. \A b \in D : b < at => b <= p
  <2> TAKE b \in D
  <2>1. p < b => at + NodeSize + Alignment <= b
    OBVIOUS
  <2> QED BY <1>0, <1>2, <1>3, <2>1
<1>5. at \notin D
  <2> SUFFICES ASSUME at \in D PROVE FALSE
    OBVIOUS
  <2>1. p < at => at + NodeSize + Alignment <= at
    OBVIOUS
  <2>2. p < at
    BY <1>0, <1>3
  <2> QED BY <1>0, <2>1, <2>2
<1>6. /\ DOMAIN y = D \cup {at} /\ y[at] = 0
      /\ \A b \in D : y[b] = z[b]
  BY <1>5
<1>7. HeapStart <= at
  BY <1>0, <1>1, <1>3, Units
<1> HIDE DEF y, D
<1>8. y \in [DOMAIN y -> Nat] /\ DOMAIN y \subseteq Nat /\ HeapStart \in DOMAIN y
  <2>1. y = [b \in D \cup {at} |-> IF b = at THEN 0 ELSE z[b]]
    BY DEF y
  <2> QED BY <1>1, <1>3, <1>6, <2>1
<1>9. \A a \in DOMAIN y : a % Alignment = 0 /\ HeapStart <= a
  BY <1>1, <1>6, <1>7
<1>10. \A a \in DOMAIN y : a + NodeSize + Alignment <= w /\ a + NodeSize + y[a] <= w
  <2> TAKE a \in DOMAIN y
  <2>1. CASE a = at
    BY <1>0, <1>6, <2>1
  <2>2. CASE a \in D
    <3>1. a + NodeSize + Alignment <= brk /\ a + NodeSize + z[a] <= brk
      BY <1>1, <2>2
    <3>2. a \in Nat /\ z[a] \in Nat /\ brk \in Nat /\ y[a] = z[a]
      BY <1>1, <1>3, <1>6, <2>2
    <3>3. a + NodeSize + Alignment <= w /\ a + NodeSize + z[a] <= w
      BY <1>0, <3>1, <3>2
    <3> QED BY <3>2, <3>3
  <2> QED BY <1>6, <2>1, <2>2
<1>11. ASSUME NEW a \in DOMAIN y, NEW b \in DOMAIN y, a < b
       PROVE  a + NodeSize + Alignment <= b /\ a + NodeSize + y[a] <= b
  <2>1. CASE a \in D /\ b \in D
    BY <1>1, <1>6, <1>11, <2>1
  <2>2. CASE a \in D /\ b = at
    <3>1. a <= p
      BY <1>4, <1>11, <2>2
    <3>2. a < p => a + NodeSize + Alignment <= p /\ a + NodeSize + z[a] <= p
      BY <1>1, <2>2 DEF D
    <3>3. a + NodeSize + Alignment <= at /\ a + NodeSize + z[a] <= at
      <4>1. a \in Nat /\ p \in Nat /\ z[a] \in Nat
        BY <1>3, <2>2 DEF D
      <4> QED BY <1>0, <3>1, <3>2, <4>1
    <3> QED BY <1>6, <2>2, <3>3
  <2>3. CASE a = at /\ b \in D
    <3>1. p < b
      BY <1>0, <1>2, <1>3, <1>11, <2>3 DEF D
    <3>2. at + NodeSize + Alignment <= b
      BY <2>3, <3>1 DEF D
    <3> QED BY <1>0, <1>3, <1>6, <2>3, <3>2
  <2>4. ~(a = at /\ b = at)
    BY <1>11
  <2> QED BY <1>6, <2>1, <2>2, <2>3, <2>4
<1>12. Laid(y, w)
  BY <1>8, <1>9, <1>10, <1>11 DEF Laid
<1> QED BY <1>5, <1>12 DEF y, D

\* The unlinking of a node
LEMMA NodeRemovedIs ==
    ASSUME NEW h, IsHeap(h), NEW a, a # HeapStart, NEW r, r = NodeRemoved(h, a)
    PROVE  /\ IsHeap(r) /\ r.brk = h.brk /\ r.mem = h.mem
           /\ NodesOf(r) = NodesOf(h) \ {a}
           /\ \A b \in NodesOf(r) : r.size[b] = h.size[b]
<1> DEFINE z == [b \in DOMAIN h.size \ {a} |-> h.size[b]]
<1>1. Laid(z, h.brk)
  BY LaidRemoved DEF IsHeap
<1>2. r = [h EXCEPT !.size = z]
  BY DEF NodeRemoved, NodesOf
<1>3. DOMAIN z = DOMAIN h.size \ {a} /\ \A b \in DOMAIN z : z[b] = h.size[b]
  OBVIOUS
<1> HIDE DEF z
<1>4. r = [size |-> z, brk |-> h.brk, cursor |-> h.cursor, mem |-> h.mem]
  BY <1>2 DEF IsHeap
<1>5. IsHeap(r) /\ r.size = z /\ r.brk = h.brk /\ r.mem = h.mem
  <2>1. h.mem = [x \in DOMAIN h.mem |-> h.mem[x]]
    BY DEF IsHeap
  <2>2. MadeOf(r, z, h.brk, h.cursor, h.mem)
    BY <1>1, <1>4, <2>1 DEF MadeOf
  <2> QED BY <2>2, HeapMadeOf
<1> QED BY <1>3, <1>5 DEF NodesOf

\* r is h, with n bytes in the node a.
SizedTo(h, r, a, n) ==
    /\ IsHeap(r) /\ r.brk = h.brk /\ r.mem = h.mem
    /\ NodesOf(r) = NodesOf(h)
    /\ r.size[a] = n
    /\ \A b \in NodesOf(h) : b # a => r.size[b] = h.size[b]

\* The size of a node is set.
LEMMA ResizedIs ==
    ASSUME NEW h, IsHeap(h), NEW a \in NodesOf(h), NEW n \in Nat, n <= Capacity(h, a)
    PROVE  SizedTo(h, [h EXCEPT !.size[a] = n], a, n)
<1> DEFINE r == [h EXCEPT !.size[a] = n]
           z == [h.size EXCEPT ![a] = n]
<1>1. Laid(z, h.brk)
  <2>1. Laid(h.size, h.brk) /\ a \in DOMAIN h.size
    BY DEF IsHeap, NodesOf
  <2>2. /\ Capacity(h, a) \in Nat
        /\ a + NodeSize + Capacity(h, a) <= h.brk
        /\ \A b \in NodesOf(h) : a < b => a + NodeSize + Capacity(h, a) <= b
    BY <2>1, CapacityIs
  <2>3. NodeSize \in Nat /\ a \in Nat /\ h.brk \in Nat /\ DOMAIN h.size \subseteq Nat
    BY <2>1, Units DEF Laid
  <2>4. a + NodeSize + n <= h.brk
    BY <2>2, <2>3
  <2>5. \A b \in DOMAIN h.size : a < b => a + NodeSize + n <= b
    BY <2>2, <2>3 DEF NodesOf
  <2> HIDE DEF z
  <2> QED BY <2>1, <2>4, <2>5, LaidResized DEF z
<1>2. r = [h EXCEPT !.size = z]
  BY Zenon
<1>3. DOMAIN z = DOMAIN h.size /\ z[a] = n /\ \A b \in DOMAIN h.size : b # a => z[b] = h.size[b]
  BY DEF NodesOf
<1> HIDE DEF z, r
<1>4. r = [size |-> z, brk |-> h.brk, cursor |-> h.cursor, mem |-> h.mem]
  BY <1>2 DEF IsHeap
<1>5. IsHeap(r) /\ r.size = z /\ r.brk = h.brk /\ r.mem = h.mem
  <2>1. h.mem = [x \in DOMAIN h.mem |-> h.mem[x]]
    BY DEF IsHeap
  <2>2. MadeOf(r, z, h.brk, h.cursor, h.mem)
    BY <1>1, <1>4, <2>1 DEF MadeOf
  <2> QED BY <2>2, HeapMadeOf
<1>6. SizedTo(h, r, a, n)
  BY <1>3, <1>5 DEF SizedTo, NodesOf
<1> QED BY <1>6 DEF r

\* A free node at the address at, behind the node p, fits into h when it ends at w.
FitsAt(h, p, at, w) ==
    /\ w \in Nat /\ w >= h.brk /\ w % Alignment = 0
    /\ p \in NodesOf(h) /\ at \in Nat /\ at % Alignment = 0
    /\ p + NodeSize + Alignment <= at /\ p + NodeSize + h.size[p] <= at
    /\ at + NodeSize + Alignment <= w
    /\ \A b \in NodesOf(h) : p < b => at + NodeSize + Alignment <= b

\* r is h, ended at w, with a free node at the address at.
AddedTo(h, r, at, w) ==
    /\ IsHeap(r) /\ r.brk = w
    /\ at \notin NodesOf(h)
    /\ NodesOf(r) = NodesOf(h) \cup {at}
    /\ r.size[at] = 0
    /\ \A b \in NodesOf(h) : r.size[b] = h.size[b]
    /\ DOMAIN r.mem = DOMAIN h.mem
    /\ \A x \in DOMAIN h.mem : x \in at .. at + NodeSize - 1 \/ r.mem[x] = h.mem[x]

\* A free node is made, whose header is written to the memory.
LEMMA NodeAddedIs ==
    ASSUME NEW h, IsHeap(h), NEW p, NEW at, NEW w, FitsAt(h, p, at, w)
    PROVE  AddedTo(h, [NodeAdded(h, at) EXCEPT !.brk = w], at, w)
<1> DEFINE r == [NodeAdded(h, at) EXCEPT !.brk = w]
           z == [b \in DOMAIN h.size \cup {at} |-> IF b = at THEN 0 ELSE h.size[b]]
           m == [x \in DOMAIN h.mem |-> IF x \in at .. at + NodeSize - 1 THEN 0 ELSE h.mem[x]]
<1>0. /\ w \in Nat /\ w >= h.brk /\ w % Alignment = 0
      /\ p \in NodesOf(h) /\ at \in Nat /\ at % Alignment = 0
      /\ p + NodeSize + Alignment <= at /\ p + NodeSize + h.size[p] <= at
      /\ at + NodeSize + Alignment <= w
      /\ \A b \in NodesOf(h) : p < b => at + NodeSize + Alignment <= b
  BY DEF FitsAt
<1>1. at \notin DOMAIN h.size /\ Laid(z, w)
  <2> DEFINE D == h.size
  <2>1. Laid(D, h.brk)
    BY DEF IsHeap
  <2>2. p \in DOMAIN D /\ \A b \in DOMAIN D : p < b => at + NodeSize + Alignment <= b
    BY <1>0 DEF NodesOf
  <2>3. /\ w \in Nat /\ w >= h.brk /\ w % Alignment = 0 /\ at \in Nat /\ at % Alignment = 0
        /\ p + NodeSize + Alignment <= at /\ p + NodeSize + D[p] <= at
        /\ at + NodeSize + Alignment <= w
    BY <1>0
  <2> HIDE DEF D
  <2> DEFINE y == [b \in DOMAIN D \cup {at} |-> IF b = at THEN 0 ELSE D[b]]
  <2>4. at \notin DOMAIN D /\ Laid(y, w)
    BY <2>1, <2>2, <2>3, LaidAdded, Zenon
  <2> QED BY <2>4 DEF D
<1>2. NodeAdded(h, at) = [h EXCEPT !.size = z, !.mem = m]
  BY Zenon DEF NodeAdded, NodesOf
<1>3. /\ DOMAIN z = DOMAIN h.size \cup {at} /\ z[at] = 0
      /\ \A b \in DOMAIN h.size : z[b] = h.size[b]
  BY <1>1
<1>4. /\ DOMAIN m = DOMAIN h.mem /\ m = [x \in DOMAIN m |-> m[x]]
      /\ \A x \in DOMAIN h.mem : x \in at .. at + NodeSize - 1 \/ m[x] = h.mem[x]
  OBVIOUS
<1> HIDE DEF z, m
<1>5. r = [size |-> z, brk |-> w, cursor |-> h.cursor, mem |-> m]
  <2>1. NodeAdded(h, at) = [size |-> z, brk |-> h.brk, cursor |-> h.cursor, mem |-> m]
    BY <1>2 DEF IsHeap
  <2> HIDE DEF r
  <2>2. r = [NodeAdded(h, at) EXCEPT !.brk = w]
    BY DEF r
  <2> QED BY <2>1, <2>2
<1> HIDE DEF r
<1>6. IsHeap(r) /\ r.size = z /\ r.brk = w /\ r.mem = m
  <2>1. MadeOf(r, z, w, h.cursor, m)
    BY <1>1, <1>4, <1>5 DEF MadeOf
  <2> QED BY <2>1, HeapMadeOf
<1>7. AddedTo(h, r, at, w)
  BY <1>1, <1>3, <1>4, <1>6 DEF AddedTo, NodesOf
<1> QED BY <1>7 DEF r

\* The nodes of a heap are apart and have sizes.
LEMMA NodesAre ==
    ASSUME NEW h, IsHeap(h)
    PROVE  /\ Laid(h.size, h.brk) /\ h.brk \in Nat /\ h.brk % Alignment = 0
           /\ HeapStart \in NodesOf(h)
           /\ \A a \in NodesOf(h) : a \in Nat /\ h.size[a] \in Nat /\ a % Alignment = 0 /\ HeapStart <= a
           /\ \A a \in NodesOf(h) : a + NodeSize + Alignment <= h.brk /\ a + NodeSize + h.size[a] <= h.brk
           /\ \A a, b \in NodesOf(h) :
                a < b => a + NodeSize + Alignment <= b /\ a + NodeSize + h.size[a] <= b
  BY DEF IsHeap, Laid, NodesOf

-----------------------------------------------------------------------------
(***************************************************************************)
(* The heap: splitting and coalescing                                      *)
(***************************************************************************)

\* The same free memory, in fewer nodes: r has the blocks of h.
Merged(h, r) ==
    /\ IsHeap(r) /\ r.brk = h.brk /\ r.mem = h.mem
    /\ NodesOf(r) \subseteq NodesOf(h)
    /\ \A b \in NodesOf(r) : r.size[b] = h.size[b]
    /\ \A b \in NodesOf(h) \ NodesOf(r) : h.size[b] = 0

\* Where coalesceNext has something to do, the next node is behind this one, and free.
LEMMA CoalescesIs ==
    ASSUME NEW h, IsHeap(h), NEW x \in NodesOf(h), Coalesces(h, x)
    PROVE  /\ x # LastNode(h)
           /\ NodeAfter(h, x) \in NodesOf(h)
           /\ x < NodeAfter(h, x)
           /\ NodeAfter(h, x) # HeapStart
           /\ h.size[NodeAfter(h, x)] = 0
           /\ \A b \in NodesOf(h) : x < b => NodeAfter(h, x) <= b
<1>1. Laid(h.size, h.brk) /\ x \in Nat /\ HeapStart <= x /\ HeapStart \in Nat
  BY NodesAre, Units
<1>2. x < NodeAfter(h, x) /\ h.size[NodeAfter(h, x)] = 0
  BY DEF Coalesces
<1>3. x # LastNode(h)
  BY <1>1, <1>2, AfterIs
<1>4. /\ NodeAfter(h, x) \in NodesOf(h)
      /\ \A b \in NodesOf(h) : x < b => NodeAfter(h, x) <= b
  BY <1>1, <1>3, AfterIs
<1>5. NodeAfter(h, x) # HeapStart
  BY <1>1, <1>2
<1> QED BY <1>2, <1>3, <1>4, <1>5

\* coalesceNext: two free neighbours become one.
LEMMA CoalescedIs ==
    ASSUME NEW h, IsHeap(h), NEW x \in NodesOf(h), h.size[x] = 0,
           NEW Y, Apart(h.size, {x}, Y), NEW r, r = Coalesced(h, x)
    PROVE  /\ Merged(h, r) /\ Apart(r.size, {}, Y)
           /\ x \in NodesOf(r)
           /\ \A b \in NodesOf(h) : b \in NodesOf(r) <=> ~(Coalesces(h, x) /\ b = NodeAfter(h, x))
<1> DEFINE N == NodesOf(h)
           next == NodeAfter(h, x)
<1>1. /\ Laid(h.size, h.brk) /\ N \subseteq Nat
      /\ \A a, b \in N : (a < b /\ h.size[a] = 0 /\ h.size[b] = 0 /\ a # x /\ b \notin Y)
                            => \E c \in N : a < c /\ c < b
  BY NodesAre DEF Apart, NodesOf
<1>2. CASE ~Coalesces(h, x)
  <2>1. r = h
    BY <1>2 DEF Coalesced
  <2>2. ASSUME NEW b \in N, x < b, h.size[b] = 0 PROVE \E c \in N : x < c /\ c < b
    <3>1. x # LastNode(h)
      BY <1>1, <2>2, LastIs
    <3>2. next \in N /\ x < next /\ next <= b
      BY <1>1, <2>2, <3>1, AfterIs
    <3>3. h.size[next] # 0
      BY <1>2, <3>2 DEF Coalesces
    <3>4. next < b
      BY <1>1, <2>2, <3>2, <3>3
    <3> QED BY <3>2, <3>4
  <2>3. Apart(h.size, {}, Y)
    BY <1>1, <2>2 DEF Apart, NodesOf
  <2> QED BY <1>2, <2>1, <2>3 DEF Merged
<1>3. CASE Coalesces(h, x)
  <2>1. /\ next \in N /\ x < next /\ next # HeapStart /\ h.size[next] = 0
        /\ \A b \in N : x < b => next <= b
    BY <1>3, CoalescesIs
  <2>2. r = NodeRemoved(h, next)
    BY <1>3 DEF Coalesced
  <2>3. /\ IsHeap(r) /\ r.brk = h.brk /\ r.mem = h.mem
        /\ NodesOf(r) = N \ {next}
        /\ \A b \in NodesOf(r) : r.size[b] = h.size[b]
    <3> HIDE DEF next
    <3> QED BY <2>1, <2>2, NodeRemovedIs
  <2> HIDE DEF next, N
  <2>4. x \in NodesOf(r)
    BY <1>1, <2>1, <2>3 DEF N
  <2>5. ASSUME NEW a \in NodesOf(r), NEW b \in NodesOf(r), a < b,
               r.size[a] = 0, r.size[b] = 0, b \notin Y
        PROVE  \E c \in NodesOf(r) : a < c /\ c < b
    <3>1. a \in N /\ b \in N /\ a # next /\ b # next /\ h.size[a] = 0 /\ h.size[b] = 0
      BY <2>3, <2>5
    <3>2. CASE a # x
      <4>1. PICK c \in N : a < c /\ c < b
        BY <1>1, <2>5, <3>1, <3>2
      <4>2. CASE c # next
        BY <2>3, <4>1, <4>2
      <4>3. CASE c = next
        <5>1. a < x
          BY <1>1, <2>1, <3>1, <3>2, <4>1, <4>3 DEF N
        <5>2. x < b
          BY <1>1, <2>1, <3>1, <4>1, <4>3 DEF N
        <5> QED BY <2>4, <5>1, <5>2
      <4> QED BY <4>2, <4>3
    <3>3. CASE a = x
      <4>1. next <= b
        BY <2>1, <2>5, <3>1, <3>3
      <4>2. next < b /\ next # x
        BY <1>1, <2>1, <3>1, <4>1 DEF N
      <4>3. PICK c \in N : next < c /\ c < b
        BY <1>1, <2>1, <2>5, <3>1, <4>2
      <4>4. c # next /\ x < c
        BY <1>1, <2>1, <3>1, <4>3 DEF N
      <4> QED BY <2>3, <3>3, <4>3, <4>4
    <3> QED BY <3>2, <3>3
  <2>6. Apart(r.size, {}, Y)
    BY <2>5 DEF Apart, NodesOf
  <2>7. Merged(h, r)
    BY <2>1, <2>3 DEF Merged, N
  <2> QED BY <1>3, <2>3, <2>4, <2>6, <2>7 DEF N, next
<1> QED BY <1>2, <1>3

\* What was written to the memory of h are headers of the nodes of r.
HeadersOnly(h, r) ==
    /\ DOMAIN r.mem = DOMAIN h.mem
    /\ \A x \in DOMAIN h.mem :
        r.mem[x] = h.mem[x] \/ \E c \in NodesOf(r) : x \in c .. c + NodeSize - 1

\* r has the blocks of h, and n bytes in the node a.
Resized(h, r, a, n) ==
    /\ IsHeap(r) /\ Apart(r.size, {}, {})
    /\ r.brk = h.brk
    /\ a \in NodesOf(r) /\ r.size[a] = n
    /\ Used(r) = Used(h) \cup {a}
    /\ \A b \in Used(h) \ {a} : r.size[b] = h.size[b]
    /\ HeadersOnly(h, r)

\* The node gets its size, and what is left of its room becomes a free node if it
\* has room for one, which coalesces with the one behind.
LEMMA ResizedAsUsedIs ==
    ASSUME NEW h, IsHeap(h), Apart(h.size, {}, {}), NEW a \in NodesOf(h),
           NEW n \in Nat \ {0}, NEW room, room = AlignUp(n, Alignment), room <= Capacity(h, a),
           NEW r, r = ResizedAsUsed(h, a, n, room)
    PROVE  Resized(h, r, a, n)
<1> DEFINE used == [h EXCEPT !.size[a] = n]
           rest == PtrOf(a) + room
           added == NodeAdded(used, rest)
           N == NodesOf(h)
<1>0. Alignment \in Nat \ {0} /\ NodeSize \in Nat \ {0} /\ NodeSize % Alignment = 0 /\ FreeNodeMin = Alignment
  BY Units
<1>1. room \in Nat /\ room % Alignment = 0 /\ n <= room /\ Alignment <= room
  <2>1. /\ room \in Int /\ room % Alignment = 0 /\ n <= room
    BY <1>0, AlignUpIs
  <2>2. 0 % Alignment = 0 /\ 0 < room /\ 0 \in Int
    BY <1>0, <2>1
  <2>3. 0 + Alignment <= room
    BY <1>0, <2>1, <2>2, AlignedApart
  <2> QED BY <1>0, <2>1, <2>2, <2>3
<1>2. /\ Laid(h.size, h.brk) /\ h.brk \in Nat /\ h.brk % Alignment = 0
      /\ \A b \in N : b \in Nat /\ h.size[b] \in Nat /\ b % Alignment = 0
  BY NodesAre
<1>3. /\ Capacity(h, a) \in Nat
      /\ a + NodeSize + Capacity(h, a) <= h.brk
      /\ \A b \in N : a < b => a + NodeSize + Capacity(h, a) <= b
  BY <1>2, CapacityIs
<1>4. /\ IsHeap(used) /\ used.brk = h.brk /\ used.mem = h.mem
      /\ NodesOf(used) = N
      /\ used.size[a] = n
      /\ \A b \in N : b # a => used.size[b] = h.size[b]
  <2>1. n \in Nat /\ n <= Capacity(h, a)
    BY <1>1, <1>3
  <2>2. SizedTo(h, used, a, n)
    BY <2>1, ResizedIs
  <2> HIDE DEF used
  <2> QED BY <2>2 DEF SizedTo
<1>5. \A b, c \in N : (b < c /\ h.size[b] = 0 /\ h.size[c] = 0) => \E d \in N : b < d /\ d < c
  BY DEF Apart, NodesOf
<1>6. r = IF Capacity(h, a) - room < NodeSize + FreeNodeMin THEN used ELSE Coalesced(added, rest)
  BY DEF ResizedAsUsed
<1> HIDE DEF used, N
<1>7. CASE Capacity(h, a) - room < NodeSize + FreeNodeMin
  <2>1. r = used
    BY <1>6, <1>7
  <2>2. Apart(used.size, {}, {})
    <3>1. \A b, c \in NodesOf(used) :
            (b < c /\ used.size[b] = 0 /\ used.size[c] = 0) => \E d \in NodesOf(used) : b < d /\ d < c
      BY <1>4, <1>5
    <3> QED BY <3>1 DEF Apart, NodesOf
  <2>3. Used(used) = Used(h) \cup {a}
    BY <1>2, <1>4 DEF Used, N
  <2>4. HeadersOnly(h, used)
    BY <1>4 DEF HeadersOnly
  <2>5. \A b \in Used(h) \ {a} : used.size[b] = h.size[b]
    BY <1>4 DEF Used, N
  <2> QED BY <1>4, <2>1, <2>2, <2>3, <2>4, <2>5 DEF Resized, N
<1>8. CASE ~(Capacity(h, a) - room < NodeSize + FreeNodeMin)
  <2>1. /\ rest \in Nat /\ rest % Alignment = 0
        /\ rest = a + NodeSize + room
        /\ a \in Nat /\ a \in N
    <3>1. a \in Nat /\ a % Alignment = 0 /\ a \in N
      BY <1>2 DEF N
    <3>2. a + NodeSize \in Nat /\ (a + NodeSize) % Alignment = 0
      <4>1. a \in Int /\ NodeSize \in Int
        BY <1>0, <3>1
      <4>2. (a + NodeSize) % Alignment = 0
        BY <1>0, <3>1, <4>1, SumAligned, Zenon
      <4> QED BY <1>0, <3>1, <4>2
    <3>3. rest = (a + NodeSize) + room
      BY DEF PtrOf
    <3>4. ((a + NodeSize) + room) % Alignment = 0
      <4>1. a + NodeSize \in Int /\ room \in Int
        BY <1>1, <3>2
      <4> QED BY <1>0, <1>1, <3>2, <4>1, SumAligned, Zenon
    <3> QED BY <1>1, <3>1, <3>2, <3>3, <3>4
  <2> HIDE DEF rest
  <2>2. /\ a + NodeSize + Alignment <= rest
        /\ a + NodeSize + used.size[a] <= rest
        /\ rest + NodeSize + Alignment <= used.brk
        /\ \A b \in N : a < b => rest + NodeSize + Alignment <= b
    <3>1. rest + NodeSize + Alignment <= a + NodeSize + Capacity(h, a)
      BY <1>0, <1>1, <1>3, <1>8, <2>1
    <3>2. a + NodeSize + Alignment <= rest /\ a + NodeSize + used.size[a] <= rest
      BY <1>0, <1>1, <1>4, <2>1
    <3>3. rest + NodeSize + Alignment <= used.brk
      BY <1>0, <1>2, <1>3, <1>4, <2>1, <3>1
    <3>4. ASSUME NEW b \in N, a < b PROVE rest + NodeSize + Alignment <= b
      <4>1. a + NodeSize + Capacity(h, a) <= b /\ b \in Nat
        BY <1>2, <1>3, <3>4
      <4> QED BY <1>0, <1>3, <2>1, <3>1, <4>1
    <3> QED BY <3>2, <3>3, <3>4
  <2> DEFINE g == NodeAdded(used, rest)
  <2>3. /\ IsHeap(g) /\ g.brk = h.brk
        /\ rest \notin N
        /\ NodesOf(g) = N \cup {rest}
        /\ g.size[rest] = 0
        /\ \A b \in N : g.size[b] = used.size[b]
        /\ DOMAIN g.mem = DOMAIN h.mem
        /\ \A x \in DOMAIN h.mem : x \in rest .. rest + NodeSize - 1 \/ g.mem[x] = h.mem[x]
    <3>1. g.brk = used.brk /\ g = [g EXCEPT !.brk = g.brk]
      <4>1. used = [size |-> used.size, brk |-> used.brk, cursor |-> used.cursor, mem |-> used.mem]
        BY <1>4 DEF IsHeap
      <4> DEFINE z == [b \in NodesOf(used) \cup {rest} |-> IF b = rest THEN 0 ELSE used.size[b]]
                 m == [x \in DOMAIN used.mem |-> IF x \in rest .. rest + NodeSize - 1 THEN 0 ELSE used.mem[x]]
      <4>2. g = [used EXCEPT !.size = z, !.mem = m]
        BY Zenon DEF NodeAdded
      <4> HIDE DEF z, m, g
      <4>3. g = [size |-> z, brk |-> used.brk, cursor |-> used.cursor, mem |-> m]
        BY <4>1, <4>2
      <4> QED BY <4>3
    <3>2. used.brk \in Nat /\ used.brk >= used.brk /\ used.brk % Alignment = 0
      BY <1>2, <1>4
    <3>3. g = [NodeAdded(used, rest) EXCEPT !.brk = used.brk]
      BY <3>1, Zenon
    <3>4. a \in NodesOf(used) /\ \A b \in NodesOf(used) : a < b => rest + NodeSize + Alignment <= b
      BY <1>4, <2>1, <2>2
    <3> HIDE DEF g
    <3>5. FitsAt(used, a, rest, used.brk)
      BY <2>1, <2>2, <3>2, <3>4 DEF FitsAt
    <3>6. AddedTo(used, g, rest, used.brk)
      BY <1>4, <3>3, <3>5, NodeAddedIs
    <3> QED BY <1>4, <3>6 DEF AddedTo
  <2>4. added = g
    OBVIOUS
  <2> HIDE DEF g, added
  <2>5. Apart(g.size, {rest}, {})
    <3> SUFFICES ASSUME NEW b \in NodesOf(g), NEW c \in NodesOf(g), b < c,
                        g.size[b] = 0, g.size[c] = 0, b # rest
                 PROVE  \E d \in NodesOf(g) : b < d /\ d < c
      BY DEF Apart, NodesOf
    <3>1. b \in N /\ b # a /\ h.size[b] = 0
      BY <1>4, <2>3
    <3>2. CASE c \in N
      <4>1. c # a /\ h.size[c] = 0
        BY <1>4, <2>3, <3>2
      <4> QED BY <1>5, <2>3, <3>1, <3>2, <4>1
    <3>3. CASE c = rest
      <4>1. b < a
        <5>1. b \in Nat /\ (a < b => rest + NodeSize + Alignment <= b)
          BY <1>2, <2>2, <3>1
        <5> QED BY <1>0, <2>1, <3>1, <3>3, <5>1
      <4>2. a < c
        BY <1>0, <1>1, <2>1, <3>3
      <4> QED BY <2>1, <2>3, <4>1, <4>2
    <3> QED BY <2>3, <3>2, <3>3
  <2>6. r = Coalesced(g, rest)
    BY <1>6, <1>8, <2>4
  <2>7. Merged(g, r) /\ Apart(r.size, {}, {}) /\ rest \in NodesOf(r)
    BY <2>3, <2>5, <2>6, CoalescedIs
  <2>8. a \in NodesOf(r) /\ r.size[a] = n
    <3>1. a \in NodesOf(g) /\ g.size[a] = n
      BY <1>4, <2>1, <2>3
    <3> QED BY <2>7, <3>1 DEF Merged
  <2>9. Used(r) = Used(h) \cup {a}
    <3>1. Used(r) = Used(g)
      BY <2>3, <2>7, NodesAre DEF Merged, Used
    <3>2. Used(g) = Used(used)
      BY <1>4, <2>3 DEF Used
    <3>3. Used(used) = Used(h) \cup {a}
      BY <1>2, <1>4 DEF Used, N
    <3> QED BY <3>1, <3>2, <3>3
  <2>10. ASSUME NEW b \in Used(h) \ {a} PROVE r.size[b] = h.size[b]
    <3>1. b \in N /\ b \in NodesOf(r)
      BY <2>9 DEF Used, N
    <3> QED BY <1>4, <2>3, <2>7, <3>1 DEF Merged
  <2>11. HeadersOnly(h, r)
    <3>1. r.mem = g.mem
      BY <2>7 DEF Merged
    <3> QED BY <2>3, <2>7, <3>1 DEF HeadersOnly
  <2>12. r.brk = h.brk /\ IsHeap(r)
    BY <2>3, <2>7 DEF Merged
  <2> QED BY <2>7, <2>8, <2>9, <2>10, <2>11, <2>12 DEF Resized
<1> QED BY <1>7, <1>8

-----------------------------------------------------------------------------
(***************************************************************************)
(* The heap: taking and freeing a node                                     *)
(***************************************************************************)

\* The cursor of the search is no part of the layout.
LEMMA CursorIs ==
    ASSUME NEW h, IsHeap(h), NEW c
    PROVE  /\ IsHeap([h EXCEPT !.cursor = c])
           /\ [h EXCEPT !.cursor = c].size = h.size
           /\ [h EXCEPT !.cursor = c].brk = h.brk
           /\ [h EXCEPT !.cursor = c].mem = h.mem
<1> DEFINE r == [h EXCEPT !.cursor = c]
<1>1. r = [size |-> h.size, brk |-> h.brk, cursor |-> c, mem |-> h.mem]
  BY DEF IsHeap
<1>2. MadeOf(r, h.size, h.brk, c, h.mem)
  <2> HIDE DEF r
  <2> QED BY <1>1 DEF MadeOf, IsHeap
<1> HIDE DEF r
<1>3. IsHeap(r) /\ r.size = h.size /\ r.brk = h.brk /\ r.mem = h.mem
  BY <1>2, HeapMadeOf
<1> QED BY <1>3 DEF r

\* ama_malloc takes a free node.
LEMMA TakenIs ==
    ASSUME NEW h, IsHeap(h), Apart(h.size, {}, {}), NEW a \in NodesOf(h),
           NEW n \in Nat \ {0}, AlignUp(n, Alignment) <= Capacity(h, a)
    PROVE  Resized(h, Taken(h, a, n), a, n)
<1> DEFINE used == ResizedAsUsed(h, a, n, AlignUp(n, Alignment))
           r == [used EXCEPT !.cursor = NodeAfter(used, a)]
<1>1. Resized(h, used, a, n)
  BY ResizedAsUsedIs
<1>2. Taken(h, a, n) = r
  BY DEF Taken
<1> HIDE DEF used
<1>3. IsHeap(r) /\ r.size = used.size /\ r.brk = used.brk /\ r.mem = used.mem
  BY <1>1, CursorIs DEF Resized
<1> HIDE DEF r
<1>4. Resized(h, r, a, n)
  BY <1>1, <1>3 DEF Resized, HeadersOnly, Used, NodesOf
<1> QED BY <1>2, <1>4

\* r is h without the block a.
Freed(h, r, a) ==
    /\ IsHeap(r) /\ Apart(r.size, {}, {})
    /\ r.brk = h.brk /\ r.mem = h.mem
    /\ NodesOf(r) \subseteq NodesOf(h)
    /\ Used(r) = Used(h) \ {a}
    /\ \A b \in Used(r) : r.size[b] = h.size[b]

\* The free node before a has become one with a, and with the one after a.
MergedBefore(h, r, a) ==
    (NodeBefore(h, a) < a /\ h.size[NodeBefore(h, a)] = 0) =>
        /\ NodeBefore(h, a) \in NodesOf(r)
        /\ \A b \in NodesOf(r) : NodeBefore(h, a) < b =>
                a < b /\ (Coalesces(h, a) => NodeAfter(h, a) < b)

\* ama_freeImpl: the node coalesces with the next, and the previous one with it, so
\* that no two free nodes are neighbours again.
LEMMA FreeImplIs ==
    ASSUME NEW h, IsHeap(h), Apart(h.size, {}, {}), NEW a \in NodesOf(h)
    PROVE  Freed(h, FreeImpl(h, a), a) /\ MergedBefore(h, FreeImpl(h, a), a)
<1> DEFINE h0 == [h EXCEPT !.size[a] = 0]
           freed == Coalesced(h0, a)
           prev == NodeBefore(freed, a)
           before == NodeBefore(h, a)
           next == NodeAfter(h, a)
           r == FreeImpl(h, a)
<1>1. r = IF freed.size[prev] = 0 /\ Coalesces(freed, prev)
          THEN [NodeRemoved(freed, a) EXCEPT !.cursor = prev]
          ELSE [freed EXCEPT !.cursor = a]
  BY Zenon DEF FreeImpl
<1>2. /\ IsHeap(h0) /\ h0.brk = h.brk /\ h0.mem = h.mem
      /\ NodesOf(h0) = NodesOf(h)
      /\ h0.size[a] = 0
      /\ \A b \in NodesOf(h) : b # a => h0.size[b] = h.size[b]
  <2>1. 0 \in Nat /\ 0 <= Capacity(h, a)
    BY NodesAre, CapacityIs
  <2>2. SizedTo(h, h0, a, 0)
    BY <2>1, ResizedIs
  <2> HIDE DEF h0
  <2> QED BY <2>2 DEF SizedTo
<1>3. \A b, c \in NodesOf(h) : (b < c /\ h.size[b] = 0 /\ h.size[c] = 0) => \E d \in NodesOf(h) : b < d /\ d < c
  BY DEF Apart, NodesOf
<1>4. \A b \in NodesOf(h) : b \in Nat /\ h.size[b] \in Nat /\ HeapStart <= b
  BY NodesAre
<1> HIDE DEF h0, r
<1>5. Apart(h0.size, {a}, {a})
  <2>1. \A b, c \in NodesOf(h0) : (b < c /\ h0.size[b] = 0 /\ h0.size[c] = 0 /\ b # a /\ c # a)
            => \E d \in NodesOf(h0) : b < d /\ d < c
    BY <1>2, <1>3
  <2> QED BY <2>1 DEF Apart, NodesOf
<1>6. NodeAfter(h0, a) = next
  BY <1>2 DEF NodeAfter, LastNode
<1>7. Coalesces(h0, a) <=> Coalesces(h, a)
  <2>1. a < next => next # a
    BY <1>4
  <2>2. a < next => next \in NodesOf(h)
    <3>1. a = LastNode(h) => next = HeapStart
      BY NodesAre, AfterIs
    <3>2. a # LastNode(h) => next \in NodesOf(h)
      BY NodesAre, AfterIs
    <3> QED BY <3>1, <3>2, NodesAre
  <2> QED BY <1>2, <1>6, <2>1, <2>2 DEF Coalesces
<1>8. /\ Merged(h0, freed) /\ Apart(freed.size, {}, {a})
      /\ a \in NodesOf(freed)
      /\ \A b \in NodesOf(h) : b \in NodesOf(freed) <=> ~(Coalesces(h, a) /\ b = next)
  <2>1. /\ Merged(h0, freed) /\ Apart(freed.size, {}, {a})
        /\ a \in NodesOf(freed)
        /\ \A b \in NodesOf(h0) : b \in NodesOf(freed) <=> ~(Coalesces(h0, a) /\ b = NodeAfter(h0, a))
    BY <1>2, <1>5, CoalescedIs
  <2> QED BY <1>2, <1>6, <1>7, <2>1
<1> HIDE DEF freed
<1>9. /\ IsHeap(freed) /\ freed.brk = h.brk /\ freed.mem = h.mem
      /\ NodesOf(freed) \subseteq NodesOf(h)
      /\ freed.size[a] = 0
      /\ \A b \in NodesOf(freed) : b # a => freed.size[b] = h.size[b]
      /\ \A b \in NodesOf(h) \ NodesOf(freed) : h.size[b] = 0
  BY <1>2, <1>8 DEF Merged
<1>10. /\ prev \in NodesOf(freed)
       /\ prev < a => prev = before /\ a # HeapStart /\ \A b \in NodesOf(h) : b < a => b <= prev
       /\ prev >= a => ~Coalesces(freed, prev) /\ ~(before < a) /\ a = HeapStart
  <2>1. CASE a = HeapStart
    <3>1. prev = LastNode(freed) /\ before = LastNode(h)
      BY <1>8, <1>9, <2>1, BeforeIs, NodesAre
    <3>2. prev \in NodesOf(freed) /\ before \in NodesOf(h)
      BY <1>9, <3>1, LastIs, NodesAre
    <3>3. prev >= a /\ before >= a /\ prev \in Nat /\ before \in Nat
      BY <1>4, <1>9, <2>1, <3>2
    <3>4. NodeAfter(freed, prev) = HeapStart
      BY <1>9, <3>1, <3>2, AfterIs, NodesAre
    <3>5. ~Coalesces(freed, prev)
      BY <1>4, <2>1, <3>3, <3>4 DEF Coalesces
    <3> QED BY <1>4, <2>1, <3>2, <3>3, <3>5
  <2>2. CASE a # HeapStart
    <3>1. /\ prev \in NodesOf(freed) /\ prev < a
          /\ \A b \in NodesOf(freed) : b < a => b <= prev
      BY <1>8, <1>9, <2>2, BeforeIs, NodesAre
    <3>2. /\ before \in NodesOf(h) /\ before < a
          /\ \A b \in NodesOf(h) : b < a => b <= before
      BY <2>2, BeforeIs, NodesAre
    <3>3. Coalesces(h, a) => a < next
      BY DEF Coalesces
    <3>4. before \in NodesOf(freed)
      <4>1. ~(Coalesces(h, a) /\ before = next)
        <5> SUFFICES ASSUME Coalesces(h, a), before = next PROVE FALSE
          OBVIOUS
        <5>1. before < a /\ a < before /\ before \in Nat /\ a \in Nat
          BY <1>4, <3>2, <3>3
        <5> QED BY <5>1
      <4> QED BY <1>8, <3>2, <4>1
    <3>5. prev = before
      BY <1>4, <1>9, <3>1, <3>2, <3>4
    <3>6. prev \in Nat /\ a \in Nat
      BY <1>4, <1>9, <3>1
    <3> QED BY <2>2, <3>1, <3>2, <3>5, <3>6
  <2> QED BY <2>1, <2>2
<1> HIDE DEF prev, before, next
<1>11. \A b \in NodesOf(freed) : b \in Nat
  BY <1>4, <1>9
<1>12. CASE freed.size[prev] = 0 /\ Coalesces(freed, prev)
  <2> DEFINE g == NodeRemoved(freed, a)
  <2>1. r = [g EXCEPT !.cursor = prev]
    BY <1>1, <1>12
  <2>2. prev < a
    BY <1>10, <1>11, <1>8, <1>12
  <2>3. NodeAfter(freed, prev) = a
    <3>1. /\ NodeAfter(freed, prev) \in NodesOf(freed)
          /\ prev < NodeAfter(freed, prev)
          /\ \A b \in NodesOf(freed) : prev < b => NodeAfter(freed, prev) <= b
      BY <1>9, <1>10, <1>12, CoalescesIs
    <3>2. NodeAfter(freed, prev) <= a
      BY <1>8, <2>2, <3>1
    <3>3. ~(NodeAfter(freed, prev) < a)
      BY <1>9, <1>10, <1>11, <2>2, <3>1
    <3> QED BY <1>8, <1>11, <3>1, <3>2, <3>3
  <2>4. Apart(freed.size, {prev}, {})
    <3> SUFFICES ASSUME NEW b \in NodesOf(freed), NEW c \in NodesOf(freed), b < c,
                        freed.size[b] = 0, freed.size[c] = 0, b # prev
                 PROVE  \E d \in NodesOf(freed) : b < d /\ d < c
      BY DEF Apart, NodesOf
    <3>1. CASE c # a
      BY <1>8, <3>1 DEF Apart, NodesOf
    <3>2. CASE c = a
      <4>1. b < prev
        BY <1>9, <1>10, <1>11, <2>2, <3>2
      <4> QED BY <1>10, <2>2, <3>2, <4>1
    <3> QED BY <3>1, <3>2
  <2>5. g = Coalesced(freed, prev)
    BY <1>12, <2>3 DEF Coalesced
  <2> HIDE DEF g
  <2>6. /\ Merged(freed, g) /\ Apart(g.size, {}, {}) /\ prev \in NodesOf(g)
        /\ \A b \in NodesOf(freed) : b \in NodesOf(g) <=> b # a
    BY <1>9, <1>10, <1>12, <2>3, <2>4, <2>5, CoalescedIs
  <2>7. IsHeap(r) /\ r.size = g.size /\ r.brk = g.brk /\ r.mem = g.mem
    BY <2>1, <2>6, CursorIs DEF Merged
  <2>8. /\ NodesOf(r) \subseteq NodesOf(freed) /\ r.brk = h.brk /\ r.mem = h.mem
        /\ \A b \in NodesOf(r) : r.size[b] = freed.size[b]
        /\ \A b \in NodesOf(freed) : b \in NodesOf(r) <=> b # a
        /\ Apart(r.size, {}, {})
    BY <1>9, <2>6, <2>7 DEF Merged, NodesOf
  <2>9. Used(r) = Used(h) \ {a}
    BY <1>9, <2>8 DEF Used
  <2>10. \A b \in Used(r) : r.size[b] = h.size[b]
    BY <1>9, <2>8 DEF Used
  <2>11. Freed(h, r, a)
    BY <1>9, <2>7, <2>8, <2>9, <2>10 DEF Freed
  <2>12. MergedBefore(h, r, a)
    <3>1. prev = before /\ prev \in NodesOf(r)
      BY <1>10, <2>2, <2>6, <2>7 DEF NodesOf
    <3>2. ASSUME NEW b \in NodesOf(r), prev < b PROVE a < b /\ (Coalesces(h, a) => next < b)
      <4>1. b \in NodesOf(freed) /\ b \in NodesOf(h) /\ b # a
        BY <1>9, <2>8
      <4>2. a < b
        BY <1>8, <1>10, <1>11, <2>2, <3>2, <4>1
      <4>3. Coalesces(h, a) => next <= b /\ b # next /\ next \in NodesOf(h)
        BY <1>8, <4>1, <4>2, CoalescesIs DEF next
      <4>4. Coalesces(h, a) => next < b
        BY <1>4, <4>1, <4>3
      <4> QED BY <4>2, <4>4
    <3> QED BY <3>1, <3>2 DEF MergedBefore, before, next
  <2> QED BY <2>11, <2>12 DEF r
<1>13. CASE ~(freed.size[prev] = 0 /\ Coalesces(freed, prev))
  <2>1. r = [freed EXCEPT !.cursor = a]
    BY <1>1, <1>13
  <2>2. IsHeap(r) /\ r.size = freed.size /\ r.brk = freed.brk /\ r.mem = freed.mem
    BY <1>9, <2>1, CursorIs
  <2>3. prev < a => freed.size[prev] # 0
    <3> SUFFICES ASSUME prev < a, freed.size[prev] = 0 PROVE FALSE
      OBVIOUS
    <3>1. prev # LastNode(freed)
      <4>1. a <= LastNode(freed) /\ LastNode(freed) \in NodesOf(freed)
        BY <1>8, <1>9, LastIs, NodesAre
      <4> QED BY <1>8, <1>11, <4>1
    <3>2. /\ NodeAfter(freed, prev) \in NodesOf(freed)
          /\ prev < NodeAfter(freed, prev)
          /\ NodeAfter(freed, prev) <= a
      BY <1>8, <1>9, <1>10, <3>1, AfterIs, NodesAre
    <3>3. NodeAfter(freed, prev) = a
      BY <1>8, <1>9, <1>10, <1>11, <3>2
    <3>4. Coalesces(freed, prev)
      BY <1>9, <3>3 DEF Coalesces
    <3> QED BY <1>13, <3>4
  <2>4. Apart(freed.size, {}, {})
    <3> SUFFICES ASSUME NEW b \in NodesOf(freed), NEW c \in NodesOf(freed), b < c,
                        freed.size[b] = 0, freed.size[c] = 0
                 PROVE  \E d \in NodesOf(freed) : b < d /\ d < c
      BY DEF Apart, NodesOf
    <3>1. CASE c # a
      BY <1>8, <3>1 DEF Apart, NodesOf
    <3>2. CASE c = a
      <4>1. prev < a
        <5> SUFFICES ASSUME ~(prev < a) PROVE FALSE
          OBVIOUS
        <5>1. a = HeapStart
          BY <1>8, <1>10, <1>11
        <5> QED BY <1>4, <1>8, <1>9, <1>11, <3>2, <5>1
      <4>2. b # prev /\ b <= prev
        BY <1>9, <1>10, <2>3, <3>2, <4>1
      <4>3. b < prev
        BY <1>10, <1>11, <4>2
      <4> QED BY <1>10, <3>2, <4>1, <4>3
    <3> QED BY <3>1, <3>2
  <2>5. Used(r) = Used(h) \ {a}
    BY <1>9, <2>2 DEF Used, NodesOf
  <2>6. \A b \in Used(r) : r.size[b] = h.size[b]
    BY <1>9, <2>2 DEF Used, NodesOf
  <2>7. Freed(h, r, a)
    BY <1>9, <2>2, <2>4, <2>5, <2>6 DEF Freed, NodesOf
  <2>8. MergedBefore(h, r, a)
    <3>1. before < a => prev < a
      BY <1>8, <1>10, <1>11
    <3>2. prev < a => prev = before /\ prev # a /\ freed.size[prev] = h.size[prev]
      BY <1>8, <1>9, <1>10, <1>11
    <3>3. ~(before < a /\ h.size[before] = 0)
      BY <2>3, <3>1, <3>2
    <3> QED BY <3>3 DEF MergedBefore, before
  <2> QED BY <2>7, <2>8 DEF r
<1> QED BY <1>12, <1>13

-----------------------------------------------------------------------------
(***************************************************************************)
(* The heap: its end, and what the system maps                             *)
(***************************************************************************)

\* What there is to know of a free last node that room was made for.
Roomy(h, e, n, wanted) ==
    /\ IsHeap(e) /\ Apart(e.size, {}, {}) /\ e.brk = wanted
    /\ LastNode(e) \in NodesOf(e) /\ LastNode(e) \notin Used(h)
    /\ AlignUp(n, Alignment) <= Capacity(e, LastNode(e))
    /\ Used(e) = Used(h)
    /\ \A b \in Used(h) : e.size[b] = h.size[b]
    /\ DOMAIN e.mem = DOMAIN h.mem
    /\ \A x \in DOMAIN h.mem :
        x \in LastNode(e) .. LastNode(e) + NodeSize - 1 \/ e.mem[x] = h.mem[x]

\* The end that the system is asked for, on a page boundary
LEMMA BreakIs ==
    ASSUME NEW h, IsHeap(h), NEW request \in Nat \ {0},
           NEW wanted, wanted = AlignUp(h.brk + AlignUp(request, Alignment), HeapPageSize)
    PROVE  /\ wanted \in Nat /\ wanted % HeapPageSize = 0 /\ wanted % Alignment = 0
           /\ h.brk + request <= wanted /\ h.brk + Alignment <= wanted
           /\ request > NodeSize => h.brk + NodeSize + Alignment <= wanted
<1> DEFINE room == AlignUp(request, Alignment)
<1>0. /\ Alignment \in Nat \ {0} /\ HeapPageSize \in Nat \ {0} /\ HeapPageSize % Alignment = 0
      /\ NodeSize \in Nat \ {0} /\ NodeSize % Alignment = 0 /\ h.brk \in Nat
  BY Units, NodesAre
<1>1. /\ room \in Int /\ room % Alignment = 0 /\ request <= room
  <2>1. request \in Int
    OBVIOUS
  <2> QED BY <1>0, <2>1, AlignUpIs, Zenon
<1>2. Alignment <= room /\ (request > NodeSize => NodeSize + Alignment <= room)
  <2> HIDE DEF room
  <2>1. 0 % Alignment = 0 /\ 0 \in Int /\ 0 < room /\ NodeSize \in Int
    BY <1>0, <1>1
  <2>2. 0 + Alignment <= room
    BY <1>0, <1>1, <2>1, AlignedApart
  <2>3. ASSUME request > NodeSize PROVE NodeSize + Alignment <= room
    <3>1. NodeSize < room
      BY <1>0, <1>1, <2>3
    <3> QED BY <1>0, <1>1, <2>1, <3>1, AlignedApart
  <2> QED BY <1>0, <2>2, <2>3
<1> HIDE DEF room
<1>3. wanted \in Int /\ wanted % HeapPageSize = 0 /\ h.brk + room <= wanted
  <2>1. h.brk + room \in Int
    BY <1>0, <1>1
  <2>2. wanted = AlignUp(h.brk + room, HeapPageSize)
    BY DEF room
  <2> QED BY <1>0, <2>1, <2>2, AlignUpIs
<1>4. wanted % Alignment = 0
  BY <1>0, <1>3, CoarseAligned, Zenon
<1> QED BY <1>0, <1>1, <1>2, <1>3, <1>4

\* The heap grows by a free last node, or by the room of the one it has.
LEMMA ExtendedIs ==
    ASSUME NEW h, IsHeap(h), Apart(h.size, {}, {}), NEW n \in Nat \ {0},
           Fitting(h, AlignUp(n, Alignment)) = {}
    PROVE  /\ WantedBrk(h, n) \in Nat /\ WantedBrk(h, n) > h.brk
           /\ WantedBrk(h, n) % HeapPageSize = 0
           /\ Roomy(h, Extended(h, WantedBrk(h, n)), n, WantedBrk(h, n))
<1> DEFINE last == LastNode(h)
           request == IF h.size[last] = 0 THEN n - Capacity(h, last) ELSE NodeSize + n
           wanted == WantedBrk(h, n)
           e == Extended(h, wanted)
<1>0. /\ Alignment \in Nat \ {0} /\ NodeSize \in Nat \ {0}
      /\ Laid(h.size, h.brk) /\ h.brk \in Nat /\ h.brk % Alignment = 0
      /\ last \in NodesOf(h) /\ last \in Nat /\ h.size[last] \in Nat
      /\ \A b \in NodesOf(h) : b <= last /\ b \in Nat /\ h.size[b] \in Nat
  BY Units, NodesAre, LastIs
<1>1. /\ Capacity(h, last) \in Nat /\ Capacity(h, last) % Alignment = 0
      /\ last + NodeSize + Capacity(h, last) = h.brk
  BY <1>0, CapacityIs
<1>2. h.size[last] = 0 => Capacity(h, last) < n
  <2> SUFFICES ASSUME h.size[last] = 0 PROVE Capacity(h, last) < n
    OBVIOUS
  <2>1. ~(Capacity(h, last) >= AlignUp(n, Alignment))
    BY <1>0 DEF Fitting
  <2>2. AlignUp(n, Alignment) \in Int /\ Capacity(h, last) \in Int
    BY <1>0, <1>1, AlignUpIs
  <2>3. ~(AlignUp(n, Alignment) <= Capacity(h, last))
    <3> HIDE DEF last
    <3> QED BY <2>1, <2>2
  <2>4. ~(n <= Capacity(h, last))
    <3>1. n \in Int
      OBVIOUS
    <3> QED BY <1>0, <1>1, <2>2, <2>3, <3>1, AlignedRoom, Zenon
  <2> HIDE DEF last
  <2> QED BY <1>1, <2>4
<1>3. wanted = AlignUp(h.brk + AlignUp(request, Alignment), HeapPageSize)
  BY Zenon DEF WantedBrk
<1> HIDE DEF last, wanted
<1>4. request \in Nat \ {0}
  BY <1>0, <1>1, <1>2
<1>5. CASE h.size[last] = 0
  <2>1. request = n - Capacity(h, last)
    BY <1>5
  <2> HIDE DEF request
  <2>2. /\ wanted \in Nat /\ wanted % HeapPageSize = 0 /\ wanted % Alignment = 0
        /\ h.brk + request <= wanted
    BY <1>3, <1>4, BreakIs
  <2>3. wanted > h.brk /\ last + NodeSize + n <= wanted
    BY <1>0, <1>1, <1>4, <2>1, <2>2
  <2>4. e = [h EXCEPT !.brk = wanted]
    BY <1>5 DEF Extended, last
  <2> HIDE DEF e
  <2>5. IsHeap(e) /\ e.size = h.size /\ e.brk = wanted /\ e.mem = h.mem
    <3>1. e = [size |-> h.size, brk |-> wanted, cursor |-> h.cursor, mem |-> h.mem]
      BY <2>4 DEF IsHeap
    <3>2. Laid(h.size, wanted)
      <4>1. \A a \in DOMAIN h.size : a + NodeSize + Alignment <= wanted /\ a + NodeSize + h.size[a] <= wanted
        <5> TAKE a \in DOMAIN h.size
        <5>1. a \in Nat /\ h.size[a] \in Nat /\ a + NodeSize + Alignment <= h.brk /\ a + NodeSize + h.size[a] <= h.brk
          BY <1>0 DEF Laid, NodesOf
        <5> QED BY <1>0, <2>2, <2>3, <5>1
      <4> QED BY <1>0, <2>2, <4>1 DEF Laid
    <3>3. h.mem = [x \in DOMAIN h.mem |-> h.mem[x]]
      BY DEF IsHeap
    <3>4. MadeOf(e, h.size, wanted, h.cursor, h.mem)
      BY <3>1, <3>2, <3>3 DEF MadeOf
    <3> QED BY <3>4, HeapMadeOf
  <2>6. NodesOf(e) = NodesOf(h) /\ Used(e) = Used(h) /\ LastNode(e) = last
    BY <2>5 DEF NodesOf, Used, LastNode, last
  <2>7. AlignUp(n, Alignment) <= Capacity(e, last)
    <3>1. /\ Capacity(e, last) \in Nat /\ Capacity(e, last) % Alignment = 0
          /\ last + NodeSize + Capacity(e, last) = wanted
      BY <1>0, <2>5, <2>6, CapacityIs, NodesAre
    <3>2. n <= Capacity(e, last) /\ n \in Int /\ Capacity(e, last) \in Int
      BY <1>0, <2>2, <2>3, <3>1
    <3> QED BY <1>0, <3>1, <3>2, AlignedRoom, Zenon
  <2>8. last \notin Used(h)
    BY <1>5 DEF Used
  <2>9. Roomy(h, e, n, wanted)
    BY <1>0, <2>5, <2>6, <2>7, <2>8 DEF Roomy
  <2> QED BY <2>2, <2>3, <2>9 DEF wanted, e
<1>6. CASE h.size[last] # 0
  <2>1. request = NodeSize + n
    BY <1>6
  <2> HIDE DEF request
  <2>2. /\ wanted \in Nat /\ wanted % HeapPageSize = 0 /\ wanted % Alignment = 0
        /\ h.brk + request <= wanted
        /\ request > NodeSize => h.brk + NodeSize + Alignment <= wanted
    BY <1>3, <1>4, BreakIs
  <2>3. h.brk + NodeSize + Alignment <= wanted /\ h.brk + NodeSize + n <= wanted /\ wanted > h.brk
    BY <1>0, <2>1, <2>2
  <2>4. e = [NodeAdded(h, h.brk) EXCEPT !.brk = wanted]
    BY <1>6 DEF Extended, last
  <2> HIDE DEF e
  <2>5. FitsAt(h, last, h.brk, wanted)
    <3>1. last + NodeSize + Alignment <= h.brk /\ last + NodeSize + h.size[last] <= h.brk
      BY <1>0 DEF Laid, NodesOf
    <3>2. \A b \in NodesOf(h) : ~(last < b)
      <4> TAKE b \in NodesOf(h)
      <4>1. b <= last /\ b \in Nat /\ last \in Nat
        BY <1>0
      <4> QED BY <4>1
    <3>3. \A b \in NodesOf(h) : last < b => h.brk + NodeSize + Alignment <= b
      BY <3>2
    <3>4. h.brk \in Nat /\ wanted >= h.brk
      BY <1>0, <2>2, <2>3
    <3> QED BY <1>0, <2>2, <2>3, <3>1, <3>3, <3>4, Zenon DEF FitsAt
  <2>6. AddedTo(h, e, h.brk, wanted)
    BY <2>4, <2>5, NodeAddedIs
  <2>7. /\ IsHeap(e) /\ e.brk = wanted
        /\ h.brk \notin NodesOf(h)
        /\ NodesOf(e) = NodesOf(h) \cup {h.brk}
        /\ e.size[h.brk] = 0
        /\ \A b \in NodesOf(h) : e.size[b] = h.size[b]
        /\ DOMAIN e.mem = DOMAIN h.mem
        /\ \A x \in DOMAIN h.mem : x \in h.brk .. h.brk + NodeSize - 1 \/ e.mem[x] = h.mem[x]
    BY <2>6 DEF AddedTo
  <2>8. \A b \in NodesOf(h) : b < h.brk
    <3> TAKE b \in NodesOf(h)
    <3>1. b + NodeSize + Alignment <= h.brk /\ b \in Nat
      BY <1>0 DEF Laid, NodesOf
    <3> QED BY <1>0, <3>1
  <2>9. LastNode(e) = h.brk
    <3>1. LastNode(e) \in NodesOf(e) /\ \A b \in NodesOf(e) : b <= LastNode(e)
      BY <2>7, LastIs, NodesAre
    <3>2. h.brk <= LastNode(e)
      BY <2>7, <3>1
    <3> QED BY <1>0, <2>7, <2>8, <3>1, <3>2
  <2>10. AlignUp(n, Alignment) <= Capacity(e, h.brk)
    <3>1. /\ Capacity(e, h.brk) \in Nat /\ Capacity(e, h.brk) % Alignment = 0
          /\ h.brk + NodeSize + Capacity(e, h.brk) = wanted
      BY <2>7, <2>9, CapacityIs, NodesAre
    <3>2. n <= Capacity(e, h.brk) /\ n \in Int /\ Capacity(e, h.brk) \in Int
      BY <1>0, <2>2, <2>3, <3>1
    <3> QED BY <1>0, <3>1, <3>2, AlignedRoom, Zenon
  <2>11. Used(e) = Used(h) /\ h.brk \notin Used(h)
    BY <2>7 DEF Used
  <2>12. Apart(e.size, {}, {})
    <3> SUFFICES ASSUME NEW b \in NodesOf(e), NEW c \in NodesOf(e), b < c,
                        e.size[b] = 0, e.size[c] = 0
                 PROVE  \E d \in NodesOf(e) : b < d /\ d < c
      BY DEF Apart, NodesOf
    <3>1. b \in NodesOf(h)
      BY <1>0, <2>7, <2>8
    <3>2. CASE c \in NodesOf(h)
      <4>1. \E d \in NodesOf(h) : b < d /\ d < c
        BY <2>7, <3>1, <3>2 DEF Apart, NodesOf
      <4> QED BY <2>7, <4>1
    <3>3. CASE c = h.brk
      <4>1. b # last /\ b <= last /\ b \in Nat
        BY <1>0, <1>6, <2>7, <3>1
      <4>2. b < last /\ last < c /\ last \in NodesOf(e)
        BY <1>0, <2>7, <2>8, <3>3, <4>1
      <4> QED BY <4>2
    <3> QED BY <2>7, <3>2, <3>3
  <2>13. \A b \in Used(h) : e.size[b] = h.size[b]
    BY <2>7 DEF Used
  <2>14. Roomy(h, e, n, wanted)
    BY <2>7, <2>9, <2>10, <2>11, <2>12, <2>13 DEF Roomy
  <2> QED BY <2>2, <2>3, <2>14 DEF wanted, e
<1> QED BY <1>5, <1>6

\* What the system keeps of a process whose heap ends at brk.
SystemHas(s, brk) ==
    /\ s = [brk |-> brk, mapped |-> s.mapped]
    /\ brk \in Nat /\ InitialBrk <= brk /\ brk <= HeapLimit
    /\ HeapPageOf(HeapStart) .. HeapPageOf(brk - 1) \subseteq s.mapped

\* syscall_setBrk to a larger heap has mapped all its pages.
LEMMA GrowsTo ==
    ASSUME NEW s, NEW brk, SystemHas(s, brk), NEW w \in Nat, w > brk, w % HeapPageSize = 0,
           NEW r \in SetBrkOutcomes(s, w), r.ok
    PROVE  SystemHas(r.os, w)
<1> DEFINE more == s.mapped \cup HeapPageOf(s.brk) .. HeapPageOf(w - 1)
<1>0. /\ s = [brk |-> brk, mapped |-> s.mapped] /\ s.brk = brk
      /\ brk \in Nat /\ InitialBrk <= brk /\ brk <= HeapLimit
      /\ HeapPageOf(HeapStart) .. HeapPageOf(brk - 1) \subseteq s.mapped
      /\ HeapStart \in Nat /\ HeapLimit \in Nat /\ InitialBrk \in Nat /\ HeapStart <= InitialBrk
  <2>1. s = [brk |-> brk, mapped |-> s.mapped]
    BY DEF SystemHas
  <2>2. s.brk = brk
    BY <2>1
  <2>3. NodeSize \in Nat /\ Alignment \in Nat /\ HeapStart + NodeSize + Alignment <= InitialBrk
    BY Units
  <2> QED BY <2>1, <2>2, <2>3, Units DEF SystemHas
<1>1. HeapPageOf(w) # HeapPageOf(brk)
  BY <1>0, HeapPages
<1>2. w <= HeapLimit /\ r.os = [brk |-> w, mapped |-> more]
  <2>1. CASE w < HeapStart \/ w > HeapLimit
    <3>1. r \in {[ok |-> FALSE, os |-> s]}
      BY <2>1, Zenon DEF SetBrkOutcomes
    <3> QED BY <3>1
  <2>2. CASE ~(w < HeapStart \/ w > HeapLimit)
    <3> DEFINE pages == HeapPageOf(s.brk) .. HeapPageOf(w - 1)
               refused == {[ok |-> FALSE, os |-> [s EXCEPT !.mapped = @ \cup HeapPageOf(s.brk) .. p - 1]] :
                             p \in pages \ s.mapped}
    <3>1. r \in {[ok |-> TRUE, os |-> [brk |-> w, mapped |-> more]]} \cup refused
      <4>1. ~(HeapPageOf(w) = HeapPageOf(s.brk)) /\ w > s.brk
        BY <1>0, <1>1
      <4> QED BY <2>2, <4>1, Zenon DEF SetBrkOutcomes
    <3>2. w <= HeapLimit
      BY <1>0, <2>2
    <3>3. \A q \in refused : q.ok = FALSE
      OBVIOUS
    <3>4. r \notin refused
      <4> HIDE DEF refused
      <4> QED BY <3>3, Zenon
    <3> HIDE DEF refused
    <3>5. r = [ok |-> TRUE, os |-> [brk |-> w, mapped |-> more]]
      BY <3>1, <3>4, Zenon
    <3>6. r.os = [brk |-> w, mapped |-> more]
      BY <3>5, Zenon
    <3> QED BY <3>2, <3>6
  <2> QED BY <2>1, <2>2
<1>3. HeapPageOf(HeapStart) .. HeapPageOf(w - 1) \subseteq more
  <2> SUFFICES ASSUME NEW x \in HeapPageOf(HeapStart) .. HeapPageOf(w - 1), x \notin HeapPageOf(brk) .. HeapPageOf(w - 1)
               PROVE  x \in s.mapped
    BY <1>0
  <2>1. /\ HeapPageOf(HeapStart) \in Int /\ HeapPageOf(w - 1) \in Int /\ HeapPageOf(brk) \in Int
        /\ HeapPageOf(brk - 1) \in Int /\ HeapPageOf(brk - 1) >= HeapPageOf(brk) - 1
    <3>1. w - 1 \in Int /\ brk - 1 \in Int /\ brk \in Int /\ HeapStart \in Int
      BY <1>0
    <3> QED BY <3>1, HeapPages
  <2>2. x < HeapPageOf(brk)
    BY <2>1
  <2>3. x \in HeapPageOf(HeapStart) .. HeapPageOf(brk - 1)
    BY <2>1, <2>2
  <2> QED BY <1>0, <2>3
<1> HIDE DEF more
<1>4. r.os.mapped = more /\ r.os = [brk |-> w, mapped |-> r.os.mapped]
  BY <1>2
<1>5. InitialBrk <= w
  BY <1>0
<1> QED BY <1>2, <1>3, <1>4, <1>5 DEF SystemHas

\* A refused syscall_setBrk leaves the break, and no page loses its entry: those it had written remain.
LEMMA RefusedKeeps ==
    ASSUME NEW s, NEW brk, SystemHas(s, brk), NEW w \in Nat, w > brk, w % HeapPageSize = 0,
           NEW r \in SetBrkOutcomes(s, w), ~r.ok
    PROVE  SystemHas(r.os, brk)
<1>1. /\ s = [brk |-> brk, mapped |-> s.mapped] /\ s.brk = brk
      /\ brk \in Nat /\ InitialBrk <= brk /\ brk <= HeapLimit
      /\ HeapPageOf(HeapStart) .. HeapPageOf(brk - 1) \subseteq s.mapped
  <2>1. s = [brk |-> brk, mapped |-> s.mapped]
    BY DEF SystemHas
  <2>2. s.brk = brk
    BY <2>1
  <2> QED BY <2>1, <2>2 DEF SystemHas
<1>2. CASE w < HeapStart \/ w > HeapLimit
  <2>1. r \in {[ok |-> FALSE, os |-> s]}
    BY <1>2, Zenon DEF SetBrkOutcomes
  <2>2. r.os = s
    BY <2>1
  <2> QED BY <2>2
<1>3. CASE ~(w < HeapStart \/ w > HeapLimit)
  <2> DEFINE granted == [ok |-> TRUE, os |-> [brk |-> w, mapped |-> s.mapped \cup HeapPageOf(s.brk) .. HeapPageOf(w - 1)]]
             refused(p) == [ok |-> FALSE, os |-> [s EXCEPT !.mapped = @ \cup HeapPageOf(s.brk) .. p - 1]]
             missing == HeapPageOf(s.brk) .. HeapPageOf(w - 1) \ s.mapped
  <2>1. r \in {granted} \cup {refused(p) : p \in missing}
    <3>1. HeapPageOf(w) # HeapPageOf(brk)
      BY <1>1, HeapPages
    <3>2. ~(HeapPageOf(w) = HeapPageOf(s.brk)) /\ w > s.brk
      BY <1>1, <3>1
    <3> QED BY <1>3, <3>2, Zenon DEF SetBrkOutcomes
  <2>2. r # granted
    OBVIOUS
  <2>3. PICK p \in missing : r = refused(p)
    <3> HIDE DEF granted, refused, missing
    <3> QED BY <2>1, <2>2
  <2>4. r.os = [s EXCEPT !.mapped = @ \cup HeapPageOf(s.brk) .. p - 1]
    BY <2>3
  <2> DEFINE kept == s.mapped \cup HeapPageOf(s.brk) .. p - 1
  <2>5. r.os = [brk |-> brk, mapped |-> kept] /\ s.mapped \subseteq kept
    BY <1>1, <2>4
  <2> HIDE DEF kept
  <2>6. r.os.mapped = kept /\ r.os = [brk |-> brk, mapped |-> r.os.mapped]
    BY <2>5
  <2> QED BY <1>1, <2>5, <2>6 DEF SystemHas
<1> QED BY <1>2, <1>3

\* syscall_setBrk to a smaller heap unmaps none of those it keeps.
LEMMA ShrinksTo ==
    ASSUME NEW s, NEW brk, SystemHas(s, brk), NEW w \in Nat, w <= brk, InitialBrk <= w,
           NEW r \in SetBrkOutcomes(s, w)
    PROVE  SystemHas(r.os, w)
<1> DEFINE less == s.mapped \ (HeapPageOf(AlignUp(w, HeapPageSize))
                                 .. HeapPageOf(AlignUp(s.brk, HeapPageSize) - 1))
<1>0. /\ s = [brk |-> brk, mapped |-> s.mapped] /\ s.brk = brk
      /\ brk \in Nat /\ InitialBrk <= brk /\ brk <= HeapLimit
      /\ HeapPageOf(HeapStart) .. HeapPageOf(brk - 1) \subseteq s.mapped
      /\ HeapStart \in Nat /\ HeapLimit \in Nat /\ InitialBrk \in Nat /\ HeapStart <= InitialBrk
      /\ HeapPageSize \in Nat \ {0}
  <2>1. s = [brk |-> brk, mapped |-> s.mapped]
    BY DEF SystemHas
  <2>2. s.brk = brk
    BY <2>1
  <2>3. NodeSize \in Nat /\ Alignment \in Nat /\ HeapStart + NodeSize + Alignment <= InitialBrk
    BY Units
  <2> QED BY <2>1, <2>2, <2>3, Units DEF SystemHas
<1>1. ~(w < HeapStart \/ w > HeapLimit) /\ ~(w > s.brk) /\ w <= HeapLimit
  BY <1>0
<1>2. /\ w - 1 \in Int /\ brk - 1 \in Int /\ w \in Int /\ HeapStart \in Int
      /\ HeapPageOf(HeapStart) \in Int /\ HeapPageOf(w - 1) \in Int /\ HeapPageOf(brk - 1) \in Int
      /\ HeapPageOf(w - 1) <= HeapPageOf(brk - 1)
  <2>1. w - 1 \in Int /\ brk - 1 \in Int /\ w \in Int /\ HeapStart \in Int /\ w - 1 <= brk - 1
    BY <1>0
  <2> QED BY <2>1, HeapPages
<1>3. HeapPageOf(HeapStart) .. HeapPageOf(w - 1) \subseteq s.mapped
  BY <1>0, <1>2
<1>4. CASE HeapPageOf(w) = HeapPageOf(s.brk)
  <2>1. r \in {[ok |-> TRUE, os |-> [s EXCEPT !.brk = w]]}
    BY <1>1, <1>4, Zenon DEF SetBrkOutcomes
  <2>2. r.os = [s EXCEPT !.brk = w]
    BY <2>1
  <2>3. r.os = [brk |-> w, mapped |-> s.mapped]
    BY <1>0, <2>2
  <2>4. r.os.mapped = s.mapped /\ r.os = [brk |-> w, mapped |-> r.os.mapped]
    BY <2>3
  <2> QED BY <1>1, <1>3, <2>4 DEF SystemHas
<1>5. CASE ~(HeapPageOf(w) = HeapPageOf(s.brk))
  <2>1. r \in {[ok |-> TRUE, os |-> [brk |-> w, mapped |-> less]]}
    BY <1>1, <1>5, Zenon DEF SetBrkOutcomes
  <2>2. r.os = [brk |-> w, mapped |-> less]
    BY <2>1
  <2>3. HeapPageOf(HeapStart) .. HeapPageOf(w - 1) \subseteq less
    <3> DEFINE up == AlignUp(w, HeapPageSize)
    <3>1. up \in Int /\ up % HeapPageSize = 0 /\ w <= up
      BY <1>0, <1>2, AlignUpIs, Zenon
    <3> HIDE DEF up
    <3>2. HeapPageOf(w - 1) < HeapPageOf(up) /\ HeapPageOf(up) \in Int
      <4>1. w - 1 < up /\ w - 1 \in Int
        BY <1>2, <3>1
      <4> QED BY <3>1, <4>1, HeapPages
    <3>3. \A x \in HeapPageOf(HeapStart) .. HeapPageOf(w - 1) :
            x \notin HeapPageOf(up) .. HeapPageOf(AlignUp(s.brk, HeapPageSize) - 1)
      BY <1>2, <3>2
    <3> QED BY <1>3, <3>3 DEF up
  <2> HIDE DEF less
  <2>4. r.os.mapped = less /\ r.os = [brk |-> w, mapped |-> r.os.mapped]
    BY <2>2
  <2> QED BY <1>1, <2>3, <2>4 DEF SystemHas
<1> QED BY <1>4, <1>5

-----------------------------------------------------------------------------
(***************************************************************************)
(* The heap: what becomes of blocks and of their bytes                     *)
(***************************************************************************)

\* The n bytes that h has from p on, r has from q on.
SameBytes(h, r, p, q, n) ==
    \A i \in 0 .. n - 1 : q + i \in DOMAIN h.mem => r.mem[q + i] = h.mem[p + i]

\* r has the blocks of h, with their bytes, but for those of X, and those of Y.
Becomes(h, r, X, Y) ==
    /\ IsHeap(r) /\ Apart(r.size, {}, {})
    /\ DOMAIN r.mem = DOMAIN h.mem
    /\ Used(r) = (Used(h) \ X) \cup Y
    /\ \A b \in Used(h) \ X :
        b \notin Y /\ r.size[b] = h.size[b] /\ SameBytes(h, r, PtrOf(b), PtrOf(b), h.size[b])

\* r is h, with a new block.
Allocated(h, r, a, n) == Becomes(h, r, {}, {a}) /\ r.size[a] = n

\* r is h, with n bytes at the node b for the block a, which keeps its bytes.
Reallocated(h, r, a, b, n) ==
    /\ Becomes(h, r, {a}, {b}) /\ r.size[b] = n
    /\ \A i \in 0 .. n - 1 :
        (i < h.size[a] /\ PtrOf(a) + i \in DOMAIN h.mem /\ PtrOf(b) + i \in DOMAIN h.mem)
            => r.mem[PtrOf(b) + i] = h.mem[PtrOf(a) + i]

\* The bytes of a block of r are behind its header, and no header is among them.
LEMMA BytesKept ==
    ASSUME NEW h, NEW r, IsHeap(r), HeadersOnly(h, r), NEW b \in NodesOf(r)
    PROVE  SameBytes(h, r, PtrOf(b), PtrOf(b), r.size[b])
<1> SUFFICES ASSUME NEW i \in 0 .. r.size[b] - 1, PtrOf(b) + i \in DOMAIN h.mem
             PROVE  r.mem[PtrOf(b) + i] = h.mem[PtrOf(b) + i]
  BY DEF SameBytes
<1>0. /\ NodeSize \in Nat \ {0} /\ Alignment \in Nat \ {0}
      /\ \A c \in NodesOf(r) : c \in Nat /\ r.size[c] \in Nat
      /\ \A c, d \in NodesOf(r) :
            c < d => c + NodeSize + Alignment <= d /\ c + NodeSize + r.size[c] <= d
  BY Units, NodesAre
<1>1. PtrOf(b) + i = b + NodeSize + i
  BY DEF PtrOf
<1>2. ASSUME NEW c \in NodesOf(r), b + NodeSize + i \in c .. c + NodeSize - 1
      PROVE  FALSE
  <2>1. b \in Nat /\ c \in Nat /\ r.size[b] \in Nat /\ i \in Nat /\ i < r.size[b]
    BY <1>0
  <2>2. b < c => b + NodeSize + r.size[b] <= c
    BY <1>0
  <2>3. c < b => c + NodeSize + Alignment <= b
    BY <1>0
  <2> QED BY <1>0, <1>2, <2>1, <2>2, <2>3
<1>3. \/ r.mem[PtrOf(b) + i] = h.mem[PtrOf(b) + i]
      \/ \E c \in NodesOf(r) : PtrOf(b) + i \in c .. c + NodeSize - 1
  BY DEF HeadersOnly
<1> QED BY <1>1, <1>2, <1>3

\* Blocks of a heap do not overlap.
LEMMA BlocksApart ==
    ASSUME NEW h, IsHeap(h), NEW a \in NodesOf(h), NEW b \in NodesOf(h), a # b,
           NEW i \in 0 .. Capacity(h, a) - 1, NEW j \in 0 .. h.size[b] - 1
    PROVE  PtrOf(a) + i # PtrOf(b) + j
<1>0. NodeSize \in Nat \ {0} /\ a \in Nat /\ b \in Nat /\ h.size[b] \in Nat
  BY Units, NodesAre
<1>1. Capacity(h, a) \in Nat /\ (a < b => a + NodeSize + Capacity(h, a) <= b)
  BY NodesAre, CapacityIs
<1>2. b < a => b + NodeSize + h.size[b] <= a
  BY NodesAre
<1>3. PtrOf(a) = a + NodeSize /\ PtrOf(b) = b + NodeSize
  BY DEF PtrOf
<1> QED BY <1>0, <1>1, <1>2, <1>3

\* The used nodes are those with a size.
LEMMA UsedIs ==
    ASSUME NEW h, IsHeap(h)
    PROVE  \A b \in Used(h) : b \in NodesOf(h) /\ b \in Nat /\ h.size[b] \in Nat \ {0}
  BY NodesAre DEF Used

\* A node that was taken is a new block, beside those there were.
LEMMA AllocatedIs ==
    ASSUME NEW h, IsHeap(h), NEW e, NEW r, NEW a, NEW n \in Nat \ {0},
           a \notin Used(h), Used(e) = Used(h), \A b \in Used(h) : e.size[b] = h.size[b],
           Resized(e, r, a, n), HeadersOnly(h, r)
    PROVE  Allocated(h, r, a, n)
<1>1. /\ IsHeap(r) /\ Apart(r.size, {}, {})
      /\ a \in NodesOf(r) /\ r.size[a] = n
      /\ Used(r) = Used(h) \cup {a}
      /\ \A b \in Used(h) : r.size[b] = h.size[b]
  BY DEF Resized
<1>2. \A b \in Used(h) : SameBytes(h, r, PtrOf(b), PtrOf(b), h.size[b])
  <2> TAKE b \in Used(h)
  <2>1. b \in NodesOf(r) /\ r.size[b] = h.size[b]
    BY <1>1, UsedIs
  <2>2. SameBytes(h, r, PtrOf(b), PtrOf(b), r.size[b])
    BY <1>1, <2>1, BytesKept
  <2> QED BY <2>1, <2>2
<1>3. DOMAIN r.mem = DOMAIN h.mem
  BY DEF HeadersOnly
<1> QED BY <1>1, <1>2, <1>3 DEF Allocated, Becomes

\* The search, which goes round from the cursor, finds a node with room.
LEMMA FirstFitIs ==
    ASSUME NEW h, IsHeap(h), NEW c, Fitting(h, c) # {}
    PROVE  /\ FirstFit(h, c) \in NodesOf(h) /\ h.size[FirstFit(h, c)] = 0
           /\ Capacity(h, FirstFit(h, c)) >= c
<1> DEFINE fit == Fitting(h, c)
           ahead == {a \in fit : a >= h.cursor}
<1>1. fit \subseteq Nat
  BY NodesAre DEF Fitting
<1>2. FirstFit(h, c) = IF ahead # {} THEN Min(ahead) ELSE Min(fit)
  BY DEF FirstFit
<1>3. \A S \in SUBSET fit : S # {} => Min(S) \in S
  <2> HIDE DEF fit
  <2> TAKE S \in SUBSET fit
  <2> HAVE S # {}
  <2>1. \E m \in S : \A k \in S : m <= k
    BY <1>1, LeastNumber
  <2> QED BY <2>1, MinIs
<1>4. FirstFit(h, c) \in fit
  <2>1. ahead \in SUBSET fit /\ fit \in SUBSET fit /\ fit # {}
    OBVIOUS
  <2> HIDE DEF fit, ahead
  <2> QED BY <1>2, <1>3, <2>1
<1> QED BY <1>4 DEF Fitting

\* The answer to malloc: another block, or nothing new.
Served(h, s, o, n) ==
    /\ SystemHas(o.os, o.heap.brk)
    /\ \/ o.node = 0 /\ o.heap = h
       \/ o.node # 0 /\ o.node \notin Used(h) /\ Allocated(h, o.heap, o.node, n)

\* An answer has its parts.
LEMMA OutcomeIs ==
    ASSUME NEW h, NEW s, NEW a
    PROVE  /\ Outcome(h, s, a).heap = h /\ Outcome(h, s, a).os = s /\ Outcome(h, s, a).node = a
  BY DEF Outcome

\* NULL is no node.
LEMMA NoNullNode ==
    ASSUME NEW h, IsHeap(h)
    PROVE  0 \notin NodesOf(h)
  BY NodesAre, AmallocAssumption

\* ama_malloc: from a free node, or from a heap that was made larger; it fails
\* where the system does not grow the heap.
LEMMA MallocIs ==
    ASSUME NEW h, IsHeap(h), Apart(h.size, {}, {}), NEW s, SystemHas(s, h.brk), NEW n \in Nat,
           NEW o \in MallocOutcomes(h, s, n)
    PROVE  Served(h, s, o, n)
<1> DEFINE c == AlignUp(n, Alignment)
<1>1. ASSUME o = Outcome(h, s, 0) PROVE Served(h, s, o, n)
  BY <1>1, OutcomeIs DEF Served
<1>2. CASE n = 0
  <2>1. o = Outcome(h, s, 0)
    BY <1>2, Zenon DEF MallocOutcomes
  <2> QED BY <1>1, <2>1
<1>3. CASE n # 0 /\ Fitting(h, c) # {}
  <2> DEFINE a == FirstFit(h, c)
             r == Taken(h, a, n)
  <2>1. o = Outcome(r, s, a)
    BY <1>3, Zenon DEF MallocOutcomes
  <2>2. a \in NodesOf(h) /\ h.size[a] = 0 /\ Capacity(h, a) >= c
    BY <1>3, FirstFitIs
  <2>3. Resized(h, r, a, n)
    <3>1. c \in Int /\ Capacity(h, a) \in Int /\ n \in Nat \ {0}
      <4>1. Alignment \in Nat \ {0} /\ n \in Int
        BY Units
      <4>2. c \in Int
        BY <4>1, AlignUpIs, Zenon
      <4>3. Capacity(h, a) \in Nat
        BY <2>2, CapacityIs, NodesAre
      <4> QED BY <1>3, <4>2, <4>3
    <3> HIDE DEF a
    <3>2. c <= Capacity(h, a)
      <4> HIDE DEF c
      <4> QED BY <2>2, <3>1
    <3> QED BY <2>2, <3>1, <3>2, TakenIs
  <2> HIDE DEF r, a, c
  <2>4. a \notin Used(h)
    BY <2>2 DEF Used
  <2>5. r.brk = h.brk /\ HeadersOnly(h, r)
    BY <2>3 DEF Resized
  <2>6. Allocated(h, r, a, n)
    BY <1>3, <2>3, <2>4, <2>5, AllocatedIs
  <2>7. a # 0
    BY <2>2, NoNullNode
  <2>8. o.heap = r /\ o.os = s /\ o.node = a
    BY <2>1, OutcomeIs
  <2> QED BY <2>4, <2>5, <2>6, <2>7, <2>8 DEF Served
<1>4. CASE n # 0 /\ Fitting(h, c) = {} /\ ~hasBrkFunc
  <2>1. o = Outcome(h, s, 0)
    BY <1>4, Zenon DEF MallocOutcomes
  <2> QED BY <1>1, <2>1
<1>5. CASE n # 0 /\ Fitting(h, c) = {} /\ hasBrkFunc
  <2> DEFINE w == WantedBrk(h, n)
             e == Extended(h, w)
             r == Taken(e, LastNode(e), n)
  <2>1. PICK b \in SetBrkOutcomes(s, w) :
            o = IF b.ok THEN Outcome(r, b.os, LastNode(e)) ELSE Outcome(h, b.os, 0)
    BY <1>5, Zenon DEF MallocOutcomes
  <2>2. CASE b.ok
    <3>1. o = Outcome(r, b.os, LastNode(e))
      BY <2>1, <2>2
    <3>2. n \in Nat \ {0} /\ w \in Nat /\ w > h.brk /\ w % HeapPageSize = 0 /\ Roomy(h, e, n, w)
      BY <1>5, ExtendedIs
    <3> HIDE DEF w
    <3>3. SystemHas(b.os, w)
      BY <2>2, <3>2, GrowsTo
    <3> HIDE DEF e
    <3>4. Resized(e, r, LastNode(e), n)
      BY <3>2, TakenIs DEF Roomy
    <3> HIDE DEF r
    <3>5. HeadersOnly(h, r)
      BY <3>2, <3>4 DEF HeadersOnly, Roomy, Resized
    <3>6. Allocated(h, r, LastNode(e), n)
      BY <3>2, <3>4, <3>5, AllocatedIs DEF Roomy
    <3>7. r.brk = w /\ LastNode(e) \notin Used(h) /\ LastNode(e) # 0
      BY <3>2, <3>4, NoNullNode DEF Roomy, Resized
    <3>8. o.heap = r /\ o.os = b.os /\ o.node = LastNode(e)
      BY <3>1, OutcomeIs
    <3> QED BY <3>3, <3>6, <3>7, <3>8 DEF Served
  <2>3. CASE ~b.ok
    <3>1. o = Outcome(h, b.os, 0)
      BY <2>1, <2>3
    <3>2. w \in Nat /\ w > h.brk /\ w % HeapPageSize = 0
      BY <1>5, ExtendedIs
    <3> HIDE DEF w
    <3>3. SystemHas(b.os, h.brk)
      BY <2>3, <3>2, RefusedKeeps
    <3>4. o.heap = h /\ o.os = b.os /\ o.node = 0
      BY <3>1, OutcomeIs
    <3> QED BY <3>3, <3>4 DEF Served
  <2> QED BY <2>2, <2>3
<1> QED BY <1>2, <1>3, <1>4, <1>5

-----------------------------------------------------------------------------
(***************************************************************************)
(* The heap: free                                                          *)
(***************************************************************************)

\* The same heap, with another memory.
LEMMA MemIs ==
    ASSUME NEW h, IsHeap(h), NEW m, m = [x \in DOMAIN m |-> m[x]]
    PROVE  /\ IsHeap([h EXCEPT !.mem = m])
           /\ [h EXCEPT !.mem = m].size = h.size
           /\ [h EXCEPT !.mem = m].brk = h.brk
           /\ [h EXCEPT !.mem = m].mem = m
<1> DEFINE r == [h EXCEPT !.mem = m]
<1>1. r = [size |-> h.size, brk |-> h.brk, cursor |-> h.cursor, mem |-> m]
  BY DEF IsHeap
<1>2. MadeOf(r, h.size, h.brk, h.cursor, m)
  <2> HIDE DEF r
  <2> QED BY <1>1 DEF MadeOf, IsHeap
<1> HIDE DEF r
<1>3. IsHeap(r) /\ r.size = h.size /\ r.brk = h.brk /\ r.mem = m
  BY <1>2, HeapMadeOf
<1> QED BY <1>3 DEF r

\* The same heap, with another end.
LEMMA BreakSetIs ==
    ASSUME NEW h, IsHeap(h), NEW w, Laid(h.size, w)
    PROVE  /\ IsHeap([h EXCEPT !.brk = w])
           /\ [h EXCEPT !.brk = w].size = h.size
           /\ [h EXCEPT !.brk = w].brk = w
           /\ [h EXCEPT !.brk = w].mem = h.mem
<1> DEFINE r == [h EXCEPT !.brk = w]
<1>1. r = [size |-> h.size, brk |-> w, cursor |-> h.cursor, mem |-> h.mem]
  BY DEF IsHeap
<1>2. MadeOf(r, h.size, w, h.cursor, h.mem)
  <2> HIDE DEF r
  <2> QED BY <1>1 DEF MadeOf, IsHeap
<1> HIDE DEF r
<1>3. IsHeap(r) /\ r.size = h.size /\ r.brk = w /\ r.mem = h.mem
  BY <1>2, HeapMadeOf
<1> QED BY <1>3 DEF r

\* r is h, with the n bytes at src copied to dst.
CopiedTo(h, r, dst, src, n) ==
    /\ IsHeap(r) /\ r.size = h.size /\ r.brk = h.brk
    /\ DOMAIN r.mem = DOMAIN h.mem
    /\ \A i \in 0 .. n - 1 : dst + i \in DOMAIN h.mem => r.mem[dst + i] = h.mem[src + i]
    /\ \A x \in DOMAIN h.mem : x \in dst .. dst + n - 1 \/ r.mem[x] = h.mem[x]

\* memmove copies n bytes from src to dst, and changes no others.
LEMMA MovedIs ==
    ASSUME NEW h, IsHeap(h), NEW dst \in Nat, NEW src \in Nat, NEW n \in Nat
    PROVE  CopiedTo(h, Moved(h, dst, src, n), dst, src, n)
<1> DEFINE r == Moved(h, dst, src, n)
<1> DEFINE m == [x \in DOMAIN h.mem |->
                    IF x \in dst .. dst + n - 1 THEN h.mem[x - dst + src] ELSE h.mem[x]]
<1>1. r = [h EXCEPT !.mem = m]
  BY Zenon DEF Moved
<1> HIDE DEF r
<1>2. /\ m = [x \in DOMAIN m |-> m[x]] /\ DOMAIN m = DOMAIN h.mem
      /\ \A x \in DOMAIN h.mem : x \in dst .. dst + n - 1 \/ m[x] = h.mem[x]
  OBVIOUS
<1>3. ASSUME NEW i \in 0 .. n - 1, dst + i \in DOMAIN h.mem PROVE m[dst + i] = h.mem[src + i]
  <2>1. dst + i \in dst .. dst + n - 1 /\ (dst + i) - dst + src = src + i
    OBVIOUS
  <2>2. m[dst + i] = h.mem[(dst + i) - dst + src]
    BY <1>3, <2>1
  <2> QED BY <2>1, <2>2
<1> HIDE DEF m
<1>4. IsHeap(r) /\ r.size = h.size /\ r.brk = h.brk /\ r.mem = m
  BY <1>1, <1>2, MemIs
<1>5. CopiedTo(h, r, dst, src, n)
  BY <1>2, <1>3, <1>4 DEF CopiedTo
<1> QED BY <1>5 DEF r

\* A node has room up to w if no node comes before, nor the end of the heap.
LEMMA CapacityAtLeast ==
    ASSUME NEW h, IsHeap(h), NEW a \in NodesOf(h), NEW w \in Int, w <= h.brk,
           \A b \in NodesOf(h) : a < b => w <= b
    PROVE  w <= a + NodeSize + Capacity(h, a)
<1>1. /\ a = LastNode(h) => a + NodeSize + Capacity(h, a) = h.brk
      /\ a # LastNode(h) => a + NodeSize + Capacity(h, a) = NodeAfter(h, a)
  BY NodesAre, CapacityIs
<1>2. a # LastNode(h) => NodeAfter(h, a) \in NodesOf(h) /\ a < NodeAfter(h, a)
  BY NodesAre, AfterIs
<1> QED BY <1>1, <1>2

\* What ama_freeImpl leaves are the other blocks.
LEMMA FreedIs ==
    ASSUME NEW h, IsHeap(h), NEW a \in Used(h), NEW r, Freed(h, r, a)
    PROVE  Becomes(h, r, {a}, {})
<1>1. /\ IsHeap(r) /\ Apart(r.size, {}, {}) /\ r.mem = h.mem
      /\ Used(r) = Used(h) \ {a}
      /\ \A b \in Used(r) : r.size[b] = h.size[b]
  BY DEF Freed
<1>2. \A b \in Used(h) : SameBytes(h, r, PtrOf(b), PtrOf(b), h.size[b])
  BY <1>1 DEF SameBytes
<1> QED BY <1>1, <1>2 DEF Becomes

\* ama_free, which may give the end of the heap back
LEMMA FreeIs ==
    ASSUME NEW h, IsHeap(h), Apart(h.size, {}, {}), NEW s, SystemHas(s, h.brk), NEW a \in Used(h),
           NEW o \in FreeOutcomes(h, s, a)
    PROVE  SystemHas(o.os, o.heap.brk) /\ Becomes(h, o.heap, {a}, {})
<1> DEFINE f == FreeImpl(h, a)
           last == LastNode(f)
           w == ReleasedBrk(f)
<1>1. Freed(h, f, a) /\ a \in NodesOf(h)
  BY UsedIs, FreeImplIs
<1>2. CASE hasBrkFunc /\ f.size[last] = 0
  <2> DEFINE r == [f EXCEPT !.brk = w]
  <2>1. PICK b \in SetBrkOutcomes(s, w) : o = Outcome(r, b.os, 0)
    BY <1>2, Zenon DEF FreeOutcomes
  <2> HIDE DEF f
  <2>2. /\ IsHeap(f) /\ f.brk = h.brk /\ f.brk \in Nat
        /\ last \in NodesOf(f) /\ last \in Nat /\ last % Alignment = 0
        /\ last + NodeSize + Alignment <= f.brk
        /\ \A c \in NodesOf(f) : c <= last
    BY <1>1, NodesAre, LastIs DEF Freed
  <2>3. /\ NodeSize \in Nat \ {0} /\ Alignment \in Nat \ {0} /\ FreeNodeMin = Alignment
        /\ NodeSize % Alignment = 0 /\ InitialBrk \in Nat /\ InitialBrk % Alignment = 0
        /\ Alignment % Alignment = 0
    BY Units
  <2>4. /\ h.brk \in Nat /\ InitialBrk <= h.brk
    BY DEF SystemHas
  <2> HIDE DEF last
  <2>5. last + NodeSize + Alignment \in Int /\ (last + NodeSize + Alignment) % Alignment = 0
    <3>1. last \in Int /\ NodeSize \in Int /\ last + NodeSize \in Int /\ Alignment \in Int
      BY <2>2, <2>3
    <3>2. (last + NodeSize) % Alignment = 0
      BY <2>2, <2>3, <3>1, SumAligned, Zenon
    <3>3. ((last + NodeSize) + Alignment) % Alignment = 0
      BY <2>3, <3>1, <3>2, SumAligned, Zenon
    <3> QED BY <2>2, <2>3, <3>3
  <2>6. /\ w \in {last + NodeSize + Alignment, InitialBrk}
        /\ w >= last + NodeSize + Alignment /\ w >= InitialBrk
    <3>1. w = Max({last + NodeSize + Alignment, InitialBrk})
      BY <2>3, Zenon DEF ReleasedBrk, last
    <3> QED BY <2>3, <2>5, <3>1, GreaterOf
  <2> HIDE DEF w
  <2>7. w \in Nat /\ w % Alignment = 0 /\ w <= h.brk
    BY <2>2, <2>3, <2>4, <2>5, <2>6
  <2>8. SystemHas(b.os, w)
    BY <2>6, <2>7, ShrinksTo
  <2>9. Laid(f.size, w)
    <3>1. Laid(f.size, f.brk)
      BY <2>2 DEF IsHeap
    <3>2. ASSUME NEW b1 \in NodesOf(f)
          PROVE  b1 + NodeSize + Alignment <= w /\ b1 + NodeSize + f.size[b1] <= w
      <4>1. /\ b1 \in Nat /\ f.size[b1] \in Nat /\ b1 <= last
            /\ b1 < last => b1 + NodeSize + Alignment <= last /\ b1 + NodeSize + f.size[b1] <= last
        BY <2>2, NodesAre
      <4>2. CASE b1 = last
        <5>1. f.size[b1] = 0
          BY <1>2, <4>2 DEF last
        <5> QED BY <2>2, <2>3, <2>6, <2>7, <4>1, <4>2, <5>1
      <4>3. CASE b1 # last
        BY <2>2, <2>3, <2>6, <2>7, <4>1, <4>3
      <4> QED BY <4>2, <4>3
    <3> QED BY <2>7, <3>1, <3>2 DEF Laid, NodesOf
  <2>10. IsHeap(r) /\ r.size = f.size /\ r.brk = w /\ r.mem = f.mem
    BY <2>2, <2>9, BreakSetIs
  <2> HIDE DEF r
  <2>11. Becomes(h, f, {a}, {})
    BY <1>1, FreedIs
  <2>12. Becomes(h, r, {a}, {})
    BY <2>10, <2>11 DEF Becomes, SameBytes, Used, NodesOf
  <2>13. o.heap = r /\ o.os = b.os
    BY <2>1, OutcomeIs
  <2> QED BY <2>8, <2>10, <2>12, <2>13
<1>3. CASE ~(hasBrkFunc /\ f.size[last] = 0)
  <2>1. o = Outcome(f, s, 0)
    BY <1>3, Zenon DEF FreeOutcomes
  <2> HIDE DEF f
  <2>2. o.heap = f /\ o.os = s
    BY <2>1, OutcomeIs
  <2>3. f.brk = h.brk
    BY <1>1 DEF Freed
  <2> QED BY <1>1, <2>2, <2>3, FreedIs
<1> QED BY <1>2, <1>3

-----------------------------------------------------------------------------
(***************************************************************************)
(* The heap: realloc                                                       *)
(***************************************************************************)

\* The answer to realloc of a: its block, of n bytes, wherever it is now, or no change.
Replied(h, s, o, a, n) ==
    /\ SystemHas(o.os, o.heap.brk)
    /\ \/ o.node = 0 /\ o.heap = h
       \/ o.node # 0 /\ Reallocated(h, o.heap, a, o.node, n)

\* A block that stays where it is keeps its bytes.
LEMMA ResizedInPlace ==
    ASSUME NEW h, IsHeap(h), NEW a \in Used(h), NEW n \in Nat \ {0}, NEW g, NEW r,
           g.mem = h.mem, Used(g) = Used(h), \A b \in Used(h) : g.size[b] = h.size[b],
           Resized(g, r, a, n)
    PROVE  Reallocated(h, r, a, a, n)
<1>1. /\ IsHeap(r) /\ Apart(r.size, {}, {})
      /\ a \in NodesOf(r) /\ r.size[a] = n
      /\ Used(r) = Used(h) \cup {a}
      /\ \A b \in Used(h) \ {a} : r.size[b] = h.size[b]
      /\ HeadersOnly(g, r)
  BY DEF Resized
<1>2. HeadersOnly(h, r)
  BY <1>1 DEF HeadersOnly
<1>3. \A b \in Used(h) \ {a} : SameBytes(h, r, PtrOf(b), PtrOf(b), h.size[b])
  <2> TAKE b \in Used(h) \ {a}
  <2>1. b \in NodesOf(r) /\ r.size[b] = h.size[b]
    BY <1>1, UsedIs
  <2>2. SameBytes(h, r, PtrOf(b), PtrOf(b), r.size[b])
    BY <1>1, <1>2, <2>1, BytesKept
  <2> QED BY <2>1, <2>2
<1>4. SameBytes(h, r, PtrOf(a), PtrOf(a), n)
  <2>1. SameBytes(h, r, PtrOf(a), PtrOf(a), r.size[a])
    BY <1>1, <1>2, BytesKept
  <2> QED BY <1>1, <2>1
<1>5. DOMAIN r.mem = DOMAIN h.mem /\ Used(r) = (Used(h) \ {a}) \cup {a}
  BY <1>1, <1>2 DEF HeadersOnly
<1>6. Becomes(h, r, {a}, {a})
  BY <1>1, <1>3, <1>5 DEF Becomes
<1> QED BY <1>1, <1>4, <1>6 DEF Reallocated, SameBytes

\* Case 2: the node behind a goes, and a has its room.
LEMMA NextTakenIs ==
    ASSUME NEW h, IsHeap(h), Apart(h.size, {}, {}), NEW a \in NodesOf(h), Coalesces(h, a),
           NEW g, g = NodeRemoved(h, NodeAfter(h, a))
    PROVE  /\ IsHeap(g) /\ Apart(g.size, {}, {}) /\ g.brk = h.brk /\ g.mem = h.mem
           /\ a \in NodesOf(g) /\ Used(g) = Used(h) /\ \A b \in Used(h) : g.size[b] = h.size[b]
           /\ Capacity(h, a) + NodeSize + Capacity(h, NodeAfter(h, a)) <= Capacity(g, a)
<1> DEFINE next == NodeAfter(h, a)
<1>1. /\ a # LastNode(h) /\ next \in NodesOf(h) /\ a < next /\ next # HeapStart
      /\ h.size[next] = 0
      /\ \A b \in NodesOf(h) : a < b => next <= b
  BY CoalescesIs
<1>2. /\ IsHeap(g) /\ g.brk = h.brk /\ g.mem = h.mem
      /\ NodesOf(g) = NodesOf(h) \ {next}
      /\ \A b \in NodesOf(g) : g.size[b] = h.size[b]
  <2> HIDE DEF next
  <2> QED BY <1>1, NodeRemovedIs DEF next
<1>3. /\ Capacity(h, a) \in Nat /\ Capacity(h, next) \in Nat
      /\ a + NodeSize + Capacity(h, a) = next
      /\ next + NodeSize + Capacity(h, next) <= h.brk
      /\ \A b \in NodesOf(h) : next < b => next + NodeSize + Capacity(h, next) <= b
  <2> HIDE DEF next
  <2> QED BY <1>1, CapacityIs, NodesAre DEF next
<1>4. NodeSize \in Nat /\ h.brk \in Nat /\ \A b \in NodesOf(h) : b \in Nat
  BY Units, NodesAre
<1> HIDE DEF next
<1>5. a \in NodesOf(g) /\ a \in Nat /\ next \in Nat
  BY <1>1, <1>2, <1>4
<1>6. Apart(g.size, {}, {})
  <2> SUFFICES ASSUME NEW b \in NodesOf(g), NEW c \in NodesOf(g), b < c,
                      g.size[b] = 0, g.size[c] = 0
               PROVE  \E d \in NodesOf(g) : b < d /\ d < c
    BY DEF Apart, NodesOf
  <2>1. \A x, y \in NodesOf(h) : (x < y /\ h.size[x] = 0 /\ h.size[y] = 0) => \E d \in NodesOf(h) : x < d /\ d < y
    BY DEF Apart, NodesOf
  <2>2. b \in NodesOf(h) /\ c \in NodesOf(h) /\ h.size[b] = 0 /\ h.size[c] = 0
    BY <1>2
  <2>3. PICK d \in NodesOf(h) : b < d /\ d < c
    BY <2>1, <2>2
  <2>4. CASE d # next
    BY <1>2, <2>3, <2>4
  <2>5. CASE d = next
    <3>1. PICK x \in NodesOf(h) : b < x /\ x < next
      BY <1>1, <2>1, <2>2, <2>3, <2>5
    <3>2. x # next /\ x < c
      <4>1. x \in Nat /\ c \in Nat /\ next \in Nat
        BY <1>4, <1>5, <2>2, <3>1
      <4>2. x < next /\ next < c
        BY <2>3, <2>5, <3>1
      <4> QED BY <4>1, <4>2
    <3> QED BY <1>2, <3>1, <3>2
  <2> QED BY <2>4, <2>5
<1>7. Used(g) = Used(h) /\ \A b \in Used(h) : g.size[b] = h.size[b]
  <2>1. Used(g) = Used(h)
    BY <1>1, <1>2 DEF Used
  <2> QED BY <1>2, <2>1 DEF Used
<1>8. next + NodeSize + Capacity(h, next) <= a + NodeSize + Capacity(g, a)
  <2>1. ASSUME NEW b \in NodesOf(g), a < b PROVE next + NodeSize + Capacity(h, next) <= b
    <3>1. b \in NodesOf(h) /\ b # next /\ next <= b /\ b \in Nat
      BY <1>1, <1>2, <1>4, <2>1
    <3>2. next < b
      BY <1>5, <3>1
    <3> QED BY <1>3, <3>1, <3>2
  <2>2. next + NodeSize + Capacity(h, next) \in Int
    BY <1>3, <1>4, <1>5
  <2> QED BY <1>2, <1>3, <1>5, <2>1, <2>2, CapacityAtLeast
<1>9. Capacity(g, a) \in Nat
  BY <1>2, <1>5, CapacityIs, NodesAre
<1>10. Capacity(h, a) + NodeSize + Capacity(h, next) <= Capacity(g, a)
  BY <1>3, <1>4, <1>5, <1>8, <1>9
<1> QED BY <1>2, <1>5, <1>6, <1>7, <1>10 DEF next

\* What a node and the free ones beside it have room for.
RoomAround(h, a) ==
    Capacity(h, NodeBefore(h, a)) + NodeSize + Capacity(h, a)
        + (IF Coalesces(h, a) THEN NodeSize + Capacity(h, NodeAfter(h, a)) ELSE 0)

\* Case 3: a becomes one with the node before it.
LEMMA PreviousTakenIs ==
    ASSUME NEW h, IsHeap(h), Apart(h.size, {}, {}), NEW a \in NodesOf(h),
           a > NodeBefore(h, a), h.size[NodeBefore(h, a)] = 0
    PROVE  /\ NodeBefore(h, a) \in NodesOf(h)
           /\ NodeBefore(h, a) \in NodesOf(FreeImpl(h, a))
           /\ RoomAround(h, a) <= Capacity(FreeImpl(h, a), NodeBefore(h, a))
<1> DEFINE f == FreeImpl(h, a)
           prev == NodeBefore(h, a)
           next == NodeAfter(h, a)
           end == IF Coalesces(h, a) THEN next + NodeSize + Capacity(h, next)
                  ELSE a + NodeSize + Capacity(h, a)
<1>0. NodeSize \in Nat /\ h.brk \in Nat /\ \A b \in NodesOf(h) : b \in Nat
  BY Units, NodesAre
<1>1. /\ prev \in NodesOf(h) /\ prev < a
      /\ \A b \in NodesOf(h) : b < a => b <= prev
  <2>1. a # HeapStart
    <3> SUFFICES ASSUME a = HeapStart PROVE FALSE
      OBVIOUS
    <3>1. prev = LastNode(h) /\ LastNode(h) \in NodesOf(h) /\ a <= LastNode(h)
      BY BeforeIs, LastIs, NodesAre
    <3> QED BY <1>0, <3>1
  <2> QED BY <2>1, BeforeIs, NodesAre
<1>2. Freed(h, f, a) /\ MergedBefore(h, f, a)
  BY FreeImplIs
<1> HIDE DEF f
<1>3. /\ IsHeap(f) /\ f.brk = h.brk /\ NodesOf(f) \subseteq NodesOf(h)
      /\ prev \in NodesOf(f)
      /\ \A b \in NodesOf(f) : prev < b => a < b /\ (Coalesces(h, a) => next < b)
  <2>1. NodeBefore(h, a) < a
    BY <1>1
  <2> QED BY <1>2, <2>1 DEF Freed, MergedBefore
<1>4. /\ Capacity(h, a) \in Nat /\ Capacity(h, prev) \in Nat
      /\ prev + NodeSize + Capacity(h, prev) = a
      /\ a + NodeSize + Capacity(h, a) <= h.brk
      /\ \A b \in NodesOf(h) : a < b => a + NodeSize + Capacity(h, a) <= b
  <2>1. prev # LastNode(h)
    <3>1. a <= LastNode(h) /\ LastNode(h) \in Nat
      BY <1>0, LastIs, NodesAre
    <3> QED BY <1>0, <1>1, <3>1
  <2> HIDE DEF prev
  <2>2. NodeAfter(h, prev) = a
    <3>1. /\ NodeAfter(h, prev) \in NodesOf(h) /\ prev < NodeAfter(h, prev)
          /\ NodeAfter(h, prev) <= a
      BY <1>1, <2>1, AfterIs, NodesAre
    <3>2. ~(NodeAfter(h, prev) < a)
      BY <1>0, <1>1, <3>1
    <3> QED BY <1>0, <3>1, <3>2
  <2> QED BY <1>1, <2>1, <2>2, CapacityIs, NodesAre
<1>5. Coalesces(h, a) =>
        /\ next \in NodesOf(h) /\ Capacity(h, next) \in Nat
        /\ a + NodeSize + Capacity(h, a) = next
        /\ next + NodeSize + Capacity(h, next) <= h.brk
        /\ \A b \in NodesOf(h) : next < b => next + NodeSize + Capacity(h, next) <= b
  <2> SUFFICES ASSUME Coalesces(h, a)
               PROVE  /\ next \in NodesOf(h) /\ Capacity(h, next) \in Nat
                      /\ a + NodeSize + Capacity(h, a) = next
                      /\ next + NodeSize + Capacity(h, next) <= h.brk
                      /\ \A b \in NodesOf(h) : next < b => next + NodeSize + Capacity(h, next) <= b
    OBVIOUS
  <2>1. next \in NodesOf(h) /\ a # LastNode(h)
    BY CoalescesIs
  <2>2. a + NodeSize + Capacity(h, a) = next
    BY <2>1, CapacityIs, NodesAre
  <2> HIDE DEF next
  <2> QED BY <2>1, <2>2, CapacityIs, NodesAre
<1> HIDE DEF prev, next
<1>6. end \in Int /\ end <= h.brk
  <2>1. CASE Coalesces(h, a)
    BY <1>0, <1>5, <2>1
  <2>2. CASE ~Coalesces(h, a)
    BY <1>0, <1>4, <2>2
  <2> QED BY <2>1, <2>2
<1>7. \A b \in NodesOf(f) : prev < b => end <= b
  <2> SUFFICES ASSUME NEW b \in NodesOf(f), prev < b PROVE end <= b
    OBVIOUS
  <2>1. b \in NodesOf(h) /\ a < b /\ (Coalesces(h, a) => next < b)
    BY <1>3
  <2>2. CASE Coalesces(h, a)
    BY <1>5, <2>1, <2>2
  <2>3. CASE ~Coalesces(h, a)
    BY <1>4, <2>1, <2>3
  <2> QED BY <2>2, <2>3
<1>8. end <= prev + NodeSize + Capacity(f, prev)
  <2> HIDE DEF end
  <2> QED BY <1>3, <1>6, <1>7, CapacityAtLeast
<1>9. Capacity(f, prev) \in Nat
  BY <1>3, CapacityIs, NodesAre
<1>10. RoomAround(h, a) = Capacity(h, prev) + NodeSize + Capacity(h, a)
            + (IF Coalesces(h, a) THEN NodeSize + Capacity(h, next) ELSE 0)
  BY DEF RoomAround, prev, next
<1>11. RoomAround(h, a) <= Capacity(f, prev)
  <2>0. prev \in Nat /\ a \in Nat
    BY <1>0, <1>1
  <2>1. CASE Coalesces(h, a)
    <3>1. end = next + NodeSize + Capacity(h, next)
      BY <2>1
    <3>2. RoomAround(h, a) = Capacity(h, prev) + NodeSize + Capacity(h, a) + (NodeSize + Capacity(h, next))
      BY <1>10, <2>1
    <3> HIDE DEF end
    <3> QED BY <1>0, <1>4, <1>5, <1>8, <1>9, <2>0, <2>1, <3>1, <3>2
  <2>2. CASE ~Coalesces(h, a)
    <3>1. end = a + NodeSize + Capacity(h, a)
      BY <2>2
    <3>2. RoomAround(h, a) = Capacity(h, prev) + NodeSize + Capacity(h, a) + 0
      BY <1>10, <2>2
    <3> HIDE DEF end
    <3> QED BY <1>0, <1>4, <1>8, <1>9, <2>0, <3>1, <3>2
  <2> QED BY <2>1, <2>2
<1> QED BY <1>1, <1>3, <1>11 DEF f, prev

\* The first n bytes of the free node or new block b are those of another block.
LEMMA MovedInto ==
    ASSUME NEW f, IsHeap(f), NEW b \in NodesOf(f), NEW src \in Nat, NEW n \in Nat, n <= Capacity(f, b),
           NEW m, m = Moved(f, PtrOf(b), src, n)
    PROVE  /\ IsHeap(m) /\ m.size = f.size /\ m.brk = f.brk
           /\ DOMAIN m.mem = DOMAIN f.mem
           /\ \A i \in 0 .. n - 1 : PtrOf(b) + i \in DOMAIN f.mem => m.mem[PtrOf(b) + i] = f.mem[src + i]
           /\ \A c \in NodesOf(f) \ {b} : SameBytes(f, m, PtrOf(c), PtrOf(c), f.size[c])
<1>1. /\ NodeSize \in Nat /\ b \in Nat /\ \A c \in NodesOf(f) : c \in Nat /\ f.size[c] \in Nat
      /\ Capacity(f, b) \in Nat
  BY Units, NodesAre, CapacityIs
<1>2. PtrOf(b) \in Nat
  BY <1>1 DEF PtrOf
<1>3. /\ IsHeap(m) /\ m.size = f.size /\ m.brk = f.brk
      /\ DOMAIN m.mem = DOMAIN f.mem
      /\ \A i \in 0 .. n - 1 : PtrOf(b) + i \in DOMAIN f.mem => m.mem[PtrOf(b) + i] = f.mem[src + i]
      /\ \A x \in DOMAIN f.mem : x \in PtrOf(b) .. PtrOf(b) + n - 1 \/ m.mem[x] = f.mem[x]
  <2>1. CopiedTo(f, m, PtrOf(b), src, n)
    BY <1>2, MovedIs
  <2> QED BY <2>1 DEF CopiedTo
<1>4. ASSUME NEW c \in NodesOf(f), c # b, NEW j \in 0 .. f.size[c] - 1, PtrOf(c) + j \in DOMAIN f.mem
      PROVE  m.mem[PtrOf(c) + j] = f.mem[PtrOf(c) + j]
  <2>0. PtrOf(c) + j \in PtrOf(b) .. PtrOf(b) + n - 1 \/ m.mem[PtrOf(c) + j] = f.mem[PtrOf(c) + j]
    BY <1>3, <1>4
  <2> SUFFICES ASSUME PtrOf(c) + j \in PtrOf(b) .. PtrOf(b) + n - 1 PROVE FALSE
    BY <2>0
  <2>1. PtrOf(c) \in Nat /\ j \in Nat
    <3>1. c \in Nat /\ f.size[c] \in Nat
      BY <1>1
    <3> QED BY <1>1, <3>1 DEF PtrOf
  <2> DEFINE i == PtrOf(c) + j - PtrOf(b)
  <2>2. i \in 0 .. Capacity(f, b) - 1 /\ PtrOf(b) + i = PtrOf(c) + j
    BY <1>1, <1>2, <2>1
  <2> HIDE DEF i
  <2> QED BY <1>4, <2>2, BlocksApart
<1> QED BY <1>3, <1>4 DEF SameBytes

\* Case 3
LEMMA MovedDownIs ==
    ASSUME NEW h, IsHeap(h), Apart(h.size, {}, {}), NEW a \in Used(h), NEW n \in Nat \ {0},
           h.size[a] <= n,
           a > NodeBefore(h, a), h.size[NodeBefore(h, a)] = 0,
           AlignUp(n, Alignment) <= RoomAround(h, a)
    PROVE  /\ Reallocated(h, MovedDown(h, a, n), a, NodeBefore(h, a), n)
           /\ MovedDown(h, a, n).brk = h.brk
           /\ NodeBefore(h, a) # 0
<1> DEFINE f == FreeImpl(h, a)
           prev == NodeBefore(h, a)
           m == Moved(f, PtrOf(prev), PtrOf(a), h.size[a])
           r == Taken(m, prev, n)
           k == h.size[a]
<1>1. MovedDown(h, a, n) = r
  BY Zenon DEF MovedDown
<1>2. a \in NodesOf(h) /\ a \in Nat /\ k \in Nat /\ NodeSize \in Nat
  BY UsedIs, Units
<1>3. Freed(h, f, a)
  BY <1>2, FreeImplIs
<1>4. /\ prev \in NodesOf(h) /\ prev \in NodesOf(f)
      /\ RoomAround(h, a) <= Capacity(f, prev)
  BY <1>2, PreviousTakenIs
<1>5. prev \notin Used(h) /\ prev # 0
  BY <1>4, NoNullNode DEF Used
<1> HIDE DEF f, prev
<1>6. /\ IsHeap(f) /\ Apart(f.size, {}, {}) /\ f.brk = h.brk /\ f.mem = h.mem
      /\ Used(f) = Used(h) \ {a}
      /\ \A b \in Used(f) : f.size[b] = h.size[b]
  BY <1>3 DEF Freed
<1>7. /\ AlignUp(n, Alignment) <= Capacity(f, prev) /\ k <= Capacity(f, prev)
  <2>1. Capacity(f, prev) \in Nat
    BY <1>4, <1>6, CapacityIs, NodesAre
  <2>2. AlignUp(n, Alignment) \in Int /\ n <= AlignUp(n, Alignment)
    <3>1. n \in Int /\ Alignment \in Nat \ {0}
      BY Units
    <3> QED BY <3>1, AlignUpIs, Zenon
  <2>3. RoomAround(h, a) \in Int
    <3>1. Capacity(h, prev) \in Nat /\ Capacity(h, a) \in Nat
      BY <1>2, <1>4, CapacityIs, NodesAre
    <3>2. Coalesces(h, a) => Capacity(h, NodeAfter(h, a)) \in Nat
      BY <1>2, CoalescesIs, CapacityIs, NodesAre
    <3> DEFINE more == IF Coalesces(h, a) THEN NodeSize + Capacity(h, NodeAfter(h, a)) ELSE 0
    <3>3. more \in Nat
      BY <1>2, <3>2
    <3>4. RoomAround(h, a) = Capacity(h, prev) + NodeSize + Capacity(h, a) + more
      BY DEF RoomAround, prev
    <3> HIDE DEF more
    <3> QED BY <1>2, <3>1, <3>3, <3>4
  <2> QED BY <1>2, <1>4, <2>1, <2>2, <2>3
<1>8. PtrOf(a) \in Nat
  BY <1>2 DEF PtrOf
<1>9. /\ IsHeap(m) /\ m.size = f.size /\ m.brk = f.brk
      /\ DOMAIN m.mem = DOMAIN f.mem
      /\ \A i \in 0 .. k - 1 : PtrOf(prev) + i \in DOMAIN f.mem => m.mem[PtrOf(prev) + i] = f.mem[PtrOf(a) + i]
      /\ \A c \in NodesOf(f) \ {prev} : SameBytes(f, m, PtrOf(c), PtrOf(c), f.size[c])
  BY <1>2, <1>4, <1>6, <1>7, <1>8, MovedInto
<1> HIDE DEF m
<1>10. Resized(m, r, prev, n)
  <2>1. prev \in NodesOf(m) /\ Capacity(m, prev) = Capacity(f, prev)
    BY <1>4, <1>9 DEF NodesOf, Capacity, NodeAfter, LastNode
  <2> QED BY <1>6, <1>7, <1>9, <2>1, TakenIs
<1> HIDE DEF r
<1>11. /\ IsHeap(r) /\ Apart(r.size, {}, {}) /\ r.brk = h.brk
       /\ prev \in NodesOf(r) /\ r.size[prev] = n
       /\ Used(r) = (Used(h) \ {a}) \cup {prev}
       /\ \A b \in (Used(h) \ {a}) : r.size[b] = h.size[b]
       /\ HeadersOnly(m, r)
  <2>1. Used(m) = Used(f)
    BY <1>9 DEF Used, NodesOf
  <2> QED BY <1>5, <1>6, <1>9, <1>10, <2>1 DEF Resized
<1>12. DOMAIN r.mem = DOMAIN h.mem
  BY <1>6, <1>9, <1>11 DEF HeadersOnly
<1>13. ASSUME NEW b \in Used(h) \ {a}
       PROVE  b # prev /\ SameBytes(h, r, PtrOf(b), PtrOf(b), h.size[b])
  <2>1. b \in NodesOf(r) /\ b \in NodesOf(f) /\ b # prev /\ r.size[b] = h.size[b] /\ f.size[b] = h.size[b]
    BY <1>5, <1>6, <1>11, <1>13 DEF Used
  <2>2. SameBytes(m, r, PtrOf(b), PtrOf(b), r.size[b])
    BY <1>11, <2>1, BytesKept
  <2>3. SameBytes(f, m, PtrOf(b), PtrOf(b), f.size[b])
    BY <1>9, <2>1
  <2> QED BY <1>6, <1>9, <2>1, <2>2, <2>3 DEF SameBytes
<1>14. \A i \in 0 .. n - 1 : (i < k /\ PtrOf(a) + i \in DOMAIN h.mem /\ PtrOf(prev) + i \in DOMAIN h.mem)
            => r.mem[PtrOf(prev) + i] = h.mem[PtrOf(a) + i]
  <2> SUFFICES ASSUME NEW i \in 0 .. n - 1, i < k, PtrOf(prev) + i \in DOMAIN h.mem
               PROVE  r.mem[PtrOf(prev) + i] = h.mem[PtrOf(a) + i]
    OBVIOUS
  <2>1. SameBytes(m, r, PtrOf(prev), PtrOf(prev), n)
    BY <1>11, BytesKept
  <2>2. r.mem[PtrOf(prev) + i] = m.mem[PtrOf(prev) + i]
    BY <1>6, <1>9, <2>1 DEF SameBytes
  <2>3. i \in 0 .. k - 1
    BY <1>2
  <2> QED BY <1>6, <1>9, <2>2, <2>3
<1>15. Becomes(h, r, {a}, {prev})
  BY <1>11, <1>12, <1>13 DEF Becomes
<1>16. Reallocated(h, r, a, prev, n)
  BY <1>11, <1>14, <1>15 DEF Reallocated, k
<1> QED BY <1>1, <1>5, <1>11, <1>16 DEF prev

\* Case 4
LEMMA ReallocByMallocIs ==
    ASSUME NEW h, IsHeap(h), Apart(h.size, {}, {}), NEW s, SystemHas(s, h.brk), NEW a \in Used(h),
           NEW n \in Nat \ {0}, h.size[a] <= n, NEW o \in ReallocByMalloc(h, s, a, n)
    PROVE  Replied(h, s, o, a, n)
<1>1. PICK p \in MallocOutcomes(h, s, n) :
        o = IF p.node = 0 THEN p
            ELSE LET m == Moved(FreeImpl(p.heap, a), PtrOf(p.node), PtrOf(a), h.size[a])
                 IN  Outcome([m EXCEPT !.cursor = NodeAfter(m, p.node)], p.os, p.node)
  BY Zenon DEF ReallocByMalloc
<1>2. Served(h, s, p, n)
  BY MallocIs
<1>3. CASE p.node = 0
  BY <1>1, <1>2, <1>3 DEF Served, Replied
<1>4. CASE p.node # 0
  <2> DEFINE g == p.heap
             b == p.node
             k == h.size[a]
             f == FreeImpl(g, a)
             m == Moved(f, PtrOf(b), PtrOf(a), k)
             r == [m EXCEPT !.cursor = NodeAfter(m, b)]
  <2>1. o = Outcome(r, p.os, b)
    BY <1>1, <1>4
  <2>2. SystemHas(p.os, g.brk) /\ b # 0 /\ b \notin Used(h) /\ Allocated(h, g, b, n)
    BY <1>2, <1>4 DEF Served
  <2> HIDE DEF g, b
  <2>3. /\ IsHeap(g) /\ Apart(g.size, {}, {}) /\ DOMAIN g.mem = DOMAIN h.mem
        /\ Used(g) = Used(h) \cup {b} /\ g.size[b] = n
        /\ \A c \in Used(h) : c # b /\ g.size[c] = h.size[c] /\ SameBytes(h, g, PtrOf(c), PtrOf(c), h.size[c])
    BY <2>2 DEF Allocated, Becomes
  <2>4. a \in NodesOf(g) /\ a \in Nat /\ k \in Nat /\ a # b
    BY <2>2, <2>3, UsedIs
  <2>5. Freed(g, f, a)
    BY <2>3, <2>4, FreeImplIs
  <2> HIDE DEF f
  <2>6. /\ IsHeap(f) /\ Apart(f.size, {}, {}) /\ f.brk = g.brk /\ f.mem = g.mem
        /\ Used(f) = (Used(h) \ {a}) \cup {b}
        /\ f.size[b] = n
        /\ \A c \in Used(h) \ {a} : f.size[c] = h.size[c]
    BY <2>3, <2>4, <2>5 DEF Freed
  <2>7. b \in NodesOf(f)
    BY <2>6, UsedIs
  <2>8. n <= Capacity(f, b) /\ Capacity(f, b) \in Nat
    BY <2>6, <2>7, CapacityIs, NodesAre
  <2>9. k <= Capacity(f, b) /\ PtrOf(a) \in Nat
    BY <2>4, <2>8, Units DEF PtrOf
  <2>10. /\ IsHeap(m) /\ m.size = f.size /\ m.brk = f.brk
         /\ DOMAIN m.mem = DOMAIN f.mem
         /\ \A i \in 0 .. k - 1 : PtrOf(b) + i \in DOMAIN f.mem => m.mem[PtrOf(b) + i] = f.mem[PtrOf(a) + i]
         /\ \A c \in NodesOf(f) \ {b} : SameBytes(f, m, PtrOf(c), PtrOf(c), f.size[c])
    <3> HIDE DEF m, k
    <3>1. m = Moved(f, PtrOf(b), PtrOf(a), k)
      BY DEF m
    <3>2. IsHeap(f) /\ PtrOf(a) \in Nat /\ k \in Nat /\ k <= Capacity(f, b)
      BY <2>4, <2>6, <2>9
    <3> QED BY <2>7, <3>1, <3>2, MovedInto
  <2> HIDE DEF m
  <2>11. IsHeap(r) /\ r.size = f.size /\ r.brk = g.brk /\ r.mem = m.mem
    BY <2>6, <2>10, CursorIs
  <2> HIDE DEF r
  <2>12. Used(r) = Used(f) /\ DOMAIN r.mem = DOMAIN h.mem
    BY <2>3, <2>6, <2>10, <2>11 DEF Used, NodesOf
  <2>13. ASSUME NEW c \in Used(h) \ {a}
         PROVE  c # b /\ r.size[c] = h.size[c] /\ SameBytes(h, r, PtrOf(c), PtrOf(c), h.size[c])
    <3>1. c # b /\ c \in NodesOf(f) /\ f.size[c] = h.size[c]
      BY <2>2, <2>6, <2>13 DEF Used
    <3>2. SameBytes(h, g, PtrOf(c), PtrOf(c), h.size[c]) /\ SameBytes(f, m, PtrOf(c), PtrOf(c), f.size[c])
      BY <2>3, <2>10, <2>13, <3>1
    <3>3. SameBytes(h, r, PtrOf(c), PtrOf(c), h.size[c])
      BY <2>3, <2>6, <2>11, <3>1, <3>2 DEF SameBytes
    <3> QED BY <2>11, <3>1, <3>3
  <2>14. Becomes(h, r, {a}, {b})
    BY <2>6, <2>11, <2>12, <2>13 DEF Becomes
  <2>15. \A i \in 0 .. n - 1 : (i < k /\ PtrOf(a) + i \in DOMAIN h.mem /\ PtrOf(b) + i \in DOMAIN h.mem)
            => r.mem[PtrOf(b) + i] = h.mem[PtrOf(a) + i]
    <3> SUFFICES ASSUME NEW i \in 0 .. n - 1, i < k, PtrOf(a) + i \in DOMAIN h.mem, PtrOf(b) + i \in DOMAIN h.mem
                 PROVE  r.mem[PtrOf(b) + i] = h.mem[PtrOf(a) + i]
      OBVIOUS
    <3>1. i \in 0 .. k - 1
      BY <2>4
    <3>2. r.mem[PtrOf(b) + i] = g.mem[PtrOf(a) + i]
      BY <2>3, <2>6, <2>10, <2>11, <3>1
    <3>3. g.mem[PtrOf(a) + i] = h.mem[PtrOf(a) + i]
      <4>1. SameBytes(h, g, PtrOf(a), PtrOf(a), k)
        BY <2>3
      <4> QED BY <3>1, <4>1 DEF SameBytes
    <3> QED BY <3>2, <3>3
  <2>16. Reallocated(h, r, a, b, n)
    BY <2>6, <2>11, <2>14, <2>15 DEF Reallocated, k
  <2>17. o.heap = r /\ o.os = p.os /\ o.node = b
    BY <2>1, OutcomeIs
  <2> QED BY <2>2, <2>11, <2>16, <2>17 DEF Replied
<1> QED BY <1>3, <1>4

\* ama_realloc, whichever of its cases it comes to
LEMMA ReallocIs ==
    ASSUME NEW h, IsHeap(h), Apart(h.size, {}, {}), NEW s, SystemHas(s, h.brk), NEW a \in Used(h),
           NEW n \in Nat, NEW o \in ReallocOutcomes(h, s, a, n)
    PROVE  Replied(h, s, o, a, n)
<1> DEFINE c == AlignUp(n, Alignment)
           next == NodeAfter(h, a)
           g == NodeRemoved(h, next)
<1>0. /\ a \in NodesOf(h) /\ a # 0 /\ h.size[a] \in Nat
      /\ Capacity(h, a) \in Nat /\ Capacity(h, a) % Alignment = 0 /\ h.size[a] <= Capacity(h, a)
      /\ Alignment \in Nat \ {0} /\ n \in Int
  <2>1. a \in NodesOf(h) /\ h.size[a] \in Nat
    BY UsedIs
  <2> QED BY <2>1, NoNullNode, CapacityIs, NodesAre, Units
<1>1. c \in Int /\ (c <= Capacity(h, a) <=> n <= Capacity(h, a))
  <2>1. c \in Int
    BY <1>0, AlignUpIs, Zenon
  <2>2. Capacity(h, a) \in Int
    BY <1>0
  <2> QED BY <1>0, <2>1, <2>2, AlignedRoom, Zenon
<1>2. CASE n = 0
  <2>1. o = Outcome(h, s, 0)
    BY <1>2, Zenon DEF ReallocOutcomes
  <2> QED BY <2>1, OutcomeIs DEF Replied
<1>3. CASE n # 0 /\ c <= Capacity(h, a)
  <2> DEFINE r == Taken(h, a, n)
  <2>1. o = Outcome(r, s, a)
    BY <1>3, Zenon DEF ReallocOutcomes
  <2>2. Resized(h, r, a, n) /\ n \in Nat \ {0}
    BY <1>0, <1>3, TakenIs
  <2> HIDE DEF r, c
  <2>3. Reallocated(h, r, a, a, n)
    BY <2>2, ResizedInPlace
  <2>4. r.brk = h.brk /\ o.heap = r /\ o.os = s /\ o.node = a
    BY <2>1, <2>2, OutcomeIs DEF Resized
  <2> QED BY <1>0, <2>3, <2>4 DEF Replied
<1>4. CASE n # 0 /\ ~(c <= Capacity(h, a)) /\ NextHelps(h, a, c)
  <2> DEFINE r == Taken(g, a, n)
  <2>1. o = Outcome(r, s, a)
    BY <1>4, Zenon DEF ReallocOutcomes
  <2>2. Coalesces(h, a) /\ Capacity(h, a) + NodeSize + Capacity(h, next) >= c
    BY <1>4 DEF NextHelps
  <2>3. /\ IsHeap(g) /\ Apart(g.size, {}, {}) /\ g.brk = h.brk /\ g.mem = h.mem
        /\ a \in NodesOf(g) /\ Used(g) = Used(h) /\ \A b \in Used(h) : g.size[b] = h.size[b]
        /\ Capacity(h, a) + NodeSize + Capacity(h, next) <= Capacity(g, a)
    BY <1>0, <2>2, NextTakenIs
  <2>4. c <= Capacity(g, a)
    <3>1. Capacity(h, next) \in Nat /\ Capacity(g, a) \in Nat /\ NodeSize \in Nat
      BY <1>0, <2>2, <2>3, CoalescesIs, CapacityIs, NodesAre, Units
    <3> HIDE DEF c, g, next
    <3> QED BY <1>0, <1>1, <2>2, <2>3, <3>1
  <2> HIDE DEF g
  <2>5. Resized(g, r, a, n) /\ n \in Nat \ {0}
    BY <1>4, <2>3, <2>4, TakenIs
  <2> HIDE DEF r, c
  <2>6. Reallocated(h, r, a, a, n)
    BY <2>3, <2>5, ResizedInPlace
  <2>7. r.brk = h.brk /\ o.heap = r /\ o.os = s /\ o.node = a
    BY <2>1, <2>3, <2>5, OutcomeIs DEF Resized
  <2> QED BY <1>0, <2>6, <2>7 DEF Replied
<1>5. n # 0 /\ ~(c <= Capacity(h, a)) => n \in Nat \ {0} /\ h.size[a] <= n
  <2> HIDE DEF c
  <2> QED BY <1>0, <1>1
<1>6. CASE n # 0 /\ ~(c <= Capacity(h, a)) /\ ~NextHelps(h, a, c) /\ PreviousHelps(h, a, c)
  <2> DEFINE prev == NodeBefore(h, a)
             r == MovedDown(h, a, n)
  <2>1. o = Outcome(r, s, prev)
    BY <1>6, Zenon DEF ReallocOutcomes
  <2>2. a > prev /\ h.size[prev] = 0 /\ c <= RoomAround(h, a)
    BY <1>6, Zenon DEF PreviousHelps, RoomAround
  <2>3. Reallocated(h, r, a, prev, n) /\ r.brk = h.brk /\ prev # 0
    BY <1>5, <1>6, <2>2, MovedDownIs
  <2> HIDE DEF r, prev
  <2>4. o.heap = r /\ o.os = s /\ o.node = prev
    BY <2>1, OutcomeIs
  <2> QED BY <2>3, <2>4 DEF Replied
<1>7. CASE n # 0 /\ ~(c <= Capacity(h, a)) /\ ~NextHelps(h, a, c) /\ ~PreviousHelps(h, a, c)
  <2>1. o \in ReallocByMalloc(h, s, a, n)
    BY <1>7, Zenon DEF ReallocOutcomes
  <2> QED BY <1>5, <1>7, <2>1, ReallocByMallocIs
<1> QED BY <1>2, <1>3, <1>4, <1>6, <1>7

-----------------------------------------------------------------------------
(***************************************************************************)
(* The heap: the invariant                                                 *)
(***************************************************************************)

\* What the client and the forgetting leave of the memory.
Filled(h, r, o, a, from) ==
    /\ IsHeap(r) /\ r.size = h.size /\ r.brk = h.brk /\ DOMAIN r.mem = DOMAIN h.mem
    /\ \A b \in Used(h) : \A i \in 0 .. h.size[b] - 1 : PtrOf(b) + i \in DOMAIN h.mem =>
            r.mem[PtrOf(b) + i] = IF a # 0 /\ b = a /\ i >= from THEN o[a] ELSE h.mem[PtrOf(b) + i]

\* The client fills what is new of its block; what is in no block may be anything.
LEMMA MemoryAfterIs ==
    ASSUME NEW h, IsHeap(h), NEW o, NEW a, a = 0 \/ a \in Used(h), NEW from \in Nat
    PROVE  Filled(h, MemoryAfter(h, o, a, from), o, a, from)
<1> DEFINE r == MemoryAfter(h, o, a, from)
           m == [x \in DOMAIN h.mem |->
                    IF a # 0 /\ x \in PtrOf(a) + from .. PtrOf(a) + h.size[a] - 1 THEN o[a]
                    ELSE IF \E b \in Used(h) : x \in PtrOf(b) .. PtrOf(b) + h.size[b] - 1
                    THEN h.mem[x] ELSE 0]
<1>1. r = [h EXCEPT !.mem = m]
  BY Zenon DEF MemoryAfter
<1>2. m = [x \in DOMAIN m |-> m[x]] /\ DOMAIN m = DOMAIN h.mem
  OBVIOUS
<1>3. ASSUME NEW b \in Used(h), NEW i \in 0 .. h.size[b] - 1, PtrOf(b) + i \in DOMAIN h.mem
      PROVE  m[PtrOf(b) + i] = IF a # 0 /\ b = a /\ i >= from THEN o[a] ELSE h.mem[PtrOf(b) + i]
  <2> DEFINE x == PtrOf(b) + i
  <2>1. b \in NodesOf(h) /\ b \in Nat /\ h.size[b] \in Nat /\ PtrOf(b) \in Nat /\ i \in Nat
    BY UsedIs, Units DEF PtrOf
  <2>2. x \in PtrOf(b) .. PtrOf(b) + h.size[b] - 1
    BY <2>1
  <2>3. (a # 0 /\ x \in PtrOf(a) + from .. PtrOf(a) + h.size[a] - 1) <=> (a # 0 /\ b = a /\ i >= from)
    <3>1. CASE a = 0
      BY <3>1
    <3>2. CASE a # 0 /\ b = a
      BY <2>1, <3>2
    <3>3. CASE a # 0 /\ b # a
      <4>1. a \in NodesOf(h) /\ PtrOf(a) \in Nat /\ h.size[a] \in Nat /\ h.size[a] <= Capacity(h, a) /\ Capacity(h, a) \in Nat
        <5>1. a \in NodesOf(h) /\ a \in Nat /\ h.size[a] \in Nat
          BY <3>3, UsedIs
        <5> QED BY <5>1, CapacityIs, NodesAre, Units DEF PtrOf
      <4>2. ASSUME x \in PtrOf(a) + from .. PtrOf(a) + h.size[a] - 1 PROVE FALSE
        <5> DEFINE j == x - PtrOf(a)
        <5>1. j \in 0 .. Capacity(h, a) - 1 /\ PtrOf(a) + j = PtrOf(b) + i
          BY <2>1, <4>1, <4>2
        <5> HIDE DEF j, x
        <5> QED BY <2>1, <3>3, <4>1, <5>1, BlocksApart
      <4> QED BY <3>3, <4>2
    <3> QED BY <3>1, <3>2, <3>3
  <2>4. m[x] = IF a # 0 /\ x \in PtrOf(a) + from .. PtrOf(a) + h.size[a] - 1 THEN o[a]
               ELSE IF \E c \in Used(h) : x \in PtrOf(c) .. PtrOf(c) + h.size[c] - 1
               THEN h.mem[x] ELSE 0
    BY <1>3
  <2> HIDE DEF m, x
  <2> QED BY <2>2, <2>3, <2>4 DEF x
<1> HIDE DEF m, r
<1>4. IsHeap(r) /\ r.size = h.size /\ r.brk = h.brk /\ r.mem = m
  BY <1>1, <1>2, MemIs
<1>5. Filled(h, r, o, a, from)
  BY <1>2, <1>3, <1>4 DEF Filled
<1> QED BY <1>5 DEF r

\* Every block has an owner of its own, whose number is in every byte of it.
Owned(h, o) ==
    /\ o \in [Used(h) -> Clients]
    /\ \A a, b \in Used(h) : o[a] = o[b] => a = b
    /\ \A a \in Used(h) : \A i \in 0 .. h.size[a] - 1 : h.mem[PtrOf(a) + i] = o[a]

\* The parts of the inductive invariant
Sound(h, s, o) ==
    /\ IsHeap(h) /\ Apart(h.size, {}, {})
    /\ DOMAIN h.mem = HeapStart .. HeapLimit - 1
    /\ SystemHas(s, h.brk)
    /\ Owned(h, o)

\* The inductive invariant: a heap laid out, with no two free neighbours, over pages
\* that are mapped, whose blocks have owners.
HeapInv == Sound(heap, os, owner)

\* The bytes of a block are within the heap.
LEMMA BytesAre ==
    ASSUME NEW h, IsHeap(h), NEW s, SystemHas(s, h.brk), NEW a \in NodesOf(h),
           NEW i \in 0 .. h.size[a] - 1
    PROVE  PtrOf(a) + i \in HeapStart .. HeapLimit - 1
<1>1. /\ a \in Nat /\ h.size[a] \in Nat /\ HeapStart <= a /\ a + NodeSize + h.size[a] <= h.brk
      /\ h.brk \in Nat
  BY NodesAre
<1>2. h.brk <= HeapLimit /\ HeapLimit \in Nat /\ HeapStart \in Nat /\ NodeSize \in Nat
  BY Units DEF SystemHas
<1> QED BY <1>1, <1>2 DEF PtrOf

\* ama_init makes one free node of the first page.
LEMMA HeapInitInv == AmallocInit => HeapInv
<1> SUFFICES ASSUME AmallocInit PROVE HeapInv
  OBVIOUS
<1> DEFINE z == [a \in {HeapStart} |-> 0]
           m == [x \in HeapStart .. HeapLimit - 1 |-> 0]
<1>1. /\ heap = [size |-> z, brk |-> InitialBrk, cursor |-> HeapStart, mem |-> m]
      /\ os = [brk |-> InitialBrk, mapped |-> HeapPageOf(HeapStart) .. HeapPageOf(InitialBrk - 1)]
      /\ owner = << >>
  BY DEF AmallocInit
<1>2. Laid(z, InitialBrk)
  <2>1. HeapStart \in Nat /\ HeapStart % Alignment = 0 /\ InitialBrk \in Nat /\ InitialBrk % Alignment = 0
        /\ HeapStart + NodeSize + Alignment <= InitialBrk
        /\ NodeSize \in Nat /\ Alignment \in Nat
    BY Units
  <2> QED BY <2>1 DEF Laid
<1>3. DOMAIN z = {HeapStart} /\ z[HeapStart] = 0 /\ m = [x \in DOMAIN m |-> m[x]]
      /\ DOMAIN m = HeapStart .. HeapLimit - 1
  OBVIOUS
<1> HIDE DEF z, m
<1>4. IsHeap(heap) /\ heap.size = z /\ heap.brk = InitialBrk /\ heap.mem = m
  <2>1. MadeOf(heap, z, InitialBrk, HeapStart, m)
    BY <1>1, <1>2, <1>3 DEF MadeOf
  <2> QED BY <2>1, HeapMadeOf
<1>5. Used(heap) = {}
  BY <1>3, <1>4 DEF Used, NodesOf
<1>6. SystemHas(os, heap.brk)
  <2>1. os.mapped = HeapPageOf(HeapStart) .. HeapPageOf(InitialBrk - 1)
        /\ os = [brk |-> InitialBrk, mapped |-> os.mapped]
    BY <1>1
  <2>2. InitialBrk \in Nat /\ InitialBrk <= InitialBrk /\ InitialBrk <= HeapLimit
    BY Units
  <2> QED BY <1>4, <2>1, <2>2 DEF SystemHas
<1>7. owner \in [Used(heap) -> Clients]
  BY <1>1, <1>5
<1>8. Apart(heap.size, {}, {})
  <2>1. HeapStart \in Nat
    BY Units
  <2> QED BY <1>3, <1>4, <2>1 DEF Apart
<1>9. Owned(heap, owner)
  BY <1>5, <1>7 DEF Owned
<1> QED BY <1>3, <1>4, <1>6, <1>7, <1>8, <1>9 DEF HeapInv, Sound

-----------------------------------------------------------------------------
(***************************************************************************)
(* The heap: the inductive step                                            *)
(***************************************************************************)

\* The blocks of h2 are those of h, without X and with Y.
Replaces(h, o, h2, o2, X, Y) ==
    /\ Used(h2) = (Used(h) \ X) \cup Y
    /\ \A a \in Used(h) \ X : a \notin Y /\ h2.size[a] = h.size[a] /\ o2[a] = o[a]

\* r has a block at b for the client c, which has its first bytes already.
GivenTo(h, o, X, r, b, c, from) ==
    /\ Becomes(h, r, X, {b}) /\ b # 0 /\ r.size[b] \in Nat \ {0}
    /\ c \in Clients /\ \A a \in Used(h) \ X : o[a] # c
    /\ from \in Nat /\ \A i \in 0 .. r.size[b] - 1 : i < from => r.mem[PtrOf(b) + i] = c

\* A block is made, or made out of another.
LEMMA BlockMade ==
    ASSUME NEW h, NEW s, NEW o, Sound(h, s, o), NEW X, NEW r, NEW q, NEW b, NEW c, NEW from,
           GivenTo(h, o, X, r, b, c, from), SystemHas(q, r.brk),
           NEW known, known = [a \in Used(r) |-> IF a = b THEN c ELSE o[a]]
    PROVE  /\ Sound(MemoryAfter(r, known, b, from), q, known)
           /\ Replaces(h, o, MemoryAfter(r, known, b, from), known, X, {b})
<1> DEFINE r2 == MemoryAfter(r, known, b, from)
<1>0. /\ Becomes(h, r, X, {b}) /\ b # 0 /\ r.size[b] \in Nat \ {0}
      /\ c \in Clients /\ \A a \in Used(h) \ X : o[a] # c
      /\ from \in Nat /\ \A i \in 0 .. r.size[b] - 1 : i < from => r.mem[PtrOf(b) + i] = c
  BY DEF GivenTo
<1>1. /\ IsHeap(h) /\ DOMAIN h.mem = HeapStart .. HeapLimit - 1
      /\ SystemHas(s, h.brk) /\ o \in [Used(h) -> Clients]
      /\ \A x, y \in Used(h) : o[x] = o[y] => x = y
      /\ \A a \in Used(h) : \A i \in 0 .. h.size[a] - 1 : h.mem[PtrOf(a) + i] = o[a]
  BY DEF Sound, Owned
<1>2. /\ IsHeap(r) /\ Apart(r.size, {}, {})
      /\ DOMAIN r.mem = DOMAIN h.mem
      /\ Used(r) = (Used(h) \ X) \cup {b}
      /\ \A a \in Used(h) \ X :
            a # b /\ r.size[a] = h.size[a] /\ SameBytes(h, r, PtrOf(a), PtrOf(a), h.size[a])
  BY <1>0 DEF Becomes
<1>3. Filled(r, r2, known, b, from)
  <2>1. b \in Used(r)
    BY <1>2
  <2> QED BY <1>0, <1>2, <2>1, MemoryAfterIs
<1> HIDE DEF r2
<1>4. /\ IsHeap(r2) /\ r2.size = r.size /\ r2.brk = r.brk /\ DOMAIN r2.mem = DOMAIN r.mem
      /\ Used(r2) = Used(r)
  BY <1>3 DEF Filled, Used, NodesOf
<1>5. /\ known \in [Used(r2) -> Clients] /\ known[b] = c
      /\ \A a \in Used(h) \ X : known[a] = o[a]
  BY <1>0, <1>1, <1>2, <1>4
<1>6. \A x, y \in Used(r2) : known[x] = known[y] => x = y
  BY <1>0, <1>1, <1>2, <1>4, <1>5
<1>7. ASSUME NEW a \in Used(r2), NEW i \in 0 .. r2.size[a] - 1
      PROVE  r2.mem[PtrOf(a) + i] = known[a]
  <2>0. a \in Used(r) /\ i \in 0 .. r.size[a] - 1 /\ i \in Nat
    BY <1>4
  <2>1. PtrOf(a) + i \in DOMAIN r.mem
    <3>1. a \in NodesOf(r)
      BY <1>2, <2>0, UsedIs
    <3>2. PtrOf(a) + i \in HeapStart .. HeapLimit - 1
      BY <1>2, <2>0, <3>1, BytesAre
    <3> QED BY <1>1, <1>2, <3>2
  <2>2. r2.mem[PtrOf(a) + i] = IF b # 0 /\ a = b /\ i >= from THEN known[b] ELSE r.mem[PtrOf(a) + i]
    BY <1>3, <2>0, <2>1 DEF Filled
  <2>3. CASE a = b /\ i >= from
    BY <1>0, <2>2, <2>3
  <2>4. CASE a = b /\ ~(i >= from)
    <3>1. r2.mem[PtrOf(a) + i] = r.mem[PtrOf(a) + i] /\ i < from
      BY <1>0, <2>0, <2>2, <2>4
    <3> QED BY <1>0, <1>5, <2>0, <2>4, <3>1
  <2>5. CASE a # b
    <3>1. a \in Used(h) \ X /\ r.size[a] = h.size[a] /\ SameBytes(h, r, PtrOf(a), PtrOf(a), h.size[a])
      BY <1>2, <2>0, <2>5
    <3>2. r.mem[PtrOf(a) + i] = h.mem[PtrOf(a) + i]
      BY <1>2, <2>0, <2>1, <3>1 DEF SameBytes
    <3>3. h.mem[PtrOf(a) + i] = o[a]
      BY <1>1, <2>0, <3>1
    <3> QED BY <1>5, <2>2, <2>5, <3>1, <3>2, <3>3
  <2> QED BY <2>3, <2>4, <2>5
<1>8. Owned(r2, known)
  BY <1>5, <1>6, <1>7 DEF Owned
<1>9. Sound(r2, q, known)
  BY <1>1, <1>2, <1>4, <1>8 DEF Sound
<1>10. Replaces(h, o, r2, known, X, {b})
  BY <1>2, <1>4, <1>5 DEF Replaces
<1> QED BY <1>9, <1>10 DEF r2

\* No block is made.
LEMMA BlocksKept ==
    ASSUME NEW h, NEW s, NEW o, Sound(h, s, o), NEW X, NEW r, NEW q,
           Becomes(h, r, X, {}), SystemHas(q, r.brk), NEW from \in Nat, NEW others,
           NEW known, known = [a \in Used(r) |-> o[a]]
    PROVE  /\ Sound(MemoryAfter(r, others, 0, from), q, known)
           /\ Replaces(h, o, MemoryAfter(r, others, 0, from), known, X, {})
<1> DEFINE r2 == MemoryAfter(r, others, 0, from)
<1>1. /\ IsHeap(h) /\ DOMAIN h.mem = HeapStart .. HeapLimit - 1
      /\ SystemHas(s, h.brk) /\ o \in [Used(h) -> Clients]
      /\ \A x, y \in Used(h) : o[x] = o[y] => x = y
      /\ \A a \in Used(h) : \A i \in 0 .. h.size[a] - 1 : h.mem[PtrOf(a) + i] = o[a]
  BY DEF Sound, Owned
<1>2. /\ IsHeap(r) /\ Apart(r.size, {}, {})
      /\ DOMAIN r.mem = DOMAIN h.mem
      /\ Used(r) = Used(h) \ X
      /\ \A a \in Used(h) \ X :
            r.size[a] = h.size[a] /\ SameBytes(h, r, PtrOf(a), PtrOf(a), h.size[a])
  BY DEF Becomes
<1>3. Filled(r, r2, others, 0, from)
  BY <1>2, MemoryAfterIs
<1> HIDE DEF r2
<1>4. /\ IsHeap(r2) /\ r2.size = r.size /\ r2.brk = r.brk /\ DOMAIN r2.mem = DOMAIN r.mem
      /\ Used(r2) = Used(r)
  BY <1>3 DEF Filled, Used, NodesOf
<1>5. known \in [Used(r2) -> Clients] /\ \A a \in Used(h) \ X : known[a] = o[a]
  BY <1>1, <1>2, <1>4
<1>6. \A x, y \in Used(r2) : known[x] = known[y] => x = y
  BY <1>1, <1>2, <1>4, <1>5
<1>7. ASSUME NEW a \in Used(r2), NEW i \in 0 .. r2.size[a] - 1
      PROVE  r2.mem[PtrOf(a) + i] = known[a]
  <2>0. a \in Used(r) /\ i \in 0 .. r.size[a] - 1
    BY <1>4
  <2>1. PtrOf(a) + i \in DOMAIN r.mem
    <3>1. a \in NodesOf(r)
      BY <1>2, <2>0, UsedIs
    <3>2. PtrOf(a) + i \in HeapStart .. HeapLimit - 1
      BY <1>2, <2>0, <3>1, BytesAre
    <3> QED BY <1>1, <1>2, <3>2
  <2>2. r2.mem[PtrOf(a) + i] = r.mem[PtrOf(a) + i]
    BY <1>3, <2>0, <2>1 DEF Filled
  <2>3. a \in Used(h) \ X /\ r.size[a] = h.size[a] /\ SameBytes(h, r, PtrOf(a), PtrOf(a), h.size[a])
    BY <1>2, <2>0
  <2>4. r.mem[PtrOf(a) + i] = h.mem[PtrOf(a) + i]
    BY <1>2, <2>0, <2>1, <2>3 DEF SameBytes
  <2>5. h.mem[PtrOf(a) + i] = o[a]
    BY <1>1, <2>0, <2>3
  <2> QED BY <1>5, <2>2, <2>3, <2>4, <2>5
<1>8. Owned(r2, known)
  BY <1>5, <1>6, <1>7 DEF Owned
<1>9. Sound(r2, q, known)
  BY <1>1, <1>2, <1>4, <1>8 DEF Sound
<1>10. Replaces(h, o, r2, known, X, {})
  BY <1>2, <1>4, <1>5 DEF Replaces
<1> QED BY <1>9, <1>10 DEF r2

\* The client that gets a new block has none.
LEMMA FreeClientIs ==
    ASSUME FreeClients # {}
    PROVE  Min(FreeClients) \in Clients /\ \A a \in DOMAIN owner : owner[a] # Min(FreeClients)
<1>1. FreeClients \subseteq Nat
  BY AmallocAssumption DEF FreeClients
<1>2. \E m \in FreeClients : \A n \in FreeClients : m <= n
  BY <1>1, LeastNumber
<1>3. Min(FreeClients) \in FreeClients
  BY <1>2, MinIs
<1> QED BY <1>3 DEF FreeClients

\* malloc adds a block, or changes nothing.
LEMMA HeapMallocStep ==
    ASSUME HeapInv, NEW n \in Sizes, HeapMalloc(n)
    PROVE  /\ HeapInv'
           /\ \/ Replaces(heap, owner, heap', owner', {}, {})
              \/ \E b \in Used(heap)' : Replaces(heap, owner, heap', owner', {}, {b})
<1> DEFINE known(r) == [a \in Used(r.heap) |-> IF a = r.node THEN Min(FreeClients) ELSE owner[a]]
<1>1. PICK r \in MallocOutcomes(heap, os, n) :
        /\ FreeClients # {}
        /\ heap' = MemoryAfter(r.heap, known(r), r.node, 0)
        /\ os' = r.os
        /\ owner' = known(r)
  BY Zenon DEF HeapMalloc
<1>2. /\ Sound(heap, os, owner) /\ IsHeap(heap) /\ Apart(heap.size, {}, {}) /\ SystemHas(os, heap.brk)
      /\ owner \in [Used(heap) -> Clients] /\ n \in Nat
  BY AmallocAssumption DEF HeapInv, Sound, Owned
<1>3. Served(heap, os, r, n)
  BY <1>2, MallocIs
<1> DEFINE k == known(r)
<1>4. CASE r.node = 0
  <2>1. r.heap = heap /\ SystemHas(r.os, heap.brk)
    BY <1>3, <1>4 DEF Served
  <2>2. k = [a \in Used(heap) |-> owner[a]]
    <3>1. 0 \notin Used(heap)
      BY <1>2, NoNullNode, UsedIs
    <3> QED BY <1>4, <2>1, <3>1
  <2>3. Becomes(heap, heap, {}, {})
    BY <1>2 DEF Becomes, SameBytes
  <2> HIDE DEF k
  <2>4. heap' = MemoryAfter(heap, k, 0, 0) /\ os' = r.os /\ owner' = k
    BY <1>1, <1>4, <2>1 DEF k
  <2>5. 0 \in Nat
    OBVIOUS
  <2>6. Sound(heap', os', owner') /\ Replaces(heap, owner, heap', owner', {}, {})
    BY <1>2, <2>1, <2>2, <2>3, <2>4, <2>5, BlocksKept
  <2> QED BY <2>6 DEF HeapInv
<1>5. CASE r.node # 0
  <2> DEFINE b == r.node
             c == Min(FreeClients)
  <2>1. SystemHas(r.os, r.heap.brk) /\ Becomes(heap, r.heap, {}, {b}) /\ r.heap.size[b] = n
    BY <1>3, <1>5 DEF Served, Allocated
  <2>2. c \in Clients /\ \A a \in Used(heap) \ {} : owner[a] # c
    BY <1>1, <1>2, FreeClientIs
  <2>3. b \in Used(r.heap)
    BY <2>1 DEF Becomes
  <2>4. r.heap.size[b] \in Nat \ {0}
    BY <2>1, <2>3, UsedIs DEF Becomes
  <2>5. \A i \in 0 .. r.heap.size[b] - 1 : i < 0 => r.heap.mem[PtrOf(b) + i] = c
    OBVIOUS
  <2>6. k = [a \in Used(r.heap) |-> IF a = b THEN c ELSE owner[a]]
    OBVIOUS
  <2>7. heap' = MemoryAfter(r.heap, k, b, 0) /\ os' = r.os /\ owner' = k /\ b # 0 /\ 0 \in Nat
    BY <1>1, <1>5
  <2> HIDE DEF k, b, c
  <2>8. Sound(heap', os', owner') /\ Replaces(heap, owner, heap', owner', {}, {b})
    <3>1. GivenTo(heap, owner, {}, r.heap, b, c, 0)
      BY <2>1, <2>2, <2>4, <2>5, <2>7 DEF GivenTo
    <3> QED BY <1>2, <2>1, <2>6, <2>7, <3>1, BlockMade
  <2>9. b \in Used(heap')
    BY <2>8 DEF Replaces
  <2>10. Used(heap)' = Used(heap')
    BY DEF Used, NodesOf
  <2> QED BY <2>8, <2>9, <2>10 DEF HeapInv
<1> QED BY <1>4, <1>5

\* free takes its block away.
LEMMA HeapFreeStep ==
    ASSUME HeapInv, NEW a \in Used(heap), HeapFree(a)
    PROVE  HeapInv' /\ Replaces(heap, owner, heap', owner', {a}, {})
<1>1. PICK r \in FreeOutcomes(heap, os, a) :
        /\ heap' = MemoryAfter(r.heap, owner, 0, 0)
        /\ os' = r.os
        /\ owner' = [b \in Used(r.heap) |-> owner[b]]
  BY Zenon DEF HeapFree
<1>2. /\ Sound(heap, os, owner) /\ IsHeap(heap) /\ Apart(heap.size, {}, {}) /\ SystemHas(os, heap.brk)
  BY DEF HeapInv, Sound
<1>3. SystemHas(r.os, r.heap.brk) /\ Becomes(heap, r.heap, {a}, {})
  BY <1>2, FreeIs
<1> DEFINE k == [b \in Used(r.heap) |-> owner[b]]
<1>4. k = [b \in Used(r.heap) |-> owner[b]] /\ heap' = MemoryAfter(r.heap, owner, 0, 0) /\ os' = r.os /\ owner' = k
  BY <1>1
<1> HIDE DEF k
<1>5. 0 \in Nat
  OBVIOUS
<1>6. Sound(heap', os', owner') /\ Replaces(heap, owner, heap', owner', {a}, {})
  BY <1>2, <1>3, <1>4, <1>5, BlocksKept
<1> QED BY <1>6 DEF HeapInv

\* realloc puts a block of the same client in the place of its block, or changes nothing.
LEMMA HeapReallocStep ==
    ASSUME HeapInv, NEW a \in Used(heap), NEW n \in Sizes, HeapRealloc(a, n)
    PROVE  /\ HeapInv'
           /\ \/ Replaces(heap, owner, heap', owner', {}, {})
              \/ \E b \in Used(heap)' :
                    Replaces(heap, owner, heap', owner', {a}, {b}) /\ owner'[b] = owner[a]
<1> DEFINE known(r) == [b \in Used(r.heap) |-> IF b = r.node THEN owner[a] ELSE owner[b]]
<1>1. PICK r \in ReallocOutcomes(heap, os, a, n) :
        /\ heap' = MemoryAfter(r.heap, known(r), r.node, heap.size[a])
        /\ os' = r.os
        /\ owner' = known(r)
  BY Zenon DEF HeapRealloc
<1>2. /\ Sound(heap, os, owner) /\ IsHeap(heap) /\ Apart(heap.size, {}, {}) /\ SystemHas(os, heap.brk)
      /\ DOMAIN heap.mem = HeapStart .. HeapLimit - 1
      /\ owner \in [Used(heap) -> Clients] /\ n \in Nat
      /\ \A x, y \in Used(heap) : owner[x] = owner[y] => x = y
      /\ \A x \in Used(heap) : \A i \in 0 .. heap.size[x] - 1 : heap.mem[PtrOf(x) + i] = owner[x]
  BY AmallocAssumption DEF HeapInv, Sound, Owned
<1>3. Replied(heap, os, r, a, n)
  BY <1>2, ReallocIs
<1>4. a \in NodesOf(heap) /\ heap.size[a] \in Nat
  BY <1>2, UsedIs
<1> DEFINE k == known(r)
<1>5. CASE r.node = 0
  <2>1. r.heap = heap /\ SystemHas(r.os, heap.brk)
    BY <1>3, <1>5 DEF Replied
  <2>2. k = [b \in Used(heap) |-> owner[b]]
    <3>1. 0 \notin Used(heap)
      BY <1>2, NoNullNode, UsedIs
    <3> QED BY <1>5, <2>1, <3>1
  <2>3. Becomes(heap, heap, {}, {})
    BY <1>2 DEF Becomes, SameBytes
  <2> DEFINE from == heap.size[a]
  <2> HIDE DEF k
  <2>4. heap' = MemoryAfter(heap, k, 0, from) /\ os' = r.os /\ owner' = k /\ from \in Nat
    BY <1>1, <1>4, <1>5, <2>1 DEF k
  <2> HIDE DEF from
  <2>5. Sound(heap', os', owner') /\ Replaces(heap, owner, heap', owner', {}, {})
    <3>1. Sound(heap, os, owner) /\ SystemHas(r.os, heap.brk)
      BY <1>2, <2>1
    <3>2. /\ Sound(MemoryAfter(heap, k, 0, from), r.os, k)
          /\ Replaces(heap, owner, MemoryAfter(heap, k, 0, from), k, {}, {})
      BY <2>2, <2>3, <2>4, <3>1, BlocksKept
    <3> QED BY <2>4, <3>2
  <2> QED BY <2>5 DEF HeapInv
<1>6. CASE r.node # 0
  <2> DEFINE b == r.node
             g == r.heap
             c == owner[a]
             from == heap.size[a]
  <2>1. SystemHas(r.os, g.brk) /\ Reallocated(heap, g, a, b, n)
    BY <1>3, <1>6 DEF Replied
  <2>2. k = [x \in Used(g) |-> IF x = b THEN c ELSE owner[x]]
    OBVIOUS
  <2>3. heap' = MemoryAfter(g, k, b, from) /\ os' = r.os /\ owner' = k /\ b # 0
    BY <1>1, <1>6
  <2>4. c \in Clients /\ (\A x \in Used(heap) \ {a} : owner[x] # c) /\ from \in Nat
    BY <1>2, <1>4
  <2> HIDE DEF k, b, c, g, from
  <2>5. /\ IsHeap(g) /\ DOMAIN g.mem = DOMAIN heap.mem /\ b \in Used(g)
        /\ g.size[b] = n /\ Becomes(heap, g, {a}, {b})
        /\ \A i \in 0 .. n - 1 :
              (i < from /\ PtrOf(a) + i \in DOMAIN heap.mem /\ PtrOf(b) + i \in DOMAIN heap.mem)
                => g.mem[PtrOf(b) + i] = heap.mem[PtrOf(a) + i]
    BY <2>1 DEF Reallocated, Becomes, from
  <2>6. b \in NodesOf(g) /\ g.size[b] \in Nat \ {0}
    BY <2>5, UsedIs
  <2>7. ASSUME NEW i \in 0 .. g.size[b] - 1, i < from PROVE g.mem[PtrOf(b) + i] = c
    <3>1. i \in 0 .. from - 1 /\ i \in 0 .. n - 1
      BY <1>2, <2>4, <2>5, <2>7
    <3>2. PtrOf(a) + i \in HeapStart .. HeapLimit - 1
      BY <1>2, <1>4, <3>1, BytesAre DEF from
    <3>3. PtrOf(b) + i \in HeapStart .. HeapLimit - 1
      BY <2>1, <2>5, <2>6, BytesAre
    <3>4. g.mem[PtrOf(b) + i] = heap.mem[PtrOf(a) + i]
      BY <1>2, <2>5, <2>7, <3>1, <3>2, <3>3
    <3>5. heap.mem[PtrOf(a) + i] = owner[a]
      BY <1>2, <3>1 DEF from
    <3> QED BY <3>4, <3>5 DEF c
  <2>8. GivenTo(heap, owner, {a}, g, b, c, from)
    BY <2>3, <2>4, <2>5, <2>6, <2>7 DEF GivenTo
  <2>9. Sound(heap', os', owner') /\ Replaces(heap, owner, heap', owner', {a}, {b})
    <3> DEFINE X == {a}
    <3>1. GivenTo(heap, owner, X, g, b, c, from)
      BY <2>8
    <3> HIDE DEF X
    <3>2. Sound(heap', os', owner') /\ Replaces(heap, owner, heap', owner', X, {b})
      <4>1. Sound(heap, os, owner) /\ SystemHas(r.os, g.brk)
        BY <1>2, <2>1
      <4>2. /\ Sound(MemoryAfter(g, k, b, from), r.os, k)
            /\ Replaces(heap, owner, MemoryAfter(g, k, b, from), k, X, {b})
        BY <2>2, <3>1, <4>1, BlockMade
      <4> QED BY <2>3, <4>2
    <3> QED BY <3>2 DEF X
  <2>10. b \in Used(heap') /\ owner'[b] = owner[a]
    <3>1. owner'[b] = c
      BY <2>2, <2>3, <2>5
    <3> QED BY <2>9, <3>1 DEF Replaces, c
  <2>11. Used(heap)' = Used(heap')
    BY DEF Used, NodesOf
  <2> QED BY <2>9, <2>10, <2>11 DEF HeapInv
<1> QED BY <1>5, <1>6

\* Every step keeps the invariant.
LEMMA HeapStep == HeapInv /\ [AmallocNext]_amallocVars => HeapInv'
<1> SUFFICES ASSUME HeapInv, [AmallocNext]_amallocVars PROVE HeapInv'
  OBVIOUS
<1>1. ASSUME NEW n \in Sizes, HeapMalloc(n) PROVE HeapInv'
  BY <1>1, HeapMallocStep
<1>2. ASSUME NEW a \in Used(heap), HeapFree(a) PROVE HeapInv'
  BY <1>2, HeapFreeStep
<1>3. ASSUME NEW a \in Used(heap), NEW n \in Sizes, HeapRealloc(a, n) PROVE HeapInv'
  BY <1>3, HeapReallocStep
<1>4. CASE UNCHANGED amallocVars
  BY <1>4 DEF amallocVars, HeapInv
<1> QED BY <1>1, <1>2, <1>3, <1>4 DEF AmallocNext

\* The invariant of the heap holds in every reachable state.
THEOREM HeapInvariant == AmallocSpec => []HeapInv
<1>1. AmallocInit => HeapInv
  BY HeapInitInv
<1>2. HeapInv /\ [AmallocNext]_amallocVars => HeapInv'
  BY HeapStep
<1> QED BY <1>1, <1>2, PTL DEF AmallocSpec

\* The invariant has what the runs check.
LEMMA HeapInvSound == HeapInv => HeapSound
<1> SUFFICES ASSUME HeapInv PROVE HeapSound
  OBVIOUS
<1>1. IsHeap(heap) /\ Apart(heap.size, {}, {}) /\ SystemHas(os, heap.brk)
  BY DEF HeapInv, Sound
<1>2. HeapIsMapped
  <2>1. os.brk = heap.brk
    <3>1. os = [brk |-> heap.brk, mapped |-> os.mapped]
      BY <1>1 DEF SystemHas
    <3> QED BY <3>1
  <2> QED BY <1>1, <2>1 DEF HeapIsMapped, SystemHas
<1>3. ASSUME NEW a \in NodesOf(heap) PROVE Capacity(heap, a) >= Max({heap.size[a], FreeNodeMin})
  <2>1. /\ Capacity(heap, a) \in Nat /\ Alignment <= Capacity(heap, a)
        /\ heap.size[a] <= Capacity(heap, a) /\ heap.size[a] \in Nat
    BY <1>1, CapacityIs, NodesAre
  <2>2. FreeNodeMin = Alignment /\ Alignment \in Nat
    BY Units
  <2>3. Max({heap.size[a], FreeNodeMin}) \in {heap.size[a], FreeNodeMin}
    <3>1. heap.size[a] \in Int /\ FreeNodeMin \in Int
      BY <2>1, <2>2
    <3> QED BY <3>1, GreaterOf, Zenon
  <2> QED BY <2>1, <2>2, <2>3
<1>4. ASSUME NEW a \in NodesOf(heap), heap.size[a] = 0 PROVE ~Coalesces(heap, a)
  <2> SUFFICES ASSUME Coalesces(heap, a) PROVE FALSE
    OBVIOUS
  <2>1. /\ NodeAfter(heap, a) \in NodesOf(heap) /\ a < NodeAfter(heap, a)
        /\ heap.size[NodeAfter(heap, a)] = 0
        /\ \A b \in NodesOf(heap) : a < b => NodeAfter(heap, a) <= b
    BY <1>1, CoalescesIs
  <2>2. PICK b \in NodesOf(heap) : a < b /\ b < NodeAfter(heap, a)
    BY <1>1, <1>4, <2>1 DEF Apart, NodesOf
  <2>3. NodeAfter(heap, a) <= b /\ b \in Nat /\ NodeAfter(heap, a) \in Nat
    BY <1>1, <2>1, <2>2, NodesAre
  <2> QED BY <2>2, <2>3
<1>5. HeapCoalesced
  BY <1>3, <1>4 DEF HeapCoalesced
<1> QED BY <1>2, <1>5 DEF HeapSound

\* The heap of a process stays sound: no two free nodes are neighbours, every node has room
\* for what it holds, and every page up to the break has an entry in the page table; for any
\* sizes and alignments, any number of blocks, and a system that refuses to grow the heap at
\* any time.
THEOREM HeapStaysSound == AmallocSpec => []HeapSound
<1>1. HeapInv => HeapSound
  BY HeapInvSound
<1> QED BY <1>1, HeapInvariant, PTL

-----------------------------------------------------------------------------
(***************************************************************************)
(* The heap implements the allocator                                       *)
(***************************************************************************)

\* A block as its owner sees it
BlockAt(h, o, a) ==
    [ptr |-> PtrOf(a), size |-> h.size[a], id |-> o[a],
     data |-> [i \in 0 .. h.size[a] - 1 |-> o[a]]]

\* The blocks of the nodes S
BlocksAt(h, o, S) == {BlockAt(h, o, a) : a \in S}

\* A byte of a block, as it is in memory, is its owner's.
LEMMA BlocksAre ==
    ASSUME NEW h, NEW s, NEW o, Sound(h, s, o)
    PROVE  {[ptr |-> PtrOf(a), size |-> h.size[a], id |-> o[a], data |-> DataOf(h, a)] : a \in Used(h)}
                = BlocksAt(h, o, Used(h))
<1>1. ASSUME NEW a \in Used(h) PROVE DataOf(h, a) = [i \in 0 .. h.size[a] - 1 |-> o[a]]
  <2>1. \A i \in 0 .. h.size[a] - 1 : h.mem[PtrOf(a) + i] = o[a]
    BY DEF Sound, Owned
  <2> QED BY <2>1 DEF DataOf
<1>2. \A a \in Used(h) :
        [ptr |-> PtrOf(a), size |-> h.size[a], id |-> o[a], data |-> DataOf(h, a)] = BlockAt(h, o, a)
  BY <1>1, Zenon DEF BlockAt
<1> QED BY <1>2, Zenon DEF BlocksAt

\* Every block may be handed out beside the others.
LEMMA BlockFits ==
    ASSUME NEW h, NEW s, NEW o, Sound(h, s, o), NEW a \in Used(h)
    PROVE  Promise!Fits(BlockAt(h, o, a), BlocksAt(h, o, Used(h) \ {a}))
<1> DEFINE b == BlockAt(h, o, a)
<1>0. /\ IsHeap(h) /\ SystemHas(s, h.brk)
      /\ \A x, y \in Used(h) : o[x] = o[y] => x = y
  BY DEF Sound, Owned
<1>1. \A x \in Used(h) : x \in NodesOf(h) /\ x \in Nat /\ h.size[x] \in Nat \ {0}
  BY <1>0, UsedIs
<1>2. b.ptr = PtrOf(a) /\ b.size = h.size[a] /\ b.id = o[a] /\ b.data = [i \in 0 .. h.size[a] - 1 |-> o[a]]
  BY DEF BlockAt
<1> HIDE DEF b
<1>3. PtrOf(a) % Alignment = 0
  <2>1. a \in Int /\ NodeSize \in Int /\ Alignment \in Nat \ {0} /\ a % Alignment = 0 /\ NodeSize % Alignment = 0
    BY <1>0, <1>1, NodesAre, Units
  <2>2. (a + NodeSize) % Alignment = 0
    BY <2>1, SumAligned, Zenon
  <2> QED BY <2>2 DEF PtrOf
<1>4. \A x \in Used(h) : PtrOf(x) \in Nat
  BY <1>1, Units DEF PtrOf
<1>5. Promise!Bytes(b) \subseteq HeapStart .. HeapLimit - 1
  <2> SUFFICES ASSUME NEW x \in PtrOf(a) .. PtrOf(a) + h.size[a] - 1
               PROVE  x \in HeapStart .. HeapLimit - 1
    BY <1>2 DEF Promise!Bytes
  <2> DEFINE i == x - PtrOf(a)
  <2>1. i \in 0 .. h.size[a] - 1 /\ PtrOf(a) + i = x
    BY <1>1, <1>4
  <2> HIDE DEF i
  <2> QED BY <1>0, <1>1, <2>1, BytesAre
<1>6. ASSUME NEW c \in BlocksAt(h, o, Used(h) \ {a})
      PROVE  Promise!Bytes(b) \cap Promise!Bytes(c) = {} /\ b.id # c.id
  <2>1. PICK y \in Used(h) \ {a} : c = BlockAt(h, o, y)
    BY <1>6 DEF BlocksAt
  <2>2. c.ptr = PtrOf(y) /\ c.size = h.size[y] /\ c.id = o[y]
    BY <2>1 DEF BlockAt
  <2>3. ASSUME NEW x, x \in PtrOf(a) .. PtrOf(a) + h.size[a] - 1,
               x \in PtrOf(y) .. PtrOf(y) + h.size[y] - 1
        PROVE  FALSE
    <3> DEFINE i == x - PtrOf(a)
               j == x - PtrOf(y)
    <3>0. Capacity(h, a) \in Nat /\ h.size[a] <= Capacity(h, a)
      BY <1>0, <1>1, CapacityIs, NodesAre
    <3>1. /\ i \in 0 .. Capacity(h, a) - 1 /\ j \in 0 .. h.size[y] - 1
          /\ PtrOf(a) + i = PtrOf(y) + j
      BY <1>1, <1>4, <2>3, <3>0
    <3> HIDE DEF i, j
    <3> QED BY <1>0, <1>1, <3>1, BlocksApart
  <2>4. Promise!Bytes(b) \cap Promise!Bytes(c) = {}
    BY <1>2, <2>2, <2>3 DEF Promise!Bytes
  <2> QED BY <1>0, <1>2, <2>2, <2>4
<1>7. h.size[a] > 0
  BY <1>1
<1> QED BY <1>2, <1>3, <1>5, <1>6, <1>7 DEF Promise!Fits, b

\* The owners' view of such a change
Exchanged(h, o, h2, o2, X, Y) ==
    /\ BlocksAt(h2, o2, Used(h) \ X) = BlocksAt(h, o, Used(h) \ X)
    /\ BlocksAt(h2, o2, Used(h2)) = BlocksAt(h, o, Used(h) \ X) \cup BlocksAt(h2, o2, Y)
    /\ Used(h) \ X = Used(h2) \ Y

\* The blocks that stay are for their owners what they were.
LEMMA BlocksReplaced ==
    ASSUME NEW h, NEW o, NEW h2, NEW o2, NEW X, NEW Y, Replaces(h, o, h2, o2, X, Y)
    PROVE  Exchanged(h, o, h2, o2, X, Y)
<1>1. /\ Used(h2) = (Used(h) \ X) \cup Y
      /\ \A a \in Used(h) \ X : a \notin Y /\ h2.size[a] = h.size[a] /\ o2[a] = o[a]
  BY DEF Replaces
<1>2. \A a \in Used(h) \ X : BlockAt(h2, o2, a) = BlockAt(h, o, a)
  BY <1>1 DEF BlockAt
<1>3. BlocksAt(h2, o2, Used(h) \ X) = BlocksAt(h, o, Used(h) \ X)
  BY <1>2, Zenon DEF BlocksAt
<1>4. BlocksAt(h2, o2, Used(h2)) = BlocksAt(h2, o2, Used(h) \ X) \cup BlocksAt(h2, o2, Y)
  BY <1>1 DEF BlocksAt
<1> QED BY <1>1, <1>3, <1>4 DEF Exchanged

\* A block that goes is one of them, and the others are the rest.
LEMMA BlocksWithout ==
    ASSUME NEW h, NEW s, NEW o, Sound(h, s, o), NEW a \in Used(h)
    PROVE  /\ BlockAt(h, o, a) \in BlocksAt(h, o, Used(h))
           /\ BlocksAt(h, o, Used(h) \ {a}) = BlocksAt(h, o, Used(h)) \ {BlockAt(h, o, a)}
<1>1. \A x, y \in Used(h) : o[x] = o[y] => x = y
  BY DEF Sound, Owned
<1>2. \A x \in Used(h) : BlockAt(h, o, x).id = o[x]
  BY DEF BlockAt
<1>3. \A x \in Used(h) : BlockAt(h, o, x) = BlockAt(h, o, a) => x = a
  BY <1>1, <1>2
<1> QED BY <1>3 DEF BlocksAt

\* The blocks, before and after a step
LEMMA HeapBlocksAre ==
    ASSUME HeapInv, HeapInv'
    PROVE  /\ HeapBlocks = BlocksAt(heap, owner, Used(heap))
           /\ HeapBlocks' = BlocksAt(heap', owner', Used(heap'))
<1>1. Sound(heap, os, owner) /\ Sound(heap', os', owner')
  BY DEF HeapInv
<1>2. HeapBlocks = BlocksAt(heap, owner, Used(heap))
  BY <1>1, BlocksAre, Zenon DEF HeapBlocks
<1>3. HeapBlocks' = {[ptr |-> PtrOf(a), size |-> heap'.size[a], id |-> owner'[a], data |-> DataOf(heap', a)] : a \in Used(heap')}
  BY Zenon DEF HeapBlocks, DataOf, Used, NodesOf
<1> QED BY <1>1, <1>2, <1>3, BlocksAre, Zenon

\* malloc allocates, free releases, realloc resizes; otherwise the blocks stay.
LEMMA KeptIsStutter ==
    ASSUME HeapInv, HeapInv', Replaces(heap, owner, heap', owner', {}, {})
    PROVE  HeapBlocks' = HeapBlocks
<1>1. BlocksAt(heap', owner', Used(heap')) = BlocksAt(heap, owner, Used(heap) \ {}) \cup BlocksAt(heap', owner', {})
  BY BlocksReplaced DEF Exchanged
<1>2. BlocksAt(heap', owner', {}) = {} /\ Used(heap) \ {} = Used(heap)
  BY DEF BlocksAt
<1> QED BY <1>1, <1>2, HeapBlocksAre

\* malloc gives a block that was not there, apart from the others.
LEMMA MallocAllocates ==
    ASSUME HeapInv, HeapInv', NEW b, Replaces(heap, owner, heap', owner', {}, {b})
    PROVE  Promise!Allocate
<1> DEFINE c == BlockAt(heap', owner', b)
           B == BlocksAt(heap, owner, Used(heap))
<1>1. HeapBlocks = B /\ HeapBlocks' = BlocksAt(heap', owner', Used(heap'))
  BY HeapBlocksAre
<1>2. /\ BlocksAt(heap', owner', Used(heap) \ {}) = BlocksAt(heap, owner, Used(heap) \ {})
      /\ BlocksAt(heap', owner', Used(heap')) = BlocksAt(heap, owner, Used(heap) \ {}) \cup BlocksAt(heap', owner', {b})
      /\ Used(heap) \ {} = Used(heap') \ {b}
  <2>1. Exchanged(heap, owner, heap', owner', {}, {b})
    BY BlocksReplaced, Zenon
  <2> QED BY <2>1, Zenon DEF Exchanged
<1>3. b \in Used(heap')
  BY DEF Replaces
<1>4. /\ Promise!Fits(c, BlocksAt(heap', owner', Used(heap') \ {b}))
      /\ c \in BlocksAt(heap', owner', Used(heap'))
      /\ BlocksAt(heap', owner', Used(heap') \ {b}) = BlocksAt(heap', owner', Used(heap')) \ {c}
  BY <1>3, BlockFits, BlocksWithout DEF HeapInv
<1>5. Used(heap) \ {} = Used(heap) /\ BlocksAt(heap', owner', {b}) = {c}
  BY DEF BlocksAt
<1> HIDE DEF c, B
<1>6. Promise!Fits(c, B) /\ c \notin B /\ HeapBlocks' = B \cup {c}
  BY <1>1, <1>2, <1>4, <1>5 DEF B
<1>7. c \in HeapBlocks' \ HeapBlocks
  BY <1>1, <1>6
<1> QED BY <1>1, <1>6, <1>7 DEF Promise!Allocate

\* free takes one away.
LEMMA FreeReleases ==
    ASSUME HeapInv, HeapInv', NEW a \in Used(heap), Replaces(heap, owner, heap', owner', {a}, {})
    PROVE  Promise!Release
<1> DEFINE b == BlockAt(heap, owner, a)
<1>1. HeapBlocks = BlocksAt(heap, owner, Used(heap)) /\ HeapBlocks' = BlocksAt(heap', owner', Used(heap'))
  BY HeapBlocksAre
<1>2. BlocksAt(heap', owner', Used(heap')) = BlocksAt(heap, owner, Used(heap) \ {a}) \cup BlocksAt(heap', owner', {})
  BY BlocksReplaced DEF Exchanged
<1>3. /\ b \in BlocksAt(heap, owner, Used(heap))
      /\ BlocksAt(heap, owner, Used(heap) \ {a}) = BlocksAt(heap, owner, Used(heap)) \ {b}
  BY BlocksWithout DEF HeapInv
<1>4. BlocksAt(heap', owner', {}) = {}
  BY DEF BlocksAt
<1> HIDE DEF b
<1>5. b \in HeapBlocks /\ HeapBlocks' = HeapBlocks \ {b}
  BY <1>1, <1>2, <1>3, <1>4
<1> QED BY <1>5 DEF Promise!Release

\* realloc gives the same bytes in a block of another size.
LEMMA ReallocResizes ==
    ASSUME HeapInv, HeapInv', NEW a \in Used(heap), NEW b,
           Replaces(heap, owner, heap', owner', {a}, {b}), owner'[b] = owner[a]
    PROVE  Promise!Resize
<1> DEFINE c == BlockAt(heap', owner', b)
           d == BlockAt(heap, owner, a)
<1>1. HeapBlocks = BlocksAt(heap, owner, Used(heap)) /\ HeapBlocks' = BlocksAt(heap', owner', Used(heap'))
  BY HeapBlocksAre
<1>2. /\ BlocksAt(heap', owner', Used(heap) \ {a}) = BlocksAt(heap, owner, Used(heap) \ {a})
      /\ BlocksAt(heap', owner', Used(heap')) = BlocksAt(heap, owner, Used(heap) \ {a}) \cup BlocksAt(heap', owner', {b})
      /\ Used(heap) \ {a} = Used(heap') \ {b}
  <2>1. Exchanged(heap, owner, heap', owner', {a}, {b})
    BY BlocksReplaced, Zenon
  <2> QED BY <2>1, Zenon DEF Exchanged
<1>3. b \in Used(heap')
  BY DEF Replaces
<1>4. /\ Promise!Fits(c, BlocksAt(heap', owner', Used(heap') \ {b}))
      /\ c \in BlocksAt(heap', owner', Used(heap'))
  BY <1>3, BlockFits, BlocksWithout DEF HeapInv
<1>5. /\ d \in BlocksAt(heap, owner, Used(heap))
      /\ BlocksAt(heap, owner, Used(heap) \ {a}) = BlocksAt(heap, owner, Used(heap)) \ {d}
  BY BlocksWithout DEF HeapInv
<1>6. BlocksAt(heap', owner', {b}) = {c}
  BY DEF BlocksAt
<1>7. c.id = d.id
  BY DEF BlockAt
<1> HIDE DEF c, d
<1>8. /\ Promise!Fits(c, HeapBlocks \ {d}) /\ HeapBlocks' = (HeapBlocks \ {d}) \cup {c}
      /\ d \in HeapBlocks /\ c \in HeapBlocks'
  BY <1>1, <1>2, <1>4, <1>5, <1>6
<1> QED BY <1>7, <1>8 DEF Promise!Resize

\* Every step is one of the abstract allocator, or changes no block.
LEMMA HeapStepAllocator ==
    HeapInv /\ HeapInv' /\ [AmallocNext]_amallocVars
        => [Promise!Allocate \/ Promise!Release \/ Promise!Resize]_HeapBlocks
<1> SUFFICES ASSUME HeapInv, HeapInv', [AmallocNext]_amallocVars
             PROVE  \/ Promise!Allocate \/ Promise!Release \/ Promise!Resize
                    \/ HeapBlocks' = HeapBlocks
  OBVIOUS
<1>1. ASSUME NEW n \in Sizes, HeapMalloc(n)
      PROVE  Promise!Allocate \/ HeapBlocks' = HeapBlocks
  BY <1>1, HeapMallocStep, KeptIsStutter, MallocAllocates
<1>2. ASSUME NEW a \in Used(heap), HeapFree(a) PROVE Promise!Release
  BY <1>2, HeapFreeStep, FreeReleases
<1>3. ASSUME NEW a \in Used(heap), NEW n \in Sizes, HeapRealloc(a, n)
      PROVE  Promise!Resize \/ HeapBlocks' = HeapBlocks
  BY <1>3, HeapReallocStep, KeptIsStutter, ReallocResizes
<1>4. CASE UNCHANGED amallocVars
  BY <1>4 DEF amallocVars, HeapBlocks, DataOf, Used, NodesOf
<1> QED BY <1>1, <1>2, <1>3, <1>4 DEF AmallocNext

\* malloc, free and realloc, with all their splitting, coalescing and moving, do what
\* the abstract allocator promises: blocks that are apart, aligned and within the
\* heap, whose bytes survive whatever happens to other blocks, and realloc.
THEOREM HeapImplementsAllocator == AmallocSpec => HeapIsAllocator
<1>1. AmallocInit => Promise!AllocatorInit
  <2> SUFFICES ASSUME AmallocInit PROVE HeapBlocks = {}
    BY DEF Promise!AllocatorInit
  <2>1. Used(heap) = {}
    BY DEF AmallocInit, Used, NodesOf
  <2> QED BY <2>1 DEF HeapBlocks
<1>2. HeapInv /\ HeapInv' /\ [AmallocNext]_amallocVars
        => [Promise!Allocate \/ Promise!Release \/ Promise!Resize]_HeapBlocks
  BY HeapStepAllocator
<1> QED BY <1>1, <1>2, HeapInvariant, PTL DEF AmallocSpec, HeapIsAllocator, Promise!AllocatorSpec

===============================================================================
