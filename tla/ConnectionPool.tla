--------------------------- MODULE ConnectionPool ---------------------------
(***************************************************************************)
(* The connections of cSQLPool (database/SQLPool.h, .cpp): two lists of    *)
(* PerSQLConnection linked both ways, one of connections in the hands of   *)
(* worker threads and one of spare connections, and the counters kept      *)
(* beside them.  GetPool, ReleasePool and Shutdown hold the critical       *)
(* section mCs from start to end, so that each is one action.              *)
(*                                                                         *)
(* What the ODBC driver holds for the pool is modelled with it: a          *)
(* connection is made in three steps and may fail at each.                 *)
(*                                                                         *)
(* GetPool and ReleasePool end the process where GlobalAlloc fails or the  *)
(* data source is unknown (a NULL pointer is followed, throw without an    *)
(* exception): no action stands for that.                                  *)
(***************************************************************************)
EXTENDS Integers, FiniteSets

CONSTANTS
  Conns,        (* addresses GlobalAlloc may return                        *)
  Workers,      (* threads that call GetPool and ReleasePool               *)
  Null,         (* the NULL pointer                                        *)
  SizeRange,    (* 2^w for the width w of SIZE_T                           *)
  MaxFailures   (* bound: failed connects in a behaviour                   *)

ASSUME NullAssumption == Null \notin Conns
ASSUME SizeAssumption == SizeRange \in Nat \ {0} /\ MaxFailures \in Nat

(* Fewer connections fit into the memory than it has addresses.            *)
ASSUME ConnsAssumption == IsFiniteSet(Conns) /\ Cardinality(Conns) < SizeRange

VARIABLES
  next,         (* next[c]: PerSQLConnection::next                         *)
  prev,         (* prev[c]: PerSQLConnection::prev                         *)
  paged,        (* mPagedPoolUsage: first of the connections in use        *)
  nonPaged,     (* mNonPagedPoolUsage: first of the spare connections      *)
  quotaPaged,   (* mQuotaPagedPoolUsage                                    *)
  quotaNonPaged,(* mQuotaNonPagedPoolUsage                                 *)
  workingSet,   (* mWorkingSetSize                                         *)
  heap,         (* connections allocated and not freed                     *)
  has,          (* has[w]: perSQLConnection of worker w                    *)
  failures,     (* connects that failed so far                             *)
  phase,        (* "new", "failed" or "running" after Initialize, "down"   *)
  sqlEnv,       (* mSqlEnv is not NULL                                     *)
  driver        (* what the driver has open: env (BOOLEAN) and, by the     *)
                (* connection they belong to, dbc, up (connected), stmt    *)

lists    == <<next, prev, paged, nonPaged>>
counters == <<quotaPaged, quotaNonPaged, workingSet>>
session  == <<phase, sqlEnv>>
vars     == <<lists, counters, heap, has, failures, session, driver>>

Pointers == Conns \cup {Null}

(* Bug: the counters are signed and the size goes below 0.                 *)
Size_Signed(n) == n

(* The value of a counter of type SIZE_T.                                  *)
Size(n) == n % SizeRange

Init ==
  /\ next = [c \in Conns |-> Null]
  /\ prev = [c \in Conns |-> Null]
  /\ paged = Null
  /\ nonPaged = Null
  /\ quotaPaged = 0
  /\ quotaNonPaged = 0
  /\ workingSet = 0
  /\ heap = {}
  /\ has = [w \in Workers |-> Null]
  /\ failures = 0
  /\ phase = "new"
  /\ sqlEnv = FALSE
  /\ driver = [env |-> FALSE, dbc |-> {}, up |-> {}, stmt |-> {}]

-----------------------------------------------------------------------------
(* The wrappers of OdbcSql.h, from what the driver d has open.             *)
AllocDbc(d, c)   == [d EXCEPT !.dbc = @ \cup {c}]
ConnectDbc(d, c) == [d EXCEPT !.up = @ \cup {c}]
AllocStmt(d, c)  == [d EXCEPT !.stmt = @ \cup {c}]
FreeStmt(d, c)   == [d EXCEPT !.stmt = @ \ {c}]

(* SQLDisconnect frees the statements of the connection.                   *)
Disconnect(d, c) == [d EXCEPT !.up = @ \ {c}, !.stmt = @ \ {c}]

(* SQLFreeConnect refuses a connection that is open, ...                   *)
FreeDbc(d, c) == IF c \in d.up THEN d ELSE [d EXCEPT !.dbc = @ \ {c}]

(* ... SQLFreeEnv an environment with connections.                         *)
FreeEnv(d) == IF d.dbc # {} THEN d ELSE [d EXCEPT !.env = FALSE]

(* Bug: ~cSQLConnection does not disconnect.                               *)
DeleteConnection_Connected(d, c) == FreeDbc(d, c)

(* ~cSQLConnection.                                                        *)
DeleteConnection(d, c) == FreeDbc(Disconnect(d, c), c)

(* FreeSQLConnection: the statement goes first, then the connection.       *)
FreeSQLConnection(d, c) == DeleteConnection(FreeStmt(d, c), c)

(* Where AllocSQLConnection may fail, and what is open then; Connect that  *)
(* fails disconnects.                                                      *)
Attempts(d, c) ==
  {d,
   Disconnect(AllocDbc(d, c), c),
   ConnectDbc(AllocDbc(d, c), c)}

(* Initialize, once: the environment or its attributes may fail.           *)
Initialize ==
  /\ phase = "new"
  /\ sqlEnv' = TRUE
  /\ \/ phase' = "running" /\ driver' = [driver EXCEPT !.env = TRUE]
     \/ phase' = "failed" /\ \E got \in BOOLEAN : driver' = [driver EXCEPT !.env = got]
  /\ UNCHANGED <<lists, counters, heap, has, failures>>

-----------------------------------------------------------------------------
(* AttachPool(pool, c): the links and the first element it leaves, n and p *)
(* being next and prev.  An empty pool leaves the links of c alone.        *)
AttachNext(n, pool, c) == IF pool = Null THEN n ELSE [n EXCEPT ![c] = pool]

AttachPrev(p, pool, c) ==
  IF pool = Null THEN p ELSE [p EXCEPT ![pool] = c, ![c] = Null]

(* DetachPool(pool, c): the neighbours of c are linked to one another.     *)
DetachNext(n, p, c) ==
  [x \in Conns |-> IF x = c THEN Null ELSE IF x = p[c] THEN n[c] ELSE n[x]]

(* Bug: the last case of four is missing.                                  *)
DetachPrev_NotInner(n, p, c) ==
  [x \in Conns |-> IF x = c THEN Null
                   ELSE IF x = n[c] /\ p[c] = Null THEN Null ELSE p[x]]

DetachPrev(n, p, c) ==
  [x \in Conns |-> IF x = c THEN Null ELSE IF x = n[c] THEN p[c] ELSE p[x]]

(* Bug: the pool is emptied whenever its first element is detached.        *)
DetachPool_Empties(pool, n, p, c) == IF p[c] = Null THEN Null ELSE pool

DetachPool(pool, n, p, c) == IF p[c] = Null THEN n[c] ELSE pool

-----------------------------------------------------------------------------
(* GetPool by worker w.                                                    *)

(* The first spare connection is alive: it moves to the other list.        *)
TakeSpare(w) ==
  LET c == nonPaged
      n == DetachNext(next, prev, c)
      p == DetachPrev(next, prev, c)
  IN
  /\ has[w] = Null
  /\ c # Null
  /\ nonPaged' = DetachPool(nonPaged, next, prev, c)
  /\ next' = AttachNext(n, paged, c)
  /\ prev' = AttachPrev(p, paged, c)
  /\ paged' = c
  /\ has' = [has EXCEPT ![w] = c]
  /\ quotaPaged' = Size(quotaPaged + 1)
  /\ quotaNonPaged' = Size(quotaNonPaged - 1)
  /\ UNCHANGED <<workingSet, heap, failures, session, driver>>

(* AllocSQLConnection and AttachPool, from links n and p, allocated        *)
(* connections h, working set size size and driver d.                      *)
Connect(w, n, p, h, size, d) ==
  \E c \in Conns \ h :
    /\ driver' = AllocStmt(ConnectDbc(AllocDbc(d, c), c), c)
    /\ heap' = h \cup {c}
    /\ next' = AttachNext([n EXCEPT ![c] = Null], paged, c)
    /\ prev' = AttachPrev([p EXCEPT ![c] = Null], paged, c)
    /\ paged' = c
    /\ has' = [has EXCEPT ![w] = c]
    /\ quotaPaged' = Size(quotaPaged + 1)
    /\ workingSet' = Size(size + 1)
    /\ UNCHANGED failures

(* The connection fails: FreeSQLConnection counts it out all the same.     *)
ConnectFails(n, p, h, size, d) ==
  /\ failures < MaxFailures
  /\ \E c \in Conns \ h : \E open \in Attempts(d, c) :
       driver' = FreeSQLConnection(open, c)
  /\ failures' = failures + 1
  /\ workingSet' = Size(size - 1)
  /\ heap' = h
  /\ next' = n
  /\ prev' = p
  /\ UNCHANGED <<paged, has, quotaPaged>>

(* Bug: a spare connection is left when a new one is made.                 *)
ConnectNew_Always(w) ==
  /\ phase = "running"
  /\ has[w] = Null
  /\ \/ Connect(w, next, prev, heap, workingSet, driver)
     \/ ConnectFails(next, prev, heap, workingSet, driver)
  /\ UNCHANGED <<nonPaged, quotaNonPaged, session>>

(* No connection is spare: a new one is made.                              *)
ConnectNew(w) ==
  /\ phase = "running"
  /\ has[w] = Null
  /\ nonPaged = Null
  /\ \/ Connect(w, next, prev, heap, workingSet, driver)
     \/ ConnectFails(next, prev, heap, workingSet, driver)
  /\ UNCHANGED <<nonPaged, quotaNonPaged, session>>

(* The first spare connection is dead: it is freed and a new one is made.  *)
ReplaceDead(w) ==
  LET c == nonPaged
      n == DetachNext(next, prev, c)
      p == DetachPrev(next, prev, c)
      d == FreeSQLConnection(driver, c)
  IN
  /\ phase = "running"
  /\ has[w] = Null
  /\ c # Null
  /\ nonPaged' = DetachPool(nonPaged, next, prev, c)
  /\ quotaNonPaged' = Size(quotaNonPaged - 1)
  /\ \/ Connect(w, n, p, heap \ {c}, workingSet - 1, d)
     \/ ConnectFails(n, p, heap \ {c}, workingSet - 1, d)
  /\ UNCHANGED session

-----------------------------------------------------------------------------
(* ReleasePool(perSQLConnection): worker w puts it back, ...               *)
PutBack(w) ==
  LET c == has[w]
      n == DetachNext(next, prev, c)
      p == DetachPrev(next, prev, c)
  IN
  /\ c \in heap
  /\ paged' = DetachPool(paged, next, prev, c)
  /\ next' = AttachNext(n, nonPaged, c)
  /\ prev' = AttachPrev(p, nonPaged, c)
  /\ nonPaged' = c
  /\ has' = [has EXCEPT ![w] = Null]
  /\ quotaPaged' = Size(quotaPaged - 1)
  /\ quotaNonPaged' = Size(quotaNonPaged + 1)
  /\ UNCHANGED <<workingSet, heap, failures, session, driver>>

(* Bug: mQuotaPagedPoolUsage is left as it is.                             *)
Discard_QuotaKept(w) ==
  LET c == has[w] IN
  /\ c \in heap
  /\ paged' = DetachPool(paged, next, prev, c)
  /\ next' = DetachNext(next, prev, c)
  /\ prev' = DetachPrev(next, prev, c)
  /\ has' = [has EXCEPT ![w] = Null]
  /\ heap' = heap \ {c}
  /\ driver' = FreeSQLConnection(driver, c)
  /\ workingSet' = Size(workingSet - 1)
  /\ UNCHANGED <<nonPaged, quotaPaged, quotaNonPaged, failures, session>>

(* ... or, with isDelete, has it freed.                                    *)
Discard(w) ==
  LET c == has[w] IN
  /\ c \in heap
  /\ paged' = DetachPool(paged, next, prev, c)
  /\ next' = DetachNext(next, prev, c)
  /\ prev' = DetachPrev(next, prev, c)
  /\ has' = [has EXCEPT ![w] = Null]
  /\ heap' = heap \ {c}
  /\ driver' = FreeSQLConnection(driver, c)
  /\ quotaPaged' = Size(quotaPaged - 1)
  /\ workingSet' = Size(workingSet - 1)
  /\ UNCHANGED <<nonPaged, quotaNonPaged, failures, session>>

(* The connections that following next from first comes to.                *)
ClosedFrom(first) ==
  {U \in SUBSET heap : first \in U /\ \A c \in U : next[c] \in U \cup {Null}}

Chain(first) ==
  LET closed == ClosedFrom(first)
  IN  IF first = Null THEN {} ELSE {c \in heap : \A U \in closed : c \in U}

(* FreeSQLConnection for each connection of S: they are independent.       *)
FreeAll(d, S) ==
  [env  |-> d.env,
   dbc  |-> {c \in d.dbc  : c \in S => c \in FreeSQLConnection(d, c).dbc},
   up   |-> {c \in d.up   : c \in S => c \in FreeSQLConnection(d, c).up},
   stmt |-> {c \in d.stmt : c \in S => c \in FreeSQLConnection(d, c).stmt}]

(* Shutdown frees both lists, whoever holds a connection, then the         *)
(* environment, and leaves the two quotas as they are.                     *)
Shutdown ==
  LET freed == Chain(paged) \cup Chain(nonPaged)
      d == FreeAll(driver, freed)
  IN
  /\ phase # "down"
  /\ phase' = "down"
  /\ sqlEnv' = FALSE
  /\ driver' = IF sqlEnv THEN FreeEnv(d) ELSE d
  /\ paged' = Null
  /\ nonPaged' = Null
  /\ heap' = heap \ freed
  /\ workingSet' = Size(workingSet - Cardinality(freed))
  /\ UNCHANGED <<next, prev, quotaPaged, quotaNonPaged, has, failures>>

-----------------------------------------------------------------------------
GetPool(w)     == TakeSpare(w) \/ ConnectNew(w) \/ ReplaceDead(w)
ReleasePool(w) == PutBack(w) \/ Discard(w)

Next ==
  \/ Initialize
  \/ \E w \in Workers : GetPool(w) \/ ReleasePool(w)
  \/ Shutdown

Spec == Init /\ [][Next]_vars

-----------------------------------------------------------------------------
TypeOK ==
  /\ next \in [Conns -> Pointers]
  /\ prev \in [Conns -> Pointers]
  /\ paged \in Pointers
  /\ nonPaged \in Pointers
  /\ quotaPaged \in 0 .. SizeRange - 1
  /\ quotaNonPaged \in 0 .. SizeRange - 1
  /\ workingSet \in 0 .. SizeRange - 1
  /\ heap \subseteq Conns
  /\ has \in [Workers -> Pointers]
  /\ failures \in 0 .. MaxFailures
  /\ phase \in {"new", "failed", "running", "down"}
  /\ sqlEnv \in BOOLEAN
  /\ driver.env \in BOOLEAN
  /\ driver.dbc \subseteq Conns /\ driver.up \subseteq Conns /\ driver.stmt \subseteq Conns

InUse == {has[w] : w \in Workers} \ {Null}

(* next and prev are inverse to one another, lead from a connection in use *)
(* to one in use and from a spare one to a spare one, and each list starts *)
(* at its only connection without a predecessor.                           *)
SameList(c, d) == c \in InUse <=> d \in InUse

Linked ==
  phase # "down" => \A c \in heap :
    /\ next[c] # Null =>
         /\ next[c] \in heap
         /\ SameList(c, next[c])
         /\ prev[next[c]] = c
    /\ prev[c] # Null =>
         /\ prev[c] \in heap
         /\ SameList(c, prev[c])
         /\ next[prev[c]] = c
    /\ prev[c] = Null => c = IF c \in InUse THEN paged ELSE nonPaged

(* Following next from the two first elements finds all connections in use *)
(* and all spare ones: DetachPool in the middle of a list loses none, and  *)
(* Shutdown leaves none behind.                                            *)
NoneLost ==
  IF phase # "down" THEN Chain(paged) = InUse /\ Chain(nonPaged) = heap \ InUse
  ELSE heap = {}

(* The quotas GetProcessMemoryInfo reports are the lengths of the lists,   *)
(* until Shutdown; the working set size is off by one for each connect     *)
(* that failed, and wraps around below 0.                                  *)
Accounts ==
  /\ phase # "down" => /\ quotaPaged = Cardinality(InUse)
                       /\ quotaNonPaged = Cardinality(heap \ InUse)
  /\ workingSet = Size(Cardinality(heap) - failures)

(* The driver has a connection and a statement open for every connection   *)
(* of the pool and for nothing else, whichever step of connecting failed,  *)
(* and no environment is left once the pool was shut down.                 *)
DriverFollows ==
  /\ driver.dbc = heap /\ driver.up = heap /\ driver.stmt = heap
  /\ driver.env => sqlEnv

(* The pool lends connections as ConnectionSets says.                      *)
CS == INSTANCE ConnectionSets WITH
        spare <- Chain(nonPaged),
        lent <- has
ImplementsConnectionSets == CS!CSSpec
=============================================================================
