---------------------------- MODULE ConnectPool ----------------------------
(***************************************************************************)
(* The pool of channels to one redis server,                               *)
(* frame/client/redis/connect_pool.h, used by the threads that send        *)
(* requests: RedisClient::fetch and multi_fetch borrow a channel, start an *)
(* asynchronous call on it and release it (redis_client.cpp:282-290,       *)
(* 320-330).  borrow and release hold the pool's mutex, so each is a step. *)
(*                                                                         *)
(* conn_list is a set here: the channels of a pool are all alike, and      *)
(* nothing below depends on which of the idle ones is handed out.          *)
(***************************************************************************)
EXTENDS Integers, FiniteSets

CONSTANTS Thread,        \* threads that use the pool
          Conn,          \* identities of channels; one no longer used may return
          NoConn,        \* nullptr
          PoolSize,      \* _pool_size
          MaxSize,       \* _max_size
          CounterMod,    \* the counters are unsigned: 2^32 in the code
          MaxFailures    \* bound on builds that return nullptr

(***************************************************************************)
(* The constructor throws if pool_size exceeds max_size.  A counter is     *)
(* large enough for every thread and for the failures counted.             *)
(***************************************************************************)
ASSUME PoolAssumption ==
  /\ IsFiniteSet(Thread) /\ IsFiniteSet(Conn)
  /\ NoConn \notin Conn
  /\ PoolSize \in Nat \ {0} /\ MaxSize \in Nat /\ PoolSize <= MaxSize
  /\ MaxFailures \in Nat
  /\ CounterMod \in Nat /\ CounterMod > Cardinality(Thread) + MaxFailures

VARIABLES
  conn_list,     \* the idle channels
  borrow_size,   \* _borrow_size
  busy,          \* _busy
  held,          \* the channel each thread has borrowed
  failures,      \* builds that returned nullptr to a borrower (history)
  most_lent      \* the most channels lent at the same time (history)

connectVars == <<conn_list, borrow_size, busy, held, failures, most_lent>>

\* The constructor builds PoolSize channels; those that fail are left out.
PoolInit ==
  /\ conn_list \in SUBSET Conn
  /\ Cardinality(conn_list) <= PoolSize
  /\ MaxFailures = 0 => Cardinality(conn_list) = PoolSize
  /\ borrow_size = 0
  /\ busy = 0
  /\ held = [t \in Thread |-> NoConn]
  /\ failures = 0
  /\ most_lent = 0

-----------------------------------------------------------------------------
Holders == {t \in Thread : held[t] # NoConn}

InUse == conn_list \cup {held[t] : t \in Holders}

Lend(t, c) ==
  /\ held' = [held EXCEPT ![t] = c]
  /\ most_lent' = IF Cardinality(Holders') > most_lent
                    THEN Cardinality(Holders') ELSE most_lent

\* Mutant of CountBorrow: the shortage never ends.
CountBorrowNoReset ==
  LET n == (borrow_size + 1) % CounterMod
  IN  /\ borrow_size' = n
      /\ busy' = IF n > PoolSize THEN (busy + 1) % CounterMod ELSE busy

\* The end of borrow, the same on every path, a failed build included.
CountBorrow ==
  LET n == (borrow_size + 1) % CounterMod
  IN  /\ borrow_size' = n
      /\ busy' = IF n > PoolSize THEN (busy + 1) % CounterMod ELSE 0

\* borrow with a channel in the list.
BorrowIdle(t) ==
  /\ held[t] = NoConn
  /\ \E c \in conn_list : Lend(t, c) /\ conn_list' = conn_list \ {c}
  /\ CountBorrow
  /\ UNCHANGED failures

\* Mutant of BorrowBuilt: a channel is built although one is idle.
BorrowBuiltAnyway(t) ==
  /\ held[t] = NoConn
  /\ \E c \in Conn \ InUse : Lend(t, c)
  /\ CountBorrow
  /\ UNCHANGED <<conn_list, failures>>

\* borrow with an empty list: another channel is built.
BorrowBuilt(t) ==
  /\ held[t] = NoConn
  /\ conn_list = {}
  /\ \E c \in Conn \ InUse : Lend(t, c)
  /\ CountBorrow
  /\ UNCHANGED <<conn_list, failures>>

\* The build fails: fetch and multi_fetch return -1 and release nothing.
BorrowNothing(t) ==
  /\ held[t] = NoConn
  /\ conn_list = {}
  /\ failures < MaxFailures
  /\ failures' = failures + 1
  /\ CountBorrow
  /\ UNCHANGED <<conn_list, held, most_lent>>

\* Whether release puts the channel back or lets it go.
Keep == /\ Cardinality(conn_list) < MaxSize
        /\ Cardinality(conn_list) < PoolSize \/ busy > 0

\* Mutant of Release: only a channel that goes back to the list is counted.
ReleaseCountsKept(t) ==
  /\ held[t] # NoConn
  /\ borrow_size' = IF Keep THEN (borrow_size - 1) % CounterMod ELSE borrow_size
  /\ conn_list' = IF Keep THEN conn_list \cup {held[t]} ELSE conn_list
  /\ held' = [held EXCEPT ![t] = NoConn]
  /\ UNCHANGED <<busy, failures, most_lent>>

\* release: counted down, then kept or let go.
Release(t) ==
  /\ held[t] # NoConn
  /\ borrow_size' = (borrow_size - 1) % CounterMod
  /\ conn_list' = IF Keep THEN conn_list \cup {held[t]} ELSE conn_list
  /\ held' = [held EXCEPT ![t] = NoConn]
  /\ UNCHANGED <<busy, failures, most_lent>>

PoolNext ==
  \E t \in Thread : \/ BorrowIdle(t)
                    \/ BorrowBuilt(t)
                    \/ BorrowNothing(t)
                    \/ Release(t)

PoolSpec == PoolInit /\ [][PoolNext]_connectVars

-----------------------------------------------------------------------------
PoolTypeOK ==
  /\ conn_list \subseteq Conn
  /\ borrow_size \in Nat
  /\ busy \in Nat
  /\ held \in [Thread -> Conn \cup {NoConn}]
  /\ failures \in 0..MaxFailures
  /\ most_lent \in Nat

(***************************************************************************)
(* connect_pool.h:62-64 calls a release with borrow_size = 0 "a code       *)
(* error".  The counter is the number of borrowed channels plus the builds *)
(* that failed, so a release never finds it at zero and never wraps it.    *)
(***************************************************************************)
BorrowsAccounted == borrow_size = Cardinality(Holders) + failures

(***************************************************************************)
(* A channel is lent to one thread at a time, and a lent channel is not in *)
(* the list.                                                               *)
(***************************************************************************)
LentOnce ==
  /\ \A t \in Holders : held[t] \notin conn_list
  /\ \A t, u \in Holders : held[t] = held[u] => t = u

(***************************************************************************)
(* The two above with the types of the variables; each conjunct needs      *)
(* those before it to be kept by a step.                                   *)
(***************************************************************************)
PoolInv == PoolTypeOK /\ BorrowsAccounted /\ LentOnce

(***************************************************************************)
(* What bounds the pool, since borrow does not look at max_size when the   *)
(* list is empty (42): never more channels, idle and lent, than the pool   *)
(* was built with or than its threads have needed at the same time,        *)
(* whatever the releases keep.                                             *)
(***************************************************************************)
LiveAtMostDemand ==
  LET live == Cardinality(conn_list) + Cardinality(Holders)
  IN  live <= PoolSize \/ live <= most_lent

(***************************************************************************)
(* As long as every build has succeeded, a thread that borrows while       *)
(* nobody else holds a channel ends the shortage, so that releases let     *)
(* channels go again.                                                      *)
(***************************************************************************)
PressureEnds ==
  [][\A t \in Thread :
       Holders = {} /\ Holders' = {t} /\ failures = 0 => busy' = 0]_connectVars

(***************************************************************************)
(* connect_pool.h:9-10 makes two promises: the pool grows when channels    *)
(* are short "but never above max_size", and "when the shortage is over it *)
(* goes back to pool_size".  A behaviour that violates this property       *)
(* breaks both: it has had more than MaxSize channels lent at once, and    *)
(* later a thread that borrows alone does not end the shortage.  The first *)
(* half breaks because borrow builds without looking at max_size (42), the *)
(* second after PoolSize failed builds, which count as borrowed (43).      *)
(***************************************************************************)
BoundedOrGoesBack ==
  [][\A t \in Thread :
       Holders = {} /\ Holders' = {t} => most_lent <= MaxSize \/ busy' = 0]_connectVars

=============================================================================
