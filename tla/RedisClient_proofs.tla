------------------------- MODULE RedisClient_proofs -------------------------
(***************************************************************************)
(* What is proved of the two pools of a redis client: the channels to one  *)
(* server (ConnectPool), for any number of threads, any pool sizes and any *)
(* number of failed builds; then the servers of a cluster (ChannelPools),  *)
(* for any topologies, any number of calls and any number of refreshes.    *)
(***************************************************************************)
EXTENDS ConnectPool, ChannelPools, FiniteSetTheorems, WellFoundedInduction, TLAPS

(***************************************************************************)
(* A counter below its modulus is not wrapped.                             *)
(***************************************************************************)
LEMMA NoWrap ==
  ASSUME NEW a \in Nat, NEW m \in Nat, a < m
  PROVE  a % m = a
  OBVIOUS

(***************************************************************************)
(* Holders are threads, so they are finitely many.                         *)
(***************************************************************************)
LEMMA HoldersFinite ==
  /\ Holders \subseteq Thread
  /\ IsFiniteSet(Holders)
  /\ Cardinality(Holders) \in Nat
  /\ Cardinality(Holders) <= Cardinality(Thread)
  /\ Cardinality(Thread) \in Nat
  /\ Cardinality(Holders) = 0 <=> Holders = {}
<1>1. Holders \subseteq Thread
  BY DEF Holders
<1> QED
  BY <1>1, PoolAssumption, FS_Subset, FS_CardinalityType, FS_EmptySet
(***************************************************************************)
(* A borrower joins the holders, a releaser leaves them.                   *)
(***************************************************************************)
LEMMA HoldersGrow ==
  ASSUME PoolTypeOK, NEW t \in Thread, NEW c \in Conn,
         held[t] = NoConn, held' = [held EXCEPT ![t] = c]
  PROVE  /\ Holders' = Holders \cup {t}
         /\ t \notin Holders
         /\ Cardinality(Holders') = Cardinality(Holders) + 1
         /\ \A u \in Holders : held'[u] = held[u]
         /\ held'[t] = c
<1>1. /\ Holders' = Holders \cup {t} /\ t \notin Holders
      /\ \A u \in Holders : held'[u] = held[u]
      /\ held'[t] = c
  BY PoolAssumption DEF Holders, PoolTypeOK
<1> QED
  BY <1>1, HoldersFinite, FS_AddElement

(***************************************************************************)
(* Lending raises most_lent to the number of holders if that is more.      *)
(***************************************************************************)
LEMMA LendCounts ==
  ASSUME PoolTypeOK, NEW t \in Thread, NEW c \in Conn, Lend(t, c)
  PROVE  /\ held' = [held EXCEPT ![t] = c]
         /\ most_lent' \in Nat
         /\ most_lent' >= most_lent
         /\ most_lent' >= Cardinality(Holders')
<1>1. held' \in [Thread -> Conn \cup {NoConn}]
  BY DEF Lend, PoolTypeOK
<1>2. Holders' \subseteq Thread
  BY DEF Holders
<1>3. Cardinality(Holders') \in Nat
  BY <1>2, PoolAssumption, FS_Subset, FS_CardinalityType
<1> QED
  BY <1>3 DEF Lend, PoolTypeOK

(***************************************************************************)
(* release, seen from the holders.                                         *)
(***************************************************************************)
LEMMA HoldersShrink ==
  ASSUME PoolTypeOK, NEW t \in Thread,
         held[t] # NoConn, held' = [held EXCEPT ![t] = NoConn]
  PROVE  /\ Holders' = Holders \ {t}
         /\ t \in Holders
         /\ Cardinality(Holders') = Cardinality(Holders) - 1
         /\ \A u \in Holders' : held'[u] = held[u]
<1>1. /\ Holders' = Holders \ {t} /\ t \in Holders
      /\ \A u \in Holders' : held'[u] = held[u]
  BY DEF Holders, PoolTypeOK
<1> QED
  BY <1>1, HoldersFinite, FS_RemoveElement

(***************************************************************************)
(* borrow's counting: it never wraps, so it adds one.                      *)
(***************************************************************************)
LEMMA CountBorrowExact ==
  ASSUME PoolInv, CountBorrow,
         \/ Cardinality(Holders) < Cardinality(Thread)
         \/ failures < MaxFailures
  PROVE  /\ borrow_size' = borrow_size + 1
         /\ busy' \in Nat
         /\ borrow_size' <= PoolSize => busy' = 0
<1>1. /\ borrow_size + 1 \in Nat /\ CounterMod \in Nat
      /\ borrow_size + 1 < CounterMod
  BY PoolAssumption, HoldersFinite DEF PoolInv, PoolTypeOK, BorrowsAccounted
<1>2. borrow_size' = borrow_size + 1
  BY <1>1, NoWrap DEF CountBorrow
<1>3. busy' = 0 \/ busy' = (busy + 1) % CounterMod
  BY DEF CountBorrow
<1>4. busy' \in Nat
  BY <1>1, <1>3, PoolAssumption DEF PoolInv, PoolTypeOK
<1>5. borrow_size' <= PoolSize => busy' = 0
  BY <1>1, <1>2, PoolAssumption DEF CountBorrow
<1> QED
  BY <1>2, <1>4, <1>5

(***************************************************************************)
(* Every borrow and every release keeps the accounting.                    *)
(***************************************************************************)
LEMMA NextPoolInv == PoolInv /\ [PoolNext]_connectVars => PoolInv'
<1> SUFFICES ASSUME PoolInv, [PoolNext]_connectVars PROVE PoolInv'
  OBVIOUS
<1> USE DEF PoolInv
<1>1. ASSUME NEW t \in Thread, BorrowIdle(t) \/ BorrowBuilt(t) PROVE PoolInv'
  <2>1. PICK c \in Conn :
          /\ held[t] = NoConn /\ held' = [held EXCEPT ![t] = c]
          /\ conn_list' \subseteq conn_list /\ c \notin conn_list'
          /\ \A u \in Holders : held[u] # c
          /\ most_lent' \in Nat
    <3>1. CASE BorrowIdle(t)
      <4>1. PICK d \in conn_list : Lend(t, d) /\ conn_list' = conn_list \ {d}
        BY <3>1 DEF BorrowIdle
      <4>2. d \in Conn /\ \A u \in Holders : held[u] # d
        BY DEF LentOnce, PoolTypeOK
      <4> QED
        BY <3>1, <4>1, <4>2, LendCounts DEF BorrowIdle
    <3>2. CASE BorrowBuilt(t)
      <4>1. PICK d \in Conn \ InUse : Lend(t, d)
        BY <3>2 DEF BorrowBuilt
      <4> QED
        BY <3>2, <4>1, LendCounts DEF BorrowBuilt, InUse
    <3> QED
      BY <1>1, <3>1, <3>2
  <2>2. /\ Holders' = Holders \cup {t} /\ t \notin Holders
        /\ Cardinality(Holders') = Cardinality(Holders) + 1
        /\ \A u \in Holders : held'[u] = held[u]
        /\ held'[t] = c
    BY <2>1, HoldersGrow
  <2>3. Cardinality(Holders') <= Cardinality(Thread)
    <3>1. Holders' \subseteq Thread
      BY <2>2 DEF Holders
    <3> QED
      BY <3>1, PoolAssumption, FS_Subset
  <2>4. /\ borrow_size' = borrow_size + 1 /\ busy' \in Nat
        /\ failures' = failures
    BY <1>1, <2>2, <2>3, HoldersFinite, CountBorrowExact DEF BorrowIdle, BorrowBuilt
  <2>5. PoolTypeOK'
    BY <2>1, <2>4 DEF PoolTypeOK
  <2>6. BorrowsAccounted'
    BY <2>2, <2>4, HoldersFinite DEF BorrowsAccounted, PoolTypeOK
  <2>7. LentOnce'
    BY <2>1, <2>2 DEF LentOnce
  <2> QED
    BY <2>5, <2>6, <2>7
<1>2. ASSUME NEW t \in Thread, BorrowNothing(t) PROVE PoolInv'
  <2>1. /\ borrow_size' = borrow_size + 1 /\ busy' \in Nat
        /\ failures' = failures + 1 /\ failures < MaxFailures
        /\ UNCHANGED <<conn_list, held, most_lent>>
    BY <1>2, CountBorrowExact DEF BorrowNothing
  <2>2. PoolTypeOK'
    BY <2>1, PoolAssumption DEF PoolTypeOK
  <2>3. Holders' = Holders
    BY <2>1 DEF Holders
  <2>4. BorrowsAccounted'
    BY <2>1, <2>3, HoldersFinite DEF BorrowsAccounted, PoolTypeOK
  <2>5. LentOnce'
    BY <2>1, <2>3 DEF LentOnce
  <2> QED
    BY <2>2, <2>4, <2>5
<1>3. ASSUME NEW t \in Thread, Release(t) PROVE PoolInv'
  <2>1. /\ Holders' = Holders \ {t} /\ t \in Holders
        /\ Cardinality(Holders') = Cardinality(Holders) - 1
        /\ \A u \in Holders' : held'[u] = held[u]
    BY <1>3, HoldersShrink DEF Release
  <2>2. /\ borrow_size - 1 \in Nat /\ borrow_size - 1 < CounterMod
        /\ UNCHANGED <<busy, failures, most_lent>>
    BY <1>3, <2>1, HoldersFinite, PoolAssumption
       DEF Release, BorrowsAccounted, PoolTypeOK
  <2>3. borrow_size' = borrow_size - 1
    BY <1>3, <2>2, PoolAssumption, NoWrap DEF Release
  <2>4. conn_list' \subseteq conn_list \cup {held[t]} /\ held[t] \in Conn
    BY <1>3 DEF Release, PoolTypeOK
  <2>5. PoolTypeOK'
    BY <1>3, <2>2, <2>3, <2>4 DEF Release, PoolTypeOK
  <2>6. BorrowsAccounted'
    BY <2>1, <2>2, <2>3, HoldersFinite DEF BorrowsAccounted, PoolTypeOK
  <2>7. LentOnce'
    BY <2>1, <2>4 DEF LentOnce
  <2> QED
    BY <2>5, <2>6, <2>7
<1>4. CASE UNCHANGED connectVars
  BY <1>4 DEF connectVars, PoolTypeOK, BorrowsAccounted, LentOnce, Holders
<1> QED
  BY <1>1, <1>2, <1>3, <1>4 DEF PoolNext

(***************************************************************************)
(* The pool's accounting: borrow_size is what is lent plus what a failed   *)
(* build has leaked, so release never meets the "code error" of line 62,   *)
(* and no channel is lent twice.                                           *)
(***************************************************************************)
THEOREM PoolInvCorrect == PoolSpec => []PoolInv
<1>1. PoolInit => PoolInv
  <2> SUFFICES ASSUME PoolInit PROVE PoolInv
    OBVIOUS
  <2>1. Holders = {}
    BY DEF PoolInit, Holders
  <2>2. Cardinality(Holders) = 0
    BY <2>1, FS_EmptySet
  <2> QED
    BY <2>1, <2>2, PoolAssumption
       DEF PoolInit, PoolInv, PoolTypeOK, BorrowsAccounted, LentOnce
<1> QED
  BY <1>1, NextPoolInv, PTL DEF PoolSpec

(***************************************************************************)
(* BorrowsAccounted, for any number of threads and failures.               *)
(***************************************************************************)
THEOREM BorrowsAccountedCorrect == PoolSpec => []BorrowsAccounted
<1>1. PoolInv => BorrowsAccounted
  BY DEF PoolInv
<1> QED
  BY <1>1, PoolInvCorrect, PTL

(***************************************************************************)
(* connect_pool.h:10 holds as long as no build has failed: a borrower that *)
(* is alone clears busy.                                                   *)
(***************************************************************************)
THEOREM PressureEndsCorrect == PoolSpec => PressureEnds
<1>1. PoolInv /\ [PoolNext]_connectVars =>
        [\A t \in Thread :
           Holders = {} /\ Holders' = {t} /\ failures = 0 => busy' = 0]_connectVars
  <2> SUFFICES ASSUME PoolInv, PoolNext, NEW t \in Thread,
                      Holders = {}, Holders' = {t}, failures = 0
               PROVE  busy' = 0
    OBVIOUS
  <2>1. PICK u \in Thread : BorrowIdle(u) \/ BorrowBuilt(u)
    <3>1. ASSUME NEW u \in Thread PROVE ~BorrowNothing(u) /\ ~Release(u)
      BY PoolAssumption DEF BorrowNothing, Release, PoolInv, PoolTypeOK, Holders
    <3> QED
      BY <3>1 DEF PoolNext
  <2>2. Cardinality(Holders) = 0
    BY FS_EmptySet
  <2>3. borrow_size = 0
    BY <2>2 DEF PoolInv, BorrowsAccounted
  <2>4. Cardinality(Holders) < Cardinality(Thread)
    BY <2>2, PoolAssumption, FS_EmptySet, FS_CardinalityType
  <2>5. CountBorrow
    BY <2>1 DEF BorrowIdle, BorrowBuilt
  <2> QED
    BY <2>3, <2>4, <2>5, CountBorrowExact, PoolAssumption
<1> QED
  BY <1>1, PoolInvCorrect, PTL DEF PoolSpec, PressureEnds

(***************************************************************************)
(* The pool builds a channel only for a borrower that finds none idle, so  *)
(* it never has more than it started with or than were needed at once.     *)
(* This is the bound that holds in place of max_size.                      *)
(***************************************************************************)
THEOREM LiveAtMostDemandCorrect == PoolSpec => []LiveAtMostDemand
<1> DEFINE Live == Cardinality(conn_list) + Cardinality(Holders)
           LInv == PoolInv /\ LiveAtMostDemand
<1>1. PoolInv => IsFiniteSet(conn_list) /\ Cardinality(conn_list) \in Nat
  BY PoolAssumption, FS_Subset, FS_CardinalityType DEF PoolInv, PoolTypeOK
<1>2. PoolInit => LiveAtMostDemand
  <2> SUFFICES ASSUME PoolInit PROVE LiveAtMostDemand
    OBVIOUS
  <2>1. Holders = {} /\ Cardinality(conn_list) <= PoolSize
    BY DEF PoolInit, Holders
  <2>2. conn_list \subseteq Conn
    BY DEF PoolInit
  <2>3. Cardinality(Holders) = 0 /\ Cardinality(conn_list) \in Nat
    BY <2>1, <2>2, PoolAssumption, FS_EmptySet, FS_Subset, FS_CardinalityType
  <2> QED
    BY <2>1, <2>3, PoolAssumption DEF LiveAtMostDemand
<1>3. LInv /\ [PoolNext]_connectVars => LiveAtMostDemand'
  <2> SUFFICES ASSUME LInv, [PoolNext]_connectVars PROVE LiveAtMostDemand'
    OBVIOUS
  <2>1. ASSUME NEW t \in Thread, BorrowIdle(t) PROVE LiveAtMostDemand'
    <3>1. PICK c \in conn_list : Lend(t, c) /\ conn_list' = conn_list \ {c}
      BY <2>1 DEF BorrowIdle
    <3>5. /\ held' = [held EXCEPT ![t] = c] /\ c \in Conn
          /\ most_lent' \in Nat /\ most_lent' >= most_lent
      BY <3>1, LendCounts DEF PoolInv, PoolTypeOK
    <3>2. Cardinality(Holders') = Cardinality(Holders) + 1
      BY <2>1, <3>5, HoldersGrow DEF BorrowIdle, PoolInv
    <3>3. Cardinality(conn_list') = Cardinality(conn_list) - 1
      BY <1>1, <3>1, FS_RemoveElement
    <3>4. /\ Cardinality(conn_list') + Cardinality(Holders') = Live
          /\ Live \in Nat
      BY <1>1, <3>2, <3>3, HoldersFinite
    <3> QED
      BY <3>4, <3>5 DEF LiveAtMostDemand, PoolInv, PoolTypeOK
  <2>2. ASSUME NEW t \in Thread, BorrowBuilt(t) PROVE LiveAtMostDemand'
    <3>1. PICK c \in Conn : Lend(t, c)
      BY <2>2 DEF BorrowBuilt
    <3>2. most_lent' \in Nat /\ most_lent' >= Cardinality(Holders')
      BY <3>1, LendCounts DEF PoolInv
    <3>3. Cardinality(conn_list') = 0
      BY <2>2, FS_EmptySet DEF BorrowBuilt
    <3>4. Cardinality(Holders') \in Nat
      <4>1. Holders' \subseteq Thread
        BY DEF Holders
      <4> QED
        BY <4>1, PoolAssumption, FS_Subset, FS_CardinalityType
    <3> QED
      BY <3>2, <3>3, <3>4 DEF LiveAtMostDemand
  <2>3. CASE UNCHANGED connectVars \/ \E t \in Thread : BorrowNothing(t)
    <3>1. UNCHANGED <<conn_list, held, most_lent>>
      BY <2>3 DEF connectVars, BorrowNothing
    <3> QED
      BY <3>1 DEF LiveAtMostDemand, Holders
  <2>4. ASSUME NEW t \in Thread, Release(t) PROVE LiveAtMostDemand'
    <3>1. /\ Cardinality(Holders') = Cardinality(Holders) - 1
          /\ t \in Holders
      BY <2>4, HoldersShrink DEF Release, PoolInv
    <3>2. \/ conn_list' = conn_list
          \/ conn_list' = conn_list \cup {held[t]} /\ held[t] \notin conn_list
      BY <2>4, <3>1 DEF Release, PoolInv, LentOnce
    <3>3. /\ Cardinality(conn_list') \in Nat
          /\ Cardinality(conn_list') <= Cardinality(conn_list) + 1
      BY <1>1, <3>2, FS_AddElement
    <3>4. Cardinality(conn_list') + Cardinality(Holders') <= Live
      BY <1>1, <3>1, <3>3, HoldersFinite
    <3>5. Cardinality(conn_list') + Cardinality(Holders') \in Int /\ Live \in Int
      BY <1>1, <3>1, <3>3, HoldersFinite
    <3>6. most_lent' = most_lent /\ most_lent \in Nat
      BY <2>4 DEF Release, PoolInv, PoolTypeOK
    <3> QED
      BY <3>4, <3>5, <3>6, PoolAssumption DEF LiveAtMostDemand
  <2> QED
    BY <2>1, <2>2, <2>3, <2>4 DEF PoolNext
<1> QED
  BY <1>2, <1>3, PoolInvCorrect, PTL DEF PoolSpec

-----------------------------------------------------------------------------
(***************************************************************************)
(* A non-empty set of naturals has a least member, and one that is bounded *)
(* a greatest: what the last claim of a slot is.                           *)
(***************************************************************************)
LEMMA HasLeast ==
  ASSUME NEW T \in SUBSET Nat, T # {}
  PROVE  \E m \in T : \A k \in T : m <= k
<1> DEFINE R == OpToRel(<, Nat)
<1>1. IsWellFoundedOn(R, Nat)
  BY NatLessThanWellFounded
<1>2. PICK m \in T : \A k \in T : ~(<<k, m>> \in R)
  <2> HIDE DEF R
  <2> QED BY <1>1, WFMin
<1>3. \A k \in T : ~(k < m)
  <2> TAKE k \in T
  <2>1. k < m => <<k, m>> \in R
    BY DEF OpToRel
  <2> QED BY <2>1, <1>2
<1>4. \A k \in T : k \in Int /\ m \in Int
  OBVIOUS
<1>5. \A k \in T : m <= k
  <2> TAKE k \in T
  <2>1. k \in Int /\ m \in Int /\ ~(k < m)
    BY <1>3, <1>4
  <2> QED BY <2>1
<1> QED BY <1>5

LEMMA HasGreatest ==
  ASSUME NEW n \in Nat, NEW T \in SUBSET (1..n), T # {}
  PROVE  \E m \in T : \A k \in T : k <= m
<1>1. {n - k : k \in T} \in SUBSET Nat /\ {n - k : k \in T} # {}
  <2>1. \A k \in T : n - k \in Nat
    OBVIOUS
  <2> QED BY <2>1, Zenon
<1>2. PICK d \in {n - k : k \in T} : \A e \in {n - k : k \in T} : d <= e
  BY <1>1, HasLeast
<1>3. PICK m \in T : d = n - m
  BY Zenon
<1>4. \A k \in T : n - m <= n - k
  BY <1>2, <1>3, Zenon
<1>5. \A k \in T : k \in Int /\ m \in Int
  OBVIOUS
<1> QED BY <1>4, <1>5

(***************************************************************************)
(* The last claim of a slot that is claimed is one of its claims.          *)
(***************************************************************************)
LEMMA LastClaimClaims ==
  ASSUME NEW lines \in Seq(Line), NEW s \in Slot, Claims(lines, s) # {}
  PROVE  LastClaim(lines, s) \in Claims(lines, s)
<1>1. Len(lines) \in Nat /\ Claims(lines, s) \in SUBSET (1..Len(lines))
  BY DEF Claims
<1>2. \E i \in Claims(lines, s) : \A j \in Claims(lines, s) : j <= i
  BY <1>1, HasGreatest
<1> QED BY <1>2 DEF LastClaim

\* What the refresher writes into a pool: slots map to positions, every line has its
\* ConnectPool.
LEMMA SlotNodeMapType ==
  ASSUME NEW old \in [Slot -> Nat], NEW lines \in Seq(Line)
  PROVE  SlotNodeMap(old, lines) \in [Slot -> Nat]
<1>1. \A s \in Slot : Claims(lines, s) # {} => LastClaim(lines, s) \in Nat
  BY LastClaimClaims DEF Claims
<1> QED BY <1>1 DEF SlotNodeMap

LEMMA BuiltType ==
  ASSUME NEW lines \in Seq(Line), NEW round \in 0..MaxRefreshes
  PROVE  /\ Built(lines, round) \in Seq(ConnectPools \cup {NoPool})
         /\ Len(Built(lines, round)) = Len(lines)
         /\ \A i \in 1..Len(lines) : /\ Built(lines, round)[i] # NoPool
                                     /\ Built(lines, round)[i].server = lines[i].server
<1>1. \A i \in 1..Len(lines) : lines[i].server \in Server
  <2>1. \A i \in 1..Len(lines) : lines[i] \in Line
    OBVIOUS
  <2> QED BY <2>1 DEF Line
<1>2. \A i \in 1..Len(lines) :
        [server |-> lines[i].server, round |-> round] \in ConnectPools
  BY <1>1 DEF ConnectPools
<1>3. Len(lines) \in Nat
  OBVIOUS
<1>4. NoPool \notin ConnectPools
  BY ChannelPoolsAssumption DEF ConnectPools
<1> QED BY <1>2, <1>3, <1>4 DEF Built

-----------------------------------------------------------------------------
\* Every state is well typed.
LEMMA InitTyped == Init => TypeOK
<1> SUFFICES ASSUME Init PROVE TypeOK
  OBVIOUS
<1>1. PICK lines \in Topologies \cup {<<>>} :
        /\ newest = lines
        /\ valid_lines = [p \in 0..1 |-> IF p = 0 THEN lines ELSE <<>>]
        /\ slot_index = [p \in 0..1 |-> SlotNodeMap([s \in Slot |-> Unset], valid_lines[p])]
        /\ m_channel_list = [p \in 0..1 |-> Built(valid_lines[p], 0)]
  BY DEF Init
<1>2. newest \in Seq(Line) /\ valid_lines \in [0..1 -> Seq(Line)]
  <2>1. <<>> \in Seq(Line)
    OBVIOUS
  <2>2. lines \in Seq(Line)
    BY <2>1, ChannelPoolsAssumption, Zenon
  <2> QED BY <1>1, <2>1, <2>2
<1>3. slot_index \in [0..1 -> [Slot -> Nat]]
  <2>1. [s \in Slot |-> Unset] \in [Slot -> Nat]
    BY DEF Unset
  <2> QED BY <1>1, <1>2, <2>1, SlotNodeMapType
<1>4. m_channel_list \in [0..1 -> Seq(ConnectPools \cup {NoPool})]
  <2>1. 0 \in 0..MaxRefreshes
    BY ChannelPoolsAssumption
  <2> QED BY <1>1, <1>2, <2>1, BuiltType
<1>5. fetch \in [Fetcher -> FetchType] /\ refreshes \in 0..MaxRefreshes
  BY ChannelPoolsAssumption DEF Init, FetchType
<1>6. /\ pool_index \in 0..1 /\ refresher = "asleep" /\ failed = FALSE
      /\ slept = {} /\ outlived = {} /\ strayed = {}
  BY DEF Init
<1> QED BY <1>2, <1>3, <1>4, <1>5, <1>6 DEF TypeOK

LEMMA NextTyped == TypeOK /\ [Next]_vars => TypeOK'
<1> SUFFICES ASSUME TypeOK, [Next]_vars PROVE TypeOK'
  OBVIOUS
<1> USE DEF TypeOK
<1>1. CASE Answered
  <2>1. PICK lines \in Topologies : /\ valid_lines' = [valid_lines EXCEPT ![Backup] = lines]
                                    /\ newest' = lines
    BY <1>1 DEF Answered
  <2>2. lines \in Seq(Line)
    BY ChannelPoolsAssumption
  <2>3. newest' \in Seq(Line) /\ valid_lines' \in [0..1 -> Seq(Line)]
    BY <2>1, <2>2
  <2>4. /\ refresher' \in {"asleep", "slots"}
        /\ refreshes' \in 0..MaxRefreshes
        /\ slept' \subseteq Fetcher /\ outlived' \subseteq Fetcher
    BY <1>1, ChannelPoolsAssumption DEF Answered, Wake, Busy
  <2> QED BY <1>1, <2>3, <2>4 DEF Answered
<1>2. CASE Unanswered
  <2>1. /\ refresher' \in {"asleep", "switch"}
        /\ refreshes' \in 0..MaxRefreshes
        /\ slept' \subseteq Fetcher /\ outlived' \subseteq Fetcher
    BY <1>2, ChannelPoolsAssumption DEF Unanswered, Wake, Busy
  <2> QED BY <1>2, <2>1 DEF Unanswered, poolVars
<1>3. CASE SetSlots
  <2>1. Backup \in 0..1
    BY DEF Backup
  <2>2. SlotNodeMap(slot_index[Backup], valid_lines[Backup]) \in [Slot -> Nat]
    BY <2>1, SlotNodeMapType
  <2>3. slot_index' \in [0..1 -> [Slot -> Nat]]
    BY <1>3, <2>2 DEF SetSlots
  <2> QED BY <1>3, <2>3 DEF SetSlots
<1>4. CASE ResizeChannels
  <2>1. Backup \in 0..1 /\ valid_lines[Backup] \in Seq(Line)
        /\ m_channel_list[Backup] \in Seq(ConnectPools \cup {NoPool})
    BY DEF Backup
  <2> DEFINE resized == [i \in 1..Len(valid_lines[Backup]) |->
               IF i <= Len(m_channel_list[Backup]) THEN m_channel_list[Backup][i] ELSE NoPool]
  <2>2. resized \in Seq(ConnectPools \cup {NoPool})
    <3>1. Len(valid_lines[Backup]) \in Nat /\ Len(m_channel_list[Backup]) \in Nat
      BY <2>1
    <3>2. \A i \in 1..Len(valid_lines[Backup]) :
            i <= Len(m_channel_list[Backup]) =>
              m_channel_list[Backup][i] \in ConnectPools \cup {NoPool}
      BY <2>1, <3>1
    <3> QED BY <3>1, <3>2
  <2>3. m_channel_list' = [m_channel_list EXCEPT ![Backup] = resized]
    BY <1>4 DEF ResizeChannels
  <2> HIDE DEF resized
  <2>4. m_channel_list' \in [0..1 -> Seq(ConnectPools \cup {NoPool})]
    BY <2>2, <2>3
  <2> QED BY <1>4, <2>4 DEF ResizeChannels
<1>5. CASE InitChannels
  <2>1. Backup \in 0..1
    BY DEF Backup
  <2>2. Built(valid_lines[Backup], refreshes) \in Seq(ConnectPools \cup {NoPool})
    BY <2>1, BuiltType
  <2>3. m_channel_list' \in [0..1 -> Seq(ConnectPools \cup {NoPool})]
    BY <1>5, <2>2 DEF InitChannels
  <2> QED BY <1>5, <2>3 DEF InitChannels
<1>6. CASE Switch
  BY <1>6 DEF Switch, poolVars, Backup, Busy
<1>7. ASSUME NEW t \in Fetcher, LoadIndex(t) PROVE TypeOK'
  <2>1. [stage |-> "loaded", pool |-> pool_index] \in FetchType
    BY DEF FetchType
  <2> QED BY <1>7, <2>1 DEF LoadIndex, poolVars
<1>8. ASSUME NEW t \in Fetcher, Refuse(t) PROVE TypeOK'
  BY <1>8 DEF Refuse, Return, poolVars, FetchType
<1>9. ASSUME NEW t \in Fetcher, GetConnection(t) PROVE TypeOK'
  <2>1. PICK s \in Slot :
          LET p == fetch[t].pool
              i == KeyNodeIndex(p, s)
          IN  /\ i <= Len(m_channel_list[p])
              /\ fetch' = [fetch EXCEPT ![t] = [stage |-> "holding", pool |-> p, index |-> i,
                                                slot |-> s, from |-> m_channel_list[p][i]]]
              /\ strayed' = IF m_channel_list[p][i] = NoPool THEN strayed \cup {t} ELSE strayed
    BY <1>9 DEF GetConnection
  <2>2. fetch[t].pool \in 0..1
    BY <1>9 DEF GetConnection, FetchType, Idle
  <2> DEFINE p == fetch[t].pool
             i == KeyNodeIndex(p, s)
  <2>3. i \in Nat
    BY <2>2 DEF KeyNodeIndex, Unset
  <2>4. i # 0
    BY <2>2 DEF KeyNodeIndex, Unset
  <2>5. m_channel_list[p][i] \in ConnectPools \cup {NoPool}
    <3>1. m_channel_list[p] \in Seq(ConnectPools \cup {NoPool})
      BY <2>2
    <3>2. i \in 1..Len(m_channel_list[p])
      BY <2>1, <2>3, <2>4, <3>1
    <3> QED BY <3>1, <3>2
  <2>6. [stage |-> "holding", pool |-> p, index |-> i, slot |-> s,
         from |-> m_channel_list[p][i]] \in FetchType
    <3> HIDE DEF i, p
    <3> QED BY <2>2, <2>3, <2>5 DEF FetchType, p
  <2>7. fetch' \in [Fetcher -> FetchType] /\ strayed' \subseteq Fetcher
    <3> HIDE DEF i
    <3>1. fetch' = [fetch EXCEPT ![t] = [stage |-> "holding", pool |-> p, index |-> i,
                                         slot |-> s, from |-> m_channel_list[p][i]]]
      BY <2>1 DEF i
    <3> HIDE DEF p
    <3> QED BY <3>1, <2>1, <2>6
  <2> QED BY <1>9, <2>7 DEF GetConnection, poolVars
<1>10. ASSUME NEW t \in Fetcher, FreeConnection(t) PROVE TypeOK'
  BY <1>10 DEF FreeConnection, Return, poolVars, FetchType
<1>11. CASE UNCHANGED vars
  BY <1>11 DEF vars, poolVars
<1> QED
  BY <1>1, <1>2, <1>3, <1>4, <1>5, <1>6, <1>7, <1>8, <1>9, <1>10, <1>11 DEF Next

-----------------------------------------------------------------------------
(***************************************************************************)
(* PoolInUseFits is inductive: a step changes the backup or switches to    *)
(* it, and it only switches to what it has just built or left alone.       *)
(***************************************************************************)
LEMMA InitFits == Init => PoolInUseFits
<1> SUFFICES ASSUME Init PROVE PoolInUseFits
  OBVIOUS
<1>1. TypeOK
  BY InitTyped
<1>2. /\ pool_index = 0 /\ refresher = "asleep"
      /\ slot_index = [p \in 0..1 |-> SlotNodeMap([s \in Slot |-> Unset], valid_lines[p])]
      /\ m_channel_list = [p \in 0..1 |-> Built(valid_lines[p], 0)]
  BY DEF Init
<1>3. \A p \in 0..1 : SlotsFit(p)
  BY <1>2 DEF SlotsFit, SlotNodeMap
<1>4. \A p \in 0..1 : ChannelsFit(p)
  <2> TAKE p \in 0..1
  <2>1. valid_lines[p] \in Seq(Line) /\ 0 \in 0..MaxRefreshes
    BY <1>1, ChannelPoolsAssumption DEF TypeOK
  <2>2. m_channel_list[p] = Built(valid_lines[p], 0)
    BY <1>2
  <2> QED BY <2>1, <2>2, BuiltType DEF ChannelsFit
<1> QED BY <1>1, <1>2, <1>3, <1>4 DEF PoolInUseFits, Backup

LEMMA NextFits == PoolInUseFits /\ [Next]_vars => PoolInUseFits'
<1> SUFFICES ASSUME PoolInUseFits, [Next]_vars PROVE PoolInUseFits'
  OBVIOUS
<1>1. TypeOK /\ TypeOK'
  BY NextTyped DEF PoolInUseFits
<1>2. pool_index \in 0..1 /\ Backup \in 0..1 /\ Backup # pool_index
  BY <1>1 DEF TypeOK, Backup
<1>3. CASE Answered
  <2>1. PICK lines \in Topologies : valid_lines' = [valid_lines EXCEPT ![Backup] = lines]
    BY <1>3 DEF Answered
  <2>2. /\ refresher' = IF Compared(valid_lines'[0]) # Compared(valid_lines'[1])
                         THEN "slots" ELSE "asleep"
        /\ UNCHANGED <<pool_index, slot_index, m_channel_list>>
    BY <1>3 DEF Answered, Changed
  <2>3. valid_lines'[pool_index] = valid_lines[pool_index]
    BY <2>1, <1>1, <1>2 DEF TypeOK
  <2>4. SlotsFit(pool_index)'
    BY <2>2, <2>3 DEF PoolInUseFits, SlotsFit
  <2>5. ChannelsFit(pool_index)'
    BY <2>2, <2>3 DEF PoolInUseFits, ChannelsFit
  <2> QED BY <1>1, <2>2, <2>4, <2>5 DEF PoolInUseFits
<1>4. CASE Unanswered
  <2>1. /\ refresher = "asleep" /\ UNCHANGED <<pool_index, poolVars>>
        /\ refresher' = IF Compared(valid_lines[0]) # Compared(valid_lines[1])
                         THEN "switch" ELSE "asleep"
    BY <1>4 DEF Unanswered, Wake, Changed
  <2>2. UNCHANGED <<valid_lines, slot_index, m_channel_list>> /\ Backup' = Backup
    BY <2>1 DEF poolVars, Backup
  <2>3. SlotsFit(pool_index)' /\ ChannelsFit(pool_index)'
    BY <2>1, <2>2 DEF PoolInUseFits, SlotsFit, ChannelsFit
  <2>4. Compared(valid_lines[0]) # Compared(valid_lines[1]) =>
          SlotsFit(Backup)' /\ ChannelsFit(Backup)'
    BY <2>1, <2>2 DEF PoolInUseFits, SlotsFit, ChannelsFit
  <2> QED BY <1>1, <2>1, <2>2, <2>3, <2>4 DEF PoolInUseFits
<1>5. CASE SetSlots
  <2>1. /\ slot_index' = [slot_index EXCEPT ![Backup] =
                            SlotNodeMap(slot_index[Backup], valid_lines[Backup])]
        /\ refresher' = "resize" /\ UNCHANGED <<pool_index, valid_lines, m_channel_list>>
        /\ Backup' = Backup
    BY <1>5 DEF SetSlots, Backup
  <2>2. slot_index'[pool_index] = slot_index[pool_index]
    BY <2>1, <1>1, <1>2 DEF TypeOK
  <2>3. SlotsFit(pool_index)' /\ ChannelsFit(pool_index)'
    BY <2>1, <2>2 DEF PoolInUseFits, SlotsFit, ChannelsFit
  <2>4. slot_index'[Backup] = SlotNodeMap(slot_index[Backup], valid_lines[Backup])
    BY <2>1, <1>1, <1>2 DEF TypeOK
  <2>5. SlotsFit(Backup)'
    BY <2>1, <2>4 DEF SlotsFit, SlotNodeMap
  <2> QED BY <1>1, <2>1, <2>3, <2>5 DEF PoolInUseFits
<1>6. CASE ResizeChannels
  <2> DEFINE resized == [i \in 1..Len(valid_lines[Backup]) |->
               IF i <= Len(m_channel_list[Backup]) THEN m_channel_list[Backup][i] ELSE NoPool]
  <2>1. /\ m_channel_list' = [m_channel_list EXCEPT ![Backup] = resized]
        /\ refresher = "resize" /\ refresher' = "channels"
        /\ UNCHANGED <<pool_index, valid_lines, slot_index>> /\ Backup' = Backup
    BY <1>6 DEF ResizeChannels, Backup
  <2>2. Len(resized) = Len(valid_lines[Backup])
    <3>1. Len(valid_lines[Backup]) \in Nat
      BY <1>1, <1>2 DEF TypeOK
    <3> QED BY <3>1
  <2> HIDE DEF resized
  <2>3. /\ m_channel_list'[pool_index] = m_channel_list[pool_index]
        /\ m_channel_list'[Backup] = resized
    BY <2>1, <1>1, <1>2 DEF TypeOK
  <2>4. SlotsFit(pool_index)' /\ ChannelsFit(pool_index)' /\ SlotsFit(Backup)'
    BY <2>1, <2>3 DEF PoolInUseFits, SlotsFit, ChannelsFit
  <2> QED BY <1>1, <2>1, <2>2, <2>3, <2>4 DEF PoolInUseFits
<1>7. CASE InitChannels
  <2>1. /\ m_channel_list' = [m_channel_list EXCEPT ![Backup] =
                                Built(valid_lines[Backup], refreshes)]
        /\ refresher = "channels" /\ refresher' = "switch"
        /\ UNCHANGED <<pool_index, valid_lines, slot_index>> /\ Backup' = Backup
    BY <1>7 DEF InitChannels, Backup
  <2>2. /\ m_channel_list'[pool_index] = m_channel_list[pool_index]
        /\ m_channel_list'[Backup] = Built(valid_lines[Backup], refreshes)
    BY <2>1, <1>1, <1>2 DEF TypeOK
  <2>3. SlotsFit(pool_index)' /\ ChannelsFit(pool_index)' /\ SlotsFit(Backup)'
    BY <2>1, <2>2 DEF PoolInUseFits, SlotsFit, ChannelsFit
  <2>4. ChannelsFit(Backup)'
    <3>1. valid_lines[Backup] \in Seq(Line) /\ refreshes \in 0..MaxRefreshes
      BY <1>1, <1>2 DEF TypeOK
    <3> QED BY <2>1, <2>2, <3>1, BuiltType DEF ChannelsFit
  <2> QED BY <1>1, <2>1, <2>3, <2>4 DEF PoolInUseFits
<1>8. CASE Switch
  <2>1. /\ refresher = "switch" /\ refresher' = "asleep" /\ pool_index' = Backup
        /\ UNCHANGED <<valid_lines, slot_index, m_channel_list>>
    BY <1>8 DEF Switch, poolVars
  <2>2. Backup' = pool_index
    BY <2>1, <1>1 DEF Backup, TypeOK
  <2>3. SlotsFit(pool_index)' /\ ChannelsFit(pool_index)'
    BY <2>1 DEF PoolInUseFits, SlotsFit, ChannelsFit
  <2>4. SlotsFit(Backup)' /\ ChannelsFit(Backup)'
    BY <2>1, <2>2 DEF PoolInUseFits, SlotsFit, ChannelsFit
  <2> QED BY <1>1, <2>1, <2>3, <2>4 DEF PoolInUseFits
<1>9. ASSUME UNCHANGED <<pool_index, poolVars, refresher>> PROVE PoolInUseFits'
  <2>1. UNCHANGED <<pool_index, valid_lines, slot_index, m_channel_list, refresher, Backup>>
    BY <1>9 DEF poolVars, Backup
  <2>2. /\ SlotsFit(pool_index)' = SlotsFit(pool_index)
        /\ ChannelsFit(pool_index)' = ChannelsFit(pool_index)
        /\ SlotsFit(Backup)' = SlotsFit(Backup)
        /\ ChannelsFit(Backup)' = ChannelsFit(Backup)
    BY <2>1 DEF SlotsFit, ChannelsFit
  <2> QED BY <1>1, <2>1, <2>2 DEF PoolInUseFits
<1>10. ASSUME NEW t \in Fetcher,
              LoadIndex(t) \/ Refuse(t) \/ GetConnection(t) \/ FreeConnection(t)
       PROVE  UNCHANGED <<pool_index, poolVars, refresher>>
  BY <1>10 DEF LoadIndex, Refuse, GetConnection, FreeConnection, Return
<1> QED
  BY <1>3, <1>4, <1>5, <1>6, <1>7, <1>8, <1>9, <1>10 DEF Next, vars

(***************************************************************************)
(* At any time the pool in use fits the lines it was read from.            *)
(***************************************************************************)
THEOREM PoolInUseFitsCorrect == Spec => []PoolInUseFits
BY InitFits, NextFits, PTL DEF Spec

-----------------------------------------------------------------------------
(***************************************************************************)
(* While a round is at work its lines are the last answer, unless it got   *)
(* none.                                                                   *)
(***************************************************************************)
FreshInv ==
  /\ NewestUnlessFailed
  /\ refresher # "asleep" /\ ~failed => valid_lines[Backup] = newest

(***************************************************************************)
(* Between rounds the pool in use is that of the last answer, unless the   *)
(* last round had none.                                                    *)
(***************************************************************************)
THEOREM NewestUnlessFailedCorrect == Spec => []NewestUnlessFailed
<1>1. Init => FreshInv
  <2> SUFFICES ASSUME Init PROVE FreshInv
    OBVIOUS
  <2>1. newest = valid_lines[0]
    BY DEF Init
  <2> QED BY <2>1 DEF Init, FreshInv, NewestUnlessFailed
<1>2. PoolInUseFits /\ FreshInv /\ [Next]_vars => FreshInv'
  <2> SUFFICES ASSUME PoolInUseFits, FreshInv, [Next]_vars PROVE FreshInv'
    OBVIOUS
  <2> USE DEF FreshInv, NewestUnlessFailed
  <2>1. TypeOK /\ pool_index \in 0..1 /\ Backup \in 0..1 /\ Backup # pool_index
    BY DEF PoolInUseFits, TypeOK, Backup
  <2>2. CASE Answered
    <3>1. PICK lines \in Topologies : /\ valid_lines' = [valid_lines EXCEPT ![Backup] = lines]
                                      /\ newest' = lines
      BY <2>2 DEF Answered
    <3>2. valid_lines'[Backup] = newest' /\ pool_index' = pool_index /\ Backup' = Backup
      BY <2>1, <2>2, <3>1 DEF Answered, TypeOK, Backup
    <3>3. refresher' = "asleep" => Compared(valid_lines'[0]) = Compared(valid_lines'[1])
      BY <2>2 DEF Answered, Changed
    <3> QED BY <2>1, <3>2, <3>3 DEF TypeOK, Backup
  <2>3. CASE Unanswered
    BY <2>3 DEF Unanswered
  <2>4. CASE SetSlots \/ ResizeChannels \/ InitChannels
    BY <2>4 DEF SetSlots, ResizeChannels, InitChannels, Backup
  <2>5. CASE Switch
    BY <2>5 DEF Switch, poolVars
  <2>6. CASE UNCHANGED <<pool_index, valid_lines, refresher, newest, failed>>
    BY <2>6 DEF Backup
  <2>7. ASSUME NEW t \in Fetcher,
               LoadIndex(t) \/ Refuse(t) \/ GetConnection(t) \/ FreeConnection(t)
        PROVE  UNCHANGED <<pool_index, valid_lines, refresher, newest, failed>>
    BY <2>7 DEF LoadIndex, Refuse, GetConnection, FreeConnection, Return, poolVars
  <2> QED BY <2>2, <2>3, <2>4, <2>5, <2>6, <2>7 DEF Next, vars, poolVars
<1>3. FreshInv => NewestUnlessFailed
  BY DEF FreshInv
<1> QED BY <1>1, <1>2, <1>3, PoolInUseFitsCorrect, PTL DEF Spec

-----------------------------------------------------------------------------
(***************************************************************************)
(* What a call that outlives no sleep can rely on: its pool is the one in  *)
(* use, or was until the refresher fell asleep and is left alone; and the  *)
(* channel it holds is that of its slot's position.                        *)
(***************************************************************************)
PoolKept(t) ==
  \/ fetch[t].pool = pool_index
  \/ /\ refresher = "asleep" /\ t \in slept
     /\ SlotsFit(fetch[t].pool) /\ ChannelsFit(fetch[t].pool)

ChannelKept(t) ==
  LET p == fetch[t].pool
      i == fetch[t].index
  IN  /\ i \in 1..Len(m_channel_list[p])
      /\ m_channel_list[p][i] = fetch[t].from
      /\ i = KeyNodeIndex(p, fetch[t].slot)

CallInv ==
  /\ PoolInUseFits
  /\ strayed \subseteq outlived
  /\ \A t \in Busy \ outlived :
       PoolKept(t) /\ (fetch[t].stage = "holding" => ChannelKept(t))

\* A call whose pool is left as it is keeps what it relies on.
LEMMA SamePoolKept ==
  ASSUME TypeOK, NEW t \in Fetcher, fetch'[t] = fetch[t], fetch[t].pool \in 0..1,
         fetch[t].stage = "holding" => ChannelKept(t),
         valid_lines'[fetch[t].pool] = valid_lines[fetch[t].pool],
         slot_index'[fetch[t].pool] = slot_index[fetch[t].pool],
         m_channel_list'[fetch[t].pool] = m_channel_list[fetch[t].pool]
  PROVE  /\ fetch'[t].stage = "holding" => ChannelKept(t)'
         /\ SlotsFit(fetch[t].pool) => SlotsFit(fetch[t].pool)'
         /\ ChannelsFit(fetch[t].pool) => ChannelsFit(fetch[t].pool)'
<1>1. fetch'[t].stage = "holding" => ChannelKept(t)'
  BY DEF ChannelKept, KeyNodeIndex
<1>2. SlotsFit(fetch[t].pool) => SlotsFit(fetch[t].pool)'
  BY DEF SlotsFit
<1>3. ChannelsFit(fetch[t].pool) => ChannelsFit(fetch[t].pool)'
  BY DEF ChannelsFit
<1> QED BY <1>1, <1>2, <1>3

\* A thread in fetch or multi_fetch has loaded pool_index.
LEMMA BusyHasPool ==
  ASSUME TypeOK, NEW t \in Busy
  PROVE  /\ t \in Fetcher /\ fetch[t].pool \in 0..1
         /\ fetch[t].stage = "holding" => fetch[t].slot \in Slot
BY DEF TypeOK, Busy, FetchType, Idle

\* A round begins: calls older than the last sleep may lose what they relied on.  A
\* switch: the pool of the calls under way is left alone while the refresher sleeps.
LEMMA NextCall == CallInv /\ [Next]_vars => CallInv'
<1> SUFFICES ASSUME CallInv, [Next]_vars PROVE CallInv'
  OBVIOUS
<1>1. TypeOK /\ PoolInUseFits' /\ TypeOK'
  BY NextFits DEF CallInv, PoolInUseFits
<1>2. pool_index \in 0..1 /\ Backup \in 0..1 /\ Backup # pool_index
  BY <1>1 DEF TypeOK, Backup
<1>3. ASSUME Answered \/ Unanswered
      PROVE  CallInv'
  <2>1. /\ refresher = "asleep" /\ outlived' = outlived \cup slept
        /\ UNCHANGED <<pool_index, slot_index, m_channel_list, fetch, strayed>>
    BY <1>3 DEF Answered, Unanswered, Wake, poolVars
  <2>2. valid_lines'[pool_index] = valid_lines[pool_index]
    BY <1>1, <1>2, <1>3 DEF TypeOK, Answered, Unanswered, poolVars
  <2>3. ASSUME NEW t \in Busy' \ outlived'
        PROVE  PoolKept(t)' /\ (fetch'[t].stage = "holding" => ChannelKept(t)')
    <3>1. t \in Busy \ outlived /\ t \notin slept
      BY <2>1 DEF Busy
    <3>2. /\ t \in Fetcher /\ fetch[t].pool = pool_index
          /\ fetch[t].stage = "holding" => ChannelKept(t)
      BY <3>1, <1>1, BusyHasPool DEF CallInv, PoolKept
    <3>3. fetch'[t].stage = "holding" => ChannelKept(t)'
      BY <3>2, <2>1, <2>2, <1>1, <1>2, SamePoolKept
    <3> QED BY <3>2, <3>3, <2>1 DEF PoolKept
  <2> QED BY <1>1, <2>1, <2>3 DEF CallInv
<1>4. ASSUME SetSlots \/ ResizeChannels \/ InitChannels
      PROVE  CallInv'
  <2>1. /\ refresher # "asleep" /\ UNCHANGED <<pool_index, fetch, slept, outlived, strayed>>
        /\ valid_lines'[pool_index] = valid_lines[pool_index]
        /\ slot_index'[pool_index] = slot_index[pool_index]
        /\ m_channel_list'[pool_index] = m_channel_list[pool_index]
    BY <1>1, <1>2, <1>4 DEF SetSlots, ResizeChannels, InitChannels, TypeOK
  <2>2. ASSUME NEW t \in Busy' \ outlived'
        PROVE  PoolKept(t)' /\ (fetch'[t].stage = "holding" => ChannelKept(t)')
    <3>1. t \in Busy \ outlived
      BY <2>1 DEF Busy
    <3>2. /\ t \in Fetcher /\ fetch[t].pool = pool_index
          /\ fetch[t].stage = "holding" => ChannelKept(t)
      BY <3>1, <2>1, <1>1, BusyHasPool DEF CallInv, PoolKept
    <3>3. fetch'[t].stage = "holding" => ChannelKept(t)'
      BY <3>2, <2>1, <1>1, <1>2, SamePoolKept
    <3> QED BY <3>2, <3>3, <2>1 DEF PoolKept
  <2> QED BY <1>1, <2>1, <2>2 DEF CallInv
<1>5. CASE Switch
  <2>1. /\ refresher = "switch" /\ refresher' = "asleep" /\ slept' = Busy
        /\ UNCHANGED <<valid_lines, slot_index, m_channel_list, fetch, outlived, strayed>>
    BY <1>5 DEF Switch, poolVars
  <2>2. ASSUME NEW t \in Busy' \ outlived'
        PROVE  PoolKept(t)' /\ (fetch'[t].stage = "holding" => ChannelKept(t)')
    <3>1. t \in Busy \ outlived
      BY <2>1 DEF Busy
    <3>2. /\ t \in Fetcher /\ fetch[t].pool = pool_index
          /\ fetch[t].stage = "holding" => ChannelKept(t)
      BY <3>1, <2>1, <1>1, BusyHasPool DEF CallInv, PoolKept
    <3>3. /\ fetch'[t].stage = "holding" => ChannelKept(t)'
          /\ SlotsFit(fetch[t].pool)' /\ ChannelsFit(fetch[t].pool)'
      <4>1. SlotsFit(fetch[t].pool) /\ ChannelsFit(fetch[t].pool)
        BY <3>2 DEF CallInv, PoolInUseFits
      <4> QED BY <4>1, <3>2, <2>1, <1>1, <1>2, SamePoolKept
    <3> QED BY <3>1, <3>3, <2>1 DEF PoolKept
  <2> QED BY <1>1, <2>1, <2>2 DEF CallInv
<1>6. ASSUME NEW u \in Fetcher,
             LoadIndex(u) \/ Refuse(u) \/ GetConnection(u) \/ FreeConnection(u)
      PROVE  CallInv'
  <2>1. UNCHANGED <<pool_index, valid_lines, slot_index, m_channel_list, refresher>>
    BY <1>6 DEF LoadIndex, Refuse, GetConnection, FreeConnection, Return, poolVars
  <2>2. ASSUME NEW t \in (Busy' \ outlived') \ {u}
        PROVE  PoolKept(t)' /\ (fetch'[t].stage = "holding" => ChannelKept(t)')
    <3>1. /\ t \in Fetcher /\ t \in Busy \ outlived /\ fetch'[t] = fetch[t]
          /\ t \in slept => t \in slept'
      BY <1>1, <1>6 DEF LoadIndex, Refuse, GetConnection, FreeConnection, Return, Busy, TypeOK
    <3>2. /\ fetch[t].pool \in 0..1 /\ PoolKept(t)
          /\ fetch[t].stage = "holding" => ChannelKept(t)
      BY <3>1, <1>1, BusyHasPool DEF CallInv
    <3>3. /\ fetch'[t].stage = "holding" => ChannelKept(t)'
          /\ SlotsFit(fetch[t].pool) => SlotsFit(fetch[t].pool)'
          /\ ChannelsFit(fetch[t].pool) => ChannelsFit(fetch[t].pool)'
      BY <3>1, <3>2, <2>1, <1>1, SamePoolKept
    <3> QED BY <3>1, <3>2, <3>3, <2>1 DEF PoolKept
  <2>3. CASE LoadIndex(u)
    <3>1. /\ fetch'[u] = [stage |-> "loaded", pool |-> pool_index]
          /\ outlived' = outlived \ {u} /\ strayed' = strayed \ {u}
      BY <2>3, <1>1 DEF LoadIndex, TypeOK
    <3>2. PoolKept(u)' /\ fetch'[u].stage # "holding"
      BY <3>1, <2>1 DEF PoolKept
    <3> QED BY <1>1, <2>2, <3>1, <3>2 DEF CallInv
  <2>4. CASE Refuse(u)
    <3>1. u \notin Busy' /\ UNCHANGED <<strayed, outlived>>
      BY <2>4, <1>1 DEF Refuse, Return, Busy, Idle, TypeOK
    <3> QED BY <1>1, <2>2, <3>1 DEF CallInv
  <2>5. CASE FreeConnection(u)
    <3>1. /\ u \in Busy /\ fetch[u].stage = "holding"
          /\ u \notin Busy' /\ outlived' = outlived
          /\ strayed' = IF GoesHome(u, fetch[u].pool) THEN strayed ELSE strayed \cup {u}
      BY <2>5, <1>1 DEF FreeConnection, Return, Busy, Idle, TypeOK
    <3>2. u \notin outlived => GoesHome(u, fetch[u].pool)
      <4>1. ASSUME u \notin outlived PROVE ChannelKept(u)
        BY <3>1, <4>1 DEF CallInv
      <4> QED BY <4>1 DEF ChannelKept, GoesHome
    <3>3. strayed' \subseteq outlived'
      BY <3>1, <3>2 DEF CallInv
    <3> QED BY <1>1, <2>2, <3>1, <3>3 DEF CallInv
  <2>6. CASE GetConnection(u)
    <3> DEFINE p == fetch[u].pool
    <3>1. PICK s \in Slot :
            LET i == KeyNodeIndex(p, s)
            IN  /\ i <= Len(m_channel_list[p])
                /\ fetch' = [fetch EXCEPT ![u] = [stage |-> "holding", pool |-> p, index |-> i,
                                                  slot |-> s, from |-> m_channel_list[p][i]]]
                /\ strayed' = IF m_channel_list[p][i] = NoPool THEN strayed \cup {u} ELSE strayed
      BY <2>6 DEF GetConnection
    <3> DEFINE i == KeyNodeIndex(p, s)
    <3>2. u \in Busy /\ p \in 0..1 /\ UNCHANGED <<outlived, slept>>
      <4>1. fetch[u].stage = "loaded" /\ UNCHANGED <<outlived, slept>>
        BY <2>6 DEF GetConnection
      <4>2. u \in Busy
        BY <4>1, <1>6 DEF Busy
      <4> QED BY <4>1, <4>2, <1>1, BusyHasPool
    <3>3. i \in 1..Len(m_channel_list[p])
      <4>1. i \in Nat /\ i # 0 /\ Len(m_channel_list[p]) \in Nat
        <5>1. slot_index[p][s] \in Nat
          BY <1>1, <3>2 DEF TypeOK
        <5>2. m_channel_list[p] \in Seq(ConnectPools \cup {NoPool})
          BY <1>1, <3>2 DEF TypeOK
        <5> QED BY <5>1, <5>2 DEF KeyNodeIndex, Unset
      <4>2. i <= Len(m_channel_list[p])
        BY <3>1
      <4> HIDE DEF i, p
      <4> QED BY <4>1, <4>2
    <3>4. fetch'[u] = [stage |-> "holding", pool |-> p, index |-> i,
                       slot |-> s, from |-> m_channel_list[p][i]]
      BY <3>1, <1>1 DEF TypeOK
    <3>5. ChannelKept(u)'
      <4> HIDE DEF i, p
      <4>1. /\ fetch'[u].pool = p /\ fetch'[u].index = i
            /\ fetch'[u].slot = s /\ fetch'[u].from = m_channel_list[p][i]
        BY <3>4
      <4>2. KeyNodeIndex(fetch[u].pool, fetch[u].slot)' = i
        BY <4>1, <2>1 DEF KeyNodeIndex, i
      <4> QED BY <4>1, <4>2, <3>3, <2>1 DEF ChannelKept
    <3>6. u \notin outlived => PoolKept(u) /\ m_channel_list[p][i] # NoPool
      <4> SUFFICES ASSUME u \notin outlived PROVE PoolKept(u) /\ m_channel_list[p][i] # NoPool
        OBVIOUS
      <4>1. PoolKept(u)
        BY <3>2 DEF CallInv
      <4>2. ChannelsFit(p)
        BY <4>1 DEF PoolKept, CallInv, PoolInUseFits
      <4> HIDE DEF i, p
      <4> QED BY <4>1, <4>2, <3>3 DEF ChannelsFit
    <3>7. u \notin outlived => PoolKept(u)'
      <4>1. fetch'[u].pool = fetch[u].pool
        BY <3>4
      <4>2. /\ SlotsFit(fetch[u].pool) => SlotsFit(fetch[u].pool)'
            /\ ChannelsFit(fetch[u].pool) => ChannelsFit(fetch[u].pool)'
        BY <2>1, <4>1 DEF SlotsFit, ChannelsFit
      <4> QED BY <4>1, <4>2, <3>2, <3>6, <2>1 DEF PoolKept
    <3>8. strayed' \subseteq outlived'
      BY <3>1, <3>2, <3>6 DEF CallInv
    <3> HIDE DEF i, p
    <3> QED BY <1>1, <2>2, <3>2, <3>5, <3>7, <3>8 DEF CallInv
  <2> QED BY <1>6, <2>3, <2>4, <2>5, <2>6
<1>7. CASE UNCHANGED vars
  <2>1. UNCHANGED <<pool_index, valid_lines, slot_index, m_channel_list, refresher,
                    fetch, slept, outlived, strayed>>
    BY <1>7 DEF vars, poolVars
  <2>2. ASSUME NEW t \in Busy' \ outlived'
        PROVE  PoolKept(t)' /\ (fetch'[t].stage = "holding" => ChannelKept(t)')
    <3>1. t \in Busy \ outlived
      BY <2>1 DEF Busy
    <3>2. /\ t \in Fetcher /\ fetch[t].pool \in 0..1 /\ PoolKept(t)
          /\ fetch[t].stage = "holding" => ChannelKept(t)
      BY <3>1, <1>1, BusyHasPool DEF CallInv
    <3>3. /\ fetch'[t].stage = "holding" => ChannelKept(t)'
          /\ SlotsFit(fetch[t].pool) => SlotsFit(fetch[t].pool)'
          /\ ChannelsFit(fetch[t].pool) => ChannelsFit(fetch[t].pool)'
      BY <3>1, <3>2, <2>1, <1>1, SamePoolKept
    <3> QED BY <3>2, <3>3, <2>1 DEF PoolKept
  <2> QED BY <1>1, <2>1, <2>2 DEF CallInv
<1> QED BY <1>3, <1>4, <1>5, <1>6, <1>7 DEF Next

LEMMA CallInvCorrect == Spec => []CallInv
<1>1. Init => CallInv
  <2> SUFFICES ASSUME Init PROVE CallInv
    OBVIOUS
  <2>1. Busy = {} /\ strayed = {}
    BY DEF Init, Busy, Idle
  <2> QED BY <2>1, InitFits DEF CallInv
<1> QED BY <1>1, NextCall, PTL DEF Spec

(***************************************************************************)
(* A call that does not outlive a sleep of the refresher gives its channel *)
(* back to the ConnectPool it was borrowed from.                           *)
(***************************************************************************)
THEOREM ReturnedHomeCorrect == Spec => []ReturnedHome
<1>1. CallInv => ReturnedHome
  BY DEF CallInv, ReturnedHome
<1> QED BY <1>1, CallInvCorrect, PTL
(***************************************************************************)
(* A call asks a server of its pool's topology, also for a slot that no    *)
(* line claims, whose entry may be of an older topology; and it asks the   *)
(* owner of its slot, unless a later line of the answer claims the slot    *)
(* too, when it asks another.                                              *)
(***************************************************************************)
THEOREM AsksOwnerCorrect == Spec => []AsksOwner
<1>1. CallInv => AsksOwner
  <2> SUFFICES ASSUME CallInv, NEW t \in Fetcher,
                      fetch[t].stage = "holding", t \notin outlived
               PROVE  LET lines == valid_lines[fetch[t].pool]
                          slot  == fetch[t].slot
                          asked == fetch[t].from.server
                      IN  /\ \E i \in 1..Len(lines) : lines[i].server = asked
                          /\ Owners(lines, slot) # {} =>
                               (asked \in Owners(lines, slot) <=> ~Overruled(lines, slot))
    BY DEF AsksOwner
  <2> DEFINE p == fetch[t].pool
             s == fetch[t].slot
             lines == valid_lines[p]
  <2>1. t \in Busy \ outlived /\ TypeOK
    BY DEF Busy, CallInv, PoolInUseFits
  <2>2. PoolKept(t) /\ ChannelKept(t)
    BY <2>1 DEF CallInv
  <2>3. SlotsFit(p) /\ ChannelsFit(p)
    BY <2>2 DEF PoolKept, CallInv, PoolInUseFits
  <2>4. p \in 0..1 /\ s \in Slot /\ lines \in Seq(Line)
    BY <2>1, BusyHasPool DEF TypeOK
  <2>5. PICK i \in 1..Len(lines) :
          /\ i = KeyNodeIndex(p, s)
          /\ fetch[t].from.server = lines[i].server
    BY <2>2, <2>3 DEF ChannelKept, ChannelsFit
  <2>6. Owners(lines, s) # {} => fetch[t].from.server = lines[LastClaim(lines, s)].server
    <3> SUFFICES ASSUME Owners(lines, s) # {}
                 PROVE  i = LastClaim(lines, s)
      BY <2>5
    <3>1. Claims(lines, s) # {}
      BY DEF Owners, Claims, ParsedSlots
    <3> HIDE DEF lines
    <3>2. LastClaim(lines, s) \in 1..Len(lines)
      BY <2>4, <3>1, LastClaimClaims DEF Claims
    <3>3. slot_index[p][s] = LastClaim(lines, s)
      BY <2>3, <2>4, <3>1 DEF SlotsFit, lines
    <3>4. Len(lines) \in Nat
      BY <2>4
    <3> QED BY <2>5, <3>2, <3>3, <3>4 DEF KeyNodeIndex, Unset
  <2> QED BY <2>5, <2>6 DEF Overruled
<1> QED BY <1>1, CallInvCorrect, PTL
=============================================================================
