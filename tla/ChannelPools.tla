---------------------------- MODULE ChannelPools ----------------------------
(***************************************************************************)
(* The two channel pools of a RedisClient (frame/client/redis/             *)
(* redis_client.cpp): the thread in update_channel_pool asks the cluster   *)
(* for its nodes once a minute, rebuilds the pool that is not in use and   *)
(* switches to it, while threads in fetch and multi_fetch load the index   *)
(* of the pool in use, look the server of a key up in that pool, borrow a  *)
(* channel, and give it back to the pool and position they found it at.    *)
(* Nothing but the atomic pool_index synchronises them.                    *)
(*                                                                         *)
(* The constructor's line that starts the refreshing thread is commented   *)
(* out; this is a client whose application starts update_channel_pool.     *)
(* Positions in a pool count from 1, and Unset stands for the -1 of        *)
(* slot_ipport_index_vec.  A ConnectPool is known by its server and the    *)
(* refresh that built it; its channels are the matter of ConnectPool.      *)
(***************************************************************************)
EXTENDS Integers, Sequences

CONSTANTS Fetcher,       \* threads that call fetch or multi_fetch
          Server,        \* the addresses in the answers
          LastSlot,      \* 16383 in the code
          Topologies,    \* what "cluster nodes" may answer
          NoPool,        \* a null ConnectPool
          MaxRefreshes   \* bound on the rounds of update_channel_pool

\* The slots that InitSlotNodeMap makes room for; a key has one of them.
Slot == 0..LastSlot

(***************************************************************************)
(* A line that is kept: a connected master, the slots of its ranges, its   *)
(* configuration epoch, and whether it also shows slots on the move, as in *)
(* [93->-id].  Its address has a host, or a port alone, which InitChannel  *)
(* is given as 127.0.0.1: a node without an address is not connected.      *)
(***************************************************************************)
Line == [server : Server, slots : SUBSET Slot, epoch : Nat, moving : BOOLEAN]

ASSUME ChannelPoolsAssumption ==
  /\ LastSlot \in Nat
  /\ Topologies \subseteq Seq(Line)
  /\ MaxRefreshes \in Nat
  /\ NoPool \notin [server : Server, round : 0..MaxRefreshes]

Unset == 0

VARIABLES
  pool_index,      \* the pool in use, 0 or 1
  valid_lines,     \* per pool, the lines it has read last
  slot_index,      \* per pool, slot_ipport_index_vec
  m_channel_list,  \* per pool, a ConnectPool per server
  refresher,       \* asleep, slots, resize, channels, switch
  refreshes,       \* rounds begun
  fetch,           \* per thread, where it is in fetch or multi_fetch
  newest, failed,  \* the last answer; the last round got none (history)
  slept, outlived, \* threads whose call is older than the sleep of the refresher;
                   \* than a sleep that is over (history)
  strayed          \* threads that gave a channel to another ConnectPool than it
                   \* came from, or dereferenced a missing one (history)

poolVars == <<valid_lines, slot_index, m_channel_list>>
vars == <<pool_index, poolVars, refresher, refreshes, fetch, newest, failed,
          slept, outlived, strayed>>

Backup == 1 - pool_index

\* Mutant of Changed: only the numbers of lines are compared.
ChangedSize(lines) == Len(lines[0]) # Len(lines[1])

\* What is_channel_pool_changed compares: ids, addresses and slots; not the epochs.
Compared(lines) ==
  [i \in 1..Len(lines) |-> <<lines[i].server, lines[i].slots, lines[i].moving>>]

Changed(lines) == Compared(lines[0]) # Compared(lines[1])

\* ParseSlotString of the fields of a line.  The '-' of a marker is taken for that of
\* a range, and atoi makes 0 of both "[93" and ">-id".
ParsedSlots(line) == line.slots \cup (IF line.moving THEN {0} ELSE {})

Claims(lines, s) == {i \in 1..Len(lines) : s \in ParsedSlots(lines[i])}

LastClaim(lines, s) ==
  CHOOSE i \in Claims(lines, s) : \A j \in Claims(lines, s) : j <= i

\* Mutant of SlotNodeMap: the first claim counts.
SlotNodeMapFirst(old, lines) ==
  [s \in Slot |-> IF Claims(lines, s) = {} THEN old[s]
                  ELSE CHOOSE i \in Claims(lines, s) : \A j \in Claims(lines, s) : i <= j]

\* InitSlotNodeMap: a slot goes to the last node that claims it, whatever the epochs;
\* the entry of a slot that nobody claims stays what it was.
SlotNodeMap(old, lines) ==
  [s \in Slot |-> IF Claims(lines, s) = {} THEN old[s] ELSE LastClaim(lines, s)]

Built(lines, round) ==
  [i \in 1..Len(lines) |-> [server |-> lines[i].server, round |-> round]]

Idle == [stage |-> "idle"]

(***************************************************************************)
(* The constructor builds pool 0 from the first answer; without an answer  *)
(* with valid lines it builds nothing.                                     *)
(***************************************************************************)
Init ==
  /\ pool_index = 0
  /\ \E lines \in Topologies \cup {<<>>} :
       /\ newest = lines
       /\ valid_lines = [p \in 0..1 |-> IF p = 0 THEN lines ELSE <<>>]
       /\ slot_index = [p \in 0..1 |-> SlotNodeMap([s \in Slot |-> Unset], valid_lines[p])]
       /\ m_channel_list = [p \in 0..1 |-> Built(valid_lines[p], 0)]
  /\ refresher = "asleep" /\ refreshes = 0
  /\ fetch = [t \in Fetcher |-> Idle]
  /\ failed = FALSE
  /\ slept = {} /\ outlived = {} /\ strayed = {}

-----------------------------------------------------------------------------
Busy == {t \in Fetcher : fetch[t].stage # "idle"}

\* A round begins, a minute after the last; it may end at once.
Wake ==
  /\ refresher = "asleep"
  /\ refreshes < MaxRefreshes
  /\ refreshes' = refreshes + 1
  /\ outlived' = outlived \cup slept
  /\ slept' = IF refresher' = "asleep" THEN Busy ELSE {}

\* The cluster answers: init_channel_pool keeps the lines, and rebuilds the backup
\* if they are not those of the pool in use.
Answered ==
  /\ \E lines \in Topologies :
       /\ valid_lines' = [valid_lines EXCEPT ![Backup] = lines]
       /\ newest' = lines
  /\ refresher' = IF Changed(valid_lines') THEN "slots" ELSE "asleep"
  /\ failed' = FALSE
  /\ Wake
  /\ UNCHANGED <<pool_index, slot_index, m_channel_list, fetch, strayed>>

\* The call fails, or its reply is an error: init_channel_pool returns early, and the
\* caller compares the pools all the same.
Unanswered ==
  /\ refresher' = IF Changed(valid_lines) THEN "switch" ELSE "asleep"
  /\ failed' = TRUE
  /\ Wake
  /\ UNCHANGED <<pool_index, poolVars, fetch, newest, strayed>>

SetSlots ==
  /\ refresher = "slots"
  /\ slot_index' = [slot_index EXCEPT ![Backup] = SlotNodeMap(@, valid_lines[Backup])]
  /\ refresher' = "resize"
  /\ UNCHANGED <<pool_index, valid_lines, m_channel_list, refreshes, fetch, newest,
                 failed, slept, outlived, strayed>>

ResizeChannels ==
  /\ refresher = "resize"
  /\ m_channel_list' = [m_channel_list EXCEPT ![Backup] =
       [i \in 1..Len(valid_lines[Backup]) |-> IF i <= Len(@) THEN @[i] ELSE NoPool]]
  /\ refresher' = "channels"
  /\ UNCHANGED <<pool_index, valid_lines, slot_index, refreshes, fetch, newest,
                 failed, slept, outlived, strayed>>

\* Mutant of InitChannels: positions that have a ConnectPool keep it.
InitChannelsMissing ==
  /\ refresher = "channels"
  /\ m_channel_list' = [m_channel_list EXCEPT ![Backup] =
       [i \in 1..Len(@) |-> IF @[i] = NoPool THEN Built(valid_lines[Backup], refreshes)[i]
                                             ELSE @[i]]]
  /\ refresher' = "switch"
  /\ UNCHANGED <<pool_index, valid_lines, slot_index, refreshes, fetch, newest,
                 failed, slept, outlived, strayed>>

\* InitChannel for every position; a call looks at one position only, so that it
\* cannot tell this from a loop.
InitChannels ==
  /\ refresher = "channels"
  /\ m_channel_list' = [m_channel_list EXCEPT ![Backup] = Built(valid_lines[Backup], refreshes)]
  /\ refresher' = "switch"
  /\ UNCHANGED <<pool_index, valid_lines, slot_index, refreshes, fetch, newest,
                 failed, slept, outlived, strayed>>

\* The pools still differ: the backup is put in use, and the refresher sleeps.
Switch ==
  /\ refresher = "switch"
  /\ pool_index' = Backup
  /\ refresher' = "asleep"
  /\ slept' = Busy
  /\ UNCHANGED <<poolVars, refreshes, fetch, newest, failed, outlived, strayed>>

-----------------------------------------------------------------------------
\* GetKeyNodeIndex.
KeyNodeIndex(p, s) == IF slot_index[p][s] = Unset THEN 1 ELSE slot_index[p][s]

\* fetch or multi_fetch loads pool_index.
LoadIndex(t) ==
  /\ fetch[t].stage = "idle"
  /\ fetch' = [fetch EXCEPT ![t] = [stage |-> "loaded", pool |-> pool_index]]
  /\ outlived' = outlived \ {t} /\ strayed' = strayed \ {t}
  /\ UNCHANGED <<pool_index, poolVars, refresher, refreshes, newest, failed, slept>>

\* The call returns, with 0 or -1.
Return(t) ==
  /\ fetch' = [fetch EXCEPT ![t] = Idle]
  /\ slept' = slept \ {t}
  /\ UNCHANGED <<pool_index, poolVars, refresher, refreshes, newest, failed, outlived>>

\* GetConnection finds no such position, or its ConnectPool builds no channel.
Refuse(t) ==
  /\ fetch[t].stage = "loaded"
  /\ Return(t)
  /\ UNCHANGED strayed

\* GetConnection for a key of some slot.
GetConnection(t) ==
  /\ fetch[t].stage = "loaded"
  /\ \E s \in Slot :
       LET p == fetch[t].pool
           i == KeyNodeIndex(p, s)
       IN  /\ i <= Len(m_channel_list[p])
           /\ fetch' = [fetch EXCEPT ![t] = [stage |-> "holding", pool |-> p, index |-> i,
                                             slot |-> s, from |-> m_channel_list[p][i]]]
           /\ strayed' = IF m_channel_list[p][i] = NoPool THEN strayed \cup {t} ELSE strayed
  /\ UNCHANGED <<pool_index, poolVars, refresher, refreshes, newest, failed,
                 slept, outlived>>

GoesHome(t, p) ==
  /\ fetch[t].index <= Len(m_channel_list[p])
  /\ m_channel_list[p][fetch[t].index] = fetch[t].from

\* Mutant of FreeConnection: the channel goes to the pool that is in use now.
FreeToCurrent(t) ==
  /\ fetch[t].stage = "holding"
  /\ strayed' = IF GoesHome(t, pool_index) THEN strayed ELSE strayed \cup {t}
  /\ Return(t)

\* FreeConnection, by pool and position.
FreeConnection(t) ==
  /\ fetch[t].stage = "holding"
  /\ strayed' = IF GoesHome(t, fetch[t].pool) THEN strayed ELSE strayed \cup {t}
  /\ Return(t)

Next ==
  \/ Answered
  \/ Unanswered
  \/ SetSlots
  \/ ResizeChannels
  \/ InitChannels
  \/ Switch
  \/ \E t \in Fetcher : \/ LoadIndex(t)
                        \/ Refuse(t)
                        \/ GetConnection(t)
                        \/ FreeConnection(t)

Spec == Init /\ [][Next]_vars
-----------------------------------------------------------------------------
ConnectPools == [server : Server, round : 0..MaxRefreshes]

FetchType ==
  {Idle} \cup [stage : {"loaded"}, pool : 0..1]
         \cup [stage : {"holding"}, pool : 0..1, index : Nat, slot : Slot,
               from : ConnectPools \cup {NoPool}]

TypeOK ==
  /\ pool_index \in 0..1
  /\ valid_lines \in [0..1 -> Seq(Line)]
  /\ slot_index \in [0..1 -> [Slot -> Nat]]
  /\ m_channel_list \in [0..1 -> Seq(ConnectPools \cup {NoPool})]
  /\ refresher \in {"asleep", "slots", "resize", "channels", "switch"}
  /\ refreshes \in 0..MaxRefreshes
  /\ fetch \in [Fetcher -> FetchType]
  /\ newest \in Seq(Line) /\ failed \in BOOLEAN
  /\ slept \subseteq Fetcher /\ outlived \subseteq Fetcher /\ strayed \subseteq Fetcher

\* The slot map of pool p, and its ConnectPools, agree with the lines it has read.
SlotsFit(p) ==
  \A s \in Slot : Claims(valid_lines[p], s) # {} =>
    slot_index[p][s] = LastClaim(valid_lines[p], s)

ChannelsFit(p) ==
  /\ Len(m_channel_list[p]) = Len(valid_lines[p])
  /\ \A i \in 1..Len(valid_lines[p]) :
       m_channel_list[p][i] # NoPool /\ m_channel_list[p][i].server = valid_lines[p][i].server

(***************************************************************************)
(* The pool in use always fits the lines it was last read from, whatever   *)
(* rounds fail, find nothing changed or switch back to an older pool.  The *)
(* backup need not fit: a round without change replaces its lines and      *)
(* leaves the rest, but then its lines are those of the pool in use, but   *)
(* for epochs, so that it is not switched to before it has been rebuilt.   *)
(***************************************************************************)
PoolInUseFits ==
  /\ TypeOK
  /\ SlotsFit(pool_index) /\ ChannelsFit(pool_index)
  /\ refresher = "asleep" =>
       \/ Compared(valid_lines[0]) = Compared(valid_lines[1])
       \/ SlotsFit(Backup) /\ ChannelsFit(Backup)
  /\ refresher \in {"resize", "channels", "switch"} => SlotsFit(Backup)
  /\ refresher = "channels" => Len(m_channel_list[Backup]) = Len(valid_lines[Backup])
  /\ refresher = "switch" => ChannelsFit(Backup)

(***************************************************************************)
(* A call that does not outlive a sleep of the refresher gives its channel *)
(* back to the ConnectPool it was borrowed from (redis_client.cpp:290,     *)
(* 330), although up to one switch may lie between the two: ConnectPool    *)
(* relies on it for its counters, and a missing position is not checked.   *)
(***************************************************************************)
ReturnedHome == strayed \subseteq outlived

(***************************************************************************)
(* Between rounds the pool in use is that of the last answer, but for      *)
(* epochs, unless the last round had none.  (Then it may be an older one   *)
(* or an empty one: the pools are compared after a failed query too, and a *)
(* backup that differs is switched to.)                                    *)
(***************************************************************************)
NewestUnlessFailed ==
  refresher = "asleep" /\ ~failed =>
    Compared(valid_lines[pool_index]) = Compared(newest)

\* redis_client.h:37-39: if several nodes claim a slot, that with the highest epoch wins.
Owners(lines, s) ==
  LET claiming == {i \in 1..Len(lines) : s \in lines[i].slots}
      winning  == {i \in claiming : \A j \in claiming : lines[j].epoch <= lines[i].epoch}
  IN  {lines[i].server : i \in winning}

(***************************************************************************)
(* A later line than the owner's is taken for a claim: that of a node with *)
(* a lower epoch, or for slot 0 one that shows slots on the move.          *)
(***************************************************************************)
Overruled(lines, s) == lines[LastClaim(lines, s)].server \notin Owners(lines, s)

(***************************************************************************)
(* Although the slot map is never cleared when a pool is reused for        *)
(* another topology, a call asks a server of the topology of its pool, and *)
(* for a slot that has an owner in it, the owner; except that it asks      *)
(* another just when the answer lists a claim after the owner's, where     *)
(* InitSlotNodeMap departs from redis_client.h:37-39.                      *)
(***************************************************************************)
AsksOwner ==
  \A t \in Fetcher :
    fetch[t].stage = "holding" /\ t \notin outlived =>
      LET lines == valid_lines[fetch[t].pool]
          slot  == fetch[t].slot
          asked == fetch[t].from.server
      IN  /\ \E i \in 1..Len(lines) : lines[i].server = asked
          /\ Owners(lines, slot) # {} =>
               (asked \in Owners(lines, slot) <=> ~Overruled(lines, slot))

=============================================================================
