---------------------------- MODULE RedisService ----------------------------
(***************************************************************************)
(* One execution of RedisService::do_service (service/base/                *)
(* redis_service.cpp:121-335) once make_up_fetch_info_vec has filled the   *)
(* keys in: each fetch_info is cut into batches, one asynchronous call     *)
(* each, and whoever brings the counters to zero, do_service itself or the *)
(* callback of a batch, completes the request: it merges into the cache,   *)
(* waits until the values found in the cache have been parsed, calls       *)
(* process_response and notifies the outputs.                              *)
(*                                                                         *)
(* A thread is <<f, i>>, the callback of the batch of fetch_info f that    *)
(* starts at key i, or DoService, the thread inside do_service.  pc says   *)
(* where a thread stands:                                                  *)
(*   begin, loop, fetch   DoService, before and in its loops               *)
(*   none, sent, refused  a batch not fetched, fetched, fetch returned -1  *)
(*   items, cond          about to count down item_size_cond, cond         *)
(*   merge, parse, await, respond, notify   completing the request         *)
(*   done                 nothing left to do                               *)
(***************************************************************************)
EXTENDS Integers, Sequences, FiniteSets

CONSTANTS Requests,          \* see RequestType
          MaxInfos, MaxKeys, \* bounds on a request
          batch_size,
          FetchMayFail,      \* fetch and multi_fetch may return -1
          HandlersMayThrow,  \* process_response and the parse functions may throw
          KeysMayBeGone      \* keys.at may throw in merge_cache_data: another request
                             \* has rewritten the keys of the fetch_infos (RedisKeys)

(***************************************************************************)
(* A request: the fetch_infos, each with the number of keys that missed    *)
(* the cache and whether its redis client exists, whether any key was      *)
(* found in the cache, and enable_multi_get of the service.                *)
(***************************************************************************)
RequestType ==
  [infos : UNION {[1..n -> [keys : 0..MaxKeys, client : BOOLEAN]] : n \in 0..MaxInfos},
   cached : BOOLEAN, enable_multi_get : BOOLEAN]

ASSUME RedisServiceAssumption ==
  /\ MaxInfos \in Nat /\ MaxKeys \in Nat
  /\ \A r \in Requests : r \in RequestType /\ (r.cached => r.infos # <<>>)
  /\ batch_size \in Nat \ {0}
  /\ {FetchMayFail, HandlersMayThrow, KeysMayBeGone} \subseteq BOOLEAN

VARIABLES
  request,
  info, key,        \* DoService's position: the fetch_info and the key i
  cond,             \* fetch_infos not finished
  item_size_cond,   \* batches not finished, of every fetch_info
  cached_left,      \* whether cache_data_vec still holds values
  promise,          \* cache_data_promise_ptr: none (nullptr), unset, set
  pc,
  guarded,          \* callbacks that run inside the try of their batch
  crashed,          \* nullptr dereferenced, or an exception nobody catches
  parses, responses, outputs,  \* parses of cached values, calls of process_response
                               \* and of run_output_nodes_if_ready (history)
  unmerged                     \* merge_cache_data has thrown (history)

vars == <<request, info, key, cond, item_size_cond, cached_left, promise, pc,
          guarded, crashed, parses, responses, outputs, unmerged>>

DoService == <<0, 0>>

Batch == (1..MaxInfos) \X (0..(MaxKeys - 1))

Thread == {DoService} \cup Batch

Init ==
  /\ request \in Requests
  /\ info = 1 /\ key = 0
  /\ cond = 0 /\ item_size_cond = [f \in 1..MaxInfos |-> 0]
  /\ cached_left = request.cached
  /\ promise = "none"
  /\ pc = [t \in Thread |-> IF t = DoService THEN "begin" ELSE "none"]
  /\ guarded = {} /\ crashed = FALSE
  /\ parses = 0 /\ responses = 0 /\ outputs = 0
  /\ unmerged = FALSE

-----------------------------------------------------------------------------
CeilDiv(a, b) == a \div b + (IF a % b # 0 THEN 1 ELSE 0)

\* Batches of a fetch_info with k keys, as item_size_cond counts them.
BatchCount(k) == IF request.enable_multi_get THEN CeilDiv(k, batch_size) ELSE k

\* Mutant of StepSize: the stride is rounded down.
StepSizeFloor(k) == IF request.enable_multi_get THEN k \div BatchCount(k) ELSE 1

\* The stride of the loop that sends the batches.
StepSize(k) == IF request.enable_multi_get THEN CeilDiv(k, BatchCount(k)) ELSE 1

\* Fetch_infos whose batches are sent: they have a client and keys.
Fetched == {f \in DOMAIN request.infos : request.infos[f].client /\ request.infos[f].keys > 0}

Keys == request.infos[info].keys

counters == <<cond, item_size_cond>>
cache == <<cached_left, promise>>
history == <<parses, responses, outputs, unmerged>>

\* Without fetch_infos do_service completes the request at once; otherwise it
\* makes the counter and, if values were found in the cache, the promise.
Begin ==
  /\ pc[DoService] = "begin"
  /\ IF request.infos = <<>>
       THEN /\ pc' = [pc EXCEPT ![DoService] = "respond"]
            /\ UNCHANGED <<cond, promise>>
       ELSE /\ pc' = [pc EXCEPT ![DoService] = "loop"]
            /\ cond' = Len(request.infos)
            /\ promise' = IF cached_left THEN "unset" ELSE "none"
  /\ UNCHANGED <<request, info, key, item_size_cond, cached_left, guarded, crashed, history>>

\* A fetch_info without client or keys: cond_finish_func(false).
SkipInfo ==
  /\ pc[DoService] = "loop"
  /\ info \in DOMAIN request.infos \ Fetched
  /\ info' = info + 1
  /\ pc' = [pc EXCEPT ![DoService] = "cond"]
  /\ UNCHANGED <<request, key, counters, cache, guarded, crashed, history>>

OpenInfo ==
  /\ pc[DoService] = "loop"
  /\ info \in Fetched
  /\ item_size_cond' = [item_size_cond EXCEPT ![info] = BatchCount(Keys)]
  /\ pc' = [pc EXCEPT ![DoService] = "fetch"]
  /\ UNCHANGED <<request, info, key, cond, cache, guarded, crashed, history>>

\* The next batch has been handed to the client, or refused by it; a refusal is
\* counted by do_service: deep_cond_finish_func(false).
Fetch ==
  /\ pc[DoService] = "fetch"
  /\ key < Keys
  /\ \/ pc' = [pc EXCEPT ![<<info, key>>] = "sent"]
     \/ /\ FetchMayFail
        /\ pc' = [pc EXCEPT ![<<info, key>>] = "refused", ![DoService] = "items"]
  /\ key' = key + StepSize(Keys)
  /\ UNCHANGED <<request, info, counters, cache, guarded, crashed, history>>

CloseInfo ==
  /\ pc[DoService] = "fetch"
  /\ key >= Keys
  /\ info' = info + 1 /\ key' = 0
  /\ pc' = [pc EXCEPT ![DoService] = "loop"]
  /\ UNCHANGED <<request, counters, cache, guarded, crashed, history>>

\* Mutant of ParseCachedData: the values are kept.
ParseCachedDataKeeps ==
  /\ parses' = parses + (IF cached_left THEN 1 ELSE 0)
  /\ promise' = "set"
  /\ UNCHANGED cached_left

\* parse_cached_data: the values are parsed and dropped, the promise is kept.
ParseCachedData ==
  /\ parses' = parses + (IF cached_left THEN 1 ELSE 0)
  /\ cached_left' = FALSE
  /\ promise' = "set"

Crash == crashed' = TRUE /\ UNCHANGED pc

\* After the loops: what is left of the cached values is parsed.
ParseRest ==
  /\ pc[DoService] = "loop"
  /\ info \notin DOMAIN request.infos
  /\ \/ /\ IF cached_left THEN ParseCachedData ELSE UNCHANGED <<cache, parses>>
        /\ pc' = [pc EXCEPT ![DoService] = "done"]
        /\ UNCHANGED crashed
     \/ /\ cached_left /\ HandlersMayThrow
        /\ Crash
        /\ UNCHANGED <<cache, parses>>
  /\ UNCHANGED <<request, info, key, counters, guarded, responses, outputs, unmerged>>

\* The callback of a batch fills its item in and parses it, then counts down,
\* inside the try or, if something threw, in the catch.
Callback(b) ==
  /\ pc[b] = "sent"
  /\ \/ guarded' = guarded \cup {b}
     \/ HandlersMayThrow /\ UNCHANGED guarded
  /\ pc' = [pc EXCEPT ![b] = "items"]
  /\ UNCHANGED <<request, info, key, counters, cache, crashed, history>>

-----------------------------------------------------------------------------
\* Where a thread goes on after deep_cond_finish_func or cond_finish_func.
Resume(t) ==
  IF t # DoService THEN "done" ELSE IF key = 0 THEN "loop" ELSE "fetch"

InfoOf(t) == IF t = DoService THEN info ELSE t[1]

\* deep_cond_finish_func, its first counter.
CountItem(t) ==
  /\ pc[t] = "items"
  /\ LET f == InfoOf(t)
     IN  /\ pc' = [pc EXCEPT ![t] = IF item_size_cond[f] = 1 THEN "cond" ELSE Resume(t)]
         /\ item_size_cond' = [item_size_cond EXCEPT ![f] = @ - 1]
  /\ UNCHANGED <<request, info, key, cond, cache, guarded, crashed, history>>

\* Its second counter, and that of cond_finish_func.
CountInfo(t) ==
  /\ pc[t] = "cond"
  /\ pc' = [pc EXCEPT ![t] = IF cond = 1 THEN "merge" ELSE Resume(t)]
  /\ cond' = cond - 1
  /\ UNCHANGED <<request, info, key, item_size_cond, cache, guarded, crashed, history>>

\* The callback of b has set the fetch_info_ptr of b's item.
Filled(b) == pc[b] \notin {"none", "sent", "refused"}

\* What follows an exception in completing the request: the catch of a batch counts
\* down once more; nothing else catches.
Throw(t) ==
  IF t \in guarded
    THEN /\ pc' = [pc EXCEPT ![t] = "items"]
         /\ guarded' = guarded \ {t}
         /\ UNCHANGED crashed
    ELSE Crash /\ UNCHANGED guarded

\* keys.at throws for a value that came in.
MergeThrows(t) ==
  /\ KeysMayBeGone
  /\ \E f \in Fetched : Filled(<<f, 0>>)
  /\ Throw(t)
  /\ unmerged' = TRUE

\* Mutant of Merge: do_service waits for the promise like a callback.
MergeAwaits(t) ==
  /\ pc[t] = "merge"
  /\ \/ /\ IF \E f \in Fetched : ~Filled(<<f, 0>>)
             THEN Crash
             ELSE /\ pc' = [pc EXCEPT ![t] = IF promise = "none" THEN "respond" ELSE "await"]
                  /\ UNCHANGED crashed
        /\ UNCHANGED <<guarded, unmerged>>
     \/ MergeThrows(t)
  /\ UNCHANGED <<request, info, key, counters, cache, parses, responses, outputs>>

\* merge_cache_data reads the fetch_info_ptr of the first item of every fetch_info
\* that was fetched, in any order, and may throw at the values of one before it meets
\* the next.  Then do_service parses the cached values itself.
Merge(t) ==
  /\ pc[t] = "merge"
  /\ \/ /\ IF \E f \in Fetched : ~Filled(<<f, 0>>)
             THEN Crash
             ELSE /\ pc' = [pc EXCEPT ![t] = IF promise = "none" THEN "respond"
                                             ELSE IF t = DoService THEN "parse" ELSE "await"]
                  /\ UNCHANGED crashed
        /\ UNCHANGED <<guarded, unmerged>>
     \/ MergeThrows(t)
  /\ UNCHANGED <<request, info, key, counters, cache, parses, responses, outputs>>

ParseInFinish(t) ==
  /\ pc[t] = "parse"
  /\ \/ /\ ParseCachedData
        /\ pc' = [pc EXCEPT ![t] = "await"]
        /\ UNCHANGED crashed
     \/ /\ cached_left /\ HandlersMayThrow
        /\ Crash
        /\ UNCHANGED <<cache, parses>>
  /\ UNCHANGED <<request, info, key, counters, guarded, responses, outputs, unmerged>>

\* Mutant of Await: nobody waits.
AwaitNothing(t) ==
  /\ pc[t] = "await"
  /\ pc' = [pc EXCEPT ![t] = "respond"]
  /\ UNCHANGED <<request, info, key, counters, cache, guarded, crashed, history>>

\* cache_data_promise_ptr->get_future().get()
Await(t) ==
  /\ pc[t] = "await"
  /\ promise = "set"
  /\ pc' = [pc EXCEPT ![t] = "respond"]
  /\ UNCHANGED <<request, info, key, counters, cache, guarded, crashed, history>>

\* process_response.
Respond(t) ==
  /\ pc[t] = "respond"
  /\ responses' = responses + 1
  /\ \/ /\ pc' = [pc EXCEPT ![t] = "notify"]
        /\ UNCHANGED <<guarded, crashed>>
     \/ HandlersMayThrow /\ Throw(t)
  /\ UNCHANGED <<request, info, key, counters, cache, parses, outputs, unmerged>>

Notify(t) ==
  /\ pc[t] = "notify"
  /\ outputs' = outputs + 1
  /\ pc' = [pc EXCEPT ![t] = Resume(t)]
  /\ UNCHANGED <<request, info, key, counters, cache, guarded, crashed, parses, responses, unmerged>>

Finish(t) ==
  \/ CountItem(t)
  \/ CountInfo(t)
  \/ Merge(t)
  \/ ParseInFinish(t)
  \/ Await(t)
  \/ Respond(t)
  \/ Notify(t)

ThreadStep(t) ==
  /\ ~crashed
  /\ \/ t = DoService /\ (Begin \/ SkipInfo \/ OpenInfo \/ Fetch \/ CloseInfo \/ ParseRest)
     \/ t \in Batch /\ Callback(t)
     \/ Finish(t)

Terminated ==
  /\ crashed \/ \A t \in Thread : pc[t] \in {"none", "refused", "done"}
  /\ UNCHANGED vars

Next == (\E t \in Thread : ThreadStep(t)) \/ Terminated

Spec == Init /\ [][Next]_vars

\* do_service runs on, and the rpc layer answers every call it accepted.
FairSpec == Spec /\ \A t \in Thread : WF_vars(ThreadStep(t))

-----------------------------------------------------------------------------
TypeOK ==
  /\ request \in Requests
  /\ info \in 1..(Len(request.infos) + 1) /\ key \in Nat
  /\ cond \in 0..MaxInfos
  /\ item_size_cond \in [1..MaxInfos -> -1..MaxKeys]
  /\ cached_left \in BOOLEAN /\ promise \in {"none", "unset", "set"}
  /\ pc \in [Thread -> {"begin", "loop", "fetch", "none", "sent", "refused", "items",
                        "cond", "merge", "parse", "await", "respond", "notify", "done"}]
  /\ guarded \subseteq Batch /\ crashed \in BOOLEAN
  /\ parses \in Nat /\ responses \in Nat /\ outputs \in Nat
  /\ unmerged \in BOOLEAN

Completing == {t \in Thread : pc[t] \in {"merge", "parse", "await", "respond", "notify"}}

\* The batches the loops fetch from the fetch_infos.
BatchesOf(f) == {<<f, n * StepSize(request.infos[f].keys)>> :
                   n \in 0..(BatchCount(request.infos[f].keys) - 1)}

AllBatches == UNION {BatchesOf(f) : f \in Fetched}

(***************************************************************************)
(* However the callbacks, the refusals and do_service interleave, one      *)
(* thread completes the request, once: process_response reads result_map   *)
(* without a lock, so nobody may fill in an item any more.                 *)
(***************************************************************************)
CompletedOnceAfterAll ==
  /\ TypeOK
  /\ Cardinality(Completing) + outputs <= 1
  /\ responses <= 1
  /\ Completing # {} \/ responses > 0 =>
       \A b \in AllBatches : pc[b] = "refused" \/ Filled(b)

(***************************************************************************)
(* redis_service.cpp:378-379: the cached values are not parsed twice, and  *)
(* process_response never starts before they have been parsed, whichever   *)
(* thread parses them and whichever completes the request.                 *)
(***************************************************************************)
CachedParsedOnce ==
  /\ parses <= 1
  /\ responses > 0 /\ request.cached => parses = 1

\* The contract of an io node: complete when process_response has been called on
\* everything the request asked for.
Io == INSTANCE IoNode WITH
        returned <- pc[DoService] = "done",
        complete <- /\ responses > 0
                    /\ ~cached_left
                    /\ \A b \in AllBatches : pc[b] = "refused" \/ Filled(b)

(***************************************************************************)
(* RedisService is an io node: it notifies its outputs at most once, with  *)
(* its results complete, before or after do_service returns.               *)
(***************************************************************************)
ImplementsIoNode == Io!Spec

\* No thread has a step: each has ended, or is in get_future().get() while
\* the promise is not kept.
AtRest ==
  \A t \in Thread :
    pc[t] \in {"none", "refused", "done"} \/ (pc[t] = "await" /\ promise # "set")

(***************************************************************************)
(* redis_service.cpp:168 and 332: who completes the request waits for the  *)
(* promise, which do_service keeps.  When nothing moves any more nobody is *)
(* left waiting for the other, and the request has been completed, unless  *)
(* the program crashed or merge_cache_data has thrown.  Then it never is:  *)
(* the catch at 298 counts down once more, but the counter has passed.     *)
(***************************************************************************)
CompletedAtRest ==
  ~crashed /\ AtRest =>
    Completing = {} /\ responses = (IF unmerged THEN 0 ELSE 1)

(***************************************************************************)
(* Nobody waits forever, neither for a counter nor for the promise: the    *)
(* outputs are notified, unless the program crashed or merge_cache_data or *)
(* process_response has thrown.                                            *)
(***************************************************************************)
NotifiesUnlessThrown ==
  <>(\/ outputs = 1
     \/ crashed
     \/ (unmerged \/ responses = 1) /\ Completing = {})
=============================================================================
