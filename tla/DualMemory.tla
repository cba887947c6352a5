----------------------------- MODULE DualMemory -----------------------------
(* Runtime/dual_tier_memory.py: DualTierMemoryRouter with its L1 cache        *)
(* (Redis, or a dict of the process once Redis has failed), its L2 index and  *)
(* the page table of ContextPageFaultEngine. A value is a version number, 0   *)
(* for none. Time is left to the action that lets an entry expire; what a     *)
(* similarity search finds is any document. Left out: the neighbour lists of the *)
(* index, which no search reads; the L1 copies of pages, which nothing reads  *)
(* but the demotion, whose documents match no page; counters and latencies.   *)
EXTENDS Integers, SequencesExt, FiniteSetsExt

CONSTANTS ContextKey,  \* "agent:<id>:<key>" of store_agent_context
          Address,     \* <<pid, page_id>> of the pages in use
          MaxActive,   \* max_active_pages_per_pid, 10 in the code
          MaxVersion   \* bound on the values a key is given

ASSUME MemoryAssumption ==
  /\ MaxActive \in Nat \ {0} /\ MaxVersion \in Nat
  /\ ContextKey \cap Address = {}   \* two tables

Version == 1..MaxVersion

VARIABLES
  redis,      \* key -> value held by Redis
  connected,  \* _redis_client is not None
  l1_store,   \* key -> [val, expired]: _in_memory_store
  page_data,  \* address -> data of the ContextVirtualPage
  active,     \* the ACTIVE_L1 pages, ordered by last_accessed
  swapped,    \* address -> payload of the L2 document swapped_<pid>_<page>
  demoted,    \* [key, val] of the L2 documents demoted_<time>_<key>
  written      \* history: key -> value stored or allocated last

memVars == <<redis, connected, l1_store, page_data, active, swapped, demoted, written>>

NoEntry == [val |-> 0, expired |-> FALSE]
Without(s, e) ==
  IF e \in ToSet(s) THEN RemoveAt(s, CHOOSE i \in DOMAIN s: s[i] = e) ELSE s

MemTypeOK ==
  /\ redis \in [ContextKey -> 0..MaxVersion]
  /\ connected \in BOOLEAN
  /\ l1_store \in [ContextKey -> [val: 0..MaxVersion, expired: BOOLEAN]]
  /\ page_data \in [Address -> 0..MaxVersion]
  /\ active \in Seq(Address) /\ IsInjective(active)
  /\ swapped \in [Address -> 0..MaxVersion]
  /\ demoted \subseteq [key: ContextKey, val: Version]
  /\ written \in [ContextKey \cup Address -> 0..MaxVersion]

\* RedisClusterPoolManager: the one pool of the process comes up or it does not,
\* and in CI it never does.
PoolClient == BOOLEAN

\* Without it the in-memory store is used from the start.
MemInit ==
  /\ redis = [k \in ContextKey |-> 0]
  /\ connected \in PoolClient
  /\ l1_store = [k \in ContextKey |-> NoEntry]
  /\ page_data = [a \in Address |-> 0]
  /\ active = <<>>
  /\ swapped = [a \in Address |-> 0]
  /\ demoted = {}
  /\ written = [k \in ContextKey \cup Address |-> 0]

----------------------------------------------------------------------------
(* EphemeralL1Cache                                                          *)
\* set(): to Redis, or, when there is none or its write fails, to the local
\* store from then on.
store_agent_context(k, v) ==
  /\ \/ /\ connected
        /\ redis' = [redis EXCEPT ![k] = v]
        /\ UNCHANGED <<connected, l1_store>>
     \/ /\ connected' = FALSE
        /\ l1_store' = [l1_store EXCEPT ![k] = [val |-> v, expired |-> FALSE]]
        /\ UNCHANGED redis
  /\ written' = [written EXCEPT ![k] = v]
  /\ UNCHANGED <<page_data, active, swapped, demoted>>

\* set() of the L1 copy of a page: what is left of it is the failure of Redis.
SetsPageCopy == connected' \in {connected, FALSE} /\ UNCHANGED <<redis, l1_store>>

\* get(): a read of Redis that fails ends its use; the local entry that has
\* expired is dropped.
retrieve_context(k) ==
  /\ \/ ~connected /\ UNCHANGED connected
     \/ connected /\ connected' = FALSE
  /\ l1_store' = IF l1_store[k].expired THEN [l1_store EXCEPT ![k] = NoEntry] ELSE l1_store
  /\ UNCHANGED <<redis, page_data, active, swapped, demoted, written>>

\* What retrieve_context returns, when Redis answers if it is connected.
Retrieved(k) == IF connected THEN redis[k]
                ELSE IF l1_store[k].expired THEN 0 ELSE l1_store[k].val

\* A time to live ends: Redis deletes the key, the local store keeps it until
\* somebody looks.
Expires(k) ==
  /\ \/ /\ redis[k] # 0
        /\ redis' = [redis EXCEPT ![k] = 0]
        /\ UNCHANGED l1_store
     \/ /\ l1_store[k].val # 0 /\ ~l1_store[k].expired
        /\ l1_store' = [l1_store EXCEPT ![k].expired = TRUE]
        /\ UNCHANGED redis
  /\ UNCHANGED <<connected, page_data, active, swapped, demoted, written>>

\* get_stale_entries(): a key of Redis never has a time to live of 0 or less and
\* a value, so that only local entries are found.
StaleEntries == {k \in ContextKey: l1_store[k].expired}

\* What is stale moves from L1 to a document of L2.
trigger_stale_demotion ==
  /\ StaleEntries # {}
  /\ demoted' = demoted \cup {[key |-> k, val |-> l1_store[k].val] : k \in StaleEntries}
  /\ l1_store' = [k \in ContextKey |-> IF k \in StaleEntries THEN NoEntry ELSE l1_store[k]]
  /\ UNCHANGED <<redis, connected, page_data, active, swapped, written>>

----------------------------------------------------------------------------
(* ContextPageFaultEngine                                                    *)
\* The places of a process's pages in the order of their last use.
ActiveOf(p) == {i \in DOMAIN active: active[i][1] = p}

\* Mutant: a page that has a document keeps the one it has.
SwapOutOnce(out) == [a \in Address |->
  IF a \in out /\ swapped[a] = 0 THEN page_data[a] ELSE swapped[a]]

\* The documents of the pages that are swapped out: swap_out_page replaces an
\* older document of the page.
SwapOutDocuments(out) == [a \in Address |-> IF a \in out THEN page_data[a] ELSE swapped[a]]

\* The least recently used page goes first when the limit is reached, the page
\* that is allocated again included.
allocate_page(a, v) ==
  LET mine == ActiveOf(a[1])
      full == Cardinality(mine) >= MaxActive
      kept == IF full THEN RemoveAt(active, Min(mine)) ELSE active IN
  /\ swapped' = SwapOutDocuments(IF full THEN {active[Min(mine)]} ELSE {})
  /\ active' = Append(Without(kept, a), a)
  /\ page_data' = [page_data EXCEPT ![a] = v]
  /\ SetsPageCopy
  /\ written' = [written EXCEPT ![a] = v]
  /\ UNCHANGED demoted

\* swap_out_page on the pages of out, all ACTIVE_L1, so that the rest stay.
SwapOut(out, rest) ==
  /\ swapped' = SwapOutDocuments(out)
  /\ active' = rest
  /\ UNCHANGED <<redis, connected, l1_store, page_data, demoted, written>>

swap_out_page(a) == a \in ToSet(active) /\ SwapOut({a}, Without(active, a))

\* The pages that have been idle for longest, in all processes.
swap_idle_processes(n) ==
  /\ n \in 1..Len(active)
  /\ SwapOut({active[i]: i \in 1..n}, SubSeq(active, n + 1, Len(active)))

PageHit(a) ==
  /\ a \in ToSet(active)
  /\ active' = Append(Without(active, a), a)
  /\ UNCHANGED <<redis, connected, l1_store, page_data, swapped, demoted, written>>

\* The pages whose documents a fault may find: the page's own, or else the best
\* match of a search if it has the same page_id, whatever its process.
FoundFor(a) == IF swapped[a] # 0 THEN {a} ELSE {b \in Address: b[2] = a[2] /\ swapped[b] # 0}

\* A fault brings a page in; the limit plays no part. If nothing is found,
\* access_page raises KeyError.
PageFault(a) ==
  /\ a \notin ToSet(active)
  /\ \E from \in FoundFor(a): page_data' = [page_data EXCEPT ![a] = swapped[from]]
  /\ SetsPageCopy
  /\ active' = Append(active, a)
  /\ UNCHANGED <<swapped, demoted, written>>

MemNext ==
  \/ \E k \in ContextKey, v \in Version: store_agent_context(k, v)
  \/ \E k \in ContextKey: retrieve_context(k) \/ Expires(k)
  \/ trigger_stale_demotion
  \/ \E a \in Address, v \in Version: allocate_page(a, v)
  \/ \E a \in Address: swap_out_page(a) \/ PageHit(a) \/ PageFault(a)
  \/ \E n \in 1..Cardinality(Address): swap_idle_processes(n)

MemSpec == MemInit /\ [][MemNext]_memVars

----------------------------------------------------------------------------
\* A page has the data it was allocated with last, wherever it lies: in the page
\* while it is active, and in its L2 document once it is swapped out, over any
\* number of swaps and new allocations.
PagesKept == \A a \in Address: written[a] # 0 =>
  /\ page_data[a] = written[a]
  /\ a \notin ToSet(active) => swapped[a] = written[a]

\* A context that is read is the one stored last, or is gone: never an older one,
\* although Redis keeps what it had when its connection was given up.
ContextCurrent == \A k \in ContextKey: Retrieved(k) \in {0, written[k]}

\* What was stored in either tier is what comes back: both parts, on states of the
\* right type.
MemoryKept == MemTypeOK /\ PagesKept /\ ContextCurrent

=============================================================================
