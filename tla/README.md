# askcoin-core in TLA+

askcoin-core is a full node of a proof-of-work block chain with a built-in
question-and-answer ledger. This directory models the parts of it in which
state is changed by several steps or several threads, model-checks them with
TLC on small instances, and proves what holds for every instance with TLAPS.
Paths below are relative to the repository's root as `src/`.

## 1. The system

One process runs these threads: the **message thread** (`do_message`), which
owns the block tree, the ledger and the pool; the **mine thread** (`do_mine`);
the score thread (`do_score`); the p2p connect and timer threads; the websocket
timer thread; the pollers of the network library; and the console. All but the
pollers' queues and a handful of mutexes and atomics belong to one thread.

| component | state | operations | interacts with | correct when |
|---|---|---|---|---|
| **Block tree** `block.cpp`, `blockchain.cpp`, `net/p2p/node.cpp` | `m_blocks`, `m_block_by_id`, `m_in_main_chain`, `m_cur_block`, `m_most_difficult_block`, leveldb | `finish_detail`, `switch_chain`, `rollback`, `switch_to_most_difficult`, `mined_new_block`, reload in `start` | moves the ledger with every step; sets `m_block_changed` | between messages the node stands on a heaviest stored block; index and flags are one path; a crash loses no block |
| **Ledger** `account.cpp`, `topic.cpp`, `reply.cpp`, the five application loops | accounts, names, balances, topics and replies, memberships, `m_topic_list`, `m_tx_map`, `m_rollback_topics`, `m_rollback_txs` | five transaction types, miner reward, expiry (`proc_topic_expired`, `proc_tx_map`), and the inverse of each | driven by the block tree and by `mine_tx` | always that of a replay of the main chain; coins are conserved; a transaction counts once |
| **Mining** `mine_tx`, `do_mine`, `mined_new_block` | `m_mine_id_1/2`, `m_mined_txs`, `m_mine_cur_block_*`, `m_need_remine`, `m_mine_success`, `m_mine_doc` | publish a job, take it, hash, post a block, close it | message thread and mine thread, atomics and `m_mine_mutex` | a block is closed once, on the tip it extends; the miner follows the tip |
| **Startup** `start` | all of the above | genesis, reload, replay, merge point import | leveldb | a restart finds every accepted block |
| **Transaction pool** `do_uv_tx`, the handlers of transactions of peers, wallets and console | `m_uv_1_txs`, `m_uv_2_txs`, `m_uv_3_txs`, `m_uv_tx_ids`, names, pubkeys, the `uv_` counts of accounts and topics | admit, judge again after the chain moved, drop, `clear_uv_tx` | ledger, mining, p2p | it lists nothing twice and nothing the chain has; what it promises can be mined; nothing is held in vain |
| **Block sync** `finish_brief`, `do_brief_chain`, `do_detail_chain`, retries | `m_chains_by_peer_key`, `m_pending_blocks`, `m_pending_brief_reqs`, `m_pending_detail_reqs` | brief and detail requests, retries every 1.5 s, punishments | p2p peers; hands complete chains to `finish_detail` | a chain is attached where it says it is; every request ends; a peer that tells the truth is not punished |
| **P2P node** `net/p2p/node.cpp` | `m_peers`, `m_unreg_peers`, `m_banned_peers` | registration over two connections, close, limits, bans | pollers, timers, scores | an address has one connection; an address is free again when its connection is gone; limits hold |
| **Peer scores** `peer_score.cpp` | `m_peer_score_map`, `m_state`, ranking, file | take, give back, add, subtract, save | p2p | `m_state` says whether the node is connected |
| **Timers** `timer.cpp` | `m_timers`, `m_timer_map` | add, delete, reset, run | all threads | no timer is lost; a deleted timer is not called, but in the pass that has it in hand |
| **Accumulated work** `accum_pow.cpp` | nine limbs | add, subtract, compare | block tree, sync | it is addition and order of naturals |
| **Websocket API** `net/api` | users, sessions | login, transactions, queries, pushes | pool, ledger | it admits what the p2p handler admits |
| **Commands** `askcoin.cpp`, `do_command` | - | `enable_mine`, `import_privkey`, `clear_uv_tx`, sending, registering, export | message thread | - |
| Broadcast, cryptography, leveldb, fly, rapidjson | - | - | - | external or without state |

What is hard here: the walk between branches interrupted by blocks that do not
verify and by crashes; an undo that must be the exact inverse of an application
written five times; state that is kept for undoing only for a while and rebuilt
from disk after that; the same tests that reject a stranger's block stop the
process when a stored block fails them; two threads that agree on a job by
numbers; a pool whose tests are written three times and whose counts must follow
a chain that also goes backwards; requests that several peers share, with
answers that are late or wrong; connections whose two ends, and the threads at
one end, cross each other. `PROJECT.json` lists each hazard at its line, with the properties that
cover it.

## 2. The modules

    HeaviestChain          what the block store promises (abstract)
       ^ implements
    BlockTree
       ^ extends
       |           +------ ChainProofs  -- extends --> LedgerProofs
       |           v       (of both)                       | extends
    Chain  -- extends -->  Rebuild -- extends --> Ledger <-+
                           (slow undo)            (operators, no variables)
                                                   ^ extends
                                                  TxPool
    FoldFacts                                loops; ChainProofs, LedgerProofs,
                                             TxPoolProofs and BlockSyncProofs
                                             instantiate it
    TxPool     <---------  TxPoolProofs      transactions that wait for a block
    Mining     <---------  MiningProofs      message thread and mine thread
    BlockSync  <---------  BlockSyncProofs   how chains of peers are fetched
    Timers     <---------  TimersProofs      Timer_Controller
    PeerReg    <---------  PeerRegProofs     how nodes register

Between the modules: what BlockSync hands to `finish_detail` (`ChainIsSound`) is
what `BeginDetail` of BlockTree starts from; TxPool takes the ledger at a block
to be that of a replay, which Chain shows (`LedgerIsReplay`); the timers that
BlockSync and PeerReg let fire are those of Timers, where a callback may come
late within one pass.

**BlockTree** is the message thread walking the tree. A variable has the name of
the member it models; `db` is leveldb, `phase` says which loop the thread is in.
An action is one iteration of a loop, because leveldb is written once per
accepted block (one batch, `node.cpp:5783`) and the process can die between two
iterations:

| action | code |
|---|---|
| `BeginDetail` | `BLOCK_DETAIL_RSP` brings the last block of a pending chain that is heavier than all (`finish_detail`, first test) |
| `Rollback` | one turn of `rollback(cross_id)` |
| `Reapply` | one turn over `db_blocks` in `switch_chain`, `switch_to_most_difficult`, or over `block_chain` in `start` |
| `Accept`, `Reject` | one turn of `finish_detail` over the pending blocks: verified and written, or undone and punished |
| `AfterDetail`, `Arrive` | the test after `finish_detail` (`node.cpp:2812`), the end of a walk |
| `MinedNewBlock` | `mined_new_block` |
| `Crash`, `Start` | the process dies; `start` walks the children lists and picks the heaviest block |

Which blocks verify is left open in BlockTree. The way to a goal and the point
where two branches cross are said with `Ancestors`; the code finds them by
walking parents from both ends. `start` sets `m_cur_block` and the flags of the
chosen chain before it replays that chain, the model while it replays it;
nothing reads them in between.

**Ledger** has no variables. Each operator takes the ledger before an operation
and gives the ledger after it: `CanX` is what `finish_detail` tests of a
transaction of type X, `DoX` what it does, `UndoX` the inverse in `rollback`;
`Retire` is `proc_topic_expired` and `proc_tx_map`; `Restore` the end of the
rollback loop; `ApplyBlock`, `UndoBlock` and `Trial` (of `mine_tx`) put them
together. Order of lists is kept as in the code, with push and pop at the ends
the code uses, because what goes wrong in `joined_order` is an order. `sane`
records that an expiry function returned false. Balances are integers although
the code has `uint64`: that they never fall below zero is `NoOverdraft`.

**Rebuild** is the second half of `rollback`, taken when `m_rollback_topics` has
no entry for a block any more: it reads blocks from disk and rebuilds what they
retired. `Load` follows the counter of lines 9568 to 9614 literally.

**Chain** joins them: every action of BlockTree with what it does to the ledger,
a block accepted if and only if `ApplyBlock` says so, and the actions only the
ledger brings: the exits (`RetireFails`, `ReapplyFails`), the two loops of
`rollback`, `MineTx` (the trial).

**Mining** cuts `mine_tx`, `do_mine` and `do_message` at each access to shared
state; a critical section of `m_mine_mutex` is one action. A job carries the
number it had when its data was published, so that a job taken between
`fetch_add` and publishing can be told.

**TxPool** is the pool over a fixed tree of blocks that verify. `Judge` is the
body of `TX_BROADCAST`, which `do_uv_tx` repeats for waiting transactions;
`Refused` the tests of the wallets' handlers, written apart in the code and here.
`BroadcastX`, `Submit` and `Console` admit; `Reorganise` moves the chain to a
heaviest block, as `finish_detail` and `mined_new_block` do, and makes `do_uv_tx`
due; `do_uv_tx` is one action with its three loops, `LookAtWaiting`,
`LookAtReady` and the release of what is confirmed. The counts `m_uv_spend`,
`m_uv_topic`, `m_uv_join_topic`, `m_uv_reply` and `m_uv_reward` are the `uv_`
members of accounts and topics; they are lost when a reorganisation makes an
account or topic anew, as in the code (`Fresh`). The variable `L` is the ledger
at the tip. Spends and rewards are `uint64` in the code and are added without a test
(`node.cpp:3344`, `3359`, `3771` and their like in `wsock_node.cpp` and
`do_uv_tx`): `Cost`, `Lacks`, `LacksForReward` and `PlusCoins` add modulo `WORD`.
`pool.wrapped` is history: an admission passed the end of the word.

**BlockSync** is one node with the peers it hears. `BlockBroadcast`, `BriefRsp`,
`BriefRspNone` and `DetailRsp` are the handlers, each with all it calls
(`do_brief_chain`, `finish_brief`, `do_detail_chain`, `finish_detail` and the
punishments); `RetryBrief` and `RetryDetail` the timers of requests;
`Due` the one-shot timer of a chain announced before its time; `MinedNewBlock`,
`Register` and `Disconnect` what happens beside it.

`Register` lets any connection in, whatever its key: `REG_REQ` looks the address up
in `m_peer_score_map` (`node.cpp:770-791`), where it gets only when the
registration is complete (`node.cpp:636-646`), so all requests of an address that
are under way before the first one ends have a `Peer_Score` of their own, pass the
test at 791, and register. `doubled` is history: the keys that stood for a second
connection, live or punished. `m_chains_by_peer_key` and the sets of chains in a
request (`Chain_Comp`) know keys only, so the two connections get into each other's
way; see below for what comes of it. A chain is an object with an
address (`ChainId`), because the code compares chains by key in its sets but by
pointer elsewhere, and a key that comes back has a new chain. The data of the
message thread is one record, `n`, so that handlers compose as operators on it.
Peers outside `Honest` announce and answer anything; peers in it answer with what
was asked, late or never.

**Timers** is `Timer_Controller` at the grain of its mutex: `Collect` moves the
due timers to the local list of `run`, `Call` and `Return` stand around a
callback, which runs outside the mutex; `add_timer`, `del_timer`, `reset_timer`
and `clear` happen at any point. Time is relative: `left[t]` is the tick of the
timer less the current one.

**PeerReg** is one node in both parts of the handshake, the active and the
passive one; the messages of other nodes come at any time the handshake lets
them. A connection is a record with its place in the code of `init`, `close` and
`be_closed` (`step`); a step is a critical section. `taken` is the set of
addresses whose `Peer_Score::m_state` is 1. `stranded` and `loose` are history:
addresses hit by one of the two races described below.

### Abstractions

- Hashes and signatures are perfect. Header rules (zero_bits, utc, version) are
  the choice of the tree, of `Verdict` in BlockSync; work is a natural number
  that grows along a chain.
- History lists, explorer data, the rich list and the notifications of
  websocket users are left out: no test of a block reads them.
- `m_members.back()` on an empty list (undefined behaviour, reached only after
  lists went wrong in another way) matches no transaction.
- leveldb batches are written without sync: the model crashes the process, not
  the machine.
- `mine_tx` does not test the window of a transaction, because `do_uv_tx` has
  pruned the pool; `MineTx` offers it transactions in the window. The limit of
  2000 transactions of a block is left out.
- The merge point import is left out: the model starts from genesis.
- TxPool's transactions have good form and signatures, but for a reward that is
  not the topic owner's to give. The counter of rebroadcasts and the notices to
  wallets are left out.
- BlockSync leaves out what serves others' requests: it changes no state. Whether
  a block verifies depends on the block alone.
- Of the network library, which is not in the repository, PeerReg takes what the
  code relies on: callbacks of a connection come one at a time, after its `init`,
  and end with one of `close` and `be_closed`; `connect` returns false if `init`
  did. `m_timer_ctl` and the iterator used after unlock at `node.cpp:227`
  (undefined behaviour if the table changes between) are read atomically. That an
  answer comes over the right connection, which the code tests with a key, is
  taken for granted.

## 3. The runs

| run | asks | result |
|---|---|---|
| `block_tree` | ten blocks, three branches, ties, rejections, crash anywhere: safety, liveness, refinement | holds (2561 states) |
| `chain` | fifteen blocks with all five transaction types; topics and transactions expire and come back | holds (4064 states) |
| `restart` | the tree of `slow_rollback`: does a restart ever exit | holds (2055 states) |
| `mining` | two tips, four jobs, all interleavings | holds (204750 states) |
| `pool` | all types of transactions from peers, wallets and console, two forked trees, limits of 1, amounts near 2^64, `clear_uv_tx` | holds (82109 states, about 115 s) |
| `block_sync` | nine worlds of at most three announced blocks, two or three peers, two connections of one key, answers true, false, late or missing | holds (133803 states, about 100 s) |
| `sync_delay` | blocks of the near future, a key that comes back or has two connections, nobody honest: does every request end | holds (41737 states) |
| `timers` | three timers, one called once, two that are reset | holds (17173 states) |
| `peer_reg` | three connections, two addresses, limits 1 and 2, all interleavings of threads | holds (237828 states, about 130 s) |
| `joined_order` | can the process exit on a stored block | **yes**, `blockchain.cpp:9143` |
| `slow_rollback` | the same, after a long rollback | **yes**, `blockchain.cpp:9608` |
| `mining_torn` | can the assertion `pre_hash == parent_hash` of `mined_new_block` fail | **yes**, `blockchain.cpp:4792` |

### What the properties say

`block_tree`. *StoreIsTree*: at any instant a stored block hangs from genesis,
so `start`, which follows children lists, finds it. *SettledOnHeaviest*: between
messages no stored block outweighs the tip; `src/README.md:290` says that the
"consensus algorithm judges which chain is the main chain based on cumulative
difficulty". *NeverExits*: the assertion at `node.cpp:2812` holds.
*MainChainIsPath*: index and flags describe one path. *NothingLost*: the store
only grows. *HandlerReturns*: a handler that runs gets to its end or dies.
*HeaviestChainSpec*: the node implements HeaviestChain, seen through
`stored = db` and `tip = m_cur_block` when idle.

`chain`. *LedgerIsReplay*: after every step the accounts, lists, topics and the
transaction window are those of a node that replays the main chain from genesis,
what is kept for undoing apart. *Conservation*: accounts and topics hold all
coins (`check_balance`, which the code runs only on command, sums the same).
*NoOverdraft*, *TxOnce*, *ListsAgree*: see their comments. *NeverStuck*: the
process does not exit on a block it accepted before.

`restart`. *ReloadNeverExits*: even from the states `slow_rollback` exits in, a
restart applies every stored block.

`mining`. *ClosedOnce*: a success flag raised twice closes nothing twice.
*TornOnly*: a block whose data was published under its number extends the tip it
is closed on. *FollowsTip*: if the tip stays put, the miner ends up on it.

`pool`. *ListedOnce*: whichever of the ways in and out a transaction takes, it is
listed once, two registrations never compete, and the sets that guard this know
it. *PoolFitsChain*: between messages nothing listed is confirmed or outdated.
*PlanHolds*: where the counts fit what accounts and topics have, and each ready
transaction can be mined alone, `mine_tx` gets all of them into one block: the
two accountings, `uv_` counts and the trial, agree, unless a count wrapped. *NothingLocked*: no step but
`clear_uv_tx` leaves a count for a transaction that is not there any more. The
places among the joined topics are counted for those replies alone that were to
join a topic when they became ready (`joins`): the reply carries that flag.
*ReadyNotDropped*: what was ready is dropped only if it cannot be mined.
*WalletsAndPeersAgree*: the two copies of the tests have the same verdict.
*OnlyLiarsPunished*: a peer is punished only for a transaction that no branch
could hold.

`block_sync`. *NeverExits*: the exits of `node.cpp:2130` and `4082` are not
reached, and no document is read that was let go. *AttachedWhereItSays* and
*NoOrphans*: keys, chains and requests refer to each other, in both directions:
the chain of a key is in the request it names and in no other, and a request
works for no chain whose key has gone, but for those of punished peers. Both except
keys that stood for two connections, key by key, not the run as a whole.
*ChainIsSound*: what `finish_detail` and `switch_chain` take for granted of a
chain. *OnlyHeightsHurt*: a peer that tells the truth is never punished beside a
liar with whom it shares a request, but for wrong heights, see below.
`sync_delay`. *RequestsEnd*: every request is answered, given up, or left.

`timers`. *NeverLost*: an existing timer is armed or in hand; a call after
deletion comes in the same pass only; a one-shot timer is called once.
*Punctual*: a timer nobody touches is called again and again.

`peer_reg`. *ScoresFit*: a taken address has a connection that will give it back,
and only one connection holds an address, outside the two races. *LimitHolds*:
the tables outgrow `m_max_conn` by more than one only by `init`s that run at the
same time. *HandshakesEnd*: no connection stays unregistered, no address taken
without a registered connection, for ever.

### What was found

1. `joined_order`. Undoing a reply compares the last member of the topic but
   pops the last joined topic of the account (9496-9501); expired topics come
   back at the front (9545-9548). An account that is a member of an expired and
   a younger topic is left, after a rollback, with a list that is not that of a
   replay, and re-applying the branch meets the limit on joined topics with an
   `ASKCOIN_EXIT`. The run needs `LIFE = 3` and `MAX_JOIN = 2`; the code needs
   an account near 100 joined topics.
2. `slow_rollback`. Line 9603 and line 9608 both increment `count`. The run has
   `LIFE = 2` and a rollback that enters the slow loop with three blocks to
   undo; with `TOPIC_LIFE_TIME` 4320 the second test cannot be what ends the
   loop that early, and four are needed.
3. `mining_torn`. `m_mine_id_1` is incremented before the job is published.

The other modules met behaviour that no comment or test of the repository speaks
of. The properties name it as an exception, and the exception is as narrow as the
runs allow:

- *A wrong height hurts the honest* (BlockSync, `OnlyHeightsHurt`, `NoOrphans`).
  When a brief request is answered, `finish_brief` walks from the header to those
  above it; one that states a wrong height, a height of 1 above another block than
  genesis included, punishes every peer of the request (`node.cpp:3848`), those of
  its good branches too. The chain of a peer punished that way may have been moved
  to a detail request already, and stays there without its key.
- *Two connections of one key* (BlockSync, `doubled`). Connections A and B registered
  the same key. (1) The chain of A moves to the detail request of a block, A is
  struck off for another's wrong height (`node.cpp:3848`) and its key freed, while the
  chain stays in the request. B announces the same blocks; its chain is not inserted
  into that request, which has one of an equal key, but the key stands for it from
  then on: a chain that no request works for. `AttachedWhereItSays` excepts it. (2) B's
  chain is in another request instead; when A's is handled, the key is erased (`node.cpp:5854-5857`)
  and B's chain stays in its request without it. `NoOrphans` excepts it. The worlds of
  `block_sync` and `sync_delay` with `q` and `q1` have both connections at a time.
  `NeverExits`, `ChainIsSound`, `OnlyHeightsHurt` and `RequestsEnd` hold all the same,
  without exception.
- *Late answers* (BlockSync): an answer "not found" drops the sender's current
  chain, whichever request it is about; a delayed chain of a connection that is
  gone drops a newer chain of the same key.
- *A stranded score* (PeerReg, `stranded`). The connection may close between
  `m_state` of the peer and `add_peer_score` of `REG_VERIFY_RSP`
  (`node.cpp:638-646`). The address is then taken until restart, and its
  requests are refused.
- *An address given back twice* (PeerReg, `loose`). A failing connect back
  releases the score at line 821, and the close of the connection again; in
  between another connection may take it. An address that is not in the map yet
  gets a `Peer_Score` per request, so two connections can hold it. BlockSync lets
  them, see above.
- *Honest handshakes fail* (PeerReg): `REG_VERIFY_REQ` is sent before the state is
  set to 4, so an answer may find the old state and close the connection; two
  nodes that connect to each other at once refuse each other. The ten second
  timer cleans up, and `HandshakesEnd` holds.
- *Ids that nobody lists* (TxPool). `TX_BROADCAST` inserts the id before limit
  tests that return without listing (lines 3441, 3562 to 3624, 3755 to 3790 of
  `node.cpp`); the transaction is refused from then on, until restart.
  `clear_uv_tx` empties the lists and leaves ids, names, pubkeys and spends
  (`blockchain.cpp:704`), which `NothingLocked` therefore excludes.
- *Sums of coins wrap* (TxPool, `pool.wrapped`). An amount is tested to be a nonzero
  `uint64`, no more. With a balance of 10 and one send of 5 counted (7 with the fee),
  a send of 2^64 - 8 costs 2^64 - 6, the sum is 1, and it is admitted as ready;
  the count is 1 then, and another send of 5 is ready too. When the huge one
  expires, giving back its cost takes the count to 0, never below, and two sends
  are ready that cost 14. Each can be mined alone; `mine_tx` tries them in turn on a
  ledger, takes one, and no coin is made or lost. `PlanHolds` is therefore about
  pools in which no sum has wrapped; the other properties of the run hold in all.
- *Counts of accounts made anew* (TxPool, `pool.anew`). A reorganisation that
  registers an account or opens a topic on the other branch resets its counts
  while its transactions stay listed: the pool then promises too much, which
  `mine_tx` finds out.
- *Order in `do_uv_tx`* (TxPool): waiting transactions are judged
  (`blockchain.cpp:6603`) before what confirmed ones held is released, so that
  one may be dropped at a limit that has room by then. No property is against
  that: `ReadyNotDropped` is about ready transactions, whose counts are kept, and
  `PlanHolds` about what is ready in the end.
- *A topic that is over* (TxPool): its slots are not given back when its
  transactions leave (line 7081), and a reorganisation may bring the topic back.

The passing runs keep clear of the first two by their trees, not by a change of
the code: in MCChain no account nears the limit on joined topics, and its slow
rollbacks are of one or two blocks. NeverStuck in `chain` therefore says that
nothing else stops the process there.

### Bounds, and why they are enough

- `LIFE = 2` (3 in MCJoined), `WINDOW = 1` stand for `TOPIC_LIFE_TIME` = 4320 and
  100. Expiry begins at height `LIFE + 2`, the erasing of rollback entries at
  `2 LIFE + 1`: trees of height 6 and 7 cross both. The code satisfies
  `2 * WINDOW <= LIFE`, which is an assumption of Ledger; `TxOnce` depends on it.
  Another is `MAX_JOIN # 0` (100 in the code): the proofs compare a ledger with the
  one that has the same accounts and no memberships, where a reply must have room.
- `MAX_TOPIC`, `MAX_JOIN`, `MAX_REPLY` are 2 to 4 for 100, 100, 1000, so that a
  limit can be met. `TOTAL = 100` and `BLOCK_REWARD = 20` let the reserve fund
  run dry within a branch.
- The trees contain blocks that fail first, in the middle, and after their
  parent was accepted, and a transaction repeated within the last block, at the
  oldest height `m_tx_map` reaches, and beyond it.
- `MaxJob = 4` bounds Mining: no event and no find starts from that job number
  on. The defects that need a stale job need two; four leaves room for a job
  superseded while another is taken.
- TxPool has limits of 1 topic, 1 membership and 3 replies, so that two
  transactions compete for each. The tree of the first two worlds registers an
  account on both branches and its name for another pubkey on a third; that of
  the third opens, answers, rewards and ends a topic. `clear_uv_tx` has a world
  of its own with fewer transactions, because nothing cleans up after it.
  `WORD = 128` stands for 2^64: all coins there are (`TOTAL = 100`) fit, as in the
  code, and two amounts of the runs, `huge` and `rich`, make a sum wrap, one in the spends of an
  account and one in the rewards of a topic.
- BlockSync bounds what it makes of a hash (`made`), the announcements that wait
  (`delayed`), the headers it keeps (`pending`, 100000 in the code, 0 where
  eviction is the question) and the tries of a request (`tries`: six in the code,
  with up to 1, 4, 8, 8, 100 and 100 peers; two here, with 1 and 2, or a single
  one).
  Three announced blocks make a fork above an unknown block, so that two chains
  share a brief request and part at its answer; three chain objects are one more
  than keys. An announcement is looked at only while one of them is free (`Free`),
  as memory is for the code. The worlds with two live connections of a key (`Doubled`) say which
  blocks each peer announces (`says`): the wrong height is `p`'s, the others have the
  blocks that make the two scenarios above, one in each. The chains' addresses are symmetric: nothing orders them. For
  the invariants, unlike for `RequestsEnd`, none of these bounds matters: they are
  proved for all (section 4).
- Timers: `MaxElapsed = 2` bounds a pass of `run`, which suffices for a timer to
  become due again while it is in hand; intervals are 1 and 2 ticks.
- PeerReg: three connections are what one address needs for a connect back that
  crosses a connect, or two requests and a connect back; `m_max_conn` is 1 or 2,
  so that three connections cross it. The proofs have no bound.

### Fairness

BlockTree: `WF_vars(Work)`: the message thread runs its handler to the end; it
blocks on nothing and yields to nobody. New blocks, crashes and restarts are not
fair. Mining: weak fairness of each thread; events and finds are not fair. Chain
and TxPool have none: that the walk ends is shown in BlockTree, and `do_uv_tx`
is one action. BlockSync: only the timers of requests are fair, for they fire
every 1.5 s whatever peers do; no message of a peer is. Their fairness is written
out (a request is repeated again and again, or is gone again and again), which is
weak fairness for actions that are enabled while the request exists. Timers (`FairSpec`): the thread of
`run` is scheduled, callbacks return, and time passes. PeerReg (`FairSpec`):
threads finish what they began, timers fire, and a closing connection gets its
callback; no message of another node is fair.

Deadlock is switched off where the system stops: in the mining runs, because
`ASKCOIN_EXIT` ends all threads and events cease at `MaxJob`; in the BlockSync
and PeerReg runs, because connections are used up and no new one comes.

## 4. Proofs

The first part of `ChainProofs` proves, for every set of blocks, every tree on it and every
assignment of work that grows along it (`BlockAssumption`, `TreeAssumption`, and
nothing else), that each safety property of the run `block_tree` is an
invariant, that the store only grows, and that BlockTree implements
HeaviestChain.

The inductive invariant `IInv` is `TreeInv` and `NeverExits`. `TreeInv` is the
part that does not depend on the process staying alive, so that the rest of the
module, where there is a ledger too, can use it: `TypeOK`, `StoreIsTree`, `MainChainIsPath`, and three facts that make
these inductive:

- `BestIsHeaviest`: `m_most_difficult_block` outweighs every known block, in
  every phase. `SettledOnHeaviest` speaks only of idle states; what a walk ends
  in is decided by this fact, which holds all along it.
- `IdleIsHeaviest`: between messages the tip has the work of
  `m_most_difficult_block`, ties included.
- `DownIsEmpty`: a dead process knows genesis alone, so the load starts there.

`NeverExits` follows from `BestIsHeaviest` and `MainChainIsPath` (the tip is a
known block). Two lemmas, `ExtendPath` and `ShrinkPath`, say that adding a child
to the end of the path, or taking the end away, leaves one path; each action
then needs one step. `NothingLost` and the refinement are step by step from
`IInv`: `Accept` maps to `Store`, `MinedNewBlock` to `Extend`, the action that
makes the thread idle to `Settle`, the one that ends idleness to `Unsettle`, the
rest to stutters.

`LedgerProofs` has two parts. The first proves that a transaction and its undo
are inverse (`UndoIsInverse`): for any ledger (`IsLedger`) and any transaction of
the five types that passes `CanApply`, `Undo` after `Apply` gives back the same
record, field by field and in the order of every list. What a reply needs beside
is `Agree`: that membership and the list of joined topics correspond, and that
the transaction made nobody a member yet; both are in `ListsAgree`, which the run
`chain` checks. `joined_order` is no contradiction: there, topics that expired
came back between the application and the undo, at the other end of the list, so
that what is undone is not the ledger the application left. There is one lemma
per type; each follows the fields the type changes through the application, the
window, the undo and the window again (`Same` says that the others stay). That a
reward finds the reply again it paid is `SameReply`, by the least position of a
key (`Least`). `GenesisIsLedger` shows that the genesis ledger is one.

The second part is about what is left when that order is left out. `Core(L)` is
the ledger without memberships, lists of joined topics, the window and what is
kept for undoing; `IsBook(L)` says that its balances are naturals, that the list
of topics names each topic once, and that every owner has an account; `Coins(L)`
is the sum over accounts and topics. `CoreUndone` says that a transaction is
undone without a trace in the core, in *whichever* ledger of the core it left,
memberships in any order. `ApplyBook` and `MinerPaid` say that application leaves
a book and moves coins without making any: a coin of each fee is the miner's, and
the reserve fund pays no more than it has. `RetireBook` and `RestoreBook` say the
same of expiry and of its inverse, at the ends of the lists the code uses. Sums
over functions on finite sets are `Total`, whose laws are proved there from the
definition of the fold.

`MiningProofs` proves for every set of tips, and without the bound on jobs
(`MaxJob` is any natural number), that the handshake keeps its types, that no
block is closed twice, and `TornOnly`. The inductive invariant adds
`ClosedIsLast` (a closed block bears `last_mine_id`, so `do_message` drops it),
`Announced` (no data is labelled with a number still to come) and `JobsUpToDate`:
while mining is possible and no call of `mine_tx` is due, every copy of a job
with the latest number, published, hashed or posted, extends the tip. It is
preserved because the tip moves, and mining becomes possible, only together with
`m_block_changed`, and `mine_tx` then increments the number before `do_message`
looks at `m_mine_success`.

`TimersProofs` proves for every set of timers and intervals that the types hold,
that `NeverLost` is an invariant, and, what callers need of it, that a callback
which runs is of a timer that exists or was deleted while `run` had it in hand.
`IInv` is small here: the types, `NeverLost`, and that the timer being called is
not in the list of `run` any more.

`PeerRegProofs` proves for every number of connections, all addresses and limits
that `ScoresFit` is an invariant. `IInv` is `Shape /\ Fits`. `Shape` says which
combinations of step, kind, state and connect back a connection can be in and
which of them are in the tables; each lemma first says what its action does to the
connections, field by field. `Fits` restates `ScoresFit` with `Held` (past
`REG_REQ` and not gone) and adds what makes it inductive: while an address is not
loose, one that is held, or dialled, is taken (`Marked`), and the one that is
dialled is held by no connection (`NotDialed`).

The second half proves `LimitHolds` for every limit. By itself it is not
inductive, for it says nothing of a connection that is counted and not inserted
yet. `Bounded` does: such a connection, if no other `init` runs beside it, finds
tables of at most `m_max_conn` (`Alone`), and the connections in the tables whose
`init` nobody ran beside number at most `m_max_conn + 1`. Counting uses the
theorems on finite sets of the library.

`FoldFacts` is about the loops of the code, which the modules write as folds
over sequences. `FoldRuns` says of any operator that `Fold`, which is `FoldLeft`
of the community modules with its definition written out, is the last state of
the run the loop makes: there is a function from `0 .. Len(seq)` to states that
starts with the base and takes one turn at each step. It is proved from that
definition, by well-founded induction. `Induct` is induction over `0 .. n` for a
set. With the two, what a loop preserves is proved like an invariant: one lemma
for a turn, and `Induct` over the run. `FoldCons` splits off the first turn, for
loops that are undone from the other end. A module instantiates FoldFacts with
the turns of its loops. These are lemmas, true of any code. `Fold` is written out because an instance brings along
all that its module extends.

`TxPoolProofs` proves, for every tree of blocks that verify (`BlocksVerify`), every set
of transactions with amounts below any `WORD` greater than the fee, and pools of any length, all of the run `pool` but `PlanHolds`, `OnlyLiarsPunished`
and `ReadyNotDropped`. `IInv` is `Sound(pool, {})` and that everything listed fits
the chain unless `do_uv_tx` is due. `Sound(p, rest)` has a second argument because
`do_uv_tx` takes the lists apart: in the middle of a loop the transactions are
those of the new lists and the `rest` the loop has still to see, each has one
place among them (`OnePlace`), the sets of ids, names and keys know all of them
(`Known`), and no two registrations compete (`Apart`). A turn moves one transaction
out of the rest (`WaitingTurn`, `ReadyTurn`), and says what becomes of it: dropped,
waiting, ready. `WaitingFit` and `ReadyFit` of the lists that come out then give
`PoolFitsChain`. `NothingLocked` is an action property about sums over lists. It is
proved turn by turn as well: what a count holds less the `Total` of the list does
not grow, and `Total` does not depend on what is not in the list. The admission of
wallets and that of peers are one test (`SameTest`), from which
`WalletsAndPeersAgree` follows in every state.

`BlockSyncProofs` proves, for any blocks, peers, numbers of chains, headers kept and
tries, with headers and answers of any kind, `TypeOK`, `NeverExits`, `ChainIsSound` and
`OnlyHeightsHurt` in every behaviour, two connections of one key included, and
`AttachedWhereItSays` and `NoOrphans` while no key has stood for two. `IInv` is `Sound(e, s, None, {})` and that the delayed announcements
fit the tables. `Sound(e, s, x, rest)` has three parts:

- `Base`: types; the known blocks reach down to genesis; nobody honest is punished
  before a wrong height was heard of.
- `Tidy`: who refers to whom. A chain in a request is the one its key stands for,
  or it is `Dead`: its peer is punished and nobody has the key. The chain of a key
  is in the one request that names it (`Placed`). A request lists at most one chain
  per key, and those that wait to be asked are among them, once each (`Neat`).
  When a key has stood for two connections (`Single` is false), less is left, and
  enough for the other properties: a request still lists one chain per key, a chain
  in it names a connection there is or was, and the chain of a key names some request.
- `Content`: a chain in a brief request is `Climbing`: it has no gap, every header
  above its lowest is right, and the work that remains is what it declares for the
  parent of the lowest; one in a detail request is `Grounded`: it hangs from a
  known block, declared the work of its last block, and what comes before the block
  asked for is known or at hand.

None of the six properties is inductive alone. That a punishment spares the honest
(`OnlyHeightsHurt`) needs that all chains of a request say what is true of the
header they share, hence `Content`; that a chain is found where it says
(`NeverExits`) needs `Tidy`. `Apart` is what `Single` means for the connections: no
two registered ones have the same key. It is no assumption: the step in which a second
one registers is proved as well, and leads to the weaker half of `Tidy`. That the exceptions of
`AttachedWhereItSays` and `NoOrphans` are needed for the doubled keys alone, and not
for all keys once one is doubled, is model-checked only.
The arguments `x` and `rest` are for the middle of a handler: `finish_brief` and
`finish_detail` take the chains of a request one by one, and each may start, join,
end or be struck off elsewhere before the next is looked at. While request `x` is
taken apart, the chains in `rest` are in hand: they are still chains of their keys,
and in no other request. Joining a request, leaving one, being detached,
punished or forgotten each have a lemma from `Sound` to `Sound` with one chain more or
less in hand, a loop is `Induct` over its run, and a handler is a composition of
them. `SortedExists` shows that the order of the sets of chains is one (`InOrder`
is a CHOOSE), and the walk of `Climb` is followed by induction over the ancestors.
The assumptions (`BlockSyncAssumption`) are that blocks and addresses are finitely
many, that work grows along a chain, and that own blocks have the right height.

`ChainProofs` is, in its second part, about the tree and the ledger together, for every tree of blocks,
every content of them and all bounds of the ledger with `LedgerAssumption`. Of the
contents `ChainAssumption` says that they are sequences of transactions of the five
types, that genesis has none, and that equal ids (a hash of the transaction) mean
equal transactions.

- The tree. Each step of Chain is a step of BlockTree or an exit that leaves the
  tree alone (`StepOrExit`), so that `TreeInv`, `SettledOnHeaviest` and
  `MainChainIsPath` hold with a ledger as well, and Chain implements
  HeaviestChain: trials, slow rollbacks and exits do not show there.
- `TxOnce`. A block may only hold transactions whose `block_id` is within
  `WINDOW` of its height, and `m_tx_map` forgets a block after `LIFE` more blocks.
  `OnceInv` says what connects the two along rollbacks: `m_tx_map` holds the
  transactions of the last `LIFE + 1` blocks of the main chain (`Remembers`), what
  `m_rollback_txs` keeps for a height is what retired then, all of it
  (`KeptForRollback`), every transaction is near its height (`NearHeight`), and
  none is there twice (`OnceEach`). A transaction that is repeated has one
  `block_id`, near both heights; they are at most `2 * WINDOW` apart, and `LIFE` is
  no less, so the earlier one is in `m_tx_map` and the later one is refused
  (`NewToChain`). Only the window matters here, and most of the module shows that
  nothing else touches it: the trial of `mine_tx` and a block that fails undo
  exactly the transactions they applied, and retiring and restoring are inverse
  (`RetiredRestored`) in whichever order the topics go.
- `RetiredIsRemembered` follows from the same invariant: what a next block retires
  is in `m_tx_map`, so `proc_tx_map` does not fail, and its exits are not reached.

- `Conservation` and `NoOverdraft`. A rollback takes back what was applied long
  ago, on the word of the block, and the code tests nothing on that way: that the
  balances it subtracts from suffice cannot be seen from the ledger. `BookInv` adds
  the past of the main chain: there are functions `H` and `S` such that `H[i]` is
  the core of the ledger at height `i`, a book of `TOTAL` coins, `S[i]` are the
  topics block `i` retired, `H` at the tip is the core of `ledger`, and undoing
  block `i` leads from any ledger of core `H[i]` to one of core `H[i - 1]`
  (`Link`), given that what `m_rollback_topics` keeps is `S` (`SavedIs`). A block
  that verifies prolongs `H` and `S` (`BlockBook`, `BackedGrows`), a rollback
  shortens them (`BackedShrinks`), and a block that does not verify or a trial of
  `mine_tx` leaves them (`BlockRefused`, `TrialBook`, `BackedStays`), for what is
  left in the lists of memberships is none of the core's business. That is why
  `joined_order`, which makes those lists wrong, does no harm to the coins. TLC
  cannot look for `H` and `S`; what follows from them is what the run `chain`
  checks. The assumptions are `TypedBlocks`, that a transaction has the fields of
  its type in their ranges, which parsing sees to, and that the author of the
  genesis block is an account and the reserve fund is none, as `start` makes them.

`TxOnce`, `RetiredIsRemembered`, `Conservation` and `NoOverdraft` are stated for
behaviours in which no rollback takes the slow loop (`[](slow = <<>>)`), because
there they need not hold: the run `slow_rollback` shows the loop losing part of the
window and the process exiting for it. They say that this loop is the only way to
lose it. In the run `chain` slow rollbacks are short, and TLC finds all four to
hold with them.

Only model-checked:

- `AttachedWhereItSays` and `NoOrphans` of BlockSync for the other keys, once some key
  stood for two connections.
- Liveness, which is out of the prover's reach, as is ENABLED: `HandlerReturns`,
  `FollowsTip`, `RequestsEnd`, `Punctual`, `HandshakesEnd`.
- `LedgerIsReplay`, `ListsAgree` and `NeverStuck` of Chain. They do not hold for
  all constants: `joined_order` and `slow_rollback` are counterexamples, and the
  runs check them where those two do not come into play. Even without the slow
  loop, an account whose expired topic comes back has its joined topics in
  another order than a replay. `ReloadNeverExits` compares a reload with the chain
  that was accepted, and needs the same.
- `PlanHolds`, `OnlyLiarsPunished` and `ReadyNotDropped` of TxPool. They compare
  the pool with ledgers that replay a path from genesis, of which the proofs would
  need an invariant of its own: what a replayed ledger knows of each account and
  topic.

No module declares a RECURSIVE operator.

## 5. Not modelled, and why

- **Accumulated work.** Sequential, pure arithmetic over nine limbs without state;
  its boundaries are within reach of a unit test. All models take work as a
  natural number.
- **Import and export of a merge point**, repair of leveldb, parallel verification
  of hashes at start: one run through files before any thread is started. The
  export reads state and writes files.
- **Websocket sessions, login, queries and pushes.** They read the chain and write
  to sockets. The transactions that wallets submit are in TxPool.
- **Ranking, pruning and saving of peer scores.** Sequential under one mutex and
  read by nothing but the choice of the next address; PeerReg lets `connect_proc`
  choose any free one.
- **Pings, and the exchange of addresses** beyond the arrival of a new one
  (`Learn`): they close a connection or add to the map.
- **Broadcast** sends to every registered peer and keeps no state.
- **Cryptography and encodings** are taken over from Bitcoin Core. **leveldb**,
  **fly** and **rapidjson** are libraries outside this code.

What would be worth adding, in this order: that two
ledgers of one core judge a block alike while no account is near the limit on
joined topics, and with it `NeverStuck` away from that limit; a larger PeerReg, in
which two of these nodes face each other instead of one facing any peer.
