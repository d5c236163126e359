------------------------------- MODULE Mining -------------------------------
(***************************************************************************)
(* The handshake between the message thread (do_message, mine_tx,          *)
(* mined_new_block) and the mine thread (do_mine), blockchain.cpp. The     *)
(* message thread numbers and publishes jobs: a tip to extend and the      *)
(* transactions that passed the trial. The mine thread takes a job, hashes *)
(* until it finds a block or another job is announced, and hands the block *)
(* back with the number of its job.                                        *)
(*                                                                         *)
(* One action is what a thread does between two accesses to shared state,  *)
(* or inside one critical section of m_mine_mutex.                         *)
(***************************************************************************)
EXTENDS Naturals

CONSTANTS
    Tip,        \* blocks the main chain may end in
    NoTip,      \* not one of them: nothing published yet
    MaxJob      \* bound: no event and no find starts from this job number on

ASSUME MiningAssumption == NoTip \notin Tip /\ MaxJob \in Nat

VARIABLES
    \* the message thread
    msg,                \* where it is
    after,              \* where it goes on after mine_tx
    m_cur_block,        \* the tip
    m_block_changed,
    m_enable_mine,
    m_miner_privkey,    \* whether a key was imported
    has_account,        \* whether get_account(m_miner_pubkey) succeeds
    last_mine_id,
    exit,               \* why ASKCOIN_EXIT was called, "" if it was not
    \* shared
    m_mine_id_1,        \* number of the latest job
    published,          \* m_mined_txs, m_mine_cur_block_*, m_mine_zero_bits
    m_need_remine,
    m_mine_success,
    m_mine_doc,         \* the block found, with m_mine_id_2
    \* the mine thread
    miner,              \* where it is
    job                 \* what it works on: locals of do_mine

msgVars == <<msg, after, m_cur_block, m_block_changed, m_enable_mine,
             m_miner_privkey, has_account, last_mine_id, exit>>
mineVars == <<miner, job>>
vars == <<msgVars, mineVars, m_mine_id_1, published, m_need_remine,
          m_mine_success, m_mine_doc>>

\* "loop": before the messages of a turn of do_message. "bump": enters
\* mine_tx. "trial": after fetch_add. "notify": after the job was published.
\* "changed": before the test of m_block_changed. "result": before the test
\* of m_mine_success. "take": after it was seen set.
MsgPlace == {"loop", "bump", "trial", "notify", "changed", "result", "take"}

\* "wait": sleeps. "remine": before the critical section that takes a job.
\* "hash": tries nonces. "found": leaves them. "posted": before the flag.
MinePlace == {"wait", "remine", "hash", "found", "posted"}

\* for: the number the job had when its data was published. txs: whether
\* the transactions of the trial are there, or were moved out before.
Data == [tip : Tip \cup {NoTip}, txs : BOOLEAN, for : Nat]
Job == [id : Nat, data : Data]

NoData == [tip |-> NoTip, txs |-> FALSE, for |-> 0]
NoJob == [id |-> 0, data |-> NoData]

\* ASKCOIN_EXIT ends all threads.
Running == exit = ""

\* Mutant: the job of the mine thread is not set.
InitWithoutJob ==
    /\ msg = "loop" /\ after = "changed" /\ m_cur_block \in Tip
    /\ m_block_changed = TRUE /\ m_enable_mine = TRUE
    /\ m_miner_privkey = FALSE /\ has_account = FALSE
    /\ last_mine_id = 0 /\ exit = "" /\ m_mine_id_1 = 0
    /\ published = NoData /\ m_need_remine = FALSE /\ m_mine_success = FALSE
    /\ m_mine_doc = [job |-> NoJob, closed |-> FALSE]
    /\ miner = "wait" /\ job = NoData

Init ==
    /\ msg = "loop" /\ after = "changed"
    /\ m_cur_block \in Tip
    /\ m_block_changed = TRUE
    /\ m_enable_mine = TRUE
    /\ m_miner_privkey = FALSE
    /\ has_account = FALSE
    /\ last_mine_id = 0
    /\ exit = ""
    /\ m_mine_id_1 = 0
    /\ published = NoData
    /\ m_need_remine = FALSE
    /\ m_mine_success = FALSE
    /\ m_mine_doc = [job |-> NoJob, closed |-> FALSE]
    /\ miner = "wait" /\ job = NoJob

-----------------------------------------------------------------------------
(* The message thread. Handlers of messages and commands come first in a   *)
(* turn, then the timers, then m_block_changed, then m_mine_success.       *)

InLoop == Running /\ msg = "loop" /\ m_mine_id_1 < MaxJob

\* Mutant: m_block_changed is not set.
ChainMovesUnnoticed ==
    /\ InLoop
    /\ m_cur_block' \in Tip \ {m_cur_block}
    /\ UNCHANGED <<msg, after, m_block_changed, m_enable_mine,
                   m_miner_privkey, has_account, last_mine_id, exit, mineVars,
                   m_mine_id_1, published, m_need_remine, m_mine_success,
                   m_mine_doc>>

\* A handler moved the main chain: finish_detail, switch_chain,
\* switch_to_most_difficult. The account of the miner may come or go.
ChainMoves ==
    /\ InLoop
    /\ m_cur_block' \in Tip \ {m_cur_block}
    /\ has_account' \in (IF m_miner_privkey THEN BOOLEAN ELSE {FALSE})
    /\ m_block_changed' = TRUE
    /\ UNCHANGED <<msg, after, m_enable_mine, m_miner_privkey, last_mine_id,
                   exit, mineVars, m_mine_id_1, published, m_need_remine,
                   m_mine_success, m_mine_doc>>

\* Command enable_mine.
EnableMine(on) ==
    /\ InLoop
    /\ m_enable_mine' = on
    /\ m_block_changed' = (m_block_changed \/ on)
    /\ UNCHANGED <<msg, after, m_cur_block, m_miner_privkey, has_account,
                   last_mine_id, exit, mineVars, m_mine_id_1, published,
                   m_need_remine, m_mine_success, m_mine_doc>>

\* Command import_privkey, of a registered account or not.
ImportPrivkey ==
    /\ InLoop
    /\ m_miner_privkey' = TRUE
    /\ has_account' \in BOOLEAN
    /\ m_block_changed' = TRUE
    /\ UNCHANGED <<msg, after, m_cur_block, m_enable_mine, last_mine_id, exit,
                   mineVars, m_mine_id_1, published, m_need_remine,
                   m_mine_success, m_mine_doc>>

\* The timer set in start calls mine_tx when the last call is old enough.
MineTimer ==
    /\ InLoop
    /\ msg' = "bump" /\ after' = "changed"
    /\ UNCHANGED <<m_cur_block, m_block_changed, m_enable_mine,
                   m_miner_privkey, has_account, last_mine_id, exit, mineVars,
                   m_mine_id_1, published, m_need_remine, m_mine_success,
                   m_mine_doc>>

HandlersDone ==
    /\ Running /\ msg = "loop"
    /\ msg' = "changed"
    /\ UNCHANGED <<after, m_cur_block, m_block_changed, m_enable_mine,
                   m_miner_privkey, has_account, last_mine_id, exit, mineVars,
                   m_mine_id_1, published, m_need_remine, m_mine_success,
                   m_mine_doc>>

\* if(m_block_changed): sync_block, then do_uv_tx, which ends in mine_tx.
TestChanged ==
    /\ Running /\ msg = "changed"
    /\ msg' = IF m_block_changed THEN "bump" ELSE "result"
    /\ after' = "result"
    /\ UNCHANGED <<m_cur_block, m_block_changed, m_enable_mine,
                   m_miner_privkey, has_account, last_mine_id, exit, mineVars,
                   m_mine_id_1, published, m_need_remine, m_mine_success,
                   m_mine_doc>>

\* mine_tx returns; after do_uv_tx, m_block_changed is cleared.
ReturnFromMineTx ==
    /\ msg' = after
    /\ m_block_changed' = (m_block_changed /\ after = "changed")

\* mine_tx up to fetch_add, and the early returns around it.
MineTxBump ==
    /\ Running /\ msg = "bump"
    /\ IF m_enable_mine /\ m_miner_privkey
       THEN m_mine_id_1' = m_mine_id_1 + 1 ELSE UNCHANGED m_mine_id_1
    /\ IF m_enable_mine /\ m_miner_privkey /\ has_account
       THEN msg' = "trial" /\ UNCHANGED m_block_changed ELSE ReturnFromMineTx
    /\ UNCHANGED <<after, m_cur_block, m_enable_mine, m_miner_privkey,
                   has_account, last_mine_id, exit, mineVars, published,
                   m_need_remine, m_mine_success, m_mine_doc>>

\* mine_tx, last critical section.
MineTxPublish ==
    /\ Running /\ msg = "trial"
    /\ published' = [tip |-> m_cur_block, txs |-> TRUE, for |-> m_mine_id_1]
    /\ msg' = "notify"
    /\ UNCHANGED <<after, m_cur_block, m_block_changed, m_enable_mine,
                   m_miner_privkey, has_account, last_mine_id, exit, mineVars,
                   m_mine_id_1, m_need_remine, m_mine_success, m_mine_doc>>

MineTxNotify ==
    /\ Running /\ msg = "notify"
    /\ m_need_remine' = TRUE
    /\ ReturnFromMineTx
    /\ UNCHANGED <<after, m_cur_block, m_enable_mine, m_miner_privkey,
                   has_account, last_mine_id, exit, mineVars, m_mine_id_1,
                   published, m_mine_success, m_mine_doc>>

TestSuccess ==
    /\ Running /\ msg = "result"
    /\ msg' = IF m_mine_success THEN "take" ELSE "loop"
    /\ UNCHANGED <<after, m_cur_block, m_block_changed, m_enable_mine,
                   m_miner_privkey, has_account, last_mine_id, exit, mineVars,
                   m_mine_id_1, published, m_need_remine, m_mine_success,
                   m_mine_doc>>

\* Mutants: the job numbers are not looked at; or not the latest one.
WantedUnnumbered(id) == m_enable_mine /\ m_miner_privkey /\ has_account

WantedAnyJob(id) ==
    last_mine_id # id /\ m_enable_mine /\ m_miner_privkey /\ has_account

\* What do_message asks before it calls mined_new_block.
Wanted(id) ==
    /\ id = m_mine_id_1
    /\ last_mine_id # id
    /\ m_enable_mine /\ m_miner_privkey /\ has_account

\* The block is taken under the mutex, and dropped ...
DropBlock ==
    /\ Running /\ msg = "take"
    /\ ~ Wanted(m_mine_doc.job.id)
    /\ m_mine_success' = FALSE
    /\ msg' = "loop"
    /\ UNCHANGED <<after, m_cur_block, m_block_changed, m_enable_mine,
                   m_miner_privkey, has_account, last_mine_id, exit, mineVars,
                   m_mine_id_1, published, m_need_remine, m_mine_doc>>

\* ... or mined_new_block puts it on the main chain, if it is not known yet
\* and extends the tip; else the process exits.
MinedNewBlock ==
    /\ Running /\ msg = "take"
    /\ Wanted(m_mine_doc.job.id)
    /\ m_mine_success' = FALSE
    /\ msg' = "loop"
    /\ IF m_mine_doc.closed \/ m_mine_doc.job.data.tip # m_cur_block
       THEN /\ exit' = IF m_mine_doc.closed THEN "known" ELSE "pre_hash"
            /\ UNCHANGED <<m_cur_block, m_block_changed, last_mine_id, m_mine_doc>>
       ELSE /\ m_cur_block' \in Tip \ {m_cur_block}
            /\ m_block_changed' = TRUE
            /\ last_mine_id' = m_mine_doc.job.id
            /\ m_mine_doc' = [m_mine_doc EXCEPT !.closed = TRUE]
            /\ UNCHANGED exit
    /\ UNCHANGED <<after, m_enable_mine, m_miner_privkey, has_account,
                   mineVars, m_mine_id_1, published, m_need_remine>>

-----------------------------------------------------------------------------
(* The mine thread.                                                        *)

\* m_need_remine is seen set, at the top of do_mine or between two nonces.
SeeRemine ==
    /\ Running /\ miner \in {"wait", "hash"}
    /\ m_need_remine
    /\ miner' = "remine"
    /\ UNCHANGED <<msgVars, job, m_mine_id_1, published, m_need_remine,
                   m_mine_success, m_mine_doc>>

TakeJob ==
    /\ Running /\ miner = "remine"
    /\ job' = [id |-> m_mine_id_1, data |-> published]
    /\ published' = [published EXCEPT !.txs = FALSE]
    /\ m_need_remine' = FALSE
    /\ miner' = "hash"
    /\ UNCHANGED <<msgVars, m_mine_id_1, m_mine_success, m_mine_doc>>

FindBlock ==
    /\ Running /\ miner = "hash"
    /\ job.id < MaxJob
    /\ miner' = "found"
    /\ UNCHANGED <<msgVars, job, m_mine_id_1, published, m_need_remine,
                   m_mine_success, m_mine_doc>>

PostBlock ==
    /\ Running /\ miner = "found"
    /\ m_mine_doc' = [job |-> job, closed |-> FALSE]
    /\ miner' = "posted"
    /\ UNCHANGED <<msgVars, job, m_mine_id_1, published, m_need_remine,
                   m_mine_success>>

RaiseSuccess ==
    /\ Running /\ miner = "posted"
    /\ m_mine_success' = TRUE
    /\ miner' = "wait"
    /\ UNCHANGED <<msgVars, job, m_mine_id_1, published, m_need_remine,
                   m_mine_doc>>

-----------------------------------------------------------------------------
MessageThread ==
    \/ HandlersDone \/ TestChanged \/ MineTxBump \/ MineTxPublish
    \/ MineTxNotify \/ TestSuccess \/ DropBlock \/ MinedNewBlock

MineThread == SeeRemine \/ TakeJob \/ PostBlock \/ RaiseSuccess

Events ==
    \/ ChainMoves \/ ImportPrivkey \/ MineTimer
    \/ \E on \in BOOLEAN : EnableMine(on)

Next == MessageThread \/ MineThread \/ Events \/ FindBlock

\* Both threads keep running. Messages and commands need not come, and no
\* nonce need ever be found.
Fairness == WF_vars(MessageThread) /\ WF_vars(MineThread)

Spec == Init /\ [][Next]_vars /\ Fairness

-----------------------------------------------------------------------------
(* Properties.                                                             *)

\* Types of the variables of the handshake.
TypeOK ==
    /\ msg \in MsgPlace /\ after \in {"changed", "result"}
    /\ m_cur_block \in Tip
    /\ m_block_changed \in BOOLEAN /\ m_enable_mine \in BOOLEAN
    /\ m_miner_privkey \in BOOLEAN /\ has_account \in BOOLEAN
    /\ m_need_remine \in BOOLEAN /\ m_mine_success \in BOOLEAN
    /\ last_mine_id \in Nat /\ m_mine_id_1 \in Nat
    /\ exit \in {"", "known", "pre_hash"}
    /\ published \in Data
    /\ m_mine_doc \in [job : Job, closed : BOOLEAN]
    /\ miner \in MinePlace /\ job \in Job

\* A block is handed to mined_new_block once, although m_mine_success can be
\* raised a second time for a block taken already: m_blocks.find(block_hash)
\* in mined_new_block (line 5399) never finds it.
ClosedOnce == exit # "known"

\* A block found for data that was published under the number of its job is
\* closed on the tip it extends, or dropped: however the main chain moves
\* between publishing, hashing and closing, the test of the job numbers
\* stands for the test of the tip. What is left is the window of mine_tx
\* between fetch_add and the publishing, see ExtendsTip.
TornOnly ==
    exit = "pre_hash" => m_mine_doc.job.id # m_mine_doc.job.data.for

\* The assertion of mined_new_block (line 5620): a block that do_message
\* does not drop extends the current tip.
ExtendsTip == exit # "pre_hash"

\* The tip the miner wastes no work beside: when the main chain stays where
\* it is and mining stays possible, the mine thread ends up on that tip, or
\* waiting.
FollowsTip ==
    \A t \in Tip :
        <>[](m_cur_block = t /\ m_enable_mine /\ m_miner_privkey /\ has_account /\ Running)
            => <>[](miner = "hash" => job.data.tip = t)
=============================================================================
