---------------------------- MODULE MiningProofs ----------------------------
(***************************************************************************)
(* Proofs about Mining, for every set of tips and every bound on jobs.     *)
(***************************************************************************)
EXTENDS Mining, TLAPS

\* A block that was closed has the number that was closed last.
ClosedIsLast == m_mine_doc.closed => last_mine_id = m_mine_doc.job.id

\* Data is never labelled with a number that was not announced yet.
Announced ==
    /\ published.for <= m_mine_id_1
    /\ job.data.for <= m_mine_id_1
    /\ m_mine_doc.job.data.for <= m_mine_id_1

\* Data published under the latest number extends the tip.
UpToDate(data) == data.for = m_mine_id_1 => data.tip = m_cur_block

\* The tip moved, and the test of m_block_changed in this turn of do_message
\* is still to come.
TipMoved == m_block_changed /\ msg \in {"loop", "changed", "bump"}

\* While mining is possible, every copy of a job with the latest number, in
\* whatever hands, is up to date, unless mine_tx is about to be called.
JobsUpToDate ==
    m_enable_mine /\ m_miner_privkey /\ ~ TipMoved =>
        /\ UpToDate(published)
        /\ UpToDate(job.data)
        /\ UpToDate(m_mine_doc.job.data)

\* The inductive invariant. TornOnly says what follows at the instant of the
\* exit; why it does is JobsUpToDate.
IInv ==
    /\ TypeOK
    /\ ClosedIsLast
    /\ Announced
    /\ JobsUpToDate
    /\ ClosedOnce
    /\ TornOnly

-----------------------------------------------------------------------------
\* The initial job data has number 0 and no tip: harmless, because no key was
\* imported yet.
LEMMA InitIInv == Init => IInv
<1>. SUFFICES ASSUME Init PROVE IInv
  OBVIOUS
<1>1. NoData \in Data /\ NoJob \in Job
  BY DEF NoData, NoJob, Data, Job
<1>2. TypeOK
  BY <1>1 DEF Init, TypeOK, MsgPlace, MinePlace
<1>3. ClosedIsLast
  <2>1. m_mine_doc.closed = FALSE
    BY DEF Init
  <2>. QED
    BY <2>1 DEF ClosedIsLast
<1>4. Announced
  <2>1. published.for = 0 /\ job.data.for = 0 /\ m_mine_doc.job.data.for = 0
    BY DEF Init, NoData, NoJob
  <2>2. m_mine_id_1 = 0
    BY DEF Init
  <2>. QED
    BY <2>1, <2>2 DEF Announced
<1>5. JobsUpToDate /\ ClosedOnce /\ TornOnly
  BY DEF Init, JobsUpToDate, ClosedOnce, TornOnly
<1>. QED
  BY <1>2, <1>3, <1>4, <1>5 DEF IInv

\* Types, one step of the threads at a time.
LEMMA TypeStep == TypeOK /\ [Next]_vars => TypeOK'
<1>. SUFFICES ASSUME TypeOK, [Next]_vars PROVE TypeOK'
  OBVIOUS
<1>0. /\ m_mine_id_1 \in Nat /\ published \in Data /\ job \in Job
      /\ m_enable_mine \in BOOLEAN /\ m_miner_privkey \in BOOLEAN
  BY DEF TypeOK
<1>1. CASE ChainMoves
  BY <1>1 DEF TypeOK, MsgPlace, MinePlace, ChainMoves, InLoop, vars, msgVars, mineVars
<1>2. CASE ImportPrivkey
  BY <1>2 DEF TypeOK, MsgPlace, MinePlace, ImportPrivkey, InLoop, vars, msgVars, mineVars
<1>3. CASE MineTimer
  BY <1>3 DEF TypeOK, MsgPlace, MinePlace, MineTimer, InLoop, vars, msgVars, mineVars
<1>4. ASSUME NEW on \in BOOLEAN, EnableMine(on) PROVE TypeOK'
  BY <1>4 DEF TypeOK, MsgPlace, MinePlace, EnableMine, InLoop, vars, msgVars, mineVars
<1>5. CASE HandlersDone
  BY <1>5 DEF TypeOK, MsgPlace, MinePlace, HandlersDone, vars, msgVars, mineVars
<1>6. CASE TestChanged
  BY <1>6 DEF TypeOK, MsgPlace, MinePlace, TestChanged, vars, msgVars, mineVars
<1>7. CASE MineTxBump
  <2>1. msg' \in MsgPlace
    BY <1>7 DEF MineTxBump, ReturnFromMineTx, TypeOK, MsgPlace
  <2>2. m_mine_id_1' = m_mine_id_1 + 1 \/ m_mine_id_1' = m_mine_id_1
    BY <1>7, Zenon DEF MineTxBump
  <2>3. m_mine_id_1' \in Nat
    BY <1>0, <2>2
  <2>4. m_block_changed' \in BOOLEAN
    BY <1>7 DEF MineTxBump, ReturnFromMineTx, TypeOK
  <2>. QED
    BY <1>7, <2>1, <2>3, <2>4 DEF MineTxBump, TypeOK, msgVars, mineVars
<1>8. CASE MineTxPublish
  BY <1>8 DEF TypeOK, MsgPlace, MinePlace, MineTxPublish, vars, msgVars, mineVars, Data
<1>9. CASE MineTxNotify
  BY <1>9 DEF TypeOK, MsgPlace, MinePlace, MineTxNotify, ReturnFromMineTx, vars, msgVars, mineVars
<1>10. CASE TestSuccess
  BY <1>10 DEF TypeOK, MsgPlace, MinePlace, TestSuccess, vars, msgVars, mineVars
<1>11. CASE DropBlock
  BY <1>11 DEF TypeOK, MsgPlace, MinePlace, DropBlock, vars, msgVars, mineVars
<1>12. CASE MinedNewBlock
  BY <1>12 DEF TypeOK, MsgPlace, MinePlace, MinedNewBlock, vars, msgVars, mineVars, Wanted
<1>13. CASE SeeRemine
  BY <1>13 DEF TypeOK, MsgPlace, MinePlace, SeeRemine, vars, msgVars, mineVars
<1>14. CASE TakeJob
  <2>1. job' \in Job
    BY <1>0, <1>14 DEF TakeJob, Job
  <2>2. published' \in Data
    BY <1>0, <1>14 DEF TakeJob, Data
  <2>. QED
    BY <1>14, <2>1, <2>2 DEF TakeJob, TypeOK, MinePlace, msgVars
<1>15. CASE PostBlock
  BY <1>15 DEF TypeOK, MsgPlace, MinePlace, PostBlock, vars, msgVars, mineVars, Job
<1>16. CASE RaiseSuccess
  BY <1>16 DEF TypeOK, MsgPlace, MinePlace, RaiseSuccess, vars, msgVars, mineVars
<1>17. CASE FindBlock
  <2>1. miner' \in MinePlace
    BY <1>17 DEF FindBlock, MinePlace
  <2>. QED
    BY <1>17, <2>1, Zenon DEF FindBlock, TypeOK, msgVars
<1>18. CASE UNCHANGED vars
  BY <1>18, Zenon DEF TypeOK, vars, msgVars, mineVars
<1>. QED
  BY <1>1, <1>2, <1>3, <1>4, <1>5, <1>6, <1>7, <1>8, <1>9, <1>10, <1>11,
     <1>12, <1>13, <1>14, <1>15, <1>16, <1>17, <1>18
     DEF Next, MessageThread, MineThread, Events

\* ClosedIsLast and ClosedOnce: only MinedNewBlock closes, only PostBlock
\* brings another block, and a block that bears last_mine_id is dropped.
LEMMA ClosedStep ==
    ASSUME TypeOK, ClosedIsLast, ClosedOnce, [Next]_vars
    PROVE  ClosedIsLast' /\ ClosedOnce'
<1>1. CASE MinedNewBlock
  <2>1. last_mine_id # m_mine_doc.job.id
    BY <1>1 DEF MinedNewBlock, Wanted
  <2>2. ~ m_mine_doc.closed
    BY <2>1 DEF ClosedIsLast
  <2>3. ClosedOnce'
    BY <1>1, <2>2 DEF MinedNewBlock, ClosedOnce
  <2>4. CASE m_mine_doc.job.data.tip # m_cur_block
    <3>1. m_mine_doc' = m_mine_doc
      BY <1>1, <2>4 DEF MinedNewBlock
    <3>. QED
      BY <2>2, <2>3, <3>1 DEF ClosedIsLast
  <2>5. CASE m_mine_doc.job.data.tip = m_cur_block
    <3>1. last_mine_id' = m_mine_doc.job.id
          /\ m_mine_doc' = [m_mine_doc EXCEPT !.closed = TRUE]
      BY <1>1, <2>2, <2>5 DEF MinedNewBlock
    <3>2. m_mine_doc'.job = m_mine_doc.job
      BY <3>1 DEF TypeOK
    <3>. QED
      BY <2>3, <3>1, <3>2 DEF ClosedIsLast
  <2>. QED
    BY <2>4, <2>5
<1>2. CASE PostBlock
  <2>1. m_mine_doc'.closed = FALSE /\ exit' = exit
    BY <1>2 DEF PostBlock, msgVars
  <2>. QED
    BY <2>1 DEF ClosedIsLast, ClosedOnce
<1>3. CASE ~ MinedNewBlock /\ ~ PostBlock
  <2>1. UNCHANGED <<m_mine_doc, last_mine_id, exit>>
    BY <1>3 DEF Next, MessageThread, MineThread, Events, ChainMoves,
         ImportPrivkey, MineTimer, EnableMine, HandlersDone, TestChanged,
         MineTxBump, MineTxPublish, MineTxNotify, TestSuccess, DropBlock,
         SeeRemine, TakeJob, RaiseSuccess, FindBlock, vars, msgVars
  <2>. QED
    BY <2>1 DEF ClosedIsLast, ClosedOnce
<1>. QED
  BY <1>1, <1>2, <1>3

\* Numbers grow, and data is labelled with the latest one.
LEMMA AnnouncedStep ==
    ASSUME TypeOK, Announced, [Next]_vars
    PROVE  Announced'
<1>0. /\ m_mine_id_1 \in Nat /\ published.for \in Nat /\ job.data.for \in Nat
      /\ m_mine_doc.job.data.for \in Nat
  BY DEF TypeOK, Data, Job
<1>1. CASE MineTxBump
  <2>1. m_mine_id_1' = m_mine_id_1 + 1 \/ m_mine_id_1' = m_mine_id_1
    BY <1>1, Zenon DEF MineTxBump
  <2>2. UNCHANGED <<published, job, m_mine_doc>>
    BY <1>1 DEF MineTxBump, mineVars
  <2>. QED
    BY <1>0, <2>1, <2>2 DEF Announced
<1>2. CASE MineTxPublish
  <2>1. published'.for = m_mine_id_1 /\ m_mine_id_1' = m_mine_id_1
        /\ UNCHANGED <<job, m_mine_doc>>
    BY <1>2 DEF MineTxPublish, mineVars
  <2>. QED
    BY <1>0, <2>1 DEF Announced
<1>3. CASE TakeJob
  <2>1. /\ published'.for = published.for /\ job'.data.for = published.for
        /\ UNCHANGED <<m_mine_id_1, m_mine_doc>>
    BY <1>3 DEF TakeJob, TypeOK, Data
  <2>. QED
    BY <1>0, <2>1 DEF Announced
<1>4. CASE PostBlock
  <2>1. /\ m_mine_doc'.job.data.for = job.data.for
        /\ UNCHANGED <<m_mine_id_1, published, job>>
    BY <1>4 DEF PostBlock
  <2>. QED
    BY <1>0, <2>1 DEF Announced
<1>5. CASE MinedNewBlock
  <2>1. /\ m_mine_doc'.job = m_mine_doc.job
        /\ UNCHANGED <<m_mine_id_1, published, job>>
    BY <1>5 DEF MinedNewBlock, TypeOK, mineVars
  <2>. QED
    BY <1>0, <2>1 DEF Announced
<1>6. CASE ~ (MineTxBump \/ MineTxPublish \/ TakeJob \/ PostBlock \/ MinedNewBlock)
  <2>1. UNCHANGED <<m_mine_id_1, published, job, m_mine_doc>>
    BY <1>6 DEF Next, MessageThread, MineThread, Events, ChainMoves,
         ImportPrivkey, MineTimer, EnableMine, HandlersDone, TestChanged,
         MineTxNotify, TestSuccess, DropBlock, SeeRemine, RaiseSuccess,
         FindBlock, vars, mineVars
  <2>. QED
    BY <2>1 DEF Announced
<1>. QED
  BY <1>1, <1>2, <1>3, <1>4, <1>5, <1>6

\* Why the test of the job numbers stands for the test of the tip: the tip
\* moves only together with m_block_changed, and mining becomes possible only
\* together with it; before anything is closed, mine_tx then runs, and makes
\* every job handed out so far one of an older number.
LEMMA UpToDateStep ==
    ASSUME TypeOK, Announced, JobsUpToDate, [Next]_vars
    PROVE  JobsUpToDate'
<1>. DEFINE AllUpToDate == /\ UpToDate(published)
                           /\ UpToDate(job.data)
                           /\ UpToDate(m_mine_doc.job.data)
            Open == m_enable_mine /\ m_miner_privkey /\ ~ TipMoved
<1>0. /\ m_mine_id_1 \in Nat /\ published.for \in Nat /\ job.data.for \in Nat
      /\ m_mine_doc.job.data.for \in Nat
  BY DEF TypeOK, Data, Job
<1>. SUFFICES ASSUME Open' PROVE AllUpToDate'
  BY DEF JobsUpToDate
<1>1. Open => AllUpToDate
  BY DEF JobsUpToDate
<1>2. CASE ChainMoves \/ ImportPrivkey \/ MinedNewBlock
  <2>1. CASE ChainMoves
    BY <2>1 DEF ChainMoves, InLoop, TipMoved
  <2>2. CASE ImportPrivkey
    BY <2>2 DEF ImportPrivkey, InLoop, TipMoved
  <2>3. CASE MinedNewBlock
    <3>1. CASE m_mine_doc.closed \/ m_mine_doc.job.data.tip # m_cur_block
      <4>1. UNCHANGED <<m_cur_block, m_block_changed, m_enable_mine,
               m_miner_privkey, m_mine_doc, m_mine_id_1, published, job>>
            /\ msg = "take"
        BY <2>3, <3>1 DEF MinedNewBlock, mineVars
      <4>. QED
        BY <1>1, <4>1 DEF TipMoved, UpToDate
    <3>2. CASE ~ (m_mine_doc.closed \/ m_mine_doc.job.data.tip # m_cur_block)
      BY <2>3, <3>2 DEF MinedNewBlock, TipMoved
    <3>. QED
      BY <3>1, <3>2
  <2>. QED
    BY <1>2, <2>1, <2>2, <2>3
<1>3. CASE \E on \in BOOLEAN : EnableMine(on)
  <2>1. PICK on \in BOOLEAN : EnableMine(on)
    BY <1>3
  <2>2. CASE on = TRUE
    BY <2>1, <2>2 DEF EnableMine, InLoop, TipMoved
  <2>3. CASE on = FALSE
    BY <2>1, <2>3 DEF EnableMine
  <2>. QED
    BY <2>2, <2>3
<1>4. CASE MineTxBump
  <2>1. CASE m_enable_mine /\ m_miner_privkey
    <3>1. m_mine_id_1' = m_mine_id_1 + 1
      BY <1>4, <2>1 DEF MineTxBump
    <3>2. UNCHANGED <<published, job, m_mine_doc>>
      BY <1>4 DEF MineTxBump, mineVars
    <3>3. /\ published'.for # m_mine_id_1' /\ job'.data.for # m_mine_id_1'
          /\ m_mine_doc'.job.data.for # m_mine_id_1'
      BY <1>0, <3>1, <3>2 DEF Announced
    <3>. QED
      BY <3>3 DEF UpToDate
  <2>2. CASE ~ (m_enable_mine /\ m_miner_privkey)
    BY <1>4, <2>2 DEF MineTxBump
  <2>. QED
    BY <2>1, <2>2
<1>5. CASE MineTxPublish
  <2>1. /\ published'.tip = m_cur_block /\ msg = "trial"
        /\ UNCHANGED <<m_cur_block, m_enable_mine, m_miner_privkey,
                       m_mine_id_1, job, m_mine_doc>>
    BY <1>5 DEF MineTxPublish, mineVars
  <2>. QED
    BY <1>1, <2>1 DEF TipMoved, UpToDate
<1>6. CASE TakeJob
  <2>1. /\ published'.for = published.for /\ published'.tip = published.tip
        /\ job'.data = published
        /\ UNCHANGED <<msgVars, m_mine_id_1, m_mine_doc>>
    BY <1>6 DEF TakeJob, TypeOK, Data
  <2>. QED
    BY <1>1, <2>1 DEF TipMoved, UpToDate, msgVars
<1>7. CASE PostBlock
  <2>1. m_mine_doc'.job = job /\ UNCHANGED <<msgVars, m_mine_id_1, published, job>>
    BY <1>7 DEF PostBlock
  <2>. QED
    BY <1>1, <2>1 DEF TipMoved, UpToDate, msgVars
<1>8. CASE MineTimer \/ HandlersDone \/ TestChanged \/ MineTxNotify
           \/ TestSuccess \/ DropBlock
  <2>1. UNCHANGED <<m_cur_block, m_enable_mine, m_miner_privkey, m_mine_id_1,
                    published, job, m_mine_doc>>
    BY <1>8 DEF MineTimer, HandlersDone, TestChanged, MineTxNotify,
         TestSuccess, DropBlock, mineVars
  <2>2. TipMoved => TipMoved' \/ AllUpToDate
    BY <1>8 DEF MineTimer, InLoop, HandlersDone, TestChanged, MineTxNotify,
         TestSuccess, DropBlock, TipMoved
  <2>. QED
    BY <1>1, <2>1, <2>2 DEF UpToDate
<1>9. CASE SeeRemine \/ RaiseSuccess \/ FindBlock \/ UNCHANGED vars
  <2>1. UNCHANGED <<msgVars, m_mine_id_1, published, job, m_mine_doc>>
    BY <1>9 DEF SeeRemine, RaiseSuccess, FindBlock, vars, mineVars
  <2>. QED
    BY <1>1, <2>1 DEF TipMoved, UpToDate, msgVars
<1>. QED
  BY <1>2, <1>3, <1>4, <1>5, <1>6, <1>7, <1>8, <1>9
     DEF Next, MessageThread, MineThread, Events

\* TornOnly: at the instant of the exit mining is possible, the number is the
\* latest, and the tip is not the block's parent.
LEMMA TornStep ==
    ASSUME TypeOK, JobsUpToDate, TornOnly, [Next]_vars
    PROVE  TornOnly'
<1>1. CASE MinedNewBlock
  <2>1. CASE m_mine_doc.closed \/ m_mine_doc.job.data.tip = m_cur_block
    <3>1. exit' # "pre_hash"
      BY <1>1, <2>1 DEF MinedNewBlock, Running
    <3>. QED
      BY <3>1 DEF TornOnly
  <2>2. CASE m_mine_doc.job.data.tip # m_cur_block /\ ~ m_mine_doc.closed
    <3>1. UpToDate(m_mine_doc.job.data)
      BY <1>1 DEF MinedNewBlock, Wanted, JobsUpToDate, TipMoved
    <3>2. m_mine_doc.job.id # m_mine_doc.job.data.for
      BY <1>1, <2>2, <3>1 DEF MinedNewBlock, Wanted, UpToDate
    <3>3. m_mine_doc' = m_mine_doc
      BY <1>1, <2>2 DEF MinedNewBlock
    <3>. QED
      BY <3>2, <3>3 DEF TornOnly
  <2>. QED
    BY <2>1, <2>2
<1>2. CASE UNCHANGED vars
  BY <1>2 DEF TornOnly, vars, msgVars
<1>3. CASE Next /\ ~ MinedNewBlock
  <2>1. exit' = exit /\ exit = ""
    BY <1>3 DEF Next, MessageThread, MineThread, Events, ChainMoves, InLoop,
         Running, ImportPrivkey, MineTimer, EnableMine, HandlersDone,
         TestChanged, MineTxBump, MineTxPublish, MineTxNotify, TestSuccess,
         DropBlock, SeeRemine, TakeJob, PostBlock, RaiseSuccess, FindBlock,
         msgVars
  <2>. QED
    BY <2>1 DEF TornOnly
<1>. QED
  BY <1>1, <1>2, <1>3

-----------------------------------------------------------------------------
\* The invariant behind the other theorems.
THEOREM Invariance == Spec => []IInv
<1>1. IInv /\ [Next]_vars => IInv'
  BY TypeStep, ClosedStep, AnnouncedStep, UpToDateStep, TornStep DEF IInv
<1>. QED
  BY InitIInv, <1>1, PTL DEF Spec

\* The variables of both threads keep their types.
THEOREM TypeCorrect == Spec => []TypeOK
<1>1. IInv => TypeOK
  BY DEF IInv
<1>. QED
  BY <1>1, Invariance, PTL

\* No block is handed to mined_new_block twice, for any number of tips, jobs
\* and interleavings.
THEOREM AlwaysClosedOnce == Spec => []ClosedOnce
<1>1. IInv => ClosedOnce
  BY DEF IInv
<1>. QED
  BY <1>1, Invariance, PTL

\* The only way to the exit at line 5620 is a job that was taken between the
\* increment of m_mine_id_1 and the publication of the job.
THEOREM OnlyTornJobsExit == Spec => []TornOnly
<1>1. IInv => TornOnly
  BY DEF IInv
<1>. QED
  BY <1>1, Invariance, PTL
=============================================================================
