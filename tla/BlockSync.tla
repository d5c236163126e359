----------------------------- MODULE BlockSync -----------------------------
(***************************************************************************)
(* How a node fetches the chains that its peers announce: the handlers of  *)
(* MSG_BLOCK in do_peer_message, do_brief_chain, finish_brief,             *)
(* do_detail_chain, finish_detail and the timers that repeat requests      *)
(* (net/p2p/node.cpp).                                                     *)
(*                                                                         *)
(* A peer announces the last block of its chain and the work it declares   *)
(* for it. The node asks backwards for headers (brief requests) until it   *)
(* meets a block it knows, then forwards for the blocks (detail requests). *)
(* Chains of several peers share requests. All of it runs in the message   *)
(* thread, so one handler, or one timer callback, is one action; what      *)
(* interleaves is the messages, the timers, and the connections.           *)
(***************************************************************************)
EXTENDS Integers, Sequences, FiniteSets, SequencesExt

CONSTANTS
    Block,      \* block hashes
    Genesis,
    Parent,     \* Parent[b]: pre_hash of b
    Id,         \* Id[b]: the height b states in its header
    Pow,        \* Pow[b]: the work of the chain up to b
    Verdict,    \* Verdict[b]: what the data that the hash of b covers is worth
    Own,        \* blocks this node may mine
    Peer,       \* connections of peers; a peer that comes back is a new one
    Key,        \* Key[p]: host and port, as a number: the order of m_chains
    ChainId,    \* addresses of Pending_Chain objects
    World,      \* what a behaviour is given, one of several, see world
    None

ASSUME BlockSyncAssumption ==
    /\ Genesis \in Block /\ Parent \in [Block -> Block] /\ Own \subseteq Block
    /\ Id \in [Block -> Nat] /\ Pow \in [Block -> Nat] /\ Id[Genesis] = 0
    /\ \A b \in Block \ {Genesis} : Pow[b] > Pow[Parent[b]]
    /\ \A b \in Own : Id[b] = Id[Parent[b]] + 1
    /\ Verdict \in [Block -> {"good", "header", "tx", "invalid"}]
    /\ IsFiniteSet(Block) /\ IsFiniteSet(ChainId)
    /\ Key \in [Peer -> Nat]
    /\ World \subseteq [blocks : SUBSET Block, peers : SUBSET Peer, honest : SUBSET Peer,
                        says : [Peer -> SUBSET Block],
                        tries : Seq(Nat), pending : Nat, made : Nat, delayed : Nat]
    /\ None \notin Block \cup ChainId

VARIABLES
    world,      \* constant: the parameters that differ between behaviours
    n,          \* the data of the message thread, see Node
    m_peers,    \* registered connections
    delayed,    \* one-shot timers: chains announced before their time
    doubled     \* history: keys that stood for more than one connection, see Register

vars == <<world, n, m_peers, delayed, doubled>>

Honest == world.honest      \* peers that tell the truth about chains that verify
SendNum == world.tries      \* SendNum[t]: how many may be asked by try t
MaxPending == world.pending \* 100000: headers kept in m_pending_blocks
Says == world.says          \* bound: the blocks that a peer may announce
MaxMade == world.made       \* bound: Pending_Block objects ever made for a hash
MaxDelayed == world.delayed \* bound: announcements waiting for their time

Keys == {Key[p] : p \in Peer}

\* Up[i][b]: the i-th ancestor of b.
Up[i \in Nat] ==
    IF i = 0 THEN [b \in Block |-> b] ELSE [b \in Block |-> Parent[Up[i - 1][b]]]

\* Headers that state a wrong height: only genesis has height 0, and only the
\* blocks above it have height 1.
WrongHeight ==
    {b \in Block \ {Genesis} :
        Id[b] # Id[Parent[b]] + 1 \/ (Id[b] <= 1 /\ Parent[b] # Genesis)}

\* A Pending_Block object: made again for the same hash once it was evicted.
PendingBlock == Block \X Nat

Chain ==
    [m_peer : Peer, m_req_blocks : Seq(PendingBlock), m_declared_pow : Nat,
     m_remain_pow : Int, m_start : Nat,
     m_brief_attached : Block \cup {None}, m_detail_attached : Block \cup {None}]

\* What an address holds that holds no chain.
NoChain == [m_peer |-> None]

\* Pending_Brief_Request and Pending_Detail_Request; no request: m_try_num = 0.
Request ==
    [m_chains : SUBSET ChainId, m_attached_chains : Seq(ChainId),
     m_try_num : Nat, m_send_num : Nat]

NoRequest ==
    [m_chains |-> {}, m_attached_chains |-> <<>>, m_try_num |-> 0, m_send_num |-> 0]

\* The data of the message thread. A document is at hand for the objects in
\* docs; made counts the objects made for a hash; exited: ASKCOIN_EXIT.
Node ==
    [m_blocks : SUBSET Block, m_most_difficult_block : Block,
     m_pending_block_hashes : Seq(Block), made : [Block -> Nat],
     docs : SUBSET PendingBlock, chain : [ChainId -> Chain \cup {NoChain}],
     m_chains_by_peer_key : [Keys -> ChainId \cup {None}],
     m_pending_brief_reqs : [Block -> Request], m_pending_detail_reqs : [Block -> Request],
     closed : SUBSET Peer, punished : SUBSET Peer, exited : BOOLEAN]

Init ==
    /\ world \in World
    /\ n = [m_blocks |-> {Genesis},
            m_most_difficult_block |-> Genesis,
            m_pending_block_hashes |-> <<>>,
            made |-> [b \in Block |-> 0],
            docs |-> {},
            chain |-> [c \in ChainId |-> NoChain],
            m_chains_by_peer_key |-> [k \in Keys |-> None],
            m_pending_brief_reqs |-> [b \in Block |-> NoRequest],
            m_pending_detail_reqs |-> [b \in Block |-> NoRequest],
            closed |-> {}, punished |-> {}, exited |-> FALSE]
    /\ m_peers = {}
    /\ delayed = <<>>
    /\ doubled = {}

----------------------------------------------------------------------------
(* Parts of the handlers. Each takes the state before and gives the state  *)
(* after it.                                                               *)

IsPending(s, b) == b \in ToSet(s.m_pending_block_hashes)

Heavier(s, c) == s.chain[c].m_declared_pow > Pow[s.m_most_difficult_block]

Closed(s, c) == s.chain[c].m_peer \in s.closed

KeyOf(s, c) == Key[s.chain[c].m_peer]

EraseKey(s, k) == [s EXCEPT !.m_chains_by_peer_key[k] = None]

\* std::set with Chain_Comp: ordered by key, one chain for a key.
InOrder(s, set) ==
    CHOOSE q \in [1..Cardinality(set) -> set] :
        \A i, j \in 1..Cardinality(set) : i < j => KeyOf(s, q[i]) < KeyOf(s, q[j])

InsertChain(s, set, c) ==
    IF \E d \in set : KeyOf(s, d) = KeyOf(s, c) THEN set ELSE set \cup {c}

EraseChain(s, set, c) == {d \in set : KeyOf(s, d) # KeyOf(s, c)}

\* Mutant: the connection stays open.
punish_peerOpen(s, p) == [s EXCEPT !.punished = @ \cup {p}]

\* The connection is closed and the key banned; its score falls.
punish_peer(s, p) ==
    [s EXCEPT !.closed = @ \cup {p}, !.punished = @ \cup {p}]

PunishChain(s, c) == punish_peer(EraseKey(s, KeyOf(s, c)), s.chain[c].m_peer)

\* What becomes of the chains of a request that is given up.
Strike(s, c, punish) == IF punish THEN PunishChain(s, c) ELSE EraseKey(s, KeyOf(s, c))

StrikeAll(s, set, punish) ==
    FoldLeft(LAMBDA t, c : Strike(t, c, punish), s, InOrder(s, set))

punish_brief_req(s, h, punish) ==
    [StrikeAll(s, s.m_pending_brief_reqs[h].m_chains, punish)
        EXCEPT !.m_pending_brief_reqs[h] = NoRequest]

punish_detail_req(s, h, punish) ==
    [StrikeAll(s, s.m_pending_detail_reqs[h].m_chains, punish)
        EXCEPT !.m_pending_detail_reqs[h] = NoRequest]

\* Mutant: a chain that joins gives the request all its tries again.
JoinedAnew(s, r, c) ==
    IF r.m_try_num = 0
    THEN [m_chains |-> {c}, m_attached_chains |-> <<>>,
          m_try_num |-> 1, m_send_num |-> 1]
    ELSE [r EXCEPT !.m_chains = InsertChain(s, @, c), !.m_try_num = 1]

\* A chain joins request r, or starts it: who is asked at once, who waits.
Joined(s, r, c) ==
    IF r.m_try_num = 0
    THEN [m_chains |-> {c}, m_attached_chains |-> <<>>,
          m_try_num |-> 1, m_send_num |-> 1]
    ELSE LET in == [r EXCEPT !.m_chains = InsertChain(s, @, c)]
         IN  IF r.m_send_num >= SendNum[r.m_try_num]
             THEN [in EXCEPT !.m_attached_chains = Append(@, c)]
             ELSE [in EXCEPT !.m_send_num = @ + 1]

AskBrief(s, h, c) ==
    LET k == KeyOf(s, c)
    IN  [s EXCEPT !.m_pending_brief_reqs[h] = Joined(s, @, c),
                  !.chain[c].m_brief_attached = h,
                  !.m_chains_by_peer_key[k] = IF @ = None THEN c ELSE @]

\* Mutant: the brief request is not forgotten.
AskDetailToo(s, h, c) ==
    [s EXCEPT !.m_pending_detail_reqs[h] = Joined(s, @, c),
              !.chain[c].m_detail_attached = h]

AskDetail(s, h, c) ==
    [s EXCEPT !.m_pending_detail_reqs[h] = Joined(s, @, c),
              !.chain[c].m_detail_attached = h,
              !.chain[c].m_brief_attached = None]

\* The first of the blocks pbs that is not known; the index after them if all are.
FirstUnknown(s, pbs) ==
    CHOOSE i \in 1..(Len(pbs) + 1) :
        /\ i <= Len(pbs) => pbs[i][1] \notin s.m_blocks
        /\ \A j \in 1..(i - 1) : pbs[j][1] \in s.m_blocks

\* The tests of do_detail_chain, then the blocks that became known are dropped.
do_detail_chain(s, c) ==
    LET blocks == s.chain[c].m_req_blocks
        rest == SubSeq(blocks, FirstUnknown(s, blocks), Len(blocks))
    IN  IF ~Heavier(s, c) \/ Closed(s, c) \/ rest = <<>>
        THEN EraseKey(s, KeyOf(s, c))
        ELSE AskDetail([s EXCEPT !.chain[c].m_req_blocks = rest], rest[1][1], c)

(***************************************************************************)
(* The loop over pre_hash in finish_brief and do_brief_chain. After i      *)
(* turns the chain begins with the i-th ancestor of its first block. It    *)
(* ends with the height or the work of a header wrong, at a known block,   *)
(* or at a header that is unknown.                                         *)
(***************************************************************************)
Foot(ch) == ch.m_req_blocks[1][1]

Left(ch, i) == ch.m_remain_pow - (Pow[Parent[Foot(ch)]] - Pow[Up[i + 1][Foot(ch)]])

Turn(s, ch, i) ==
    LET b == Up[i][Foot(ch)]
        pre == Parent[b]
    IN  CASE pre \in s.m_blocks ->
               IF Id[b] # Id[pre] + 1 THEN "height"
               ELSE IF Pow[pre] # Left(ch, i) THEN "work" ELSE "known"
          [] pre \notin s.m_blocks /\ Id[b] <= 1 -> "height"
          [] pre \notin s.m_blocks /\ Id[b] > 1 /\ IsPending(s, pre) ->
               IF Id[b] # Id[pre] + 1 THEN "height"
               ELSE IF Left(ch, i) < Pow[pre] - Pow[Parent[pre]] THEN "work"
               ELSE "push"
          [] OTHER -> "ask"

LastTurn(s, ch) ==
    CHOOSE i \in 0..Cardinality(Block) :
        Turn(s, ch, i) # "push" /\ \A j \in 0..(i - 1) : Turn(s, ch, j) = "push"

\* How the loop ends, and the chain after it, where last is the last turn.
Climbed(s, ch, last) ==
    LET Above(i) == LET b == Up[last + 1 - i][Foot(ch)] IN <<b, s.made[b]>>
    IN  [end |-> Turn(s, ch, last),
         chain |-> [ch EXCEPT !.m_req_blocks = [i \in 1..last |-> Above(i)] \o @,
                              !.m_remain_pow = Left(ch, last)]]

Climb(s, ch) == Climbed(s, ch, LastTurn(s, ch))

\* The header that a climb ended at.
Unknown(ch) == Parent[Foot(ch)]

\* Chain c of the brief request for h has climbed; s holds it as it is now.
GoOn(s, h, c, end) ==
    CASE end = "height" -> [s |-> punish_brief_req(s, h, TRUE), stop |-> TRUE]
      [] end = "work"   -> [s |-> PunishChain(s, c), stop |-> FALSE]
      [] end = "known"  -> [s |-> do_detail_chain(s, c), stop |-> FALSE]
      [] end = "ask"    -> [s |-> AskBrief(s, Unknown(s.chain[c]), c), stop |-> FALSE]

AfterClimb(s, h, c, up) == GoOn([s EXCEPT !.chain[c] = up.chain], h, c, up.end)

BriefTurn(a, h, c) ==
    IF a.stop THEN a
    ELSE IF Closed(a.s, c) THEN [a EXCEPT !.s = EraseKey(@, KeyOf(@, c))]
    ELSE AfterClimb(a.s, h, c, Climb(a.s, a.s.chain[c]))

\* The header h arrived: each chain of its request goes on.
finish_brief(s, h) ==
    [FoldLeft(LAMBDA a, c : BriefTurn(a, h, c), [s |-> s, stop |-> FALSE],
              InOrder(s, s.m_pending_brief_reqs[h].m_chains)).s
        EXCEPT !.m_pending_brief_reqs[h] = NoRequest]

\* Mutant: the chain is taken from those that wait only.
LeaveWaiting(s, r, c) ==
    [r EXCEPT !.m_attached_chains = RemoveFirst(@, c)]

Leave(s, r, c) ==
    [r EXCEPT !.m_chains = EraseChain(s, @, c),
              !.m_attached_chains = RemoveFirst(@, c)]

\* The chain of key k is given up, wherever it is attached.
Detach(s, k) ==
    LET c == s.m_chains_by_peer_key[k]
        brief == s.chain[c].m_brief_attached
        detail == s.chain[c].m_detail_attached
    IN  IF brief # None
        THEN EraseKey([s EXCEPT !.m_pending_brief_reqs[brief] = Leave(s, @, c)], k)
        ELSE IF detail # None
        THEN EraseKey([s EXCEPT !.m_pending_detail_reqs[detail] = Leave(s, @, c)], k)
        ELSE [s EXCEPT !.exited = TRUE]

\* The last block of the chain of key k, if there is one.
LastOf(s, k) ==
    LET c == s.m_chains_by_peer_key[k]
    IN  IF c = None THEN None ELSE Last(s.chain[c].m_req_blocks)[1]

\* An announced chain has climbed; c is the object made for it.
Start(s, c, end, ch) ==
    CASE end \in {"height", "work"} -> punish_peer(s, ch.m_peer)
      [] end = "known" ->
           do_detail_chain([s EXCEPT !.chain[c] = ch,
                                     !.m_chains_by_peer_key[Key[ch.m_peer]] = c], c)
      [] end = "ask" -> AskBrief([s EXCEPT !.chain[c] = ch], Unknown(ch), c)

\* Where a new chain can be made.
Free(s) == {c \in ChainId : s.chain[c] = NoChain}

AfterFirstClimb(s, up) == Start(s, CHOOSE c \in Free(s) : TRUE, up.end, up.chain)

ClimbFirst(s, ch) ==
    IF s.exited \/ ch.m_peer \in s.closed THEN s ELSE AfterFirstClimb(s, Climb(s, ch))

\* An announced chain takes the place of an older one of the same key.
do_brief_chain(s, ch) ==
    LET k == Key[ch.m_peer]
    IN  IF LastOf(s, k) = Foot(ch) THEN s
        ELSE ClimbFirst(IF s.m_chains_by_peer_key[k] = None THEN s ELSE Detach(s, k), ch)

\* A new header is kept; the oldest goes when there are too many.
AddPending(s, b) ==
    [s EXCEPT !.made[b] = @ + 1,
              !.m_pending_block_hashes =
                  Append(IF Len(@) > MaxPending THEN Tail(@) ELSE @, b)]

(***************************************************************************)
(* finish_detail: the block h arrived for the first chain of its request.  *)
(* If the chain up to h outweighs all, its blocks are verified one after   *)
(* the other and the good ones become known; a bad one is held against     *)
(* everyone in the request. If it does not, the block is kept for later.   *)
(***************************************************************************)
FirstChain(s, h) == InOrder(s, s.m_pending_detail_reqs[h].m_chains)[1]

\* The chain goes on with the next block, or is at its end.
NextDetail(s, c) ==
    LET t == [s EXCEPT !.chain[c].m_start = @ + 1]
        ch == t.chain[c]
    IN  IF ch.m_start = Len(ch.m_req_blocks) \/ Closed(t, c) \/ ~Heavier(t, c)
        THEN EraseKey(t, KeyOf(t, c))
        ELSE AskDetail(t, ch.m_req_blocks[ch.m_start + 1][1], c)

NextDetails(s, h) ==
    FoldLeft(NextDetail, [s EXCEPT !.m_pending_detail_reqs[h] = NoRequest],
             InOrder(s, s.m_pending_detail_reqs[h].m_chains))

ForgetDocs(s, h) ==
    LET Got(c) == SubSeq(s.chain[c].m_req_blocks, 1, s.chain[c].m_start + 1)
    IN  [s EXCEPT !.docs = @ \ UNION {ToSet(Got(c)) :
                                c \in s.m_pending_detail_reqs[h].m_chains}]

\* Mutant: documents are dropped as after a success.
KeepDocsNone(s, h) == [s EXCEPT !.docs = {}]

KeepDocs(s, h) ==
    [s EXCEPT !.docs = @ \cup {s.chain[c].m_req_blocks[s.chain[c].m_start + 1] :
                                c \in s.m_pending_detail_reqs[h].m_chains}]

finish_detail(s, h) ==
    LET ch == s.chain[FirstChain(s, h)]
        todo == SubSeq(ch.m_req_blocks, FirstUnknown(s, ch.m_req_blocks), ch.m_start + 1)
        Verified(i) == todo[i] \in s.docs /\ Verdict[todo[i][1]] = "good"
        good == CHOOSE i \in 0..Len(todo) :
                   /\ \A j \in 1..i : Verified(j)
                   /\ i < Len(todo) => ~Verified(i + 1)
        best == IF good = 0 THEN Genesis ELSE todo[good][1]
        t == [s EXCEPT
                !.m_blocks = @ \cup {todo[i][1] : i \in 1..good},
                !.m_most_difficult_block = IF Pow[best] > Pow[@] THEN best ELSE @]
    IN  IF Pow[h] <= Pow[s.m_most_difficult_block]
        THEN NextDetails(KeepDocs(s, h), h)
        ELSE IF good = Len(todo) THEN NextDetails(ForgetDocs(t, h), h)
        ELSE IF todo[good + 1] \notin s.docs THEN [t EXCEPT !.exited = TRUE]
        ELSE punish_detail_req(t, h, TRUE)

\* Chain objects that nothing refers to are freed.
Freed(s) ==
    LET Of(reqs) == UNION {reqs[b].m_chains \cup ToSet(reqs[b].m_attached_chains) :
                           b \in Block}
        used == Of(s.m_pending_brief_reqs) \cup Of(s.m_pending_detail_reqs)
                  \cup {s.m_chains_by_peer_key[k] : k \in Keys}
    IN  [s EXCEPT !.chain = [c \in ChainId |-> IF c \in used THEN @[c] ELSE NoChain]]

(***************************************************************************)
(* The timer of a request, every 1.5 s: chains that wait are asked up to   *)
(* the limit of this try, those that became useless leave.                 *)
(***************************************************************************)
\* The chain c, next in the list of those that wait, in the state and the request
\* of a: it goes on waiting, or leaves, or its peer is asked.
AskNext(a, c, limit, useless) ==
    IF a.r.m_send_num >= limit
    THEN [a EXCEPT !.r.m_attached_chains = Append(@, c)]
    ELSE IF useless
    THEN [s |-> EraseKey(a.s, KeyOf(a.s, c)),
          r |-> [a.r EXCEPT !.m_chains = EraseChain(a.s, @, c)]]
    ELSE [a EXCEPT !.r.m_send_num = @ + 1]

Repeat(s, r, useless(_, _)) ==
    FoldLeft(LAMBDA a, c : AskNext(a, c, SendNum[r.m_try_num], useless(a.s, c)),
             [s |-> s, r |-> [r EXCEPT !.m_attached_chains = <<>>]],
             r.m_attached_chains)

\* A chain that asks for blocks is useless if it is not the heaviest any more.
Useless(s, c) == ~Heavier(s, c) \/ Closed(s, c)

RetryBrief(h) ==
    LET r == n.m_pending_brief_reqs[h]
        next == [r EXCEPT !.m_try_num = @ + 1]
        done == Repeat(n, next, Closed)
    IN  /\ r.m_try_num > 0
        /\ n' = Freed(IF r.m_chains = {}
                      THEN [n EXCEPT !.m_pending_brief_reqs[h] = NoRequest]
                      ELSE IF next.m_try_num > Len(SendNum)
                      THEN punish_brief_req(n, h, FALSE)
                      ELSE [done.s EXCEPT !.m_pending_brief_reqs[h] = done.r])
        /\ UNCHANGED <<m_peers, delayed>>

RetryDetail(h) ==
    LET r == n.m_pending_detail_reqs[h]
        next == [r EXCEPT !.m_try_num = @ + 1]
        done == Repeat(n, next, Useless)
    IN  /\ r.m_try_num > 0
        /\ n' = Freed(IF r.m_chains = {}
                      THEN [n EXCEPT !.m_pending_detail_reqs[h] = NoRequest]
                      ELSE IF next.m_try_num > Len(SendNum)
                      THEN punish_detail_req(n, h, FALSE)
                      ELSE [done.s EXCEPT !.m_pending_detail_reqs[h] = done.r])
        /\ UNCHANGED <<m_peers, delayed>>

----------------------------------------------------------------------------
(* Messages. An answer may come late, twice, or without a question.        *)

Truthful(b) ==
    \A i \in 0..Cardinality(Block) :
        Verdict[Up[i][b]] = "good" /\ Up[i][b] \notin WrongHeight

\* What peer p may say: honest peers announce what they have and verified.
MayAnnounce(p, b, declared, form) ==
    p \in Honest => declared = Pow[b] /\ form = "ok" /\ Truthful(b)

MayAnswer(p, form) == p \in Honest => form # "bad"

\* The tests before the block is looked up, and those after.
BroadcastForm == {"ok", "bad", "bad later"}

Fresh(b, declared) ==
    b \notin n.m_blocks /\ declared > Pow[n.m_most_difficult_block]

\* A header heard of for the first time may be one that was asked for.
Heard(s, b) ==
    IF IsPending(s, b) THEN s
    ELSE LET t == AddPending(s, b)
         IN  IF t.m_pending_brief_reqs[b].m_try_num > 0
             THEN finish_brief(t, b) ELSE t

\* Mutant: the work of the block itself is not taken off.
NewChainWhole(s, p, b, declared) ==
    [m_peer |-> p, m_req_blocks |-> <<<<b, s.made[b]>>>>,
     m_declared_pow |-> declared, m_remain_pow |-> declared, m_start |-> 0,
     m_brief_attached |-> None, m_detail_attached |-> None]

NewChain(s, p, b, declared) ==
    [m_peer |-> p, m_req_blocks |-> <<<<b, s.made[b]>>>>,
     m_declared_pow |-> declared,
     m_remain_pow |-> declared - (Pow[b] - Pow[Parent[b]]), m_start |-> 0,
     m_brief_attached |-> None, m_detail_attached |-> None]

\* The fields that the hash of the header covers do not fit together.
BadHeader(h) == Verdict[h] = "header"

BadBroadcast(b, declared, form) ==
    \/ form = "bad"
    \/ /\ Fresh(b, declared)
       /\ \/ form = "bad later"
          \/ BadHeader(b)
          \/ declared < Pow[b] - Pow[Parent[b]]

\* The announced chain ch is looked at, now or when its time has come. Bound:
\* there is memory for one chain more.
TakeUp(s, ch) ==
    \/ Free(s) # {} /\ n' = Freed(do_brief_chain(s, ch)) /\ UNCHANGED delayed
    \/ /\ Len(delayed) < MaxDelayed
       /\ n' = Freed(s) /\ delayed' = Append(delayed, ch)

Announced(s, p, b, declared) == TakeUp(s, NewChain(s, p, b, declared))

BlockBroadcast(p, b, declared, form) ==
    /\ p \in m_peers /\ MayAnnounce(p, b, declared, form)
    /\ \/ /\ BadBroadcast(b, declared, form)
          /\ n' = punish_peer(n, p) /\ UNCHANGED delayed
       \/ /\ ~BadBroadcast(b, declared, form) /\ Fresh(b, declared)
          /\ Announced(Heard(n, b), p, b, declared)
    /\ UNCHANGED m_peers

\* The time of a block announced too early has come.
Due ==
    \E i \in DOMAIN delayed :
        /\ Free(n) # {}
        /\ n' = Freed(do_brief_chain(n, delayed[i]))
        /\ delayed' = RemoveAt(delayed, i)
        /\ UNCHANGED m_peers

\* BLOCK_BRIEF_RSP is of use: the header is unknown and asked for.
Wanted(h) ==
    /\ h \notin n.m_blocks /\ ~IsPending(n, h)
    /\ n.m_pending_brief_reqs[h].m_try_num > 0

\* result 0: whatever chain the peer has now is given up.
BriefRspNone(p, h) ==
    /\ p \in m_peers /\ Wanted(h) /\ n.m_chains_by_peer_key[Key[p]] # None
    /\ n' = Freed(Detach(n, Key[p]))
    /\ UNCHANGED <<m_peers, delayed>>

\* "bad": not what the hash asked for stands for; only the sender can be at fault.
AnswerForm == {"ok", "bad"}

\* result 1. The sender answers for what the hash does not cover, everyone in
\* the request for what it covers.
BriefRsp(p, h, form) ==
    /\ p \in m_peers /\ MayAnswer(p, form)
    /\ form = "ok" => Wanted(h)
    /\ n' = Freed(IF form = "bad" THEN punish_peer(n, p)
                  ELSE IF BadHeader(h) THEN punish_brief_req(n, h, TRUE)
                  ELSE finish_brief(AddPending(n, h), h))
    /\ UNCHANGED <<m_peers, delayed>>

\* A transaction lacks a field, or a field has a wrong type.
BadTxs(h) == Verdict[h] = "tx"

DetailRsp(p, h, form) ==
    LET first == n.chain[FirstChain(n, h)]
        pb == first.m_req_blocks[first.m_start + 1]
    IN  /\ p \in m_peers /\ MayAnswer(p, form)
        /\ form = "ok" => h \notin n.m_blocks
                          /\ n.m_pending_detail_reqs[h].m_chains # {}
        /\ n' = Freed(IF form = "bad" THEN punish_peer(n, p)
                      ELSE IF BadTxs(h) THEN punish_detail_req(n, h, TRUE)
                      ELSE finish_detail([n EXCEPT !.docs = @ \cup {pb}], h))
        /\ UNCHANGED <<m_peers, delayed>>

MinedNewBlock(b) ==
    /\ b \in (Own \cap world.blocks) \ n.m_blocks /\ Parent[b] \in n.m_blocks
    /\ Pow[Parent[b]] = Pow[n.m_most_difficult_block]
    /\ n' = [n EXCEPT !.m_blocks = @ \cup {b}, !.m_most_difficult_block = b]
    /\ UNCHANGED <<m_peers, delayed>>

----------------------------------------------------------------------------
(* Connections, seen from the message thread. As a rule a key has one of   *)
(* them at a time, and a punished one is banned for longer than a request  *)
(* lives. But REG_REQ looks for the address in m_banned_peers and in       *)
(* m_peer_score_map, and it enters the map only with the registration: all *)
(* requests of an address that were under way before the first one ended   *)
(* get a Peer_Score of their own, pass, and register (see PeerReg, too).   *)

\* Nothing keeps a connection out whose key is in use, or was punished.
MayRegister(p) == p \in world.peers \ (m_peers \cup n.closed)

\* The key of p stands for another connection, too, or for one that was punished.
Doubles(p) == \E q \in m_peers \cup n.punished : Key[q] = Key[p]

Register(p) ==
    /\ MayRegister(p)
    /\ m_peers' = m_peers \cup {p}
    /\ doubled' = IF Doubles(p) THEN doubled \cup {Key[p]} ELSE doubled
    /\ UNCHANGED <<n, delayed>>

Disconnect(p) ==
    /\ p \in m_peers \ n.closed
    /\ n' = [n EXCEPT !.closed = @ \cup {p}]
    /\ UNCHANGED <<m_peers, delayed>>

\* Node::close, on another thread, some time after the connection closed.
Removed(p) ==
    /\ p \in m_peers \cap n.closed
    /\ m_peers' = m_peers \ {p}
    /\ UNCHANGED <<n, delayed>>

Message(p) ==
    /\ \/ \E b \in Says[p], lie \in 0..1, form \in BroadcastForm :
             BlockBroadcast(p, b, Pow[b] + lie, form)
       \/ \E h \in world.blocks : BriefRspNone(p, h)
       \/ \E h \in world.blocks, form \in AnswerForm :
             BriefRsp(p, h, form) \/ DetailRsp(p, h, form)
    /\ \A b \in Block : n'.made[b] <= MaxMade

Next ==
    /\ ~n.exited
    /\ \/ \E p \in Peer : Register(p)
       \/ /\ \/ \E p \in Peer : Message(p) \/ Disconnect(p) \/ Removed(p)
             \/ \E h \in Block : RetryBrief(h) \/ RetryDetail(h) \/ MinedNewBlock(h)
             \/ Due
          /\ UNCHANGED doubled
    /\ UNCHANGED world

\* The timers run: weak fairness of RetryBrief(h) and RetryDetail(h), written
\* out, for each is enabled exactly while its request exists.
Fairness ==
    \A h \in Block :
        /\ \/ []<>(n.m_pending_brief_reqs[h].m_try_num = 0)
           \/ []<><<RetryBrief(h)>>_vars
        /\ \/ []<>(n.m_pending_detail_reqs[h].m_try_num = 0)
           \/ []<><<RetryDetail(h)>>_vars

Spec == Init /\ [][Next]_vars /\ Fairness

----------------------------------------------------------------------------
(* Properties.                                                             *)

\* Types of the data of the message thread and of its connections.
TypeOK ==
    /\ n \in Node /\ n.m_most_difficult_block \in n.m_blocks /\ n.punished \subseteq n.closed
    /\ m_peers \subseteq Peer /\ delayed \in Seq(Chain) /\ doubled \subseteq Keys

\* The process never exits for a chain that is attached to nothing
\* (node.cpp:2130, 4082), and never reads a block whose document is gone
\* (finish_detail, pb->m_doc).
NeverExits == ~n.exited

\* A header came that states a wrong height.
HeightHurts == \E b \in WrongHeight : n.made[b] > 0

\* The chain that a key stands for is in exactly one request, the one it names,
\* so that an answer or the timer of that request reaches it: no key is stuck.
\* This needs a key to stand for one connection: a chain of the other one is not
\* inserted where the request has a chain of the key (Chain_Comp).
AttachedWhereItSays ==
    \A k \in Keys \ doubled :
        LET c == n.m_chains_by_peer_key[k]
        IN  c # None =>
              /\ KeyOf(n, c) = k
              /\ {h \in Block : c \in n.m_pending_brief_reqs[h].m_chains}
                   = {n.chain[c].m_brief_attached} \ {None}
              /\ {h \in Block : c \in n.m_pending_detail_reqs[h].m_chains}
                   = IF n.chain[c].m_brief_attached # None THEN {}
                     ELSE {n.chain[c].m_detail_attached}

\* No request works for a chain that its key has given up, unless that chain was
\* dragged down by the header of a wrong height of another peer, or the key stood
\* for two connections: then what ends the chain of one erases the other's.
NoOrphans ==
    \A h \in Block :
        \A c \in n.m_pending_brief_reqs[h].m_chains
                 \cup n.m_pending_detail_reqs[h].m_chains :
            \/ n.m_chains_by_peer_key[KeyOf(n, c)] = c
            \/ n.chain[c].m_peer \in n.punished
            \/ KeyOf(n, c) \in doubled

\* What switch_chain and finish_detail take for granted of a chain that asks
\* for blocks: it hangs from a known block without a gap, it declared exactly
\* the work of its last block, the block asked for is the one it is at, and what
\* comes before is known or at hand.
ChainIsSound ==
    \A h \in Block : \A c \in n.m_pending_detail_reqs[h].m_chains :
        LET ch == n.chain[c]
            pbs == ch.m_req_blocks
        IN  /\ Parent[pbs[1][1]] \in n.m_blocks
            /\ \A i \in 1..(Len(pbs) - 1) : Parent[pbs[i + 1][1]] = pbs[i][1]
            /\ \A i \in 1..Len(pbs) : pbs[i][1] \notin WrongHeight
            /\ ch.m_declared_pow = Pow[Last(pbs)[1]]
            /\ pbs[ch.m_start + 1][1] = h
            /\ \A i \in 1..ch.m_start : pbs[i][1] \in n.m_blocks \/ pbs[i] \in n.docs

\* A peer that tells the truth is not punished for what others say, although
\* requests are shared and all who share one are punished together. The one
\* exception is a header that states a wrong height (finish_brief, line 3848).
OnlyHeightsHurt ==
    n.punished \cap Honest # {} => HeightHurts

\* Every request ends: answered, given up after the last try, or without chains.
\* With AttachedWhereItSays, no peer is stuck in one.
RequestsEnd ==
    \A h \in Block :
        /\ n.m_pending_brief_reqs[h].m_try_num > 0
              ~> n.m_pending_brief_reqs[h].m_try_num = 0
        /\ n.m_pending_detail_reqs[h].m_try_num > 0
              ~> n.m_pending_detail_reqs[h].m_try_num = 0
=============================================================================
