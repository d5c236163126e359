------------------------------- MODULE PeerReg -------------------------------
(***************************************************************************)
(* How a node and its peers register with each other (net/p2p/node.cpp).   *)
(* The active node connects and sends REG_REQ; the passive one answers and *)
(* connects back to the address it was told (init_verify); registered are  *)
(* both when REG_VERIFY_REQ and REG_VERIFY_RSP went over that connection.  *)
(*                                                                         *)
(* One node is modelled, in both parts; the other nodes run the same code, *)
(* and their messages come at any time the handshake allows. A step is     *)
(* what one thread does under a mutex, for that is where the threads of    *)
(* the poller, connect_proc, the threads that connect back and the timers  *)
(* meet. Of the network library, which is not part of the repository, it   *)
(* is taken what the code relies on: the callbacks of a connection come    *)
(* one at a time, after its init, and end with one of close and be_closed; *)
(* connect returns false if init did.                                      *)
(***************************************************************************)
EXTENDS Integers, FiniteSets

CONSTANTS
    MaxId,      \* connections there may be; ids are given out in order
    Addr,       \* addresses of other nodes
    Seeds,      \* those in the score map at the start
    MaxConns,   \* what m_max_conn may be set to
    None

ASSUME PeerRegAssumption ==
    /\ MaxId \in Nat /\ MaxConns \subseteq Nat
    /\ Seeds \subseteq Addr /\ None \notin Addr

Conn == 1..MaxId

VARIABLES
    m_max_conn,                 \* set before the node starts
    m_unreg_peers, m_peers,     \* ids of connections
    conn,                       \* Conn -> the connection and its Peer, see NoConn
    next_id,
    m_peer_score_map,           \* addresses with a Peer_Score
    taken,                      \* those whose Peer_Score has m_state 1
    m_banned_peers,
    dialing,                    \* the address connect_proc connects to, or None
    stranded,   \* history: a score came to the map when its connection was gone
    loose       \* history: the score was taken or released past the map

vars == <<m_max_conn, m_unreg_peers, m_peers, conn, next_id, m_peer_score_map, taken,
          m_banned_peers, dialing, stranded, loose>>

NoConn == [ kind    |-> "none",     \* active, passive, or verify (connects back)
            step    |-> "none",     \* init: counted open closing leaving gone
            addr    |-> None,       \* m_addr
            m_state |-> 0,
            back    |-> "none",     \* thread: dial inserted failed
            scored  |-> FALSE,      \* the thread's score is that of the map
            for     |-> 0,          \* of a verify connection: the passive one
            adding  |-> FALSE,      \* add_peer_score is due
            crowded |-> FALSE ]     \* history: inits ran at the same time

Init ==
    /\ m_max_conn \in MaxConns
    /\ m_unreg_peers = {} /\ m_peers = {}
    /\ conn = [c \in Conn |-> NoConn] /\ next_id = 1
    /\ m_peer_score_map = Seeds /\ taken = {} /\ m_banned_peers = {}
    /\ dialing = None /\ stranded = {} /\ loose = {}

Tables == m_unreg_peers \cup m_peers
Counted == {c \in Conn : conn[c].step = "counted"}

\* The connection gets callbacks.
Alive(c) == conn[c].step \in {"open", "closing"}

\* close() was called: close is called back later.
Closed(r) == IF r.step = "open" THEN [r EXCEPT !.step = "closing"] ELSE r
Close(c) == [conn EXCEPT ![c] = Closed(@)]

\* compare_exchange_strong on the Peer_Score of the map.
Take(x) == x \in m_peer_score_map /\ x \notin taken /\ taken' = taken \cup {x}

-----------------------------------------------------------------------------
(* init: the connections are counted, and inserted in another section.     *)

\* Mutant: nothing is counted.
RoomAlways == TRUE

Room == Cardinality(Tables) <= m_max_conn

\* New ids are given out in order.
Count(c, record) ==
    /\ c = next_id /\ next_id' = next_id + 1
    /\ Room
    /\ conn' = [d \in Conn |->
          IF d = c THEN [record EXCEPT !.step = "counted", !.crowded = Counted # {}]
          ELSE [conn[d] EXCEPT !.crowded = @ \/ d \in Counted]]

\* One thread accepts.
Accept(c) ==
    /\ \A d \in Counted : conn[d].kind # "passive"
    /\ Count(c, [NoConn EXCEPT !.kind = "passive"])
    /\ UNCHANGED <<m_unreg_peers, m_peers, m_peer_score_map, taken, m_banned_peers,
                   dialing, stranded, loose>>

\* connect_proc finds an address that nothing is connected to.
ConnectProc(x) ==
    /\ dialing = None
    /\ Cardinality(Tables) < m_max_conn \div 2
    /\ x \notin m_banned_peers
    /\ Take(x)
    /\ dialing' = x
    /\ UNCHANGED <<m_unreg_peers, m_peers, conn, next_id, m_peer_score_map,
                   m_banned_peers, stranded, loose>>

Connect(c) ==
    /\ dialing # None /\ \A d \in Counted : conn[d].kind # "active"
    /\ Count(c, [NoConn EXCEPT !.kind = "active", !.addr = dialing])
    /\ UNCHANGED <<m_unreg_peers, m_peers, m_peer_score_map, taken, m_banned_peers,
                   dialing, stranded, loose>>

\* Also where init finds no room.
ConnectFails ==
    /\ dialing # None /\ \A d \in Counted : conn[d].kind # "active"
    /\ dialing' = None
    /\ taken' = taken \ {dialing}
    /\ UNCHANGED <<m_unreg_peers, m_peers, conn, next_id, m_peer_score_map,
                   m_banned_peers, stranded, loose>>

\* An active connection has sent REG_REQ when its callbacks begin.
Insert(c) ==
    /\ c \in Counted /\ conn[c].kind # "verify"
    /\ m_unreg_peers' = m_unreg_peers \cup {c}
    /\ conn' = [conn EXCEPT ![c] = [@ EXCEPT
            !.step = "open", !.m_state = IF conn[c].kind = "active" THEN 1 ELSE 0]]
    /\ dialing' = IF conn[c].kind = "active" THEN None ELSE dialing
    /\ UNCHANGED <<m_peers, next_id, m_peer_score_map, taken, m_banned_peers,
                   stranded, loose>>

-----------------------------------------------------------------------------
(* The passive node.                                                       *)

\* REG_REQ. The Peer_Score of an address that is not in the map is a new one.
RegReq(c, x) ==
    /\ c \in m_unreg_peers /\ Alive(c) /\ conn[c].kind = "passive"
    /\ conn[c].m_state = 0
    /\ LET known == x \in m_peer_score_map
       IN  IF x \in m_banned_peers \/ (known /\ x \in taken)
           THEN /\ conn' = [conn EXCEPT ![c] = Closed([@ EXCEPT !.addr = x])]
                /\ UNCHANGED <<taken, loose>>
           ELSE /\ conn' = [conn EXCEPT ![c] = [@ EXCEPT
                        !.addr = x, !.m_state = 2, !.back = "dial", !.scored = known]]
                /\ IF known THEN Take(x) ELSE taken' = taken
                /\ loose' = IF known THEN loose ELSE loose \cup {x}
    /\ UNCHANGED <<m_unreg_peers, m_peers, next_id, m_peer_score_map, m_banned_peers,
                   dialing, stranded>>

\* The thread connects back.
ConnectBack(v, c) ==
    /\ conn[c].back = "dial"
    /\ \A d \in Counted : conn[d].for # c
    /\ Count(v, [NoConn EXCEPT !.kind = "verify", !.for = c])
    /\ UNCHANGED <<m_unreg_peers, m_peers, m_peer_score_map, taken, m_banned_peers,
                   dialing, stranded, loose>>

\* Also where init_verify finds no room.
ConnectBackFails(c) ==
    /\ conn[c].back = "dial"
    /\ \A d \in Counted : conn[d].for # c
    /\ conn' = [conn EXCEPT ![c] = Closed([@ EXCEPT !.back = "failed"])]
    /\ UNCHANGED <<m_unreg_peers, m_peers, next_id, m_peer_score_map, taken,
                   m_banned_peers, dialing, stranded, loose>>

\* init_verify: the peer that is to be verified may be gone.
InsertVerify(v) ==
    LET c == conn[v].for
    IN  /\ v \in Counted /\ conn[v].kind = "verify"
        /\ IF c \in m_unreg_peers
           THEN /\ m_unreg_peers' = m_unreg_peers \cup {v}
                /\ conn' = [conn EXCEPT ![v].step = "open", ![c].back = "inserted"]
           ELSE /\ conn' = [conn EXCEPT ![v].step = "gone", ![c].back = "failed"]
                /\ UNCHANGED m_unreg_peers
        /\ UNCHANGED <<m_peers, next_id, m_peer_score_map, taken, m_banned_peers,
                       dialing, stranded, loose>>

\* REG_VERIFY_REQ is on its way when m_state is set.
VerifySent(c) ==
    /\ conn[c].back = "inserted"
    /\ conn' = [conn EXCEPT ![c] = [@ EXCEPT !.back = "none", !.m_state = 4]]
    /\ UNCHANGED <<m_unreg_peers, m_peers, next_id, m_peer_score_map, taken,
                   m_banned_peers, dialing, stranded, loose>>

\* The thread gives the score back, and so does close, in any order.
BackFailed(c) ==
    /\ conn[c].back = "failed"
    /\ conn' = [conn EXCEPT ![c].back = "none"]
    /\ IF conn[c].scored
       THEN taken' = taken \ {conn[c].addr} /\ loose' = loose \cup {conn[c].addr}
       ELSE UNCHANGED <<taken, loose>>
    /\ UNCHANGED <<m_unreg_peers, m_peers, next_id, m_peer_score_map,
                   m_banned_peers, dialing, stranded>>

\* REG_VERIFY_RSP, which carries the key of the connection that is verified. It
\* may overtake VerifySent.
RegVerifyRsp(v) ==
    LET c == conn[v].for
        fits == c \in m_unreg_peers /\ conn[c].m_state = 4
    IN  /\ v \in m_unreg_peers /\ Alive(v) /\ conn[v].kind = "verify"
        /\ ~conn[v].adding
        /\ IF fits
           THEN /\ m_unreg_peers' = m_unreg_peers \ {c}
                /\ m_peers' = m_peers \cup {c}
                /\ conn' = [conn EXCEPT ![v] = Closed([@ EXCEPT !.adding = TRUE])]
           ELSE /\ conn' = Close(v)
                /\ UNCHANGED <<m_unreg_peers, m_peers>>
        /\ UNCHANGED <<next_id, m_peer_score_map, taken, m_banned_peers, dialing,
                       stranded, loose>>

\* The rest of REG_VERIFY_RSP, under another mutex: the connection may be gone.
AddScore(v) ==
    LET c == conn[v].for
        x == conn[c].addr
    IN  /\ conn[v].adding
        /\ conn' = [conn EXCEPT ![v].adding = FALSE]
        /\ IF x \in m_peer_score_map
           THEN UNCHANGED <<m_peer_score_map, taken, stranded>>
           ELSE /\ m_peer_score_map' = m_peer_score_map \cup {x}
                /\ taken' = taken \cup {x}
                /\ stranded' = IF conn[c].step = "gone" THEN stranded \cup {x} ELSE stranded
        /\ UNCHANGED <<m_unreg_peers, m_peers, next_id, m_banned_peers, dialing, loose>>

-----------------------------------------------------------------------------
(* The active node.                                                        *)

\* REG_RSP.
RegRsp(c) ==
    /\ c \in m_unreg_peers /\ Alive(c) /\ conn[c].kind = "active"
    /\ conn[c].m_state = 1
    /\ conn' = [conn EXCEPT ![c].m_state = 3]
    /\ UNCHANGED <<m_unreg_peers, m_peers, next_id, m_peer_score_map, taken,
                   m_banned_peers, dialing, stranded, loose>>

\* REG_VERIFY_REQ comes on a connection of its own, v, and may overtake REG_RSP.
RegVerifyReq(v, c) ==
    /\ v \in m_unreg_peers /\ Alive(v) /\ conn[v].kind = "passive"
    /\ conn[v].m_state = 0
    /\ conn[c].kind = "active" /\ conn[c].step # "counted"
    /\ IF c \notin m_unreg_peers
       THEN conn' = Close(v) /\ UNCHANGED <<m_unreg_peers, m_peers>>
       ELSE IF conn[c].m_state # 3
       THEN /\ conn' = [conn EXCEPT ![v] = Closed(@), ![c] = Closed(@)]
            /\ UNCHANGED <<m_unreg_peers, m_peers>>
       ELSE /\ m_unreg_peers' = m_unreg_peers \ {c}
            /\ m_peers' = m_peers \cup {c}
            /\ UNCHANGED conn
    /\ UNCHANGED <<next_id, m_peer_score_map, taken, m_banned_peers, dialing,
                   stranded, loose>>

-----------------------------------------------------------------------------
(* The end of a connection.                                                *)

\* close() is called, by a timer or after a bad message, or the other side does.
StartClose(c) ==
    /\ conn[c].step = "open"
    /\ conn' = Close(c)
    /\ UNCHANGED <<m_unreg_peers, m_peers, next_id, m_peer_score_map, taken,
                   m_banned_peers, dialing, stranded, loose>>

\* The timer of ten seconds, which registration resets.
Expire(c) == c \in m_unreg_peers /\ StartClose(c)

\* Mutant: a peer whose m_state is set keeps its score until it is registered.
LeaveTablesUnreg(c) ==
    /\ conn[c].step = "closing"
    /\ m_unreg_peers' = m_unreg_peers \ {c} /\ m_peers' = m_peers \ {c}
    /\ conn' = [conn EXCEPT ![c].step = IF c \in m_unreg_peers THEN "gone" ELSE "leaving"]
    /\ UNCHANGED <<next_id, m_peer_score_map, taken, m_banned_peers, dialing,
                   stranded, loose>>

\* Mutant: a peer that was refused gives the score back all the same.
LeaveTablesAll(c) ==
    /\ conn[c].step = "closing"
    /\ m_unreg_peers' = m_unreg_peers \ {c} /\ m_peers' = m_peers \ {c}
    /\ conn' = [conn EXCEPT ![c].step = "leaving"]
    /\ UNCHANGED <<next_id, m_peer_score_map, taken, m_banned_peers, dialing,
                   stranded, loose>>

\* close and be_closed, the part under m_peer_mutex.
LeaveTables(c) ==
    /\ conn[c].step = "closing"
    /\ m_unreg_peers' = m_unreg_peers \ {c} /\ m_peers' = m_peers \ {c}
    /\ conn' = [conn EXCEPT ![c].step =
          IF c \in m_unreg_peers /\ conn[c].m_state = 0 THEN "gone" ELSE "leaving"]
    /\ UNCHANGED <<next_id, m_peer_score_map, taken, m_banned_peers, dialing,
                   stranded, loose>>

\* The part under m_score_mutex.
GiveBack(c) ==
    /\ conn[c].step = "leaving"
    /\ conn' = [conn EXCEPT ![c].step = "gone"]
    /\ taken' = taken \ {conn[c].addr}
    /\ UNCHANGED <<m_unreg_peers, m_peers, next_id, m_peer_score_map,
                   m_banned_peers, dialing, stranded, loose>>

\* SYS_PEER_RSP tells of an address.
Learn(x) ==
    /\ m_peers # {} /\ x \notin m_peer_score_map
    /\ m_peer_score_map' = m_peer_score_map \cup {x}
    /\ UNCHANGED <<m_unreg_peers, m_peers, conn, next_id, taken, m_banned_peers,
                   dialing, stranded, loose>>

\* punish_peer, in the message thread.
PunishPeer(c) ==
    /\ c \in m_peers
    /\ conn' = Close(c)
    /\ m_banned_peers' = m_banned_peers \cup {conn[c].addr}
    /\ UNCHANGED <<m_unreg_peers, m_peers, next_id, m_peer_score_map, taken,
                   dialing, stranded, loose>>

Unban(x) ==
    /\ x \in m_banned_peers
    /\ m_banned_peers' = m_banned_peers \ {x}
    /\ UNCHANGED <<m_unreg_peers, m_peers, conn, next_id, m_peer_score_map, taken,
                   dialing, stranded, loose>>

Next ==
    /\ \/ \E c \in Conn :
             \/ Accept(c) \/ Connect(c) \/ Insert(c)
             \/ InsertVerify(c) \/ VerifySent(c) \/ ConnectBackFails(c) \/ BackFailed(c)
             \/ RegVerifyRsp(c) \/ AddScore(c) \/ RegRsp(c)
             \/ StartClose(c) \/ LeaveTables(c) \/ GiveBack(c) \/ PunishPeer(c)
             \/ \E x \in Addr : RegReq(c, x)
             \/ \E d \in Conn : ConnectBack(c, d) \/ RegVerifyReq(c, d)
       \/ ConnectFails
       \/ \E x \in Addr : ConnectProc(x) \/ Learn(x) \/ Unban(x)
    /\ UNCHANGED m_max_conn

Spec == Init /\ [][Next]_vars

\* Threads go on, connects time out after a second, the timer of a connection that
\* is not registered fires, and callbacks come.
Fairness ==
    /\ WF_vars(ConnectFails /\ UNCHANGED m_max_conn)
    /\ \A c \in Conn :
          /\ WF_vars(Insert(c) /\ UNCHANGED m_max_conn)
          /\ WF_vars(InsertVerify(c) /\ UNCHANGED m_max_conn)
          /\ WF_vars(VerifySent(c) /\ UNCHANGED m_max_conn)
          /\ WF_vars(ConnectBackFails(c) /\ UNCHANGED m_max_conn)
          /\ WF_vars(BackFailed(c) /\ UNCHANGED m_max_conn)
          /\ WF_vars(AddScore(c) /\ UNCHANGED m_max_conn)
          /\ WF_vars(Expire(c) /\ UNCHANGED m_max_conn)
          /\ WF_vars(LeaveTables(c) /\ UNCHANGED m_max_conn)
          /\ WF_vars(GiveBack(c) /\ UNCHANGED m_max_conn)

FairSpec == Spec /\ Fairness

-----------------------------------------------------------------------------
(* Properties.                                                             *)

\* Who holds the score of x: a connection in a table, or on its way out, that
\* went past REG_REQ.
Holders(x) == {c \in Conn : /\ conn[c].addr = x /\ conn[c].m_state > 0
                            /\ c \in Tables \/ conn[c].step = "leaving"}

\* A score that is taken has an owner who will give it back, or the address would
\* never be connected to again and its requests refused for good. A score that
\* REG_VERIFY_RSP adds for a connection that is gone by then has none.
TakenIsHeld == \A x \in taken \ stranded : x = dialing \/ Holders(x) # {}

\* While an address has been in the map, and no connect back to it failed, at most
\* one connection holds it.
HeldOnce ==
    \A x \in Addr \ loose :
        /\ \A c, d \in Holders(x) : c = d
        /\ x = dialing => Holders(x) = {}

\* However the handshakes of the two sides, the connects back and the ends of
\* connections cross, m_state of a Peer_Score says whether its node is connected.
ScoresFit == TakenIsHeld /\ HeldOnce

\* The tables outgrow m_max_conn by more than one only if inits ran at the same
\* time, between the counting and the insertion.
LimitHolds ==
    Cardinality(Tables) > m_max_conn + 1 => \E c \in Tables : conn[c].crowded

\* A handshake ends, and an address that is taken is free again, or registered.
HandshakesEnd ==
    /\ \A c \in Conn : c \in m_unreg_peers ~> c \notin m_unreg_peers
    /\ \A x \in Addr : x \in taken ~>
          \/ x \notin taken \/ x \in stranded
          \/ \E c \in m_peers : conn[c].addr = x
=============================================================================
