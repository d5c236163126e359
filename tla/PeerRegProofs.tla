---------------------------- MODULE PeerRegProofs ----------------------------
(***************************************************************************)
(* That m_state of a Peer_Score fits the connections, for any number of    *)
(* connections and addresses. IInv adds to ScoresFit what the connections  *)
(* and the tables say of each other, and that an address that is held is   *)
(* taken. The second half bounds the tables by m_max_conn.                 *)
(***************************************************************************)
EXTENDS PeerReg, FiniteSetTheorems, TLAPS

Record == [ kind    : {"none", "active", "passive", "verify"},
            step    : {"none", "counted", "open", "closing", "leaving", "gone"},
            addr    : Addr \cup {None},
            m_state : Nat,
            back    : {"none", "dial", "inserted", "failed"},
            scored  : BOOLEAN,
            for     : Nat,
            adding  : BOOLEAN,
            crowded : BOOLEAN ]

\* Types of the tables and connections.
TypeOK ==
    /\ conn \in [Conn -> Record]
    /\ next_id \in Nat
    /\ m_unreg_peers \subseteq Conn /\ m_peers \subseteq Conn
    /\ dialing \in Addr \cup {None} /\ taken \subseteq Addr

\* A connection is in a table while it gets callbacks.
InTable == \A c \in Conn : Alive(c) <=> c \in Tables

\* Ids that are not given out yet.
Unused == \A c \in Conn : c >= next_id => conn[c] = NoConn

\* connect_proc makes one connection at a time.
OneDial ==
    \A c \in Counted : conn[c].kind = "active" =>
        /\ conn[c].addr = dialing /\ dialing # None
        /\ \A d \in Counted : conn[d].kind = "active" => c = d

\* m_state is set for connections that are in a table, or were.
Begun ==
    \A c \in Conn :
        /\ conn[c].m_state > 0 => /\ conn[c].step \notin {"none", "counted"}
                                  /\ conn[c].addr \in Addr
        /\ conn[c].back # "none" => conn[c].m_state > 0
        /\ conn[c].adding => conn[c].kind = "verify"
        /\ conn[c].kind = "verify" => /\ conn[c].for \in Conn
                                      /\ conn[conn[c].for].m_state > 0
        /\ c \in m_peers \/ conn[c].step = "leaving" => conn[c].m_state > 0

Shape == TypeOK /\ InTable /\ Unused /\ OneDial /\ Begun

\* ScoresFit, and that an address that is held is taken, in terms of Held.
Held(c) == conn[c].m_state > 0 /\ conn[c].step # "gone"

Owned == \A x \in taken \ stranded :
            x = dialing \/ \E c \in Conn : Held(c) /\ conn[c].addr = x

Once == \A c, d \in Conn :
            /\ Held(c) /\ Held(d)
            /\ conn[c].addr = conn[d].addr /\ conn[c].addr \in Addr \ loose
            => c = d

NotDialed == \A c \in Conn :
    Held(c) /\ conn[c].addr \in Addr \ loose => conn[c].addr # dialing

Marked == /\ dialing \in Addr \ loose => dialing \in taken
          /\ \A c \in Conn :
                Held(c) /\ conn[c].addr \in Addr \ loose => conn[c].addr \in taken

Fits == Owned /\ Once /\ NotDialed /\ Marked

IInv == Shape /\ Fits

-----------------------------------------------------------------------------
(* Owned, Once and NotDialed are ScoresFit.                                *)

\* Those who hold an address are those whose connection is not given back.
LEMMA HoldersAreHeld ==
    ASSUME Shape, NEW x
    PROVE  Holders(x) = {c \in Conn : Held(c) /\ conn[c].addr = x}
<1>1. ASSUME NEW c \in Conn
      PROVE  conn[c].step \in {"none", "counted", "open", "closing", "leaving", "gone"}
    BY DEF Shape, TypeOK, Record
<1>2. ASSUME NEW c \in Conn, conn[c].m_state > 0
      PROVE  c \in Tables \/ conn[c].step = "leaving" <=> conn[c].step # "gone"
    BY <1>1, <1>2 DEF Shape, InTable, Begun, Alive
<1> QED
    BY <1>1, <1>2 DEF Holders, Held

\* The invariant is strong enough.
LEMMA InvScoresFit == IInv => ScoresFit
<1> SUFFICES ASSUME IInv PROVE ScoresFit
    OBVIOUS
<1>1. \A x : Holders(x) = {c \in Conn : Held(c) /\ conn[c].addr = x}
    BY HoldersAreHeld DEF IInv
<1>2. TakenIsHeld
    BY <1>1 DEF IInv, Fits, Owned, TakenIsHeld
<1>3. HeldOnce
    BY <1>1 DEF IInv, Fits, Once, NotDialed, HeldOnce
<1> QED
    BY <1>2, <1>3 DEF ScoresFit

\* It holds at the start.
LEMMA InitInv == Init => IInv
BY PeerRegAssumption
   DEF Init, IInv, Shape, TypeOK, InTable, Unused, OneDial, Begun, Fits, Owned, Once,
       NotDialed, Marked, Held, Counted, Tables, Alive, NoConn, Record, Conn

-----------------------------------------------------------------------------
(* Every action keeps the invariant. The first step of each proof says     *)
(* what the action does to the connections, field by field.                *)

\* Insert keeps the invariant.
LEMMA InsertKeeps == ASSUME IInv, NEW c \in Conn, Insert(c) PROVE IInv'
<1> USE PeerRegAssumption DEF IInv
<1>1. conn \in [Conn -> Record] /\ conn[c] \in Record
    BY DEF Shape, TypeOK
<1>2. [conn[c] EXCEPT !.step = "open",
               !.m_state = IF conn[c].kind = "active" THEN 1 ELSE 0] \in Record
    BY <1>1 DEF Record
<1>3. conn' \in [Conn -> Record]
    BY <1>1, <1>2 DEF Insert
<1>4. /\ conn' \in [Conn -> Record]
      /\ \A d \in Conn \ {c} : conn'[d] = conn[d]
      /\ conn'[c].kind = conn[c].kind
      /\ conn'[c].addr = conn[c].addr
      /\ conn'[c].m_state = IF conn[c].kind = "active" THEN 1 ELSE 0
      /\ conn'[c].back = conn[c].back
      /\ conn'[c].for = conn[c].for
      /\ conn'[c].adding = conn[c].adding
      /\ conn'[c].step = "open"
    BY <1>3 DEF Insert, Shape, TypeOK, Record
<1>5. TypeOK'
    BY <1>4 DEF Insert, Shape, TypeOK
<1>6. InTable'
    BY <1>4 DEF Insert, Shape, InTable, Alive, Tables, Counted
<1>7. conn[c] # NoConn
    BY DEF Insert, Shape, InTable, Tables, Alive, Counted, NoConn
<1>8. Unused'
    BY <1>4, <1>7 DEF Insert, Shape, Unused
<1>9. OneDial'
    BY <1>4 DEF Insert, Shape, OneDial, InTable, Alive, Counted
<1>10. conn[c].m_state \in Nat
    BY DEF Shape, TypeOK, Record
<1>11. Begun'
    BY <1>4, <1>10 DEF Insert, Shape, TypeOK, Begun, InTable, Alive, Counted, OneDial
<1>12. Fits'
    BY <1>4
       DEF Insert, Shape, OneDial, Counted, Begun, Fits, Owned, Once, NotDialed, Marked,
           Held
<1> QED
    BY <1>5, <1>6, <1>8, <1>9, <1>11, <1>12 DEF Shape

\* VerifySent keeps the invariant.
LEMMA VerifySentKeeps == ASSUME IInv, NEW c \in Conn, VerifySent(c) PROVE IInv'
<1> USE DEF IInv
<1>1. conn \in [Conn -> Record] /\ conn[c] \in Record
    BY DEF Shape, TypeOK
<1>2. [conn[c] EXCEPT !.back = "none", !.m_state = 4] \in Record
    BY <1>1 DEF Record
<1>3. conn' \in [Conn -> Record]
    BY <1>1, <1>2 DEF VerifySent
<1>4. /\ conn' \in [Conn -> Record]
      /\ \A d \in Conn \ {c} : conn'[d] = conn[d]
      /\ conn'[c].kind = conn[c].kind
      /\ conn'[c].addr = conn[c].addr
      /\ conn'[c].m_state = 4
      /\ conn'[c].back = "none"
      /\ conn'[c].for = conn[c].for
      /\ conn'[c].adding = conn[c].adding
      /\ conn'[c].step = conn[c].step
    BY <1>3 DEF VerifySent, Shape, TypeOK, Record
<1>5. TypeOK'
    BY <1>4 DEF VerifySent, Shape, TypeOK
<1>6. InTable'
    BY <1>4 DEF VerifySent, Shape, InTable, Alive, Tables, Counted
<1>7. conn[c] # NoConn
    BY DEF VerifySent, Shape, InTable, Tables, Alive, Counted, NoConn
<1>8. Unused'
    BY <1>4, <1>7 DEF VerifySent, Shape, Unused
<1>9. OneDial'
    BY <1>4 DEF VerifySent, Shape, OneDial, InTable, Alive, Counted
<1>10. Begun'
    BY <1>4 DEF VerifySent, Shape, TypeOK, Begun, InTable, Alive, Counted
<1>11. Fits'
    BY <1>4
       DEF VerifySent, Shape, OneDial, Counted, Begun, Fits, Owned, Once, NotDialed,
           Marked, Held
<1> QED
    BY <1>5, <1>6, <1>8, <1>9, <1>10, <1>11 DEF Shape

\* ConnectBackFails keeps the invariant.
LEMMA ConnectBackFailsKeeps == ASSUME IInv, NEW c \in Conn, ConnectBackFails(c) PROVE IInv'
<1> USE DEF IInv
<1>1. conn \in [Conn -> Record] /\ conn[c] \in Record
    BY DEF Shape, TypeOK
<1>2. Closed([conn[c] EXCEPT !.back = "failed"]) \in Record
    BY <1>1 DEF Record, Closed
<1>3. conn' \in [Conn -> Record]
    BY <1>1, <1>2 DEF ConnectBackFails
<1>4. /\ conn' \in [Conn -> Record]
      /\ \A d \in Conn \ {c} : conn'[d] = conn[d]
      /\ conn'[c].kind = conn[c].kind
      /\ conn'[c].addr = conn[c].addr
      /\ conn'[c].m_state = conn[c].m_state
      /\ conn'[c].back = "failed"
      /\ conn'[c].for = conn[c].for
      /\ conn'[c].adding = conn[c].adding
      /\ conn'[c].step \in {conn[c].step, "closing"}
      /\ (conn'[c].step # conn[c].step => conn[c].step = "open")
    BY <1>3 DEF ConnectBackFails, Shape, TypeOK, Record, Closed
<1>5. TypeOK'
    BY <1>4 DEF ConnectBackFails, Shape, TypeOK
<1>6. InTable'
    BY <1>4 DEF ConnectBackFails, Shape, InTable, Alive, Tables, Counted
<1>7. conn[c] # NoConn
    BY DEF ConnectBackFails, Shape, InTable, Tables, Alive, Counted, NoConn
<1>8. Unused'
    BY <1>4, <1>7 DEF ConnectBackFails, Shape, Unused
<1>9. OneDial'
    BY <1>4 DEF ConnectBackFails, Shape, OneDial, InTable, Alive, Counted
<1>10. Begun'
    BY <1>4 DEF ConnectBackFails, Shape, TypeOK, Begun, InTable, Alive, Counted
<1>11. Fits'
    BY <1>4
       DEF ConnectBackFails, Shape, OneDial, Counted, Begun, Fits, Owned, Once, NotDialed,
           Marked, Held
<1> QED
    BY <1>5, <1>6, <1>8, <1>9, <1>10, <1>11 DEF Shape

\* BackFailed keeps the invariant.
LEMMA BackFailedKeeps == ASSUME IInv, NEW c \in Conn, BackFailed(c) PROVE IInv'
<1> USE DEF IInv
<1>1. conn' \in [Conn -> Record]
    BY DEF BackFailed, Shape, TypeOK, Record
<1>2. /\ conn' \in [Conn -> Record]
      /\ \A d \in Conn \ {c} : conn'[d] = conn[d]
      /\ conn'[c].kind = conn[c].kind
      /\ conn'[c].addr = conn[c].addr
      /\ conn'[c].m_state = conn[c].m_state
      /\ conn'[c].back = "none"
      /\ conn'[c].for = conn[c].for
      /\ conn'[c].adding = conn[c].adding
      /\ conn'[c].step = conn[c].step
    BY <1>1 DEF BackFailed, Shape, TypeOK, Record
<1>3. TypeOK'
    BY <1>2 DEF BackFailed, Shape, TypeOK
<1>4. InTable'
    BY <1>2 DEF BackFailed, Shape, InTable, Alive, Tables, Counted
<1>5. conn[c] # NoConn
    BY DEF BackFailed, Shape, InTable, Tables, Alive, Counted, NoConn
<1>6. Unused'
    BY <1>2, <1>5 DEF BackFailed, Shape, Unused
<1>7. OneDial'
    BY <1>2 DEF BackFailed, Shape, OneDial, InTable, Alive, Counted
<1>8. Begun'
    BY <1>2 DEF BackFailed, Shape, TypeOK, Begun, InTable, Alive, Counted
<1>9. Fits'
    BY <1>2
       DEF BackFailed, Shape, OneDial, Counted, Begun, Fits, Owned, Once, NotDialed,
           Marked, Held
<1> QED
    BY <1>3, <1>4, <1>6, <1>7, <1>8, <1>9 DEF Shape

\* RegVerifyRsp keeps the invariant.
LEMMA RegVerifyRspKeeps == ASSUME IInv, NEW v \in Conn, RegVerifyRsp(v) PROVE IInv'
<1> USE DEF IInv
<1>1. conn \in [Conn -> Record] /\ conn[v] \in Record
    BY DEF Shape, TypeOK
<1>2. Closed(conn[v]) \in Record /\ Closed([conn[v] EXCEPT !.adding = TRUE]) \in Record
    BY <1>1 DEF Record, Closed, Close
<1>3. conn' \in [Conn -> Record]
    BY <1>1, <1>2 DEF RegVerifyRsp, Close
<1>4. /\ conn' \in [Conn -> Record]
      /\ \A d \in Conn \ {v} : conn'[d] = conn[d]
      /\ conn'[v].kind = conn[v].kind
      /\ conn'[v].addr = conn[v].addr
      /\ conn'[v].m_state = conn[v].m_state
      /\ conn'[v].back = conn[v].back
      /\ conn'[v].for = conn[v].for
      /\ conn'[v].adding \in {conn[v].adding, TRUE}
      /\ conn'[v].step \in {conn[v].step, "closing"}
      /\ (conn'[v].step # conn[v].step => conn[v].step = "open")
    <2>1. CASE conn' = [conn EXCEPT ![v] = Closed(conn[v])]
        BY <1>1, <1>3, <2>1 DEF Record, Closed
    <2>2. CASE conn' = [conn EXCEPT ![v] = Closed([conn[v] EXCEPT !.adding = TRUE])]
        BY <1>1, <1>3, <2>2 DEF Record, Closed
    <2> QED
        BY <2>1, <2>2 DEF RegVerifyRsp, Close
<1>5. TypeOK'
    BY <1>4 DEF RegVerifyRsp, Shape, TypeOK
<1>6. InTable'
    BY <1>4 DEF RegVerifyRsp, Shape, InTable, Alive, Tables, Counted
<1>7. conn[v] # NoConn
    BY DEF RegVerifyRsp, Shape, InTable, Tables, Alive, Counted, NoConn
<1>8. Unused'
    BY <1>4, <1>7 DEF RegVerifyRsp, Shape, Unused
<1>9. OneDial'
    BY <1>4 DEF RegVerifyRsp, Shape, OneDial, InTable, Alive, Counted
<1>10. Begun'
    BY <1>4 DEF RegVerifyRsp, Shape, TypeOK, Begun, InTable, Alive, Counted
<1>11. Fits'
    BY <1>4
       DEF RegVerifyRsp, Shape, OneDial, Counted, Begun, Fits, Owned, Once, NotDialed,
           Marked, Held
<1> QED
    BY <1>5, <1>6, <1>8, <1>9, <1>10, <1>11 DEF Shape

\* AddScore keeps the invariant.
LEMMA AddScoreKeeps == ASSUME IInv, NEW v \in Conn, AddScore(v) PROVE IInv'
<1> USE DEF IInv
<1>1. conn \in [Conn -> Record] /\ conn[v] \in Record
    BY DEF Shape, TypeOK
<1>2. [conn[v] EXCEPT !.adding = FALSE] \in Record
    BY <1>1 DEF Record
<1>3. conn' \in [Conn -> Record]
    BY <1>1, <1>2 DEF AddScore
<1>4. /\ conn' \in [Conn -> Record]
      /\ \A d \in Conn \ {v} : conn'[d] = conn[d]
      /\ conn'[v].kind = conn[v].kind
      /\ conn'[v].addr = conn[v].addr
      /\ conn'[v].m_state = conn[v].m_state
      /\ conn'[v].back = conn[v].back
      /\ conn'[v].for = conn[v].for
      /\ conn'[v].adding = FALSE
      /\ conn'[v].step = conn[v].step
    BY <1>3 DEF AddScore, Shape, TypeOK, Record
<1>5. TypeOK'
    BY <1>4 DEF AddScore, Shape, TypeOK, Begun
<1>6. InTable'
    BY <1>4 DEF AddScore, Shape, InTable, Alive, Tables, Counted
<1>7. conn[v] # NoConn
    BY DEF AddScore, Shape, InTable, Tables, Alive, Counted, NoConn
<1>8. Unused'
    BY <1>4, <1>7 DEF AddScore, Shape, Unused
<1>9. OneDial'
    BY <1>4 DEF AddScore, Shape, OneDial, InTable, Alive, Counted
<1>10. Begun'
    BY <1>4 DEF AddScore, Shape, TypeOK, Begun, InTable, Alive, Counted
<1>11. Fits'
    BY <1>4
       DEF AddScore, Shape, OneDial, Counted, Begun, Fits, Owned, Once, NotDialed, Marked,
           Held
<1> QED
    BY <1>5, <1>6, <1>8, <1>9, <1>10, <1>11 DEF Shape

\* RegRsp keeps the invariant.
LEMMA RegRspKeeps == ASSUME IInv, NEW c \in Conn, RegRsp(c) PROVE IInv'
<1> USE DEF IInv
<1>1. conn' \in [Conn -> Record]
    BY DEF RegRsp, Shape, TypeOK, Record
<1>2. /\ conn' \in [Conn -> Record]
      /\ \A d \in Conn \ {c} : conn'[d] = conn[d]
      /\ conn'[c].kind = conn[c].kind
      /\ conn'[c].addr = conn[c].addr
      /\ conn'[c].m_state = 3
      /\ conn'[c].back = conn[c].back
      /\ conn'[c].for = conn[c].for
      /\ conn'[c].adding = conn[c].adding
      /\ conn'[c].step = conn[c].step
    BY <1>1 DEF RegRsp, Shape, TypeOK, Record
<1>3. TypeOK'
    BY <1>2 DEF RegRsp, Shape, TypeOK
<1>4. InTable'
    BY <1>2 DEF RegRsp, Shape, InTable, Alive, Tables, Counted
<1>5. conn[c] # NoConn
    BY DEF RegRsp, Shape, InTable, Tables, Alive, Counted, NoConn
<1>6. Unused'
    BY <1>2, <1>5 DEF RegRsp, Shape, Unused
<1>7. OneDial'
    BY <1>2 DEF RegRsp, Shape, OneDial, InTable, Alive, Counted
<1>8. Begun'
    BY <1>2 DEF RegRsp, Shape, TypeOK, Begun, InTable, Alive, Counted
<1>9. Fits'
    BY <1>2
       DEF RegRsp, Shape, OneDial, Counted, Begun, Fits, Owned, Once, NotDialed, Marked,
           Held
<1> QED
    BY <1>3, <1>4, <1>6, <1>7, <1>8, <1>9 DEF Shape

\* StartClose keeps the invariant.
LEMMA StartCloseKeeps == ASSUME IInv, NEW c \in Conn, StartClose(c) PROVE IInv'
<1> USE DEF IInv
<1>1. conn' \in [Conn -> Record]
    BY DEF StartClose, Shape, TypeOK, Record, Closed, Close
<1>2. /\ conn' \in [Conn -> Record]
      /\ \A d \in Conn \ {c} : conn'[d] = conn[d]
      /\ conn'[c].kind = conn[c].kind
      /\ conn'[c].addr = conn[c].addr
      /\ conn'[c].m_state = conn[c].m_state
      /\ conn'[c].back = conn[c].back
      /\ conn'[c].for = conn[c].for
      /\ conn'[c].adding = conn[c].adding
      /\ conn'[c].step \in {conn[c].step, "closing"}
      /\ (conn'[c].step # conn[c].step => conn[c].step = "open")
    BY <1>1 DEF StartClose, Shape, TypeOK, Record, Closed, Close
<1>3. TypeOK'
    BY <1>2 DEF StartClose, Shape, TypeOK
<1>4. InTable'
    BY <1>2 DEF StartClose, Shape, InTable, Alive, Tables, Counted
<1>5. conn[c] # NoConn
    BY DEF StartClose, Shape, InTable, Tables, Alive, Counted, NoConn
<1>6. Unused'
    BY <1>2, <1>5 DEF StartClose, Shape, Unused
<1>7. OneDial'
    BY <1>2 DEF StartClose, Shape, OneDial, InTable, Alive, Counted
<1>8. Begun'
    BY <1>2 DEF StartClose, Shape, TypeOK, Begun, InTable, Alive, Counted
<1>9. Fits'
    BY <1>2
       DEF StartClose, Shape, OneDial, Counted, Begun, Fits, Owned, Once, NotDialed,
           Marked, Held
<1> QED
    BY <1>3, <1>4, <1>6, <1>7, <1>8, <1>9 DEF Shape

\* LeaveTables keeps the invariant.
LEMMA LeaveTablesKeeps == ASSUME IInv, NEW c \in Conn, LeaveTables(c) PROVE IInv'
<1> USE DEF IInv
<1>1. conn' \in [Conn -> Record]
    BY DEF LeaveTables, Shape, TypeOK, Record
<1>2. /\ conn' \in [Conn -> Record]
      /\ \A d \in Conn \ {c} : conn'[d] = conn[d]
      /\ conn'[c].kind = conn[c].kind
      /\ conn'[c].addr = conn[c].addr
      /\ conn'[c].m_state = conn[c].m_state
      /\ conn'[c].back = conn[c].back
      /\ conn'[c].for = conn[c].for
      /\ conn'[c].adding = conn[c].adding
      /\ conn'[c].step = IF c \in m_unreg_peers /\ conn[c].m_state = 0
                         THEN "gone" ELSE "leaving"
    BY <1>1 DEF LeaveTables, Shape, TypeOK, Record
<1>3. TypeOK'
    BY <1>2 DEF LeaveTables, Shape, TypeOK
<1>4. InTable'
    BY <1>2 DEF LeaveTables, Shape, InTable, Alive, Tables, Counted
<1>5. conn[c] # NoConn
    BY DEF LeaveTables, Shape, InTable, Tables, Alive, Counted, NoConn
<1>6. Unused'
    BY <1>2, <1>5 DEF LeaveTables, Shape, Unused
<1>7. OneDial'
    BY <1>2 DEF LeaveTables, Shape, OneDial, InTable, Alive, Counted
<1>8. conn[c].m_state \in Nat
    BY DEF Shape, TypeOK, Record
<1>9. Begun'
    BY <1>2, <1>8 DEF LeaveTables, Shape, TypeOK, Begun, InTable, Alive, Counted, Tables
<1>10. Fits'
    BY <1>2
       DEF LeaveTables, Shape, OneDial, Counted, Begun, Fits, Owned, Once, NotDialed,
           Marked, Held
<1> QED
    BY <1>3, <1>4, <1>6, <1>7, <1>9, <1>10 DEF Shape

\* GiveBack keeps the invariant.
LEMMA GiveBackKeeps == ASSUME IInv, NEW c \in Conn, GiveBack(c) PROVE IInv'
<1> USE DEF IInv
<1>1. conn' \in [Conn -> Record]
    BY DEF GiveBack, Shape, TypeOK, Record
<1>2. /\ conn' \in [Conn -> Record]
      /\ \A d \in Conn \ {c} : conn'[d] = conn[d]
      /\ conn'[c].kind = conn[c].kind
      /\ conn'[c].addr = conn[c].addr
      /\ conn'[c].m_state = conn[c].m_state
      /\ conn'[c].back = conn[c].back
      /\ conn'[c].for = conn[c].for
      /\ conn'[c].adding = conn[c].adding
      /\ conn'[c].step = "gone"
    BY <1>1 DEF GiveBack, Shape, TypeOK, Record
<1>3. TypeOK'
    BY <1>2 DEF GiveBack, Shape, TypeOK
<1>4. InTable'
    BY <1>2 DEF GiveBack, Shape, InTable, Alive, Tables, Counted
<1>5. conn[c] # NoConn
    BY DEF GiveBack, Shape, InTable, Tables, Alive, Counted, NoConn
<1>6. Unused'
    BY <1>2, <1>5 DEF GiveBack, Shape, Unused
<1>7. OneDial'
    BY <1>2 DEF GiveBack, Shape, OneDial, InTable, Alive, Counted
<1>8. Begun'
    BY <1>2 DEF GiveBack, Shape, TypeOK, Begun, InTable, Alive, Counted
<1>9. Fits'
    BY <1>2
       DEF GiveBack, Shape, OneDial, Counted, Begun, Fits, Owned, Once, NotDialed, Marked,
           Held
<1> QED
    BY <1>3, <1>4, <1>6, <1>7, <1>8, <1>9 DEF Shape

\* PunishPeer keeps the invariant.
LEMMA PunishPeerKeeps == ASSUME IInv, NEW c \in Conn, PunishPeer(c) PROVE IInv'
<1> USE DEF IInv
<1>1. conn' \in [Conn -> Record]
    BY DEF PunishPeer, Shape, TypeOK, Record, Closed, Close
<1>2. /\ conn' \in [Conn -> Record]
      /\ \A d \in Conn \ {c} : conn'[d] = conn[d]
      /\ conn'[c].kind = conn[c].kind
      /\ conn'[c].addr = conn[c].addr
      /\ conn'[c].m_state = conn[c].m_state
      /\ conn'[c].back = conn[c].back
      /\ conn'[c].for = conn[c].for
      /\ conn'[c].adding = conn[c].adding
      /\ conn'[c].step \in {conn[c].step, "closing"}
      /\ (conn'[c].step # conn[c].step => conn[c].step = "open")
    BY <1>1 DEF PunishPeer, Shape, TypeOK, Record, Closed, Close
<1>3. TypeOK'
    BY <1>2 DEF PunishPeer, Shape, TypeOK
<1>4. InTable'
    BY <1>2 DEF PunishPeer, Shape, InTable, Alive, Tables, Counted
<1>5. conn[c] # NoConn
    BY DEF PunishPeer, Shape, InTable, Tables, Alive, Counted, NoConn
<1>6. Unused'
    BY <1>2, <1>5 DEF PunishPeer, Shape, Unused
<1>7. OneDial'
    BY <1>2 DEF PunishPeer, Shape, OneDial, InTable, Alive, Counted
<1>8. Begun'
    BY <1>2 DEF PunishPeer, Shape, TypeOK, Begun, InTable, Alive, Counted
<1>9. Fits'
    BY <1>2
       DEF PunishPeer, Shape, OneDial, Counted, Begun, Fits, Owned, Once, NotDialed,
           Marked, Held
<1> QED
    BY <1>3, <1>4, <1>6, <1>7, <1>8, <1>9 DEF Shape

\* ConnectFails keeps the invariant.
LEMMA ConnectFailsKeeps == ASSUME IInv, ConnectFails PROVE IInv'
<1> USE PeerRegAssumption DEF IInv
<1>1. conn' = conn
    BY DEF ConnectFails
<1>2. TypeOK'
    BY <1>1 DEF ConnectFails, Shape, TypeOK
<1>3. InTable'
    BY <1>1 DEF ConnectFails, Shape, InTable, Alive, Tables, Counted
<1>4. Unused'
    BY <1>1 DEF ConnectFails, Shape, Unused
<1>5. OneDial'
    BY <1>1 DEF ConnectFails, Shape, OneDial, InTable, Alive, Counted
<1>6. Begun'
    BY <1>1 DEF ConnectFails, Shape, TypeOK, Begun, InTable, Alive, Counted
<1>7. Fits'
    BY <1>1
       DEF ConnectFails, Shape, OneDial, Counted, Begun, Fits, Owned, Once, NotDialed,
           Marked, Held
<1> QED
    BY <1>2, <1>3, <1>4, <1>5, <1>6, <1>7 DEF Shape

\* ConnectProc keeps the invariant.
LEMMA ConnectProcKeeps == ASSUME IInv, NEW x \in Addr, ConnectProc(x) PROVE IInv'
<1> USE PeerRegAssumption DEF IInv
<1>1. conn' = conn
    BY DEF ConnectProc
<1>2. TypeOK'
    BY <1>1 DEF ConnectProc, Shape, TypeOK, Take
<1>3. InTable'
    BY <1>1 DEF ConnectProc, Shape, InTable, Alive, Tables, Counted, Take
<1>4. Unused'
    BY <1>1 DEF ConnectProc, Shape, Unused, Take
<1>5. OneDial'
    BY <1>1 DEF ConnectProc, Shape, OneDial, InTable, Alive, Counted, Take
<1>6. Begun'
    BY <1>1 DEF ConnectProc, Shape, TypeOK, Begun, InTable, Alive, Counted, Take
<1>7. Fits'
    <2>1. Owned'
        BY <1>1
           DEF ConnectProc, Take, Shape, TypeOK, Fits, Owned, Once, NotDialed, Marked, Held
    <2>2. Once'
        BY <1>1
           DEF ConnectProc, Take, Shape, TypeOK, Fits, Owned, Once, NotDialed, Marked, Held
    <2>3. NotDialed'
        BY <1>1
           DEF ConnectProc, Take, Shape, TypeOK, Fits, Owned, Once, NotDialed, Marked, Held
    <2>4. Marked'
        BY <1>1
           DEF ConnectProc, Take, Shape, TypeOK, Fits, Owned, Once, NotDialed, Marked, Held
    <2> QED
        BY <2>1, <2>2, <2>3, <2>4 DEF Fits
<1> QED
    BY <1>2, <1>3, <1>4, <1>5, <1>6, <1>7 DEF Shape

\* Learn keeps the invariant.
LEMMA LearnKeeps == ASSUME IInv, NEW x \in Addr, Learn(x) PROVE IInv'
<1> USE DEF IInv
<1>1. conn' = conn
    BY DEF Learn
<1>2. TypeOK'
    BY <1>1 DEF Learn, Shape, TypeOK
<1>3. InTable'
    BY <1>1 DEF Learn, Shape, InTable, Alive, Tables, Counted
<1>4. Unused'
    BY <1>1 DEF Learn, Shape, Unused
<1>5. OneDial'
    BY <1>1 DEF Learn, Shape, OneDial, InTable, Alive, Counted
<1>6. Begun'
    BY <1>1 DEF Learn, Shape, TypeOK, Begun, InTable, Alive, Counted
<1>7. Fits'
    BY <1>1
       DEF Learn, Shape, OneDial, Counted, Begun, Fits, Owned, Once, NotDialed, Marked, Held
<1> QED
    BY <1>2, <1>3, <1>4, <1>5, <1>6, <1>7 DEF Shape

\* Unban keeps the invariant.
LEMMA UnbanKeeps == ASSUME IInv, NEW x \in Addr, Unban(x) PROVE IInv'
<1> USE DEF IInv
<1>1. conn' = conn
    BY DEF Unban
<1>2. TypeOK'
    BY <1>1 DEF Unban, Shape, TypeOK
<1>3. InTable'
    BY <1>1 DEF Unban, Shape, InTable, Alive, Tables, Counted
<1>4. Unused'
    BY <1>1 DEF Unban, Shape, Unused
<1>5. OneDial'
    BY <1>1 DEF Unban, Shape, OneDial, InTable, Alive, Counted
<1>6. Begun'
    BY <1>1 DEF Unban, Shape, TypeOK, Begun, InTable, Alive, Counted
<1>7. Fits'
    BY <1>1
       DEF Unban, Shape, OneDial, Counted, Begun, Fits, Owned, Once, NotDialed, Marked, Held
<1> QED
    BY <1>2, <1>3, <1>4, <1>5, <1>6, <1>7 DEF Shape

\* A connection that is counted holds nothing yet.
LEMMA CountKeeps ==
    ASSUME IInv, NEW c \in Conn, NEW r \in Record, Count(c, r),
           r.m_state = 0, r.back = "none", ~r.adding,
           r.kind = "active" => /\ r.addr = dialing /\ dialing # None
                                /\ \A d \in Counted : conn[d].kind # "active",
           r.kind = "verify" => r.for \in Conn /\ conn[r.for].m_state > 0,
           UNCHANGED <<m_unreg_peers, m_peers, taken, dialing, stranded, loose>>
    PROVE  IInv'
<1> USE DEF IInv
<1> DEFINE crowd(d) == [conn[d] EXCEPT !.crowded = @ \/ d \in Counted]
           new == [r EXCEPT !.step = "counted", !.crowded = Counted # {}]
<1>1. conn \in [Conn -> Record] /\ next_id \in Nat
    BY DEF Shape, TypeOK
<1>2. c = next_id /\ next_id' = next_id + 1
    BY DEF Count
<1>3. conn[c] = NoConn
    BY <1>1, <1>2 DEF Shape, Unused, Conn
<1>4. new \in Record /\ \A d \in Conn : crowd(d) \in Record
    BY <1>1 DEF Record
<1>5. conn' = [d \in Conn |-> IF d = c THEN new ELSE crowd(d)]
    BY DEF Count
<1>6. conn' \in [Conn -> Record]
    BY <1>4, <1>5
<1>7. conn'[c] = new /\ \A d \in Conn \ {c} : conn'[d] = crowd(d)
    BY <1>5
<1>8. /\ conn'[c].step = "counted" /\ conn'[c].kind = r.kind /\ conn'[c].addr = r.addr
      /\ conn'[c].m_state = 0 /\ conn'[c].back = "none" /\ conn'[c].for = r.for
      /\ ~conn'[c].adding
    BY <1>7 DEF Record
<1>9. \A d \in Conn \ {c} :
          /\ conn'[d].step = conn[d].step /\ conn'[d].kind = conn[d].kind
          /\ conn'[d].addr = conn[d].addr /\ conn'[d].m_state = conn[d].m_state
          /\ conn'[d].back = conn[d].back /\ conn'[d].for = conn[d].for
          /\ conn'[d].adding = conn[d].adding
    <2> SUFFICES ASSUME NEW d \in Conn \ {c}
                 PROVE  /\ conn'[d].step = conn[d].step /\ conn'[d].kind = conn[d].kind
                        /\ conn'[d].addr = conn[d].addr
                        /\ conn'[d].m_state = conn[d].m_state
                        /\ conn'[d].back = conn[d].back /\ conn'[d].for = conn[d].for
                        /\ conn'[d].adding = conn[d].adding
        OBVIOUS
    <2>1. conn[d] \in Record /\ conn'[d] = crowd(d)
        BY <1>1, <1>7
    <2> QED
        BY <2>1 DEF Record
<1>10. conn[c].step = "none" /\ conn[c].m_state = 0 /\ conn[c].back = "none"
    BY <1>3 DEF NoConn
<1> HIDE DEF crowd, new
<1>11. TypeOK'
    BY <1>1, <1>2, <1>6 DEF Shape, TypeOK
<1>12. InTable'
    BY <1>8, <1>9, <1>10 DEF Shape, InTable, Alive, Tables
<1>13. Unused'
    <2> SUFFICES ASSUME NEW d \in Conn, d >= next_id' PROVE conn'[d] = NoConn
        BY DEF Unused
    <2>1. d # c /\ d >= next_id
        BY <1>1, <1>2 DEF Conn
    <2>2. conn[d] = NoConn /\ conn'[d] = crowd(d)
        BY <1>7, <2>1 DEF Shape, Unused
    <2>3. d \notin Counted
        BY <2>2 DEF Counted, NoConn
    <2>4. (NoConn.crowded \/ d \in Counted) = NoConn.crowded
        BY <2>3 DEF NoConn
    <2>5. conn'[d] = [NoConn EXCEPT !.crowded = NoConn.crowded]
        BY <2>2, <2>4 DEF crowd
    <2> QED
        BY <2>5 DEF NoConn
<1>14. OneDial'
    BY <1>8, <1>9 DEF Shape, OneDial, Counted
<1>15. Begun'
    <2>1. \A d \in Conn : conn[d].m_state > 0 => d # c /\ conn'[d].m_state > 0
        BY <1>9, <1>10
    <2>2. c \notin m_peers
        BY <1>10 DEF Shape, InTable, Alive, Tables
    <2> QED
        BY <1>8, <1>9, <2>1, <2>2 DEF Shape, Begun
<1>16. Fits'
    <2>1. \A d \in Conn : Held(d)' <=> Held(d)
        BY <1>8, <1>9, <1>10 DEF Held
    <2>2. \A d \in Conn : Held(d) => conn'[d].addr = conn[d].addr
        BY <1>9, <1>10 DEF Held
    <2>3. UNCHANGED <<taken, dialing, stranded, loose>>
        OBVIOUS
    <2> QED
        BY <2>1, <2>2, <2>3 DEF Fits, Owned, Once, NotDialed, Marked
<1> QED
    BY <1>11, <1>12, <1>13, <1>14, <1>15, <1>16 DEF Shape

\* Accept keeps the invariant.
LEMMA AcceptKeeps == ASSUME IInv, NEW c \in Conn, Accept(c) PROVE IInv'
<1> DEFINE r == [NoConn EXCEPT !.kind = "passive"]
<1>1. r \in Record /\ r.m_state = 0 /\ r.back = "none" /\ ~r.adding /\ r.kind = "passive"
    BY DEF NoConn, Record
<1>2. Count(c, r) /\ UNCHANGED <<m_unreg_peers, m_peers, taken, dialing, stranded, loose>>
    BY DEF Accept
<1> HIDE DEF r
<1> QED
    BY <1>1, <1>2, CountKeeps

\* Connect keeps the invariant.
LEMMA ConnectKeeps == ASSUME IInv, NEW c \in Conn, Connect(c) PROVE IInv'
<1> DEFINE r == [NoConn EXCEPT !.kind = "active", !.addr = dialing]
<1>1. dialing \in Addr \cup {None}
    BY DEF IInv, Shape, TypeOK
<1>2. /\ r \in Record /\ r.m_state = 0 /\ r.back = "none" /\ ~r.adding
      /\ r.kind = "active" /\ r.addr = dialing
    BY <1>1 DEF NoConn, Record
<1>3. /\ Count(c, r)
      /\ UNCHANGED <<m_unreg_peers, m_peers, taken, dialing, stranded, loose>>
      /\ dialing # None /\ \A d \in Counted : conn[d].kind # "active"
    BY DEF Connect
<1> HIDE DEF r
<1> QED
    BY <1>2, <1>3, CountKeeps

\* ConnectBack keeps the invariant.
LEMMA ConnectBackKeeps ==
    ASSUME IInv, NEW v \in Conn, NEW c \in Conn, ConnectBack(v, c) PROVE IInv'
<1> DEFINE r == [NoConn EXCEPT !.kind = "verify", !.for = c]
<1>1. /\ r \in Record /\ r.m_state = 0 /\ r.back = "none" /\ ~r.adding
      /\ r.kind = "verify" /\ r.for = c
    <2>1. c \in Nat
        BY PeerRegAssumption DEF Conn
    <2> QED
        BY <2>1 DEF NoConn, Record
<1>2. /\ Count(v, r)
      /\ UNCHANGED <<m_unreg_peers, m_peers, taken, dialing, stranded, loose>>
      /\ conn[c].back = "dial"
    BY DEF ConnectBack
<1>3. conn[c].m_state > 0
    BY <1>2 DEF IInv, Shape, Begun
<1> HIDE DEF r
<1> QED
    BY <1>1, <1>2, <1>3, CountKeeps

\* InsertVerify keeps the invariant.
LEMMA InsertVerifyKeeps == ASSUME IInv, NEW v \in Conn, InsertVerify(v) PROVE IInv'
<1> USE DEF IInv
<1> DEFINE c == conn[v].for
<1>1. conn \in [Conn -> Record] /\ conn[v] \in Record
    BY DEF Shape, TypeOK
<1>2. /\ conn[v].step = "counted" /\ conn[v].kind = "verify"
      /\ c \in Conn /\ conn[c].m_state > 0
    BY DEF InsertVerify, Counted, Shape, Begun
<1>3. conn[c].step \notin {"none", "counted"} /\ c # v
    BY <1>2 DEF Shape, Begun
<1>4. conn[v].m_state = 0
    BY <1>1, <1>2 DEF Shape, Begun, Record
<1>5. /\ conn' \in [Conn -> Record]
      /\ conn'[v].step = (IF c \in m_unreg_peers THEN "open" ELSE "gone")
      /\ conn'[v].kind = conn[v].kind /\ conn'[v].addr = conn[v].addr
      /\ conn'[v].m_state = conn[v].m_state /\ conn'[v].back = conn[v].back
      /\ conn'[v].for = conn[v].for /\ conn'[v].adding = conn[v].adding
      /\ conn'[c].step = conn[c].step
      /\ conn'[c].kind = conn[c].kind /\ conn'[c].addr = conn[c].addr
      /\ conn'[c].m_state = conn[c].m_state
      /\ conn'[c].for = conn[c].for /\ conn'[c].adding = conn[c].adding
      /\ \A d \in Conn \ {v, c} : conn'[d] = conn[d]
    <2> DEFINE f(s, b) == [conn EXCEPT ![v].step = s, ![c].back = b]
    <2>1. conn[c] \in Record
        BY <1>1, <1>2
    <2>2. ASSUME NEW s \in {"open", "gone"}, NEW b \in {"inserted", "failed"}
          PROVE  /\ f(s, b)[v] = [conn[v] EXCEPT !.step = s]
                 /\ f(s, b)[c] = [conn[c] EXCEPT !.back = b]
                 /\ \A d \in Conn \ {v, c} : f(s, b)[d] = conn[d]
                 /\ f(s, b) \in [Conn -> Record]
        <3>1. /\ [conn[v] EXCEPT !.step = s] \in Record
              /\ [conn[c] EXCEPT !.back = b] \in Record
            BY <1>1, <2>1 DEF Record
        <3> QED
            BY <1>1, <1>2, <1>3, <2>1, <3>1
    <2>3. conn' = IF c \in m_unreg_peers THEN f("open", "inserted") ELSE f("gone", "failed")
        BY DEF InsertVerify
    <2> HIDE DEF f, c
    <2>4. CASE c \in m_unreg_peers
        <3>1. conn' = f("open", "inserted")
            BY <2>3, <2>4
        <3> QED
            BY <1>1, <2>1, <2>2, <2>4, <3>1 DEF Record
    <2>5. CASE c \notin m_unreg_peers
        <3>1. conn' = f("gone", "failed")
            BY <2>3, <2>5
        <3> QED
            BY <1>1, <2>1, <2>2, <2>5, <3>1 DEF Record
    <2> QED
        BY <2>4, <2>5
<1>6. /\ m_unreg_peers' = IF c \in m_unreg_peers
                          THEN m_unreg_peers \cup {v} ELSE m_unreg_peers
      /\ UNCHANGED <<m_peers, next_id, taken, dialing, stranded, loose>>
    BY DEF InsertVerify
<1> HIDE DEF c
<1>7. TypeOK'
    BY <1>5, <1>6 DEF Shape, TypeOK
<1>8. InTable'
    BY <1>2, <1>5, <1>6 DEF Shape, InTable, Alive, Tables
<1>9. Unused'
    <2>1. conn[v] # NoConn /\ conn[c] # NoConn
        BY <1>2, <1>3 DEF NoConn
    <2> QED
        BY <1>5, <1>6, <2>1 DEF Shape, Unused
<1>10. OneDial'
    BY <1>2, <1>5, <1>6 DEF Shape, OneDial, Counted
<1>11. Begun'
    <2>1. \A d \in Conn : conn[d].m_state > 0 => conn'[d].m_state > 0
        BY <1>5
    <2>2. v \notin m_peers
        BY <1>2 DEF Shape, InTable, Alive, Tables
    <2> QED
        BY <1>2, <1>4, <1>5, <1>6, <2>1, <2>2 DEF Shape, Begun
<1>12. Fits'
    <2>1. \A d \in Conn : (Held(d)' <=> Held(d)) /\ conn'[d].addr = conn[d].addr
        BY <1>4, <1>5 DEF Held
    <2> QED
        BY <1>6, <2>1 DEF Fits, Owned, Once, NotDialed, Marked
<1> QED
    BY <1>7, <1>8, <1>9, <1>10, <1>11, <1>12 DEF Shape

\* RegReq keeps the invariant.
LEMMA RegReqKeeps ==
    ASSUME IInv, NEW c \in Conn, NEW x \in Addr, RegReq(c, x) PROVE IInv'
<1> USE DEF IInv
<1> DEFINE known == x \in m_peer_score_map
           refused == x \in m_banned_peers \/ (known /\ x \in taken)
           bad == Closed([conn[c] EXCEPT !.addr = x])
           good == [conn[c] EXCEPT !.addr = x, !.m_state = 2, !.back = "dial",
                                  !.scored = known]
<1>1. conn \in [Conn -> Record] /\ conn[c] \in Record
    BY DEF Shape, TypeOK
<1>2. bad \in Record /\ good \in Record
    <2>1. [conn[c] EXCEPT !.addr = x] \in Record
        BY <1>1 DEF Record
    <2>2. bad \in Record
        BY <2>1 DEF Record, Closed
    <2>3. known \in BOOLEAN
        OBVIOUS
    <2> HIDE DEF known
    <2>4. good \in Record
        BY <1>1, <2>3 DEF Record
    <2> QED
        BY <2>2, <2>4
<1>3. /\ c \in m_unreg_peers /\ conn[c].m_state = 0 /\ conn[c].step \in {"open", "closing"}
      /\ conn[c].kind = "passive"
    BY DEF RegReq, Alive
<1>4. /\ bad.kind = conn[c].kind /\ bad.addr = x /\ bad.m_state = 0
      /\ bad.back = conn[c].back /\ bad.for = conn[c].for /\ bad.adding = conn[c].adding
      /\ bad.step \in {"open", "closing"}
    BY <1>1, <1>3 DEF Record, Closed
<1>5. /\ good.kind = conn[c].kind /\ good.addr = x /\ good.m_state = 2
      /\ good.back = "dial" /\ good.for = conn[c].for /\ good.adding = conn[c].adding
      /\ good.step = conn[c].step
    BY <1>1 DEF Record
<1>6. /\ conn' = [conn EXCEPT ![c] = IF refused THEN bad ELSE good]
      /\ ~refused /\ known => x \notin taken /\ taken' = taken \cup {x} /\ loose' = loose
      /\ ~refused /\ ~known => taken' = taken /\ loose' = loose \cup {x}
      /\ refused => taken' = taken /\ loose' = loose
      /\ UNCHANGED <<m_unreg_peers, m_peers, next_id, dialing, stranded>>
    BY DEF RegReq, Take
<1> HIDE DEF known, refused, bad, good
<1>7. /\ conn' \in [Conn -> Record] /\ conn'[c] = IF refused THEN bad ELSE good
      /\ \A d \in Conn \ {c} : conn'[d] = conn[d]
    BY <1>1, <1>2, <1>6
<1>8. TypeOK'
    BY <1>6, <1>7 DEF Shape, TypeOK
<1>9. InTable'
    BY <1>3, <1>4, <1>5, <1>6, <1>7 DEF Shape, InTable, Alive, Tables
<1>10. Unused'
    <2>1. conn[c] # NoConn
        BY <1>3 DEF NoConn
    <2> QED
        BY <1>6, <1>7, <2>1 DEF Shape, Unused
<1>11. OneDial'
    BY <1>3, <1>4, <1>5, <1>6, <1>7 DEF Shape, OneDial, Counted
<1>12. Begun'
    <2>1. \A d \in Conn : conn[d].m_state > 0 => d # c /\ conn'[d].m_state > 0
        BY <1>3, <1>7
    <2>2. CASE refused
        BY <1>3, <1>4, <1>6, <1>7, <2>1, <2>2 DEF Shape, Begun
    <2>3. CASE ~refused
        BY <1>3, <1>5, <1>6, <1>7, <2>1, <2>3 DEF Shape, Begun
    <2> QED
        BY <2>2, <2>3
<1>13. Fits'
    <2>1. ~Held(c) /\ \A d \in Conn \ {c} : Held(d)' <=> Held(d)
        BY <1>3, <1>7 DEF Held
    <2>2. CASE refused
        <3>1. ~Held(c)'
            BY <1>4, <1>7, <2>2 DEF Held
        <3> QED
            BY <1>6, <1>7, <2>1, <2>2, <3>1 DEF Fits, Owned, Once, NotDialed, Marked
    <2>3. CASE ~refused
        <3>1. Held(c)' /\ conn'[c].addr = x
            BY <1>3, <1>5, <1>7, <2>3 DEF Held
        <3>2. Owned'
            BY <1>6, <1>7, <2>1, <2>3, <3>1 DEF Fits, Owned
        <3>3. Once' /\ NotDialed' /\ Marked'
            BY <1>6, <1>7, <2>1, <2>3, <3>1 DEF Fits, Once, NotDialed, Marked
        <3> QED
            BY <3>2, <3>3 DEF Fits
    <2> QED
        BY <2>2, <2>3
<1> QED
    BY <1>8, <1>9, <1>10, <1>11, <1>12, <1>13 DEF Shape

\* RegVerifyReq keeps the invariant.
LEMMA RegVerifyReqKeeps ==
    ASSUME IInv, NEW v \in Conn, NEW c \in Conn, RegVerifyReq(v, c) PROVE IInv'
<1> USE DEF IInv
<1>1. conn \in [Conn -> Record] /\ conn[v] \in Record /\ conn[c] \in Record
    BY DEF Shape, TypeOK
<1>2. /\ v \in m_unreg_peers /\ conn[v].step \in {"open", "closing"} /\ v # c
      /\ conn[c].kind = "active" /\ conn[v].kind = "passive"
    BY DEF RegVerifyReq, Alive
<1>3. Closed(conn[v]) \in Record /\ Closed(conn[c]) \in Record
    BY <1>1 DEF Record, Closed
<1>4. ASSUME NEW d \in {v, c}
      PROVE  /\ Closed(conn[d]).kind = conn[d].kind /\ Closed(conn[d]).addr = conn[d].addr
             /\ Closed(conn[d]).m_state = conn[d].m_state
             /\ Closed(conn[d]).back = conn[d].back /\ Closed(conn[d]).for = conn[d].for
             /\ Closed(conn[d]).adding = conn[d].adding
             /\ Closed(conn[d]).step =
                    IF conn[d].step = "open" THEN "closing" ELSE conn[d].step
    BY <1>1 DEF Record, Closed
<1>5. /\ conn' \in [Conn -> Record]
      /\ \A d \in Conn :
            /\ conn'[d].kind = conn[d].kind /\ conn'[d].addr = conn[d].addr
            /\ conn'[d].m_state = conn[d].m_state /\ conn'[d].back = conn[d].back
            /\ conn'[d].for = conn[d].for /\ conn'[d].adding = conn[d].adding
            /\ \/ conn'[d].step = conn[d].step
               \/ conn[d].step = "open" /\ conn'[d].step = "closing"
      /\ \A d \in Conn \ {v, c} : conn'[d] = conn[d]
    <2>1. CASE conn' = Close(v)
        BY <1>1, <1>3, <1>4, <2>1 DEF Close
    <2>2. CASE conn' = [conn EXCEPT ![v] = Closed(@), ![c] = Closed(@)]
        BY <1>1, <1>2, <1>3, <1>4, <2>2
    <2>3. CASE conn' = conn
        BY <1>1, <2>3
    <2>4. \/ conn' = Close(v) \/ conn' = conn
          \/ conn' = [conn EXCEPT ![v] = Closed(@), ![c] = Closed(@)]
        BY DEF RegVerifyReq
    <2> QED
        BY <2>1, <2>2, <2>3, <2>4
<1>6. /\ \/ UNCHANGED <<m_unreg_peers, m_peers>>
         \/ /\ c \in m_unreg_peers /\ conn[c].m_state = 3
            /\ m_unreg_peers' = m_unreg_peers \ {c} /\ m_peers' = m_peers \cup {c}
      /\ conn[c].step # "none" \/ conn' = conn \/ conn' = Close(v)
      /\ UNCHANGED <<next_id, taken, dialing, stranded, loose>>
    BY DEF RegVerifyReq, Shape, InTable, Alive, Tables
<1>7. TypeOK'
    BY <1>5, <1>6 DEF Shape, TypeOK
<1>8. InTable'
    BY <1>5, <1>6 DEF Shape, InTable, Alive, Tables
<1>9. Unused'
    <2>1. \A d \in Conn : conn[d].step = "none" => conn'[d] = conn[d]
        <3>1. conn[v].step # "none"
            BY <1>2
        <3>2. conn' = Close(v) => \A d \in Conn \ {v} : conn'[d] = conn[d]
            BY <1>1 DEF Close
        <3> QED
            BY <1>5, <1>6, <3>1, <3>2
    <2>2. NoConn.step = "none"
        BY DEF NoConn
    <2> QED
        BY <1>6, <2>1, <2>2 DEF Shape, Unused
<1>10. OneDial'
    BY <1>5, <1>6 DEF Shape, OneDial, Counted
<1>11. Begun'
    BY <1>5, <1>6 DEF Shape, Begun
<1>12. Fits'
    <2>1. \A d \in Conn : (Held(d)' <=> Held(d)) /\ conn'[d].addr = conn[d].addr
        BY <1>5 DEF Held
    <2> QED
        BY <1>6, <2>1 DEF Fits, Owned, Once, NotDialed, Marked
<1> QED
    BY <1>7, <1>8, <1>9, <1>10, <1>11, <1>12 DEF Shape

-----------------------------------------------------------------------------

\* In every state the connections have the shape of Shape, and an address that is
\* held is taken.
THEOREM Invariance == Spec => []IInv
<1>1. IInv /\ [Next]_vars => IInv'
    <2> SUFFICES ASSUME IInv, [Next]_vars PROVE IInv'
        OBVIOUS
    <2>1. ASSUME NEW c \in Conn, Accept(c) \/ Connect(c) \/ Insert(c) PROVE IInv'
        BY <2>1, AcceptKeeps, ConnectKeeps, InsertKeeps
    <2>2. ASSUME NEW c \in Conn,
                 InsertVerify(c) \/ VerifySent(c) \/ ConnectBackFails(c) \/ BackFailed(c)
          PROVE  IInv'
        BY <2>2, InsertVerifyKeeps, VerifySentKeeps, ConnectBackFailsKeeps, BackFailedKeeps
    <2>3. ASSUME NEW c \in Conn, RegVerifyRsp(c) \/ AddScore(c) \/ RegRsp(c) PROVE IInv'
        BY <2>3, RegVerifyRspKeeps, AddScoreKeeps, RegRspKeeps
    <2>4. ASSUME NEW c \in Conn,
                 StartClose(c) \/ LeaveTables(c) \/ GiveBack(c) \/ PunishPeer(c)
          PROVE  IInv'
        BY <2>4, StartCloseKeeps, LeaveTablesKeeps, GiveBackKeeps, PunishPeerKeeps
    <2>5. ASSUME NEW c \in Conn, NEW x \in Addr, RegReq(c, x) PROVE IInv'
        BY <2>5, RegReqKeeps
    <2>6. ASSUME NEW c \in Conn, NEW d \in Conn, ConnectBack(c, d) \/ RegVerifyReq(c, d)
          PROVE  IInv'
        BY <2>6, ConnectBackKeeps, RegVerifyReqKeeps
    <2>7. CASE ConnectFails
        BY <2>7, ConnectFailsKeeps
    <2>8. ASSUME NEW x \in Addr, ConnectProc(x) \/ Learn(x) \/ Unban(x) PROVE IInv'
        BY <2>8, ConnectProcKeeps, LearnKeeps, UnbanKeeps
    <2>9. CASE UNCHANGED vars
        BY <2>9 DEF vars, IInv, Shape, TypeOK, InTable, Alive, Tables, Unused, OneDial,
                    Counted, Begun, Fits, Owned, Once, NotDialed, Marked, Held
    <2> QED
        BY <2>1, <2>2, <2>3, <2>4, <2>5, <2>6, <2>7, <2>8, <2>9 DEF Next
<1> QED
    BY InitInv, <1>1, PTL DEF Spec

\* Types of the tables and connections.
THEOREM TypeCorrect == Spec => []TypeOK
<1>1. IInv => TypeOK
    BY DEF IInv, Shape
<1> QED
    BY Invariance, <1>1, PTL

\* A Peer_Score is taken if and only if its node is connected or being connected
\* to, once, but for the two races that stranded and loose record.
THEOREM AlwaysScoresFit == Spec => []ScoresFit
BY Invariance, InvScoresFit, PTL

-----------------------------------------------------------------------------
(***************************************************************************)
(* That the tables of peers outgrow m_max_conn by more than one only by    *)
(* inits that ran at the same time, for any limit and any number of        *)
(* connections. LimitHolds is not inductive: Bounded counts the            *)
(* connections whose init nobody ran beside.                               *)
(***************************************************************************)

Quiet == {c \in Tables : ~conn[c].crowded}

\* A connection that is counted alone finds the tables as it counted them.
Alone == \A c \in Counted : ~conn[c].crowded =>
            Counted = {c} /\ Cardinality(Tables) <= m_max_conn

Bounded == m_max_conn \in Nat /\ Alone /\ Cardinality(Quiet) <= m_max_conn + 1

\* How a step that counts nobody and inserts nobody changes the connections.
Shrinks ==
    /\ \A d \in Conn : conn'[d].crowded = conn[d].crowded
    /\ Counted' \subseteq Counted /\ Tables' \subseteq Tables

-----------------------------------------------------------------------------

\* Any set of connections is finite.
LEMMA Finite ==
    ASSUME NEW S, S \subseteq Conn
    PROVE  IsFiniteSet(S) /\ Cardinality(S) \in Nat
<1>1. IsFiniteSet(1..MaxId)
    BY PeerRegAssumption, FS_Interval
<1>2. IsFiniteSet(S)
    BY <1>1, FS_Subset DEF Conn
<1> QED
    BY <1>2, FS_CardinalityType

\* The tables hold connections.
LEMMA TablesInConn == IInv => Tables \subseteq Conn
BY DEF IInv, Shape, TypeOK, Tables

\* A step that counts nobody and inserts nobody keeps the bound.
LEMMA ShrinksKeeps ==
    ASSUME IInv, IInv', Bounded, Shrinks, m_max_conn' = m_max_conn
    PROVE  Bounded'
<1>1. Tables \subseteq Conn /\ Tables' \subseteq Conn
    BY DEF IInv, Shape, TypeOK, Tables
<1>2. IsFiniteSet(Tables) /\ Cardinality(Tables) \in Nat
    BY <1>1, Finite
<1>3. Cardinality(Tables') <= Cardinality(Tables) /\ Cardinality(Tables') \in Nat
    BY <1>1, <1>2, Finite, FS_Subset DEF Shrinks
<1>4. Counted \subseteq Conn
    BY DEF Counted
<1>5. Alone'
    BY <1>2, <1>3, <1>4 DEF Bounded, Alone, Shrinks
<1>6. Quiet' \subseteq Quiet
    BY <1>1 DEF Quiet, Shrinks
<1>7. IsFiniteSet(Quiet) /\ Cardinality(Quiet) \in Nat
    BY <1>1, Finite DEF Quiet
<1>8. Cardinality(Quiet') <= Cardinality(Quiet) /\ Cardinality(Quiet') \in Nat
    <2>1. Quiet' \subseteq Conn
        BY <1>1 DEF Quiet
    <2> QED
        BY <1>6, <1>7, <2>1, Finite, FS_Subset
<1> QED
    BY <1>5, <1>7, <1>8 DEF Bounded

\* Reading the number of connections under the mutex keeps the bound.
LEMMA CountBounded ==
    ASSUME IInv, IInv', Bounded, NEW c \in Conn, NEW r \in Record, Count(c, r),
           UNCHANGED <<m_max_conn, m_unreg_peers, m_peers>>
    PROVE  Bounded'
<1>1. /\ Tables' = Tables
      /\ Cardinality(Tables) <= m_max_conn
      /\ \A d \in Conn : conn'[d] =
            IF d = c THEN [r EXCEPT !.step = "counted", !.crowded = Counted # {}]
            ELSE [conn[d] EXCEPT !.crowded = @ \/ d \in Counted]
    BY DEF Count, Room, Tables
<1>2. conn \in [Conn -> Record]
    BY DEF IInv, Shape, TypeOK
<1>3. conn'[c].step = "counted" /\ conn'[c].crowded = (Counted # {})
    <2> DEFINE b == Counted # {}
    <2>1. conn'[c] = [r EXCEPT !.step = "counted", !.crowded = b]
        BY <1>1
    <2>2. b \in BOOLEAN
        OBVIOUS
    <2> HIDE DEF b
    <2>3. conn'[c].step = "counted" /\ conn'[c].crowded = b
        BY <2>1, <2>2 DEF Record
    <2> QED
        BY <2>3 DEF b
<1>4. ASSUME NEW d \in Conn \ {c}
      PROVE  /\ conn'[d].step = conn[d].step
             /\ conn'[d].crowded = (conn[d].crowded \/ d \in Counted)
    <2> DEFINE b == conn[d].crowded \/ d \in Counted
    <2>1. conn'[d] = [conn[d] EXCEPT !.crowded = b]
        BY <1>1
    <2>2. conn[d] \in Record
        BY <1>2
    <2> HIDE DEF b
    <2>3. conn'[d].step = conn[d].step /\ conn'[d].crowded = b
        BY <2>1, <2>2 DEF Record
    <2> QED
        BY <2>3 DEF b
<1>5. c \notin Tables
    <2>1. conn'[c].step \notin {"open", "closing"}
        BY <1>3
    <2> QED
        BY <1>1, <2>1 DEF IInv, Shape, InTable, Alive
<1>6. \A d \in Tables : d \in Conn /\ d \notin Counted
    BY TablesInConn DEF IInv, Shape, InTable, Alive, Counted
<1>7. Counted' = Counted \cup {c}
    BY <1>3, <1>4 DEF Counted
<1>8. Alone'
    <2> SUFFICES ASSUME NEW d \in Counted', ~conn'[d].crowded
                 PROVE  Counted' = {d} /\ Cardinality(Tables') <= m_max_conn'
        BY DEF Alone
    <2>1. d = c
        BY <1>4, <1>7 DEF Counted
    <2>2. Counted = {}
        BY <1>3, <2>1
    <2> QED
        BY <1>1, <1>7, <2>1, <2>2
<1>9. Quiet' = Quiet
    <2>1. \A d \in Tables : conn'[d].crowded <=> conn[d].crowded
        BY <1>4, <1>5, <1>6
    <2> QED
        BY <1>1, <2>1 DEF Quiet
<1> QED
    BY <1>8, <1>9 DEF Bounded

\* The insertion that follows keeps the bound.
LEMMA InsertBounded ==
    ASSUME IInv, IInv', Bounded, NEW c \in Counted, m_max_conn' = m_max_conn,
           \A d \in Conn : conn'[d].crowded = conn[d].crowded,
           Counted' \subseteq Counted \ {c}, Tables' = Tables \cup {c}
    PROVE  Bounded'
<1>1. c \in Conn /\ Tables \subseteq Conn /\ Tables' \subseteq Conn
    BY DEF Counted, IInv, Shape, TypeOK, Tables
<1>2. IsFiniteSet(Tables) /\ Cardinality(Tables) \in Nat
    BY <1>1, Finite
<1>3. Alone'
    <2> SUFFICES ASSUME NEW d \in Counted', ~conn'[d].crowded PROVE FALSE
        BY DEF Alone
    <2>1. d \in Counted /\ d # c /\ d \in Conn
        BY DEF Counted
    <2>2. ~conn[d].crowded
        BY <2>1
    <2>3. Counted = {d}
        BY <2>1, <2>2 DEF Bounded, Alone
    <2> QED
        BY <2>1, <2>3
<1>4. CASE conn[c].crowded
    <2>1. Quiet' = Quiet
        BY <1>1, <1>4 DEF Quiet
    <2> QED
        BY <1>3, <2>1 DEF Bounded
<1>5. CASE ~conn[c].crowded
    <2>1. Cardinality(Tables) <= m_max_conn
        BY <1>5 DEF Bounded, Alone
    <2>2. IsFiniteSet(Tables') /\ Cardinality(Tables') \in Nat
        BY <1>1, Finite
    <2>3. Cardinality(Tables') <= Cardinality(Tables) + 1
        <3>1. Cardinality(Tables \cup {c}) =
                 IF c \in Tables THEN Cardinality(Tables) ELSE Cardinality(Tables) + 1
            BY <1>2, FS_AddElement
        <3> HIDE DEF Tables
        <3> QED
            BY <1>2, <3>1
    <2>4. Quiet' \subseteq Tables' /\ Quiet' \subseteq Conn
        BY <1>1 DEF Quiet
    <2>5. Cardinality(Quiet') <= Cardinality(Tables') /\ Cardinality(Quiet') \in Nat
        BY <2>2, <2>4, Finite, FS_Subset
    <2>6. Cardinality(Quiet') <= m_max_conn' + 1
        BY <1>2, <2>1, <2>2, <2>3, <2>5 DEF Bounded
    <2> QED
        BY <1>3, <2>6 DEF Bounded
<1> QED
    BY <1>4, <1>5

-----------------------------------------------------------------------------
(* What the actions do to the flags and the tables.                        *)

\* Insert adds its own connection to the tables.
LEMMA InsertGrows ==
    ASSUME IInv, NEW c \in Conn, Insert(c)
    PROVE  /\ c \in Counted
           /\ \A d \in Conn : conn'[d].crowded = conn[d].crowded
           /\ Counted' \subseteq Counted \ {c} /\ Tables' = Tables \cup {c}
<1>1. conn \in [Conn -> Record] /\ conn[c] \in Record
    BY DEF IInv, Shape, TypeOK
<1>2. \A d \in Conn \ {c} : conn'[d] = conn[d]
    BY <1>1 DEF Insert
<1>3. conn'[c].step = "open" /\ conn'[c].crowded = conn[c].crowded
    BY <1>1 DEF Insert, Record
<1>4. Counted' \subseteq Counted \ {c}
    BY <1>2, <1>3 DEF Counted
<1> QED
    BY <1>2, <1>3, <1>4 DEF Insert, Tables

\* InsertVerify adds at most its own connection to the tables.
LEMMA InsertVerifyGrows ==
    ASSUME IInv, NEW v \in Conn, InsertVerify(v)
    PROVE  /\ v \in Counted
           /\ \A d \in Conn : conn'[d].crowded = conn[d].crowded
           /\ Counted' \subseteq Counted \ {v}
           /\ Tables' \in {Tables, Tables \cup {v}}
<1> DEFINE c == conn[v].for
<1>1. conn \in [Conn -> Record] /\ c \in Conn /\ v \in Counted /\ c # v
    <2>1. v \in Counted /\ conn[v].kind = "verify"
        BY DEF InsertVerify
    <2>2. c \in Conn /\ conn[c].m_state > 0
        BY <2>1 DEF IInv, Shape, Begun
    <2>3. conn[c].step # "counted"
        BY <2>2 DEF IInv, Shape, Begun
    <2> QED
        BY <2>1, <2>2, <2>3 DEF IInv, Shape, TypeOK, Counted
<1>2. \E s \in {"open", "gone"}, b \in {"inserted", "failed"} :
          conn' = [conn EXCEPT ![v].step = s, ![c].back = b]
    BY DEF InsertVerify
<1> HIDE DEF c
<1>3. PICK s \in {"open", "gone"}, b \in {"inserted", "failed"} :
          conn' = [conn EXCEPT ![v].step = s, ![c].back = b]
    BY <1>2
<1>4. /\ conn'[v] = [conn[v] EXCEPT !.step = s] /\ conn'[c] = [conn[c] EXCEPT !.back = b]
      /\ \A d \in Conn \ {v, c} : conn'[d] = conn[d]
    BY <1>1, <1>3
<1>5. conn[v] \in Record /\ conn[c] \in Record
    BY <1>1
<1>6. /\ conn'[v].step = s /\ conn'[v].crowded = conn[v].crowded
      /\ conn'[c].step = conn[c].step /\ conn'[c].crowded = conn[c].crowded
    BY <1>4, <1>5 DEF Record
<1>7. \A d \in Conn : conn'[d].crowded = conn[d].crowded
    BY <1>4, <1>6
<1>8. Counted' \subseteq Counted \ {v}
    BY <1>1, <1>4, <1>6 DEF Counted
<1>9. Tables' \in {Tables, Tables \cup {v}}
    BY DEF InsertVerify, Tables
<1> QED
    BY <1>1, <1>7, <1>8, <1>9

\* VerifySent counts nobody and inserts nobody.
LEMMA VerifySentShrinks == ASSUME IInv, NEW c \in Conn, VerifySent(c) PROVE Shrinks
<1>1. conn \in [Conn -> Record] /\ conn[c] \in Record
    BY DEF IInv, Shape, TypeOK
<1>2. \A d \in Conn \ {c} : conn'[d] = conn[d]
    BY <1>1 DEF VerifySent
<1>3. /\ conn'[c].crowded = conn[c].crowded
      /\ conn'[c].step = "counted" => conn[c].step = "counted"
    BY <1>1 DEF VerifySent, Record
<1>4. Tables' \subseteq Tables
    BY DEF VerifySent, Tables
<1> QED
    BY <1>2, <1>3, <1>4 DEF Shrinks, Counted

\* BackFailed counts nobody and inserts nobody.
LEMMA BackFailedShrinks == ASSUME IInv, NEW c \in Conn, BackFailed(c) PROVE Shrinks
<1>1. conn \in [Conn -> Record] /\ conn[c] \in Record
    BY DEF IInv, Shape, TypeOK
<1>2. \A d \in Conn \ {c} : conn'[d] = conn[d]
    BY <1>1 DEF BackFailed
<1>3. /\ conn'[c].crowded = conn[c].crowded
      /\ conn'[c].step = "counted" => conn[c].step = "counted"
    BY <1>1 DEF BackFailed, Record
<1>4. Tables' \subseteq Tables
    BY DEF BackFailed, Tables
<1> QED
    BY <1>2, <1>3, <1>4 DEF Shrinks, Counted

\* AddScore counts nobody and inserts nobody.
LEMMA AddScoreShrinks == ASSUME IInv, NEW c \in Conn, AddScore(c) PROVE Shrinks
<1>1. conn \in [Conn -> Record] /\ conn[c] \in Record
    BY DEF IInv, Shape, TypeOK
<1>2. \A d \in Conn \ {c} : conn'[d] = conn[d]
    BY <1>1 DEF AddScore
<1>3. /\ conn'[c].crowded = conn[c].crowded
      /\ conn'[c].step = "counted" => conn[c].step = "counted"
    BY <1>1 DEF AddScore, Record
<1>4. Tables' \subseteq Tables
    BY DEF AddScore, Tables
<1> QED
    BY <1>2, <1>3, <1>4 DEF Shrinks, Counted

\* RegRsp counts nobody and inserts nobody.
LEMMA RegRspShrinks == ASSUME IInv, NEW c \in Conn, RegRsp(c) PROVE Shrinks
<1>1. conn \in [Conn -> Record] /\ conn[c] \in Record
    BY DEF IInv, Shape, TypeOK
<1>2. \A d \in Conn \ {c} : conn'[d] = conn[d]
    BY <1>1 DEF RegRsp
<1>3. /\ conn'[c].crowded = conn[c].crowded
      /\ conn'[c].step = "counted" => conn[c].step = "counted"
    BY <1>1 DEF RegRsp, Record
<1>4. Tables' \subseteq Tables
    BY DEF RegRsp, Tables
<1> QED
    BY <1>2, <1>3, <1>4 DEF Shrinks, Counted

\* LeaveTables counts nobody and inserts nobody.
LEMMA LeaveTablesShrinks == ASSUME IInv, NEW c \in Conn, LeaveTables(c) PROVE Shrinks
<1>1. conn \in [Conn -> Record] /\ conn[c] \in Record
    BY DEF IInv, Shape, TypeOK
<1>2. \A d \in Conn \ {c} : conn'[d] = conn[d]
    BY <1>1 DEF LeaveTables
<1>3. /\ conn'[c].crowded = conn[c].crowded
      /\ conn'[c].step = "counted" => conn[c].step = "counted"
    BY <1>1 DEF LeaveTables, Record
<1>4. Tables' \subseteq Tables
    BY DEF LeaveTables, Tables
<1> QED
    BY <1>2, <1>3, <1>4 DEF Shrinks, Counted

\* GiveBack counts nobody and inserts nobody.
LEMMA GiveBackShrinks == ASSUME IInv, NEW c \in Conn, GiveBack(c) PROVE Shrinks
<1>1. conn \in [Conn -> Record] /\ conn[c] \in Record
    BY DEF IInv, Shape, TypeOK
<1>2. \A d \in Conn \ {c} : conn'[d] = conn[d]
    BY <1>1 DEF GiveBack
<1>3. /\ conn'[c].crowded = conn[c].crowded
      /\ conn'[c].step = "counted" => conn[c].step = "counted"
    BY <1>1 DEF GiveBack, Record
<1>4. Tables' \subseteq Tables
    BY DEF GiveBack, Tables
<1> QED
    BY <1>2, <1>3, <1>4 DEF Shrinks, Counted

\* ConnectBackFails counts nobody and inserts nobody.
LEMMA ConnectBackFailsShrinks == ASSUME IInv, NEW c \in Conn, ConnectBackFails(c) PROVE Shrinks
<1>1. conn \in [Conn -> Record] /\ conn[c] \in Record
    BY DEF IInv, Shape, TypeOK
<1>2. \A d \in Conn \ {c} : conn'[d] = conn[d]
    BY <1>1 DEF ConnectBackFails
<1>3. /\ conn'[c].crowded = conn[c].crowded
      /\ conn'[c].step = "counted" => conn[c].step = "counted"
    BY <1>1 DEF ConnectBackFails, Record, Closed
<1>4. Tables' \subseteq Tables
    BY DEF ConnectBackFails, Tables
<1> QED
    BY <1>2, <1>3, <1>4 DEF Shrinks, Counted

\* StartClose counts nobody and inserts nobody.
LEMMA StartCloseShrinks == ASSUME IInv, NEW c \in Conn, StartClose(c) PROVE Shrinks
<1>1. conn \in [Conn -> Record] /\ conn[c] \in Record
    BY DEF IInv, Shape, TypeOK
<1>2. \A d \in Conn \ {c} : conn'[d] = conn[d]
    BY <1>1 DEF StartClose, Close
<1>3. /\ conn'[c].crowded = conn[c].crowded
      /\ conn'[c].step = "counted" => conn[c].step = "counted"
    BY <1>1 DEF StartClose, Record, Closed, Close
<1>4. Tables' \subseteq Tables
    BY DEF StartClose, Tables
<1> QED
    BY <1>2, <1>3, <1>4 DEF Shrinks, Counted

\* PunishPeer counts nobody and inserts nobody.
LEMMA PunishPeerShrinks == ASSUME IInv, NEW c \in Conn, PunishPeer(c) PROVE Shrinks
<1>1. conn \in [Conn -> Record] /\ conn[c] \in Record
    BY DEF IInv, Shape, TypeOK
<1>2. \A d \in Conn \ {c} : conn'[d] = conn[d]
    BY <1>1 DEF PunishPeer, Close
<1>3. /\ conn'[c].crowded = conn[c].crowded
      /\ conn'[c].step = "counted" => conn[c].step = "counted"
    BY <1>1 DEF PunishPeer, Record, Closed, Close
<1>4. Tables' \subseteq Tables
    BY DEF PunishPeer, Tables
<1> QED
    BY <1>2, <1>3, <1>4 DEF Shrinks, Counted

\* RegVerifyRsp counts nobody and inserts nobody.
LEMMA RegVerifyRspShrinks == ASSUME IInv, NEW v \in Conn, RegVerifyRsp(v) PROVE Shrinks
<1>1. conn \in [Conn -> Record] /\ conn[v] \in Record
    BY DEF IInv, Shape, TypeOK
<1>2. \/ conn' = [conn EXCEPT ![v] = Closed([conn[v] EXCEPT !.adding = TRUE])]
      \/ conn' = [conn EXCEPT ![v] = Closed(conn[v])]
    BY DEF RegVerifyRsp, Close
<1>3. \A d \in Conn \ {v} : conn'[d] = conn[d]
    BY <1>1, <1>2
<1>4. /\ conn'[v].crowded = conn[v].crowded
      /\ conn'[v].step = "counted" => conn[v].step = "counted"
    <2>1. CASE conn' = [conn EXCEPT ![v] = Closed([conn[v] EXCEPT !.adding = TRUE])]
        BY <1>1, <2>1 DEF Record, Closed
    <2>2. CASE conn' = [conn EXCEPT ![v] = Closed(conn[v])]
        BY <1>1, <2>2 DEF Record, Closed
    <2> QED
        BY <1>2, <2>1, <2>2
<1>5. Tables' \subseteq Tables
    BY DEF RegVerifyRsp, Tables
<1> QED
    BY <1>3, <1>4, <1>5 DEF Shrinks, Counted

\* RegReq counts nobody and inserts nobody.
LEMMA RegReqShrinks ==
    ASSUME IInv, NEW c \in Conn, NEW x \in Addr, RegReq(c, x) PROVE Shrinks
<1> DEFINE known == x \in m_peer_score_map
<1>1. conn \in [Conn -> Record] /\ conn[c] \in Record
    BY DEF IInv, Shape, TypeOK
<1>2. \/ conn' = [conn EXCEPT ![c] = Closed([@ EXCEPT !.addr = x])]
      \/ conn' = [conn EXCEPT ![c] = [@ EXCEPT
                    !.addr = x, !.m_state = 2, !.back = "dial", !.scored = known]]
    BY DEF RegReq
<1> HIDE DEF known
<1>3. \A d \in Conn \ {c} : conn'[d] = conn[d]
    BY <1>1, <1>2
<1>4. /\ conn'[c].crowded = conn[c].crowded
      /\ conn'[c].step = "counted" => conn[c].step = "counted"
    <2>1. CASE conn' = [conn EXCEPT ![c] = Closed([@ EXCEPT !.addr = x])]
        <3>1. conn'[c] = Closed([conn[c] EXCEPT !.addr = x])
            BY <1>1, <2>1
        <3> QED
            BY <1>1, <3>1 DEF Record, Closed
    <2>2. CASE conn' = [conn EXCEPT ![c] = [@ EXCEPT
                    !.addr = x, !.m_state = 2, !.back = "dial", !.scored = known]]
        <3>1. conn'[c] = [conn[c] EXCEPT
                    !.addr = x, !.m_state = 2, !.back = "dial", !.scored = known]
            BY <1>1, <2>2
        <3> QED
            BY <1>1, <3>1 DEF Record
    <2> QED
        BY <1>2, <2>1, <2>2
<1>5. Tables' = Tables
    BY DEF RegReq, Tables
<1> QED
    BY <1>3, <1>4, <1>5 DEF Shrinks, Counted

\* RegVerifyReq counts nobody and inserts nobody.
LEMMA RegVerifyReqShrinks ==
    ASSUME IInv, NEW v \in Conn, NEW c \in Conn, RegVerifyReq(v, c) PROVE Shrinks
<1>1. conn \in [Conn -> Record] /\ v # c
    BY DEF IInv, Shape, TypeOK, RegVerifyReq
<1>2. ASSUME NEW d \in Conn
      PROVE  /\ Closed(conn[d]).crowded = conn[d].crowded
             /\ Closed(conn[d]).step = "counted" => conn[d].step = "counted"
    <2>1. conn[d] \in Record
        BY <1>1
    <2> QED
        BY <2>1 DEF Record, Closed
<1>3. \A d \in Conn : conn'[d] \in {conn[d], Closed(conn[d])}
    <2>1. \/ conn' = [conn EXCEPT ![v] = Closed(conn[v])]
          \/ conn' = [conn EXCEPT ![v] = Closed(@), ![c] = Closed(@)]
          \/ conn' = conn
        BY DEF RegVerifyReq, Close
    <2> QED
        BY <1>1, <2>1
<1>4. Tables' \subseteq Tables
    BY DEF RegVerifyReq, Tables
<1> QED
    BY <1>2, <1>3, <1>4 DEF Shrinks, Counted

-----------------------------------------------------------------------------

\* Every step keeps the bound.
LEMMA StepBounded == ASSUME IInv, IInv', Bounded, [Next]_vars PROVE Bounded'
<1>1. m_max_conn' = m_max_conn
    BY DEF Next, vars
<1>2. ASSUME NEW c \in Conn, Accept(c) \/ Connect(c) PROVE Bounded'
    <2>1. NoConn \in Record /\ dialing \in Addr \cup {None}
        BY DEF NoConn, Record, IInv, Shape, TypeOK
    <2>2. CASE Accept(c)
        <3>1. [NoConn EXCEPT !.kind = "passive"] \in Record
            BY <2>1 DEF Record
        <3> QED
            BY <1>1, <2>2, <3>1, CountBounded DEF Accept
    <2>3. CASE Connect(c)
        <3>1. [NoConn EXCEPT !.kind = "active", !.addr = dialing] \in Record
            BY <2>1 DEF Record
        <3> QED
            BY <1>1, <2>3, <3>1, CountBounded DEF Connect
    <2> QED
        BY <1>2, <2>2, <2>3
<1>3. ASSUME NEW v \in Conn, NEW c \in Conn, ConnectBack(v, c) PROVE Bounded'
    <2>1. [NoConn EXCEPT !.kind = "verify", !.for = c] \in Record
        <3>1. c \in Nat
            BY PeerRegAssumption DEF Conn
        <3> QED
            BY <3>1 DEF NoConn, Record
    <2> QED
        BY <1>1, <1>3, <2>1, CountBounded DEF ConnectBack
<1>4. ASSUME NEW c \in Conn, Insert(c) PROVE Bounded'
    BY <1>1, <1>4, InsertGrows, InsertBounded
<1>5. ASSUME NEW c \in Conn, InsertVerify(c) PROVE Bounded'
    <2>1. CASE Tables' = Tables \cup {c}
        BY <1>1, <1>5, <2>1, InsertVerifyGrows, InsertBounded
    <2>2. CASE Tables' = Tables
        <3>1. Shrinks
            BY <1>5, <2>2, InsertVerifyGrows DEF Shrinks
        <3> QED
            BY <1>1, <3>1, ShrinksKeeps
    <2> QED
        BY <1>5, <2>1, <2>2, InsertVerifyGrows
<1>6. ASSUME NEW c \in Conn,
             \/ VerifySent(c) \/ ConnectBackFails(c) \/ BackFailed(c) \/ RegVerifyRsp(c)
             \/ AddScore(c) \/ RegRsp(c) \/ StartClose(c) \/ LeaveTables(c)
             \/ GiveBack(c) \/ PunishPeer(c)
      PROVE  Bounded'
    <2>1. Shrinks
        BY <1>6, VerifySentShrinks, ConnectBackFailsShrinks, BackFailedShrinks,
           RegVerifyRspShrinks, AddScoreShrinks, RegRspShrinks, StartCloseShrinks,
           LeaveTablesShrinks, GiveBackShrinks, PunishPeerShrinks
    <2> QED
        BY <1>1, <2>1, ShrinksKeeps
<1>7. ASSUME NEW c \in Conn, NEW x \in Addr, RegReq(c, x) PROVE Bounded'
    BY <1>1, <1>7, RegReqShrinks, ShrinksKeeps
<1>8. ASSUME NEW c \in Conn, NEW d \in Conn, RegVerifyReq(c, d) PROVE Bounded'
    BY <1>1, <1>8, RegVerifyReqShrinks, ShrinksKeeps
<1>9. CASE \/ ConnectFails \/ UNCHANGED vars
           \/ \E x \in Addr : ConnectProc(x) \/ Learn(x) \/ Unban(x)
    <2>1. UNCHANGED <<conn, m_unreg_peers, m_peers>>
        BY <1>9 DEF ConnectFails, vars, ConnectProc, Learn, Unban
    <2>2. Shrinks
        BY <2>1 DEF Shrinks, Counted, Tables
    <2> QED
        BY <1>1, <2>2, ShrinksKeeps
<1> QED
    BY <1>2, <1>3, <1>4, <1>5, <1>6, <1>7, <1>8, <1>9 DEF Next

\* The bound holds at the start.
LEMMA InitBounded == Init => Bounded
<1> SUFFICES ASSUME Init PROVE Bounded
    OBVIOUS
<1>1. Quiet = {} /\ Counted = {} /\ m_max_conn \in Nat
    BY PeerRegAssumption DEF Init, Quiet, Tables, Counted, NoConn
<1> QED
    BY <1>1, FS_EmptySet DEF Bounded, Alone

\* The connections whose init ran alone never exceed m_max_conn by more than one.
THEOREM AlwaysBounded == Spec => []Bounded
<1>1. IInv /\ IInv' /\ Bounded /\ [Next]_vars => Bounded'
    BY StepBounded
<1> QED
    BY InitBounded, Invariance, <1>1, PTL DEF Spec

\* If the tables exceed m_max_conn by more than one, inits ran at the same time
\* between counting and insertion (node.cpp:243-263).
THEOREM AlwaysLimitHolds == Spec => []LimitHolds
<1>1. IInv /\ Bounded => LimitHolds
    <2> SUFFICES ASSUME IInv, Bounded, Cardinality(Tables) > m_max_conn + 1,
                        \A c \in Tables : ~conn[c].crowded
                 PROVE  FALSE
        BY DEF LimitHolds
    <2>1. Quiet = Tables
        BY DEF Quiet
    <2>2. Cardinality(Tables) \in Nat
        BY TablesInConn, Finite
    <2>3. m_max_conn \in Nat /\ Cardinality(Tables) <= m_max_conn + 1
        BY <2>1 DEF Bounded
    <2> QED
        BY <2>2, <2>3
<1> QED
    BY Invariance, AlwaysBounded, <1>1, PTL

=============================================================================
