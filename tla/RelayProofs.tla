---------------------------- MODULE RelayProofs ----------------------------
(***************************************************************************)
(* For any number of links and sockets:                                    *)
(*   - The links of the relay are paired both ways (PairInv).  A link gets *)
(*     a partner when its init, or that of the other, is read; the proof   *)
(*     rests on each link having one init to be read, and none after it.   *)
(*   - What a game reads is in order (OrderInv).  The proof looks at all   *)
(*     that is still to come for a socket, from the partner's queue to the *)
(*     server through the two queues of the server to the console: with    *)
(*     what the socket has read it is one run of blocks, and its last      *)
(*     block is the last one sent.  A step of the server moves items along *)
(*     this flow, or cuts it and puts an end after it; a link that is cut  *)
(*     gets no further blocks.                                             *)
(***************************************************************************)
EXTENDS RelayStreams, SequenceTheorems, WellFoundedInduction, TLAPS

Fields == {"kind", "name", "peer", "partner", "announced", "closing", "in", "out"}
AreLinks(ss) ==
    /\ ss = [c \in DOMAIN ss |-> ss[c]]
    /\ DOMAIN ss \subseteq Links
    /\ \A c \in DOMAIN ss : DOMAIN ss[c] = Fields
IsState(st) == DOMAIN st = {"sessions", "down"} /\ AreLinks(st.sessions)

(* Two ends of a stream. *)
Ends(s, t) ==
    /\ \/ s.kind = "connect" /\ t.kind = "accept"
       \/ s.kind = "accept" /\ t.kind = "connect"
    /\ s.name = t.peer /\ s.peer = t.name
Partners(ss) ==
    \A c \in DOMAIN ss : ss[c].partner # NoLink =>
        /\ ss[c].partner \in DOMAIN ss
        /\ ss[ss[c].partner].partner = c
        /\ Ends(ss[c], ss[ss[c].partner])

(* The same links with the same partners. *)
SameLinks(ss, tt) ==
    /\ AreLinks(tt) /\ DOMAIN tt = DOMAIN ss
    /\ \A c \in DOMAIN ss : /\ tt[c].kind = ss[c].kind /\ tt[c].name = ss[c].name
                            /\ tt[c].peer = ss[c].peer /\ tt[c].partner = ss[c].partner

(* Some of the links, still paired. *)
FewerLinks(ss, tt) ==
    /\ AreLinks(tt) /\ Partners(tt) /\ DOMAIN tt \subseteq DOMAIN ss
    /\ \A c \in DOMAIN tt : tt[c].kind = ss[c].kind

(* An init is the first thing sent, and read when the link has its kind. *)
Queue(s, kind) ==
    /\ \E S : s \in Seq(S)
    /\ \A i \in DOMAIN s : s[i].op = "init" => i = 1 /\ kind = "pending"
Queues(uu, ss) ==
    /\ uu = [c \in Links |-> uu[c]]
    /\ \A c \in DOMAIN ss : Queue(uu[c], ss[c].kind)

PairInv ==
    /\ AreLinks(sessions) /\ Partners(sessions) /\ Queues(up, sessions)
    /\ made \in Nat /\ \A c \in DOMAIN sessions : c <= made
-----------------------------------------------------------------------------
(* Queues. *)

LEMMA QueueAppend ==
    ASSUME NEW s, NEW k, Queue(s, k), NEW e, e.op # "init"
    PROVE  Queue(Append(s, e), k)
<1>1. PICK S : s \in Seq(S)
  BY DEF Queue
<1>2. s \in Seq(S \union {e}) /\ e \in S \union {e}
  BY <1>1
<1>3. Append(s, e) \in Seq(S \union {e})
  BY <1>2
<1>4. \A i \in DOMAIN Append(s, e) : Append(s, e)[i] = e \/ (i \in DOMAIN s /\ Append(s, e)[i] = s[i])
  BY <1>2
<1> QED BY <1>3, <1>4 DEF Queue

LEMMA QueueFront ==
    ASSUME NEW s, NEW k, Queue(s, k), NEW n \in 0 .. Len(s)
    PROVE  Queue(SubSeq(s, 1, n), k)
<1>1. PICK S : s \in Seq(S)
  BY DEF Queue
<1>2. SubSeq(s, 1, n) \in Seq(S)
  BY <1>1
<1>3. \A i \in DOMAIN SubSeq(s, 1, n) : i \in DOMAIN s /\ SubSeq(s, 1, n)[i] = s[i]
  BY <1>1
<1> QED BY <1>2, <1>3 DEF Queue

LEMMA QueueTail ==
    ASSUME NEW s, NEW k, Queue(s, k), s # <<>>, NEW other
    PROVE  Queue(Tail(s), other)
<1>1. PICK S : s \in Seq(S)
  BY DEF Queue
<1>2. Tail(s) \in Seq(S)
  BY <1>1
<1>3. \A i \in DOMAIN Tail(s) : i + 1 \in DOMAIN s /\ i + 1 # 1 /\ Tail(s)[i] = s[i + 1]
  BY <1>1
<1> QED BY <1>2, <1>3 DEF Queue

LEMMA QueueEmpty == \A k : Queue(<<>>, k)
BY DEF Queue

LEMMA QueueStart == \A k, n, p : Queue(<<Init(k, n, p)>>, "pending")
<1> SUFFICES ASSUME NEW k, NEW n, NEW p PROVE Queue(<<Init(k, n, p)>>, "pending")
  OBVIOUS
<1> DEFINE i == Init(k, n, p)
<1> HIDE DEF i
<1>1. <<i>> \in Seq({i}) /\ \A j \in DOMAIN <<i>> : j = 1
  OBVIOUS
<1>2. Queue(<<i>>, "pending")
  BY <1>1 DEF Queue
<1> QED BY <1>2 DEF i

LEMMA HeadInit ==
    ASSUME NEW s, NEW k, Queue(s, k), s # <<>>, Head(s).op = "init"
    PROVE  k = "pending"
<1>1. PICK S : s \in Seq(S)
  BY DEF Queue
<1>2. 1 \in DOMAIN s /\ Head(s) = s[1]
  BY <1>1
<1> QED BY <1>2 DEF Queue
-----------------------------------------------------------------------------
(* The parts of the server's handlers. *)

LEMMA LeastIn ==
    ASSUME NEW S, S \subseteq Links, S # {}
    PROVE  Least(S) \in S
<1>1. S \subseteq Nat
  BY RelayAssumption DEF Links
<1>2. PICK c \in S : \A d \in S : <<d, c>> \notin OpToRel(<, Nat)
  BY <1>1, NatLessThanWellFounded, WFMin
<1>3. \A d \in S : ~ (d < c)
  BY <1>1, <1>2 DEF OpToRel
<1>4. \A d \in S : c <= d
  BY <1>1, <1>3
<1> QED BY <1>4 DEF Least

LEMMA SameIsFewer ==
    ASSUME NEW ss, NEW tt, AreLinks(ss), Partners(ss), SameLinks(ss, tt)
    PROVE  FewerLinks(ss, tt)
BY DEF SameLinks, FewerLinks, Partners, Ends

LEMMA FewerAgain ==
    ASSUME NEW ss, NEW tt, NEW uu, FewerLinks(ss, tt), FewerLinks(tt, uu)
    PROVE  FewerLinks(ss, uu)
BY DEF FewerLinks

LEMMA SentSame ==
    ASSUME NEW st, IsState(st), NEW c \in DOMAIN st.sessions
    PROVE  IsState(Sent(st, c)) /\ SameLinks(st.sessions, Sent(st, c).sessions)
<1> DEFINE ss == st.sessions
<1>1. PICK rest : Sent(st, c).sessions = [ss EXCEPT ![c].out = rest]
  BY DEF Sent
<1>2. DOMAIN Sent(st, c) = {"sessions", "down"}
  BY DEF Sent
<1>3. SameLinks(ss, [ss EXCEPT ![c].out = rest])
  BY DEF SameLinks, IsState, AreLinks, Fields
<1> QED BY <1>1, <1>2, <1>3 DEF IsState, SameLinks

LEMMA ForwardedSame ==
    ASSUME NEW st, IsState(st), Partners(st.sessions), NEW c \in DOMAIN st.sessions
    PROVE  IsState(Forwarded(st, c)) /\ SameLinks(st.sessions, Forwarded(st, c).sessions)
<1> DEFINE ss == st.sessions
           p == ss[c].partner
<1>1. CASE p = NoLink
  BY <1>1 DEF Forwarded, SameLinks, IsState
<1>2. CASE p # NoLink
  <2>1. p \in DOMAIN ss
    BY <1>2 DEF Partners
  <2>2. PICK out, in : Forwarded(st, c) = [st EXCEPT !.sessions[p].out = out, !.sessions[c].in = in]
    BY <1>2 DEF Forwarded
  <2>3. /\ DOMAIN Forwarded(st, c) = {"sessions", "down"}
        /\ Forwarded(st, c).sessions = [[ss EXCEPT ![p].out = out] EXCEPT ![c].in = in]
    BY <2>2 DEF IsState
  <2>4. SameLinks(ss, [[ss EXCEPT ![p].out = out] EXCEPT ![c].in = in])
    BY <2>1 DEF SameLinks, IsState, AreLinks, Fields
  <2> QED BY ZenonT(60), <2>3, <2>4 DEF IsState, SameLinks
<1> QED BY <1>1, <1>2

LEMMA RemovedFewer ==
    ASSUME NEW st, IsState(st), Partners(st.sessions), NEW c \in DOMAIN st.sessions
    PROVE  /\ IsState(Removed(st, c)) /\ FewerLinks(st.sessions, Removed(st, c).sessions)
           /\ st.sessions[c].partner # NoLink => st.sessions[c].partner \in DOMAIN Removed(st, c).sessions
<1> DEFINE ss == st.sessions
           p == ss[c].partner
           tt == Removed(st, c).sessions
<1>1. /\ DOMAIN Removed(st, c) = {"sessions", "down"}
      /\ tt = [d \in DOMAIN ss \ {c} |-> IF d = p THEN [ss[d] EXCEPT !.partner = NoLink, !.closing = TRUE] ELSE ss[d]]
  BY DEF Removed
<1>2. DOMAIN tt = DOMAIN ss \ {c} /\ tt = [d \in DOMAIN tt |-> tt[d]]
  BY <1>1
<1>3. \A d \in DOMAIN tt \ {p} : tt[d] = ss[d]
  BY <1>1
<1>4. \A d \in DOMAIN tt : d = p => /\ DOMAIN tt[d] = Fields /\ tt[d].partner = NoLink
                                    /\ tt[d].kind = ss[d].kind
  <2> SUFFICES ASSUME NEW d \in DOMAIN tt, d = p
               PROVE  DOMAIN tt[d] = Fields /\ tt[d].partner = NoLink /\ tt[d].kind = ss[d].kind
    OBVIOUS
  <2>1. tt[d] = [ss[d] EXCEPT !.partner = NoLink, !.closing = TRUE]
    BY <1>1
  <2>2. DOMAIN ss[d] = Fields
    BY <1>2 DEF IsState, AreLinks
  <2> HIDE DEF tt, ss
  <2> QED BY <2>1, <2>2 DEF Fields
<1> HIDE DEF tt
<1>5. AreLinks(tt)
  BY <1>2, <1>3, <1>4 DEF IsState, AreLinks
<1>6. NoLink \notin DOMAIN ss
  BY DEF IsState, AreLinks, Links, NoLink
<1>7. p # NoLink => p \in DOMAIN ss /\ ss[p].partner = c /\ p # c
  BY DEF Partners, Ends
<1>8. Partners(tt)
  <2> SUFFICES ASSUME NEW d \in DOMAIN tt, tt[d].partner # NoLink
               PROVE  /\ tt[d].partner \in DOMAIN tt /\ tt[tt[d].partner].partner = d
                      /\ Ends(tt[d], tt[tt[d].partner])
    BY DEF Partners
  <2>1. d # p /\ d # c /\ tt[d] = ss[d] /\ d \in DOMAIN ss
    BY <1>2, <1>3, <1>4
  <2>2. ss[d].partner \in DOMAIN ss /\ ss[ss[d].partner].partner = d /\ Ends(ss[d], ss[ss[d].partner])
    BY <2>1 DEF Partners
  <2>3. ss[d].partner # c /\ ss[d].partner # p
    BY <2>1, <2>2, <1>6, <1>7
  <2> QED BY <1>2, <1>3, <2>1, <2>2, <2>3
<1>9. FewerLinks(ss, tt)
  BY <1>2, <1>3, <1>4, <1>5, <1>8 DEF FewerLinks
<1> QED BY <1>1, <1>2, <1>5, <1>7, <1>9 DEF IsState, tt

LEMMA EraseFewer ==
    ASSUME NEW st, IsState(st), Partners(st.sessions), NEW c \in DOMAIN st.sessions
    PROVE  IsState(Erase(st, c)) /\ FewerLinks(st.sessions, Erase(st, c).sessions)
<1> DEFINE p == st.sessions[c].partner
           gone == Removed(st, c)
           last == Sent(gone, p)
<1>1. /\ IsState(gone) /\ FewerLinks(st.sessions, gone.sessions)
      /\ p # NoLink => p \in DOMAIN gone.sessions
  BY RemovedFewer
<1>2. Erase(st, c) = IF p = NoLink THEN gone
                     ELSE IF last.sessions[p].out = <<>> THEN Removed(last, p) ELSE last
  BY DEF Erase
<1>3. CASE p = NoLink
  BY <1>1, <1>2, <1>3
<1>4. CASE p # NoLink
  <2> HIDE DEF gone, p
  <2>1. IsState(last) /\ SameLinks(gone.sessions, last.sessions)
    BY <1>1, <1>4, SentSame
  <2>2. FewerLinks(gone.sessions, last.sessions)
    BY <1>1, <2>1, SameIsFewer DEF FewerLinks
  <2>3. p \in DOMAIN last.sessions /\ Partners(last.sessions)
    BY <1>1, <1>4, <2>1, <2>2 DEF SameLinks, FewerLinks
  <2> HIDE DEF last
  <2>4. IsState(Removed(last, p)) /\ FewerLinks(last.sessions, Removed(last, p).sessions)
    BY <2>1, <2>3, RemovedFewer
  <2> QED BY <1>1, <1>2, <1>4, <2>1, <2>2, <2>4, FewerAgain
<1> QED BY <1>3, <1>4

LEMMA WrittenFewer ==
    ASSUME NEW st, IsState(st), Partners(st.sessions), NEW c \in DOMAIN st.sessions
    PROVE  IsState(Written(st, c)) /\ FewerLinks(st.sessions, Written(st, c).sessions)
<1> DEFINE after == Sent(st, c)
<1>1. IsState(after) /\ SameLinks(st.sessions, after.sessions)
  BY SentSame
<1>2. FewerLinks(st.sessions, after.sessions)
  BY <1>1, SameIsFewer DEF IsState
<1>3. c \in DOMAIN after.sessions /\ Partners(after.sessions)
  BY <1>1, <1>2 DEF SameLinks, FewerLinks
<1>4. Written(st, c) = after \/ Written(st, c) = Erase(after, c)
  BY DEF Written
<1> HIDE DEF after
<1>5. IsState(Erase(after, c)) /\ FewerLinks(after.sessions, Erase(after, c).sessions)
  BY <1>1, <1>3, EraseFewer
<1> QED BY <1>1, <1>2, <1>4, <1>5, FewerAgain

LEMMA OfferedSame ==
    ASSUME NEW st, IsState(st), NEW c \in DOMAIN st.sessions
    PROVE  IsState(Offered(st, c)) /\ SameLinks(st.sessions, Offered(st, c).sessions)
<1> DEFINE ss == st.sessions
           listening == Listening(ss, ss[c].peer)
           l == Least(listening)
<1>1. CASE ss[c].announced \/ listening = {}
  BY <1>1 DEF Offered, SameLinks, IsState
<1>2. CASE ~ (ss[c].announced \/ listening = {})
  <2>1. listening \subseteq DOMAIN ss
    BY DEF Listening
  <2>2. l \in DOMAIN ss
    <3> HIDE DEF listening
    <3> QED BY <1>2, <2>1, LeastIn DEF IsState, AreLinks
  <2>3. PICK out : Offered(st, c) = [st EXCEPT !.sessions[l].out = out, !.sessions[c].announced = TRUE]
    BY <1>2 DEF Offered
  <2> HIDE DEF l
  <2>4. /\ DOMAIN Offered(st, c) = {"sessions", "down"}
        /\ Offered(st, c).sessions = [[ss EXCEPT ![l].out = out] EXCEPT ![c].announced = TRUE]
    BY <2>3 DEF IsState
  <2>5. SameLinks(ss, [[ss EXCEPT ![l].out = out] EXCEPT ![c].announced = TRUE])
    BY ZenonT(60), <2>2 DEF SameLinks, IsState, AreLinks, Fields
  <2> QED BY <2>4, <2>5 DEF IsState, SameLinks
<1> QED BY SMTT(30), <1>1, <1>2

(* The same links but for the partner of one. *)
PartnerSetTo(ss, tt, c, p) ==
    /\ AreLinks(tt) /\ DOMAIN tt = DOMAIN ss /\ tt[c].partner = p
    /\ \A e \in DOMAIN ss \ {c} : tt[e].partner = ss[e].partner
    /\ \A e \in DOMAIN ss : tt[e].kind = ss[e].kind /\ tt[e].name = ss[e].name /\ tt[e].peer = ss[e].peer

LEMMA PartnerSets ==
    ASSUME NEW ss, AreLinks(ss), NEW c \in DOMAIN ss, NEW p
    PROVE  PartnerSetTo(ss, [ss EXCEPT ![c].partner = p], c, p)
BY DEF AreLinks, PartnerSetTo, Fields

LEMMA OutSets ==
    ASSUME NEW ss, AreLinks(ss), NEW c \in DOMAIN ss, NEW out
    PROVE  SameLinks(ss, [ss EXCEPT ![c].out = out])
BY DEF AreLinks, SameLinks, Fields

LEMMA PairedFewer ==
    ASSUME NEW st, IsState(st), Partners(st.sessions),
           NEW c \in DOMAIN st.sessions, st.sessions[c].kind = "accept", st.sessions[c].partner = NoLink
    PROVE  IsState(Paired(st, c)) /\ FewerLinks(st.sessions, Paired(st, c).sessions)
<1> DEFINE ss == st.sessions
           waiting == Waiting(ss, c)
           d == Least(waiting)
           pair == [st EXCEPT !.sessions[d].partner = c, !.sessions[c].partner = d,
                              !.sessions[d].out = Append(@, Notice(ss[c].name)),
                              !.sessions[c].out = Append(@, Notice(ss[d].name))]
<1>1. CASE waiting = {}
  <2>1. Paired(st, c) = Erase(st, c)
    BY <1>1 DEF Paired
  <2> QED BY <2>1, EraseFewer
<1>2. CASE waiting # {}
  <2>1. waiting \subseteq DOMAIN ss \ {c}
    BY DEF Waiting
  <2>2. d \in waiting
    <3> HIDE DEF waiting
    <3> QED BY SMTT(30), <1>2, <2>1, LeastIn DEF IsState, AreLinks
  <2>3. /\ d \in DOMAIN ss /\ d # c /\ ss[d].kind = "connect" /\ ss[d].partner = NoLink
        /\ ss[d].name = ss[c].peer /\ ss[d].peer = ss[c].name
    BY <2>2 DEF Waiting
  <2>4. Paired(st, c) = Forwarded(pair, d)
    BY <1>2 DEF Paired
  <2> HIDE DEF d
  <2>5. PICK x, y : pair = [st EXCEPT !.sessions[d].partner = c, !.sessions[c].partner = d,
                                      !.sessions[d].out = x, !.sessions[c].out = y]
    OBVIOUS
  <2> DEFINE t1 == [ss EXCEPT ![d].partner = c]
             t2 == [t1 EXCEPT ![c].partner = d]
             t3 == [t2 EXCEPT ![d].out = x]
             tt == [t3 EXCEPT ![c].out = y]
  <2> HIDE DEF pair
  <2>6. DOMAIN pair = {"sessions", "down"} /\ pair.sessions = tt
    BY <2>5 DEF IsState
  <2>7. PartnerSetTo(ss, t1, d, c)
    BY <2>3, PartnerSets DEF IsState
  <2>8. PartnerSetTo(t1, t2, c, d)
    <3> HIDE DEF t1
    <3>1. AreLinks(t1) /\ c \in DOMAIN t1
      BY <2>7 DEF PartnerSetTo
    <3> QED BY <3>1, PartnerSets
  <2>9. SameLinks(t2, t3)
    <3> HIDE DEF t1, t2
    <3>1. AreLinks(t2) /\ d \in DOMAIN t2
      BY <2>3, <2>7, <2>8 DEF PartnerSetTo
    <3> QED BY <3>1, OutSets
  <2>10. SameLinks(t3, tt)
    <3> HIDE DEF t1, t2, t3
    <3>1. AreLinks(t3) /\ c \in DOMAIN t3
      BY <2>7, <2>8, <2>9 DEF PartnerSetTo, SameLinks
    <3> QED BY <3>1, OutSets
  <2> HIDE DEF tt, t1, t2, t3
  <2>11. AreLinks(tt) /\ DOMAIN tt = DOMAIN ss
    BY <2>7, <2>8, <2>9, <2>10 DEF PartnerSetTo, SameLinks
  <2>12. /\ tt[c].partner = d /\ tt[d].partner = c
         /\ \A e \in DOMAIN ss \ {c, d} : tt[e].partner = ss[e].partner
         /\ \A e \in DOMAIN ss : tt[e].kind = ss[e].kind /\ tt[e].name = ss[e].name /\ tt[e].peer = ss[e].peer
    BY <2>3, <2>7, <2>8, <2>9, <2>10 DEF PartnerSetTo, SameLinks
  <2>13. \A e \in DOMAIN ss : ss[e].partner # c /\ ss[e].partner # d
    BY <2>3 DEF Partners, IsState, AreLinks, Links, NoLink
  <2>14. Partners(tt)
    BY <2>3, <2>11, <2>12, <2>13 DEF Partners, Ends
  <2>15. IsState(pair) /\ Partners(pair.sessions) /\ d \in DOMAIN pair.sessions
    BY <2>3, <2>6, <2>11, <2>14 DEF IsState
  <2>16. FewerLinks(ss, pair.sessions)
    BY <2>6, <2>11, <2>12, <2>14 DEF FewerLinks
  <2>17. IsState(Forwarded(pair, d)) /\ SameLinks(pair.sessions, Forwarded(pair, d).sessions)
    BY <2>15, ForwardedSame
  <2>18. FewerLinks(pair.sessions, Forwarded(pair, d).sessions)
    BY <2>15, <2>17, SameIsFewer DEF IsState
  <2> QED BY <2>4, <2>16, <2>17, <2>18, FewerAgain
<1> QED BY <1>1, <1>2
-----------------------------------------------------------------------------
(* The steps of the server.  Links only go, unless they read their init.   *)

LEMMA RelayOk ==
    ASSUME PairInv
    PROVE  IsState(Relay) /\ Partners(Relay.sessions) /\ Relay.sessions = sessions /\ AreLinks(sessions)
BY DEF PairInv, Relay, IsState

(* A step that pairs nothing and takes or adds what is no init.            *)
LEMMA FewerStep ==
    ASSUME PairInv, FewerLinks(sessions, sessions'), UNCHANGED made,
           up' = [d \in Links |-> up'[d]],
           \A d \in DOMAIN sessions : \A k : Queue(up[d], k) => Queue(up'[d], k)
    PROVE  PairInv'
<1>1. /\ AreLinks(sessions') /\ Partners(sessions') /\ made' \in Nat
      /\ \A c \in DOMAIN sessions' : c <= made'
  BY DEF FewerLinks, PairInv
<1>2. Queues(up', sessions')
  BY DEF FewerLinks, PairInv, Queues
<1> QED BY <1>1, <1>2 DEF PairInv

LEMMA FewerStepQuiet ==
    ASSUME PairInv, FewerLinks(sessions, sessions'), UNCHANGED <<made, up>>
    PROVE  PairInv'
<1>1. up' = [d \in Links |-> up'[d]]
  BY DEF PairInv, Queues
<1> QED BY <1>1, FewerStep

LEMMA FewerStepOneQueue ==
    ASSUME PairInv, FewerLinks(sessions, sessions'), UNCHANGED made, NEW c \in DOMAIN sessions,
           NEW q, up' = [up EXCEPT ![c] = q], \A k : Queue(up[c], k) => Queue(q, k)
    PROVE  PairInv'
<1>1. up = [d \in Links |-> up[d]] /\ c \in Links
  BY DEF PairInv, Queues, AreLinks
<1>2. up' = [d \in Links |-> up'[d]] /\ up'[c] = q /\ \A d \in Links \ {c} : up'[d] = up[d]
  BY <1>1
<1>3. \A d \in DOMAIN sessions : \A k : Queue(up[d], k) => Queue(up'[d], k)
  BY <1>2 DEF PairInv, AreLinks
<1> QED BY <1>2, <1>3, FewerStep

LEMMA SameAgain ==
    ASSUME PairInv, UNCHANGED sessions PROVE FewerLinks(sessions, sessions')
BY DEF PairInv, FewerLinks

(* The init makes the link what the console said, while it has no partner. *)
LEMMA InitStep ==
    ASSUME PairInv, NEW c \in Links, ReadInit(c), UNCHANGED made
    PROVE  PairInv'
<1> DEFINE i == Head(up[c])
           st == [Relay EXCEPT !.sessions[c].kind = i.kind, !.sessions[c].name = i.name,
                               !.sessions[c].peer = i.peer]
           ss == [[[sessions EXCEPT ![c].kind = i.kind] EXCEPT ![c].name = i.name]
                    EXCEPT ![c].peer = i.peer]
           older == Listening(sessions, i.name) \ {c}
<1>1. /\ c \in DOMAIN sessions /\ up[c] # <<>> /\ i.op = "init" /\ up' = [up EXCEPT ![c] = Tail(@)]
      /\ \/ i.kind = "listen" /\ Become(IF older = {} THEN st ELSE Erase(st, Least(older)))
         \/ i.kind = "connect" /\ Become(Offered(st, c))
         \/ i.kind = "accept" /\ Become(Paired(st, c))
  BY DEF ReadInit, Reads
<1>2. Queue(up[c], sessions[c].kind) /\ AreLinks(sessions) /\ Partners(sessions)
  BY <1>1 DEF PairInv, Queues
<1>3. sessions[c].kind = "pending"
  BY <1>1, <1>2, HeadInit
<1>4. sessions[c].partner = NoLink /\ \A d \in DOMAIN sessions : sessions[d].partner # c
  BY <1>1, <1>2, <1>3 DEF Partners, Ends, AreLinks, Links, NoLink
<1>5. DOMAIN st = {"sessions", "down"} /\ st.sessions = ss
  <2> HIDE DEF i
  <2> QED BY DEF Relay
<1>6. /\ AreLinks(ss) /\ DOMAIN ss = DOMAIN sessions
      /\ ss[c].kind = i.kind /\ ss[c].partner = NoLink
      /\ \A d \in DOMAIN sessions \ {c} : ss[d] = sessions[d]
  <2> HIDE DEF i
  <2> QED BY <1>1, <1>2, <1>4 DEF AreLinks, Fields
<1> HIDE DEF ss, st
<1>7. Partners(ss)
  BY <1>1, <1>2, <1>4, <1>6 DEF Partners
<1>8. IsState(st) /\ Partners(st.sessions) /\ c \in DOMAIN st.sessions
  BY <1>1, <1>5, <1>6, <1>7 DEF IsState
<1>9. FewerLinks(ss, ss)
  BY <1>6, <1>7 DEF FewerLinks
<1>10. FewerLinks(ss, sessions')
  <2>1. CASE i.kind = "listen" /\ Become(IF older = {} THEN st ELSE Erase(st, Least(older)))
    <3>1. CASE older = {}
      BY <1>5, <1>9, <2>1, <3>1 DEF Become
    <3>2. CASE older # {}
      <4>1. older \subseteq DOMAIN sessions
        BY DEF Listening
      <4>2. Least(older) \in DOMAIN st.sessions
        <5> HIDE DEF older
        <5> QED BY <1>2, <1>5, <1>6, <3>2, <4>1, LeastIn DEF AreLinks
      <4>3. FewerLinks(ss, Erase(st, Least(older)).sessions)
        BY <1>5, <1>8, <4>2, EraseFewer
      <4> QED BY <2>1, <3>2, <4>3 DEF Become
    <3> QED BY <3>1, <3>2
  <2>2. CASE i.kind = "connect" /\ Become(Offered(st, c))
    <3>1. SameLinks(ss, Offered(st, c).sessions)
      BY <1>5, <1>8, OfferedSame
    <3> QED BY <1>6, <1>7, <2>2, <3>1, SameIsFewer DEF Become
  <2>3. CASE i.kind = "accept" /\ Become(Paired(st, c))
    <3>1. FewerLinks(ss, Paired(st, c).sessions)
      BY <1>5, <1>6, <1>8, <2>3, PairedFewer
    <3> QED BY <2>3, <3>1 DEF Become
  <2> QED BY <1>1, <2>1, <2>2, <2>3
<1>11. /\ AreLinks(sessions') /\ Partners(sessions') /\ DOMAIN sessions' \subseteq DOMAIN sessions
       /\ \A d \in DOMAIN sessions' \ {c} : sessions'[d].kind = sessions[d].kind
  BY <1>6, <1>10 DEF FewerLinks
<1>12. \A k : Queue(Tail(up[c]), k)
  BY <1>1, <1>2, QueueTail
<1>13. up = [d \in Links |-> up[d]]
  BY DEF PairInv, Queues
<1>14. /\ up' = [d \in Links |-> up'[d]] /\ up'[c] = Tail(up[c])
       /\ \A d \in Links \ {c} : up'[d] = up[d]
  BY <1>1, <1>13
<1>15. Queues(up', sessions')
  <2> SUFFICES ASSUME NEW d \in DOMAIN sessions' PROVE Queue(up'[d], sessions'[d].kind)
    BY <1>14 DEF Queues
  <2>1. CASE d = c
    BY <1>12, <1>14, <2>1
  <2>2. CASE d # c
    <3>1. d \in DOMAIN sessions /\ sessions'[d].kind = sessions[d].kind /\ up'[d] = up[d]
      BY <1>2, <1>11, <1>14, <2>2 DEF AreLinks
    <3>2. Queue(up[d], sessions[d].kind)
      BY <3>1 DEF PairInv, Queues
    <3> QED BY <3>1, <3>2
  <2> QED BY <2>1, <2>2
<1> QED BY <1>11, <1>15 DEF PairInv

LEMMA ServerStep ==
    ASSUME PairInv, NEW c \in Links, Serve(c), UNCHANGED made
    PROVE  PairInv'
<1>1. IsState(Relay) /\ Partners(Relay.sessions) /\ Relay.sessions = sessions /\ AreLinks(sessions)
  BY RelayOk
<1>2. c \in DOMAIN sessions => \A k : up[c] # <<>> /\ Queue(up[c], k) => Queue(Tail(up[c]), k)
  BY QueueTail
<1>3. c \in DOMAIN sessions => /\ IsState(Forwarded(Relay, c)) /\ SameLinks(sessions, Forwarded(Relay, c).sessions)
                               /\ IsState(Erase(Relay, c)) /\ FewerLinks(sessions, Erase(Relay, c).sessions)
  BY <1>1, ForwardedSame, EraseFewer
<1>4. CASE ReadInit(c)
  BY <1>4, InitStep
<1>5. CASE ReadBlock(c)
  <2>1. c \in DOMAIN sessions /\ up[c] # <<>> /\ up' = [up EXCEPT ![c] = Tail(@)]
    BY <1>5 DEF ReadBlock, Reads
  <2>2. CASE Become(Relay)
    <3>1. FewerLinks(sessions, sessions')
      BY <1>1, <2>2, SameAgain DEF Become
    <3> QED BY <1>2, <2>1, <3>1, FewerStepOneQueue
  <2>3. CASE Become(Forwarded([Relay EXCEPT !.sessions[c].in = Append(@, Head(up[c]))], c))
    <3>1. PICK in : Become(Forwarded([Relay EXCEPT !.sessions[c].in = in], c))
      BY <2>3
    <3> DEFINE st == [Relay EXCEPT !.sessions[c].in = in]
               ss == [sessions EXCEPT ![c].in = in]
    <3>2. DOMAIN st = {"sessions", "down"} /\ st.sessions = ss
      BY DEF Relay
    <3>3. SameLinks(sessions, ss)
      BY <1>1, <2>1 DEF AreLinks, SameLinks, Fields
    <3> HIDE DEF ss, st
    <3>4. FewerLinks(sessions, ss)
      BY <1>1, <3>3, SameIsFewer
    <3>5. IsState(st) /\ Partners(st.sessions) /\ c \in DOMAIN st.sessions
      BY <2>1, <3>2, <3>3, <3>4 DEF IsState, SameLinks, FewerLinks
    <3>6. SameLinks(ss, Forwarded(st, c).sessions)
      BY <3>2, <3>5, ForwardedSame
    <3>7. FewerLinks(ss, Forwarded(st, c).sessions)
      BY <3>2, <3>5, <3>6, SameIsFewer DEF IsState
    <3>8. FewerLinks(sessions, sessions')
      BY <3>1, <3>4, <3>7, FewerAgain DEF Become, st
    <3> QED BY <1>2, <2>1, <3>8, FewerStepOneQueue
  <2> QED BY <1>5, <2>2, <2>3 DEF ReadBlock
<1>6. CASE Forward(c)
  <2>1. c \in DOMAIN sessions /\ sessions' = Forwarded(Relay, c).sessions /\ UNCHANGED up
    BY <1>6 DEF Forward, Become
  <2> QED BY <1>1, <1>3, <2>1, SameIsFewer, FewerStepQuiet
<1>7. CASE ReadEof(c)
  <2>1. c \in DOMAIN sessions /\ up[c] # <<>> /\ up' = [up EXCEPT ![c] = Tail(@)]
    BY <1>7 DEF ReadEof, Reads
  <2> DEFINE st == Forwarded(Relay, c)
  <2>2. sessions' = Erase(st, c).sessions
    BY <1>7 DEF ReadEof, Become
  <2> HIDE DEF st
  <2>3. IsState(st) /\ SameLinks(sessions, st.sessions)
    BY <1>3, <2>1 DEF st
  <2>4. FewerLinks(sessions, st.sessions)
    BY <1>1, <2>3, SameIsFewer
  <2>5. FewerLinks(st.sessions, Erase(st, c).sessions)
    BY <2>1, <2>3, <2>4, EraseFewer DEF SameLinks, FewerLinks
  <2>6. FewerLinks(sessions, sessions')
    BY <2>2, <2>4, <2>5, FewerAgain
  <2> QED BY <1>2, <2>1, <2>6, FewerStepOneQueue
<1>8. CASE Write(c)
  <2>1. c \in DOMAIN sessions /\ sessions' = Written(Relay, c).sessions /\ UNCHANGED up
    BY <1>8 DEF Write, Become
  <2> QED BY <1>1, <2>1, WrittenFewer, FewerStepQuiet
<1>9. CASE WriteFails(c) \/ Expire(c)
  <2>1. c \in DOMAIN sessions /\ sessions' = Erase(Relay, c).sessions /\ up' = [up EXCEPT ![c] = <<>>]
    BY <1>9 DEF WriteFails, Expire, Become
  <2> QED BY <1>3, <2>1, QueueEmpty, FewerStepOneQueue
<1>10. CASE Offer(c)
  <2>1. c \in DOMAIN sessions /\ sessions' = Offered(Relay, c).sessions /\ UNCHANGED up
    BY <1>10 DEF Offer, Become
  <2>2. SameLinks(sessions, Offered(Relay, c).sessions)
    BY <1>1, <2>1, OfferedSame
  <2> QED BY <1>1, <2>1, <2>2, SameIsFewer, FewerStepQuiet
<1>11. CASE HangUp(c)
  <2> DEFINE st == Forwarded(Relay, c)
  <2>1. c \in DOMAIN sessions /\ up' = [up EXCEPT ![c] = <<>>] /\ sessions' = Erase(st, c).sessions
    BY <1>11 DEF HangUp, Become
  <2> HIDE DEF st
  <2>2. IsState(st) /\ SameLinks(sessions, st.sessions)
    BY <1>3, <2>1 DEF st
  <2>3. FewerLinks(sessions, st.sessions)
    BY <1>1, <2>2, SameIsFewer
  <2>4. FewerLinks(st.sessions, Erase(st, c).sessions)
    BY <2>1, <2>2, <2>3, EraseFewer DEF SameLinks, FewerLinks
  <2>5. FewerLinks(sessions, sessions')
    BY <2>1, <2>3, <2>4, FewerAgain
  <2> QED BY <2>1, <2>5, QueueEmpty, FewerStepOneQueue
<1> QED BY <1>4, <1>5, <1>6, <1>7, <1>8, <1>9, <1>10, <1>11 DEF Serve
-----------------------------------------------------------------------------
(* The steps of the consoles: they add to queues, cut them and make links. *)

LEMMA StartStep ==
    ASSUME PairInv, NEW h, StartLink(h)
    PROVE  PairInv'
<1> DEFINE first == <<Init(sockets[h].kind, sockets[h].name, sockets[h].peer)>>
<1>1. /\ made < MaxLinks /\ made' = made + 1 /\ up' = [up EXCEPT ![made'] = first]
      /\ sessions' = [c \in DOMAIN sessions \union {made'} |-> IF c = made' THEN Accepted ELSE sessions[c]]
  BY DEF StartLink
<1>2. Queue(first, "pending")
  BY QueueStart
<1> HIDE DEF first
<1>3. made \in Nat /\ made' \in Links /\ made' \notin DOMAIN sessions /\ made' # NoLink
  BY <1>1, RelayAssumption DEF PairInv, Links, NoLink
<1>4. DOMAIN Accepted = Fields /\ Accepted.kind = "pending" /\ Accepted.partner = NoLink
  BY DEF Accepted, Fields
<1>5. /\ DOMAIN sessions' = DOMAIN sessions \union {made'} /\ sessions'[made'] = Accepted
      /\ \A c \in DOMAIN sessions : sessions'[c] = sessions[c]
      /\ sessions' = [c \in DOMAIN sessions' |-> sessions'[c]]
  BY <1>1, <1>3
<1>6. AreLinks(sessions')
  BY <1>3, <1>4, <1>5 DEF PairInv, AreLinks
<1>7. Partners(sessions')
  BY <1>4, <1>5 DEF PairInv, Partners
<1>8. up = [d \in Links |-> up[d]]
  BY DEF PairInv, Queues
<1>9. up' = [d \in Links |-> up'[d]] /\ up'[made'] = first /\ \A d \in Links \ {made'} : up'[d] = up[d]
  BY <1>1, <1>3, <1>8
<1>10. \A c \in DOMAIN sessions : up'[c] = up[c]
  BY <1>3, <1>9 DEF PairInv, AreLinks
<1>11. Queues(up', sessions')
  BY <1>2, <1>4, <1>5, <1>9, <1>10 DEF PairInv, Queues
<1>12. made' \in Nat /\ \A c \in DOMAIN sessions' : c <= made'
  BY <1>1, <1>3, <1>5 DEF PairInv, AreLinks, Links
<1> QED BY <1>6, <1>7, <1>11, <1>12 DEF PairInv

(* The end of a link is no init.                                           *)
LEMMA EofAdded ==
    ASSUME NEW s, NEW k, Queue(s, k)
    PROVE  Queue(Append(s, Eof), k) /\ \A n \in 0 .. Len(s) : Queue(Append(SubSeq(s, 1, n), Eof), k)
<1>1. Eof.op # "init"
  BY DEF Eof
<1> HIDE DEF Eof
<1> QED BY <1>1, QueueAppend, QueueFront

LEMMA ClosedStep ==
    ASSUME PairInv, NEW c, Closed(c), UNCHANGED <<sessions, made>>
    PROVE  PairInv'
<1>1. PICK n \in 0 .. Len(up[c]) :
        up' = IF Alive(c) THEN [up EXCEPT ![c] = Append(SubSeq(up[c], 1, n), Eof)] ELSE up
  BY DEF Closed
<1>2. CASE ~ Alive(c)
  BY <1>1, <1>2, SameAgain, FewerStepQuiet
<1>3. CASE Alive(c)
  <2>1. c \in DOMAIN sessions
    BY <1>3 DEF Alive
  <2>2. \A k : Queue(up[c], k) => Queue(Append(SubSeq(up[c], 1, n), Eof), k)
    BY EofAdded
  <2> QED BY <1>1, <1>3, <2>1, <2>2, SameAgain, FewerStepOneQueue
<1> QED BY <1>2, <1>3

LEMMA SendStep ==
    ASSUME PairInv, NEW h, PtpSend(h)
    PROVE  PairInv'
<1> DEFINE c == sockets[h].link
           b == Block(h, sockets'[h].sent)
<1>1. /\ UNCHANGED <<sessions, made>>
      /\ up' = IF Alive(c) THEN [up EXCEPT ![c] = Append(@, b)] ELSE up
  BY DEF PtpSend
<1>2. b.op # "init"
  BY DEF Block
<1> HIDE DEF b, c
<1>3. CASE ~ Alive(c)
  BY <1>1, <1>3, SameAgain, FewerStepQuiet
<1>4. CASE Alive(c)
  <2>1. c \in DOMAIN sessions
    BY <1>4 DEF Alive
  <2>2. \A k : Queue(up[c], k) => Queue(Append(up[c], b), k)
    BY <1>2, QueueAppend
  <2> QED BY <1>1, <1>4, <2>1, <2>2, SameAgain, FewerStepOneQueue
<1> QED BY <1>3, <1>4

LEMMA BreakStep ==
    ASSUME PairInv, NEW h, Break(h)
    PROVE  PairInv'
<1> DEFINE c == sockets[h].link
<1>1. /\ UNCHANGED <<sessions, made>> /\ c \in DOMAIN sessions
      /\ \E rest \in {up[c], <<>>} : up' = [up EXCEPT ![c] = Append(rest, Eof)]
  BY DEF Break, Alive
<1> HIDE DEF c
<1>2. PICK rest \in {up[c], <<>>} : up' = [up EXCEPT ![c] = Append(rest, Eof)]
  BY <1>1
<1>3. \A k : Queue(up[c], k) => Queue(Append(rest, Eof), k)
  BY EofAdded, QueueEmpty
<1> QED BY <1>1, <1>2, <1>3, SameAgain, FewerStepOneQueue

(* What a link that is closed had not sent yet.                            *)
LEMMA SomeSent ==
    ASSUME NEW S, NEW q \in Seq(S), NEW n \in 0 .. MaxSent + 1
    PROVE  AtMost(n, Len(q)) \in 0 .. Len(q)
<1>1. Len(q) \in Nat /\ n \in Nat
  BY LenProperties, RelayAssumption
<1> QED BY <1>1 DEF AtMost

LEMMA RelayLinksStep ==
    ASSUME PairInv, NEW m, CloseRelayLinks(m)
    PROVE  PairInv'
<1>1. PICK links : links = {sockets[h].link : h \in {h \in DOMAIN sockets : MacOf[sockets[h].name] = m}} \ {NoLink}
  OBVIOUS
<1>2. PICK sent \in [links -> 0 .. MaxSent + 1] :
        up' = [c \in Links |->
                 IF c \in links /\ Alive(c)
                 THEN Append(SubSeq(up[c], 1, AtMost(sent[c], Len(up[c]))), Eof) ELSE up[c]]
  BY <1>1 DEF CloseRelayLinks
<1>3. UNCHANGED <<sessions, made>> /\ up' = [d \in Links |-> up'[d]]
  BY <1>2 DEF CloseRelayLinks
<1>4. ASSUME NEW d \in DOMAIN sessions, NEW k, Queue(up[d], k) PROVE Queue(up'[d], k)
  <2>1. d \in Links
    BY DEF PairInv, AreLinks
  <2>2. PICK S : up[d] \in Seq(S)
    BY <1>4 DEF Queue
  <2>3. CASE d \in links /\ Alive(d)
    <3>1. AtMost(sent[d], Len(up[d])) \in 0 .. Len(up[d])
      BY <2>2, <2>3, SomeSent
    <3>2. up'[d] = Append(SubSeq(up[d], 1, AtMost(sent[d], Len(up[d]))), Eof)
      BY <1>2, <2>1, <2>3
    <3> QED BY <1>4, <3>1, <3>2, EofAdded
  <2>4. CASE ~ (d \in links /\ Alive(d))
    BY <1>2, <1>4, <2>1, <2>4
  <2> QED BY <2>3, <2>4
<1> QED BY <1>3, <1>4, SameAgain, FewerStep

LEMMA PairStep == PairInv /\ [Next]_vars => PairInv'
<1> SUFFICES ASSUME PairInv, [Next]_vars PROVE PairInv'
  OBVIOUS
<1>1. ASSUME NEW c \in Links, Serve(c), UNCHANGED made PROVE PairInv'
  BY <1>1, ServerStep
<1>2. ASSUME NEW h, StartLink(h) \/ PtpSend(h) \/ Break(h) PROVE PairInv'
  BY <1>2, StartStep, SendStep, BreakStep
<1>3. CASE UNCHANGED <<sessions, up, made>>
  BY <1>3, SameAgain, FewerStepQuiet
<1>4. ASSUME NEW h, PtpClose(h) PROVE PairInv'
  BY <1>3, <1>4, ClosedStep DEF PtpClose
<1>5. ASSUME NEW h, OnOversized(h) PROVE PairInv'
  BY <1>5, ClosedStep DEF OnOversized
<1>6. ASSUME NEW m, Join(m) \/ LoseGroup(m) PROVE PairInv'
  BY <1>6, RelayLinksStep DEF Join, LoseGroup
<1> QED BY <1>1, <1>2, <1>3, <1>4, <1>5, <1>6
        DEF Next, vars, serverVars, Game, Network, Membership, Server, OnConnectBssid, JoinTimesOut, PtpListen, PtpOpen, PtpAccept, Make,
            Receive, OnRequest, OnEstablished, OnBlock, OnEof, Received, RequestExpires

(* Whatever the consoles send, close and lose, and whichever links end or  *)
(* are replaced, no link of the relay has a partner that is gone or that   *)
(* is another's (adhoc/server.cpp, accept_stream and remove_closed).       *)
THEOREM RelayPaired == Spec => []PairedBothWays
<1>1. RelayInit => PairInv
  BY QueueEmpty DEF RelayInit, PairInv, AreLinks, Partners, Queues
<1>2. PairInv => PairedBothWays
  BY DEF PairInv, Partners, Ends, PairedBothWays
<1> QED BY <1>1, <1>2, PairStep, PTL DEF Spec

(* Queues of blocks. *)

Items == Inits \union Blocks \union Notices \union {Eof}

(* The blocks that stand next to each other in q are consecutive ones.     *)
Consecutive(a, b) == a \in Blocks /\ b \in Blocks => a.from = b.from /\ b.number = a.number + 1
RunIn(q) == \A i \in DOMAIN q : i + 1 \in DOMAIN q => Consecutive(q[i], q[i + 1])
(* If q ends with a block it is b; it does not start with one.             *)
EndsAt(q, b) == q # <<>> /\ q[Len(q)] \in Blocks => q[Len(q)] = b
Starts(q) == q # <<>> => q[1] \notin Blocks

(* What reading into r and then q shows of the blocks, r and then t does.  *)
Follows(q, t) ==
    \A r \in Seq(Items) : (RunIn(r \o q) => RunIn(r \o t)) /\ (Starts(r \o q) => Starts(r \o t))
(* t is what is left of q. *)
Lags(q, t) == (RunIn(q) => RunIn(t)) /\ \A b : EndsAt(q, b) => EndsAt(t, b)

LEMMA ConcatFacts ==
    ASSUME NEW S, NEW a \in Seq(S), NEW b \in Seq(S)
    PROVE  /\ a \o b \in Seq(S) /\ Len(a) \in Nat /\ Len(b) \in Nat
           /\ DOMAIN (a \o b) = 1 .. Len(a) + Len(b) /\ Len(a \o b) = Len(a) + Len(b)
           /\ \A i \in DOMAIN a : i \in DOMAIN (a \o b) /\ (a \o b)[i] = a[i]
           /\ \A i \in DOMAIN b : Len(a) + i \in DOMAIN (a \o b) /\ (a \o b)[Len(a) + i] = b[i]
<1>1. /\ a \o b \in Seq(S) /\ Len(a \o b) = Len(a) + Len(b)
      /\ \A i \in 1 .. Len(a) + Len(b) : (a \o b)[i] = IF i <= Len(a) THEN a[i] ELSE b[i - Len(a)]
  BY ConcatProperties
<1>2. Len(a) \in Nat /\ Len(b) \in Nat /\ DOMAIN a = 1 .. Len(a) /\ DOMAIN b = 1 .. Len(b)
  BY LenProperties
<1>3. DOMAIN (a \o b) = 1 .. Len(a) + Len(b)
  BY <1>1, LenProperties
<1> QED BY <1>1, <1>2, <1>3

LEMMA AppendFacts ==
    ASSUME NEW S, NEW a \in Seq(S), NEW e \in S
    PROVE  /\ Append(a, e) \in Seq(S) /\ Len(a) \in Nat
           /\ DOMAIN a = 1 .. Len(a) /\ DOMAIN Append(a, e) = 1 .. Len(a) + 1
           /\ Len(Append(a, e)) = Len(a) + 1 /\ Append(a, e)[Len(a) + 1] = e
           /\ \A i \in DOMAIN a : Append(a, e)[i] = a[i]
BY AppendProperties, LenProperties

LEMMA RunParts ==
    ASSUME NEW S, NEW a \in Seq(S), NEW b \in Seq(S), RunIn(a \o b)
    PROVE  RunIn(a) /\ RunIn(b)
<1>1. /\ DOMAIN (a \o b) = 1 .. Len(a) + Len(b) /\ Len(a) \in Nat
      /\ \A i \in DOMAIN a : i \in DOMAIN (a \o b) /\ (a \o b)[i] = a[i]
      /\ \A i \in DOMAIN b : Len(a) + i \in DOMAIN (a \o b) /\ (a \o b)[Len(a) + i] = b[i]
  BY ConcatFacts
<1>2. DOMAIN b = 1 .. Len(b) /\ Len(b) \in Nat
  BY LenProperties
<1>3. RunIn(a)
  BY <1>1 DEF RunIn
<1>4. ASSUME NEW i \in DOMAIN b, i + 1 \in DOMAIN b PROVE Consecutive(b[i], b[i + 1])
  <2>1. /\ (a \o b)[Len(a) + i] = b[i] /\ (a \o b)[Len(a) + (i + 1)] = b[i + 1]
        /\ Len(a) + i \in DOMAIN (a \o b) /\ Len(a) + (i + 1) \in DOMAIN (a \o b)
    BY <1>1, <1>4
  <2>2. Len(a) + (i + 1) = (Len(a) + i) + 1
    BY <1>1, <1>2
  <2> QED BY <2>1, <2>2 DEF RunIn
<1> QED BY <1>3, <1>4 DEF RunIn

(* A run, what is no block, and a run: a run.                              *)
LEMMA RunJoin ==
    ASSUME NEW S, NEW a \in Seq(S), NEW b \in Seq(S), NEW e \in S, e \notin Blocks, RunIn(a), RunIn(b)
    PROVE  RunIn(Append(a, e) \o b)
<1> DEFINE c == Append(a, e)
           q == c \o b
<1>1. /\ c \in Seq(S) /\ Len(a) \in Nat /\ DOMAIN a = 1 .. Len(a) /\ DOMAIN c = 1 .. Len(a) + 1
      /\ Len(c) = Len(a) + 1 /\ c[Len(a) + 1] = e /\ \A i \in DOMAIN a : c[i] = a[i]
  BY AppendFacts
<1> HIDE DEF c
<1>2. /\ DOMAIN q = 1 .. Len(c) + Len(b) /\ Len(b) \in Nat
      /\ \A i \in DOMAIN c : q[i] = c[i]
      /\ \A j \in DOMAIN b : q[Len(c) + j] = b[j]
  <2>1. c \in Seq(S)
    BY <1>1
  <2> QED BY <2>1, ConcatFacts
<1>3. DOMAIN b = 1 .. Len(b)
  BY LenProperties
<1> HIDE DEF q
<1> SUFFICES ASSUME NEW i \in DOMAIN q, i + 1 \in DOMAIN q PROVE Consecutive(q[i], q[i + 1])
  BY DEF RunIn, q, c
<1>4. CASE i + 1 <= Len(a)
  <2>1. i \in DOMAIN a /\ i + 1 \in DOMAIN a /\ i \in DOMAIN c /\ i + 1 \in DOMAIN c
    BY <1>1, <1>2, <1>4
  <2>2. q[i] = a[i] /\ q[i + 1] = a[i + 1]
    BY <1>1, <1>2, <2>1
  <2> QED BY <2>1, <2>2 DEF RunIn
<1>5. CASE i = Len(a) \/ i = Len(a) + 1
  <2>1. q[Len(a) + 1] = e
    BY <1>1, <1>2
  <2> QED BY <1>5, <2>1 DEF Consecutive
<1>6. CASE i > Len(a) + 1
  <2>1. PICK j \in DOMAIN b : i = Len(c) + j /\ j + 1 \in DOMAIN b /\ i + 1 = Len(c) + (j + 1)
    <3>1. i - Len(c) \in DOMAIN b /\ (i - Len(c)) + 1 \in DOMAIN b
      BY <1>1, <1>2, <1>3, <1>6
    <3>2. i = Len(c) + (i - Len(c)) /\ i + 1 = Len(c) + ((i - Len(c)) + 1)
      BY <1>1, <1>2
    <3> QED BY <3>1, <3>2
  <2>2. q[i] = b[j] /\ q[i + 1] = b[j + 1]
    BY <1>2, <2>1
  <2> QED BY <2>1, <2>2 DEF RunIn
<1> QED BY <1>1, <1>2, <1>4, <1>5, <1>6

LEMMA RunMore ==
    ASSUME NEW S, NEW a \in Seq(S), NEW e \in S, NEW b, RunIn(a), EndsAt(a, b), Consecutive(b, e)
    PROVE  RunIn(Append(a, e))
<1> DEFINE c == Append(a, e)
<1>1. /\ Len(a) \in Nat /\ DOMAIN a = 1 .. Len(a) /\ DOMAIN c = 1 .. Len(a) + 1
      /\ c[Len(a) + 1] = e /\ \A i \in DOMAIN a : c[i] = a[i]
  BY AppendFacts
<1> HIDE DEF c
<1> SUFFICES ASSUME NEW i \in DOMAIN c, i + 1 \in DOMAIN c PROVE Consecutive(c[i], c[i + 1])
  BY DEF RunIn, c
<1>2. CASE i + 1 \in DOMAIN a
  <2>1. i \in DOMAIN a
    BY <1>1, <1>2
  <2> QED BY <1>1, <1>2, <2>1 DEF RunIn
<1>3. CASE i + 1 \notin DOMAIN a
  <2>1. i = Len(a) /\ i \in DOMAIN a /\ a # <<>>
    BY <1>1, <1>3, EmptySeq
  <2>2. c[i] = a[Len(a)] /\ c[i + 1] = e
    BY <1>1, <2>1
  <2> QED BY <2>1, <2>2 DEF EndsAt, Consecutive
<1> QED BY <1>2, <1>3

LEMMA RunEmpty == RunIn(<<>>) /\ Starts(<<>>) /\ \A b : EndsAt(<<>>, b)
BY DEF RunIn, Starts, EndsAt

LEMMA EndsOfAppend ==
    ASSUME NEW S, NEW a \in Seq(S), NEW e \in S
    PROVE  /\ EndsAt(Append(a, e), e)
           /\ e \notin Blocks => \A b : EndsAt(Append(a, e), b)
           /\ Starts(Append(a, e)) <=> IF a = <<>> THEN e \notin Blocks ELSE Starts(a)
<1>1. /\ Len(a) \in Nat /\ Append(a, e)[Len(a) + 1] = e /\ Len(Append(a, e)) = Len(a) + 1
      /\ Append(a, e) # <<>> /\ \A i \in 1 .. Len(a) : Append(a, e)[i] = a[i]
  BY AppendProperties, LenProperties
<1>2. (a # <<>> => Len(a) \in Nat \ {0}) /\ (a = <<>> => Len(a) = 0)
  BY EmptySeq
<1>3. a # <<>> => Append(a, e)[1] = a[1]
  BY <1>1, <1>2
<1>4. a = <<>> => Append(a, e)[1] = e
  BY <1>1, <1>2
<1>5. Append(a, e)[Len(Append(a, e))] = e
  BY <1>1
<1>6. Starts(Append(a, e)) <=> IF a = <<>> THEN e \notin Blocks ELSE Starts(a)
  <2> DEFINE c == Append(a, e)
  <2> HIDE DEF c
  <2>1. c # <<>> /\ (a # <<>> => c[1] = a[1]) /\ (a = <<>> => c[1] = e)
    BY <1>1, <1>3, <1>4 DEF c
  <2>2. Starts(c) <=> IF a = <<>> THEN e \notin Blocks ELSE Starts(a)
    BY <2>1 DEF Starts
  <2> QED BY <2>2 DEF c
<1>7. EndsAt(Append(a, e), e) /\ (e \notin Blocks => \A b : EndsAt(Append(a, e), b))
  <2> DEFINE c == Append(a, e)
  <2> HIDE DEF c
  <2>1. c[Len(c)] = e
    BY <1>5 DEF c
  <2>2. EndsAt(c, e) /\ (e \notin Blocks => \A b : EndsAt(c, b))
    BY <2>1 DEF EndsAt
  <2> QED BY <2>2 DEF c
<1> QED BY <1>6, <1>7

LEMMA EndsOfConcat ==
    ASSUME NEW S, NEW a \in Seq(S), NEW b \in Seq(S)
    PROVE  /\ \A x : EndsAt(a \o b, x) <=> EndsAt(IF b = <<>> THEN a ELSE b, x)
           /\ Starts(a \o b) <=> Starts(IF a = <<>> THEN b ELSE a)
<1> DEFINE q == a \o b
<1>1. CASE b = <<>>
  <2>1. q = a
    BY <1>1, ConcatEmptySeq
  <2>2. Starts(a) <=> Starts(IF a = <<>> THEN b ELSE a)
    BY <1>1
  <2> QED BY <1>1, <2>1, <2>2
<1>2. CASE a = <<>>
  <2>1. q = b
    BY <1>2, ConcatEmptySeq
  <2>2. \A x : EndsAt(b, x) <=> EndsAt(IF b = <<>> THEN a ELSE b, x)
    BY <1>2
  <2> QED BY <1>2, <2>1, <2>2
<1>3. CASE a # <<>> /\ b # <<>>
  <2>1. Len(a) \in Nat \ {0} /\ Len(b) \in Nat \ {0}
    BY <1>3, EmptySeq
  <2>2. /\ q \in Seq(S) /\ Len(q) = Len(a) + Len(b)
        /\ \A i \in DOMAIN a : q[i] = a[i]
        /\ \A i \in DOMAIN b : q[Len(a) + i] = b[i]
    BY ConcatFacts
  <2>3. DOMAIN a = 1 .. Len(a) /\ DOMAIN b = 1 .. Len(b)
    BY LenProperties
  <2>4. q[1] = a[1] /\ q[Len(q)] = b[Len(b)] /\ q # <<>>
    <3>1. q # <<>>
      BY <2>1, <2>2, EmptySeq
    <3> QED BY <2>1, <2>2, <2>3, <3>1
  <2> HIDE DEF q
  <2>5. (\A x : EndsAt(q, x) <=> EndsAt(b, x)) /\ (Starts(q) <=> Starts(a))
    BY <1>3, <2>4 DEF EndsAt, Starts
  <2> QED BY <1>3, <2>5 DEF q
<1> QED BY <1>1, <1>2, <1>3

LEMMA AppendAfter ==
    ASSUME NEW S, NEW a \in Seq(S), NEW q \in Seq(S), NEW e \in S
    PROVE  a \o Append(q, e) = Append(a \o q, e)
<1>1. Append(q, e) = q \o <<e>> /\ <<e>> \in Seq(S)
  BY AppendIsConcat
<1>2. a \o q \in Seq(S)
  BY ConcatProperties
<1>3. Append(a \o q, e) = (a \o q) \o <<e>>
  BY <1>2, AppendIsConcat
<1>4. (a \o q) \o <<e>> = a \o (q \o <<e>>)
  BY <1>1, ConcatAssociative
<1> QED BY <1>1, <1>3, <1>4

LEMMA CutInTwo ==
    ASSUME NEW S, NEW q \in Seq(S), NEW n \in 0 .. Len(q)
    PROVE  /\ SubSeq(q, 1, n) \in Seq(S) /\ SubSeq(q, n + 1, Len(q)) \in Seq(S)
           /\ SubSeq(q, 1, n) \o SubSeq(q, n + 1, Len(q)) = q
<1>1. Len(q) \in Nat /\ n \in Nat /\ \A i \in 1 .. Len(q) : q[i] \in S
  BY LenProperties, ElementOfSeq
<1>2. SubSeq(q, 1, n) \in Seq(S)
  BY <1>1, SubSeqProperties
<1>3. SubSeq(q, n + 1, Len(q)) \in Seq(S)
  <2>1. n + 1 \in Int /\ Len(q) \in Int /\ \A i \in n + 1 .. Len(q) : q[i] \in S
    BY <1>1
  <2> QED BY <2>1, SubSeqProperties
<1>4. 1 \in 1 .. Len(q) + 1 /\ n \in 1 - 1 .. Len(q) /\ Len(q) \in n .. Len(q)
  BY <1>1
<1>5. SubSeq(q, 1, n) \o SubSeq(q, n + 1, Len(q)) = SubSeq(q, 1, Len(q))
  BY <1>4, ConcatAdjacentSubSeq
<1> QED BY <1>2, <1>3, <1>5, SubSeqFull

LEMMA FollowsSelf == \A q : Follows(q, q)
BY DEF Follows

LEMMA FollowsAgain ==
    ASSUME NEW q, NEW t, NEW u, Follows(q, t), Follows(t, u)
    PROVE  Follows(q, u)
BY DEF Follows

LEMMA ItemsConcat ==
    \A x, y \in Seq(Items) : x \o y \in Seq(Items) /\ \A z \in Seq(Items) : (x \o y) \o z = x \o (y \o z)
<1> TAKE x, y \in Seq(Items)
<1>1. x \o y \in Seq(Items)
  BY ConcatProperties
<1>2. ASSUME NEW z \in Seq(Items) PROVE (x \o y) \o z = x \o (y \o z)
  BY ConcatAssociative
<1> QED BY <1>1, <1>2

LEMMA Regroup == \A x, y, z \in Seq(Items) : x \o (y \o z) = (x \o y) \o z
BY ItemsConcat

LEMMA FollowsPart ==
    ASSUME NEW a \in Seq(Items), NEW b \in Seq(Items)
    PROVE  Follows(a \o b, a)
<1> SUFFICES ASSUME NEW r \in Seq(Items)
             PROVE  (RunIn(r \o (a \o b)) => RunIn(r \o a)) /\ (Starts(r \o (a \o b)) => Starts(r \o a))
  BY DEF Follows
<1>1. PICK c \in Seq(Items) : c = r \o a
  BY ConcatProperties
<1>2. r \o (a \o b) = c \o b
  BY <1>1, Regroup
<1>3. RunIn(c \o b) => RunIn(c)
  BY RunParts
<1>4. Starts(c \o b) <=> Starts(IF c = <<>> THEN b ELSE c)
  BY EndsOfConcat
<1>5. Starts(c \o b) => Starts(c)
  BY <1>4, RunEmpty
<1> QED BY <1>1, <1>2, <1>3, <1>5

LEMMA FollowsJoin ==
    ASSUME NEW q \in Seq(Items), NEW w \in Seq(Items), NEW e \in Items, e \notin Blocks, RunIn(w)
    PROVE  Follows(q, Append(q, e) \o w)
<1> SUFFICES ASSUME NEW r \in Seq(Items)
             PROVE  /\ RunIn(r \o q) => RunIn(r \o (Append(q, e) \o w))
                    /\ Starts(r \o q) => Starts(r \o (Append(q, e) \o w))
  BY DEF Follows
<1>1. PICK c \in Seq(Items) : c = r \o q
  BY ConcatProperties
<1>2. PICK d \in Seq(Items) : d = Append(q, e)
  BY AppendProperties
<1>3. r \o (d \o w) = (r \o d) \o w
  BY Regroup
<1>4. r \o d = Append(c, e)
  BY <1>1, <1>2, AppendAfter
<1>5. RunIn(c) => RunIn(Append(c, e) \o w)
  BY RunJoin
<1>6. PICK f \in Seq(Items) : f = Append(c, e) /\ f # <<>>
  BY AppendProperties
<1>7. Starts(c) => Starts(f)
  BY <1>6, EndsOfAppend
<1>8. Starts(f \o w) <=> Starts(f)
  BY <1>6, EndsOfConcat
<1> QED BY <1>1, <1>2, <1>3, <1>4, <1>5, <1>6, <1>7, <1>8

LEMMA FollowsEnd ==
    ASSUME NEW q \in Seq(Items), NEW e \in Items, e \notin Blocks
    PROVE  Follows(q, Append(q, e))
<1>1. Append(q, e) \in Seq(Items) /\ <<>> \in Seq(Items)
  BY AppendProperties, EmptySeq
<1>2. Append(q, e) \o <<>> = Append(q, e)
  BY <1>1, ConcatEmptySeq
<1>3. Follows(q, Append(q, e) \o <<>>)
  BY <1>1, RunEmpty, FollowsJoin
<1> QED BY <1>2, <1>3

LEMMA FollowsCut ==
    ASSUME NEW q \in Seq(Items), NEW n \in 0 .. Len(q), NEW e \in Items, e \notin Blocks
    PROVE  Follows(q, Append(SubSeq(q, 1, n), e))
<1>1. PICK a \in Seq(Items) : a = SubSeq(q, 1, n)
  BY CutInTwo
<1>2. PICK b \in Seq(Items) : b = SubSeq(q, n + 1, Len(q))
  BY CutInTwo
<1>3. a \o b = q
  BY <1>1, <1>2, CutInTwo
<1>4. Follows(a \o b, a) /\ Follows(a, Append(a, e))
  BY FollowsPart, FollowsEnd
<1> QED BY <1>1, <1>3, <1>4, FollowsAgain

LEMMA FollowsAfter ==
    ASSUME NEW a \in Seq(Items), NEW q \in Seq(Items), NEW t \in Seq(Items), Follows(q, t)
    PROVE  Follows(a \o q, a \o t)
<1> SUFFICES ASSUME NEW r \in Seq(Items)
             PROVE  /\ RunIn(r \o (a \o q)) => RunIn(r \o (a \o t))
                    /\ Starts(r \o (a \o q)) => Starts(r \o (a \o t))
  BY DEF Follows
<1>1. PICK c \in Seq(Items) : c = r \o a
  BY ConcatProperties
<1>2. r \o (a \o q) = (r \o a) \o q /\ r \o (a \o t) = (r \o a) \o t
  <2>1. (r \o a) \o q = r \o (a \o q)
    BY Regroup
  <2>2. (r \o a) \o t = r \o (a \o t)
    BY Regroup
  <2> QED BY <2>1, <2>2
<1>3. r \o (a \o q) = c \o q /\ r \o (a \o t) = c \o t
  BY <1>1, <1>2
<1> QED BY <1>3 DEF Follows

LEMMA FollowsRun ==
    ASSUME NEW q \in Seq(Items), NEW t \in Seq(Items), Follows(q, t)
    PROVE  (RunIn(q) => RunIn(t)) /\ (Starts(q) => Starts(t))
<1>1. <<>> \in Seq(Items) /\ <<>> \o q = q /\ <<>> \o t = t
  BY EmptySeq, ConcatEmptySeq
<1> QED BY <1>1 DEF Follows

LEMMA LagsPart ==
    ASSUME NEW a \in Seq(Items), NEW b \in Seq(Items)
    PROVE  Lags(a \o b, b)
<1>1. RunIn(a \o b) => RunIn(b)
  BY RunParts
<1>2. ASSUME NEW x, EndsAt(a \o b, x) PROVE EndsAt(b, x)
  <2>1. EndsAt(a \o b, x) <=> EndsAt(IF b = <<>> THEN a ELSE b, x)
    BY EndsOfConcat
  <2> QED BY <1>2, <2>1, RunEmpty
<1> QED BY <1>1, <1>2 DEF Lags
-----------------------------------------------------------------------------
(* What is on its way to a console.  L are the links of listening sockets. *)

(* A listening socket is sent notices of sockets that connect, and only    *)
(* those.                                                                  *)
ForConsole(c, L) == IF c \in L THEN {Notice(n) : n \in Openers} ELSE Notices \union Blocks
IsLink(s, c, L) ==
    /\ s \in Sessions /\ s.out \in Seq(ForConsole(c, L))
    /\ s.kind = "connect" => s.name \in Openers
    /\ c \in L => s.kind \in {"pending", "listen"}
Typed(st, L) ==
    /\ IsState(st) /\ \A c \in DOMAIN st.sessions : IsLink(st.sessions[c], c, L)
    /\ st.down = [c \in Links |-> st.down[c]]
    /\ \A c \in Links : st.down[c] \in Seq(ForConsole(c, L) \union {Eof})

EndedIn(uu, c) == \E i \in DOMAIN uu[c] : uu[c][i] = Eof
(* What is on its way to the server, with the ends the handlers see.       *)
Uploads(uu) == \A c \in Links : uu[c] \in Seq(Items) /\ (EndedIn(uu, c) <=> Ended(c))

(* What a console sends over its link, what the server has still to pass   *)
(* on over a link, and all that is still to come out of it.                *)
Sends(ss, uu, c) == ss[c].in \o uu[c]
Passing(ss, uu, c) ==
    IF c \notin DOMAIN ss \/ EndedIn(uu, c) THEN <<>>
    ELSE IF ss[c].partner = NoLink THEN ss[c].out ELSE ss[c].out \o Sends(ss, uu, ss[c].partner)
Coming(st, uu, c) == st.down[c] \o Passing(st.sessions, uu, c)

(* What a handler may do: nothing gets out of order, and what a partner    *)
(* still sends is still to come, all of it.                                *)
Kept(st, r, uu) ==
    /\ DOMAIN r.sessions \subseteq DOMAIN st.sessions
    /\ \A c \in DOMAIN r.sessions :
         LET s == st.sessions[c] t == r.sessions[c] IN
         /\ t.kind = s.kind /\ (t.kind = "pending" => t.in = s.in)
         /\ Lags(Sends(st.sessions, uu, c), Sends(r.sessions, uu, c))
         /\ t.partner # NoLink => t.partner = s.partner /\ Coming(r, uu, c) = Coming(st, uu, c)
    /\ \A c \in Links : Follows(Coming(st, uu, c), Coming(r, uu, c))

(* A handler keeps the types, the pairs and the flows. *)
Handled(st, L, r, uu) == Typed(r, L) /\ Partners(r.sessions) /\ Kept(st, r, uu)

LEMMA ItemTypes ==
    /\ Eof \in Items /\ Eof \notin Blocks
    /\ \A n : Notice(n) \notin Blocks
    /\ \A n \in Names : Notice(n) \in Notices /\ Notice(n) \in Items
    /\ Blocks \subseteq Items /\ Notices \subseteq Items /\ Openers \subseteq Names
    /\ \A k, n, p : Init(k, n, p) \notin Blocks
<1>1. \A b \in Blocks : b.op = "block"
  BY DEF Blocks, Block
<1>2. Eof.op = "eof" /\ (\A n : Notice(n).op = "notice") /\ \A k, n, p : Init(k, n, p).op = "init"
  BY DEF Eof, Notice, Init
<1>3. Openers \subseteq Names
  BY StreamsAssumption
<1>4. \A n \in Names : Notice(n) \in Notices
  BY DEF Notices
<1> QED BY <1>1, <1>2, <1>3, <1>4 DEF Items

LEMMA ForItems ==
    ASSUME NEW c, NEW L
    PROVE  ForConsole(c, L) \subseteq Items /\ ForConsole(c, L) \subseteq Blocks \union Notices
<1>1. {Notice(n) : n \in Openers} \subseteq Notices
  BY ItemTypes
<1> QED BY <1>1, ItemTypes DEF ForConsole

LEMMA TypedItems ==
    ASSUME NEW st, NEW L, Typed(st, L), Partners(st.sessions), NEW uu, Uploads(uu), NEW c \in Links
    PROVE  /\ st.down[c] \in Seq(Items) /\ uu[c] \in Seq(Items)
           /\ c \in DOMAIN st.sessions => /\ st.sessions[c].in \in Seq(Items) /\ st.sessions[c].out \in Seq(Items)
                                          /\ Sends(st.sessions, uu, c) \in Seq(Items)
           /\ Passing(st.sessions, uu, c) \in Seq(Items) /\ Coming(st, uu, c) \in Seq(Items)
<1> DEFINE ss == st.sessions
<1>1. st.down[c] \in Seq(Items)
  <2>1. st.down[c] \in Seq(ForConsole(c, L) \union {Eof}) /\ ForConsole(c, L) \union {Eof} \subseteq Items
    BY ForItems, ItemTypes DEF Typed
  <2> QED BY <2>1, SeqMonotonic
<1>2. \A d \in Links : uu[d] \in Seq(Items)
  BY DEF Uploads
<1>3. DOMAIN ss \subseteq Links
  BY DEF Typed, IsState, AreLinks
<1>4. ASSUME NEW d \in DOMAIN ss
      PROVE  ss[d].in \in Seq(Items) /\ ss[d].out \in Seq(Items) /\ Sends(ss, uu, d) \in Seq(Items)
  <2>1. IsLink(ss[d], d, L)
    BY DEF Typed
  <2>2. ss[d].in \in Seq(Blocks) /\ ss[d].out \in Seq(ForConsole(d, L))
    BY <2>1 DEF IsLink, Sessions
  <2>3. ss[d].in \in Seq(Items)
    BY <2>2, ItemTypes, SeqMonotonic
  <2>4. ss[d].out \in Seq(Items)
    BY <2>2, ForItems, SeqMonotonic
  <2>5. uu[d] \in Seq(Items)
    BY <1>2, <1>3
  <2> HIDE DEF ss
  <2>6. Sends(ss, uu, d) \in Seq(Items)
    BY <2>3, <2>5, ConcatProperties DEF Sends
  <2> QED BY <2>3, <2>4, <2>6
<1>5. Passing(ss, uu, c) \in Seq(Items)
  <2>1. CASE c \notin DOMAIN ss \/ EndedIn(uu, c)
    BY <2>1, EmptySeq DEF Passing
  <2>2. CASE c \in DOMAIN ss /\ ~ EndedIn(uu, c) /\ ss[c].partner = NoLink
    BY <1>4, <2>2 DEF Passing
  <2>3. CASE c \in DOMAIN ss /\ ~ EndedIn(uu, c) /\ ss[c].partner # NoLink
    <3>1. ss[c].partner \in DOMAIN ss
      BY <2>3 DEF Partners
    <3>2. ss[c].out \in Seq(Items) /\ Sends(ss, uu, ss[c].partner) \in Seq(Items)
      BY <1>4, <2>3, <3>1
    <3>3. ss[c].out \o Sends(ss, uu, ss[c].partner) \in Seq(Items)
      BY <3>2, ConcatProperties
    <3> QED BY <2>3, <3>3 DEF Passing
  <2> QED BY <2>1, <2>2, <2>3
<1>6. Coming(st, uu, c) \in Seq(Items)
  BY <1>1, <1>5, ConcatProperties DEF Coming
<1> QED BY <1>1, <1>2, <1>4, <1>5, <1>6

LEMMA KeptAgain ==
    ASSUME NEW st, NEW r, NEW x, NEW uu, Kept(st, r, uu), Kept(r, x, uu)
    PROVE  Kept(st, x, uu)
<1>1. DOMAIN x.sessions \subseteq DOMAIN r.sessions /\ DOMAIN r.sessions \subseteq DOMAIN st.sessions
  BY DEF Kept
<1>2. ASSUME NEW c \in DOMAIN x.sessions
      PROVE  LET s == st.sessions[c] t == x.sessions[c] IN
             /\ t.kind = s.kind /\ (t.kind = "pending" => t.in = s.in)
             /\ Lags(Sends(st.sessions, uu, c), Sends(x.sessions, uu, c))
             /\ t.partner # NoLink => t.partner = s.partner /\ Coming(x, uu, c) = Coming(st, uu, c)
  <2>1. c \in DOMAIN r.sessions
    BY <1>1
  <2>2. Lags(Sends(st.sessions, uu, c), Sends(x.sessions, uu, c))
    <3>1. /\ Lags(Sends(st.sessions, uu, c), Sends(r.sessions, uu, c))
          /\ Lags(Sends(r.sessions, uu, c), Sends(x.sessions, uu, c))
      BY <2>1 DEF Kept
    <3> QED BY <3>1 DEF Lags
  <2> QED BY <2>1, <2>2 DEF Kept
<1>3. ASSUME NEW c \in Links PROVE Follows(Coming(st, uu, c), Coming(x, uu, c))
  <2>1. Follows(Coming(st, uu, c), Coming(r, uu, c)) /\ Follows(Coming(r, uu, c), Coming(x, uu, c))
    BY DEF Kept
  <2> QED BY <2>1, FollowsAgain
<1> QED BY <1>1, <1>2, <1>3 DEF Kept

LEMMA KeptSelf ==
    ASSUME NEW st, NEW uu
    PROVE  Kept(st, st, uu)
<1>1. \A q : Lags(q, q)
  BY DEF Lags
<1> QED BY <1>1, FollowsSelf DEF Kept

LEMMA HandledAgain ==
    ASSUME NEW st, NEW L, NEW r, NEW x, NEW uu, Handled(st, L, r, uu), Handled(r, L, x, uu)
    PROVE  Handled(st, L, x, uu)
BY KeptAgain DEF Handled

(* Of what a link passes on, all but the partner and what is sent counts.  *)
LEMMA SamePassing ==
    ASSUME NEW ss, NEW tt, NEW uu, NEW c, c \in DOMAIN ss <=> c \in DOMAIN tt,
           c \in DOMAIN ss => /\ tt[c].out = ss[c].out /\ tt[c].partner = ss[c].partner
                              /\ ss[c].partner # NoLink =>
                                   Sends(tt, uu, ss[c].partner) = Sends(ss, uu, ss[c].partner)
    PROVE  Passing(tt, uu, c) = Passing(ss, uu, c)
BY DEF Passing
-----------------------------------------------------------------------------
(* The handlers again: types and flows. *)

LEMMA OutLink ==
    ASSUME NEW s, NEW c, NEW L, IsLink(s, c, L), NEW x \in Seq(ForConsole(c, L))
    PROVE  /\ IsLink([s EXCEPT !.out = x], c, L) /\ [s EXCEPT !.out = x].out = x
           /\ [s EXCEPT !.out = x].in = s.in /\ [s EXCEPT !.out = x].partner = s.partner
           /\ [s EXCEPT !.out = x].kind = s.kind /\ [s EXCEPT !.out = x].name = s.name
           /\ [s EXCEPT !.out = x].peer = s.peer
<1>1. x \in Seq(Blocks \union Notices)
  BY ForItems, SeqMonotonic
<1>2. s \in Sessions
  BY DEF IsLink
<1> DEFINE t == [s EXCEPT !.out = x]
<1>3. t \in Sessions
  BY <1>1, <1>2 DEF Sessions
<1>4. /\ t.out = x /\ t.in = s.in /\ t.partner = s.partner
      /\ t.kind = s.kind /\ t.name = s.name /\ t.peer = s.peer
  BY <1>2 DEF Sessions
<1> HIDE DEF t
<1>5. IsLink(t, c, L)
  BY <1>3, <1>4 DEF IsLink
<1> QED BY <1>4, <1>5 DEF t

LEMMA InLink ==
    ASSUME NEW s, NEW c, NEW L, IsLink(s, c, L), NEW x \in Seq(Blocks)
    PROVE  /\ IsLink([s EXCEPT !.in = x], c, L) /\ [s EXCEPT !.in = x].in = x
           /\ [s EXCEPT !.in = x].out = s.out /\ [s EXCEPT !.in = x].partner = s.partner
           /\ [s EXCEPT !.in = x].kind = s.kind /\ [s EXCEPT !.in = x].name = s.name
           /\ [s EXCEPT !.in = x].peer = s.peer
<1>1. s \in Sessions
  BY DEF IsLink
<1> DEFINE t == [s EXCEPT !.in = x]
<1>2. t \in Sessions
  BY <1>1 DEF Sessions
<1>3. /\ t.in = x /\ t.out = s.out /\ t.partner = s.partner
      /\ t.kind = s.kind /\ t.name = s.name /\ t.peer = s.peer
  BY <1>1 DEF Sessions
<1> HIDE DEF t
<1>4. IsLink(t, c, L)
  BY <1>2, <1>3 DEF IsLink
<1> QED BY <1>3, <1>4 DEF t

(* What Sent does: of what was to be written, a is on its way and b left. *)
SentAs(st, r, c, a, b) ==
    /\ a \o b = st.sessions[c].out
    /\ r.sessions = [st.sessions EXCEPT ![c].out = b]
    /\ r.down = [st.down EXCEPT ![c] = IF Ended(c) THEN st.down[c] ELSE st.down[c] \o a]

LEMMA SentParts ==
    ASSUME NEW st, NEW L, Typed(st, L), NEW c \in DOMAIN st.sessions
    PROVE  \E a \in Seq(ForConsole(c, L)), b \in Seq(ForConsole(c, L)) : SentAs(st, Sent(st, c), c, a, b)
<1> DEFINE out == st.sessions[c].out
           taken == IF Ended(c) THEN Len(out) ELSE AtMost(Window - AtMost(Len(st.down[c]), Window), Len(out))
<1>1. c \in Links /\ out \in Seq(ForConsole(c, L)) /\ st.down[c] \in Seq(ForConsole(c, L) \union {Eof})
  BY DEF Typed, IsState, AreLinks, IsLink
<1> HIDE DEF out
<1>2. Len(out) \in Nat /\ Len(st.down[c]) \in Nat /\ Window \in Nat
  BY <1>1, LenProperties, RelayAssumption
<1>3. taken \in 0 .. Len(out)
  BY <1>2 DEF AtMost
<1>4. /\ Sent(st, c).sessions = [st.sessions EXCEPT ![c].out = SubSeq(out, taken + 1, Len(out))]
      /\ Sent(st, c).down = [st.down EXCEPT ![c] = IF Ended(c) THEN st.down[c]
                                                    ELSE st.down[c] \o SubSeq(out, 1, taken)]
  BY DEF Sent, out
<1> HIDE DEF taken
<1>5. /\ SubSeq(out, 1, taken) \in Seq(ForConsole(c, L)) /\ SubSeq(out, taken + 1, Len(out)) \in Seq(ForConsole(c, L))
      /\ SubSeq(out, 1, taken) \o SubSeq(out, taken + 1, Len(out)) = out
  BY <1>1, <1>3, CutInTwo
<1>6. SentAs(st, Sent(st, c), c, SubSeq(out, 1, taken), SubSeq(out, taken + 1, Len(out)))
  BY <1>4, <1>5 DEF SentAs, out
<1> QED BY <1>5, <1>6

LEMMA SentHandled ==
    ASSUME NEW st, NEW L, Typed(st, L), Partners(st.sessions), NEW uu, Uploads(uu), NEW c \in DOMAIN st.sessions
    PROVE  Handled(st, L, Sent(st, c), uu)
<1> DEFINE ss == st.sessions
           S == ForConsole(c, L)
<1>1. PICK a \in Seq(S), b \in Seq(S) : SentAs(st, Sent(st, c), c, a, b)
  BY SentParts
<1>2. PICK r : r = Sent(st, c)
  OBVIOUS
<1> DEFINE tt == r.sessions
<1> HIDE DEF ss, tt
<1>3. IsState(st) /\ AreLinks(ss) /\ c \in Links /\ DOMAIN ss \subseteq Links /\ c \in DOMAIN ss
  BY DEF Typed, IsState, AreLinks, ss
<1>4. IsState(r) /\ SameLinks(ss, tt)
  BY <1>2, <1>3, SentSame DEF ss, tt
<1>5. Partners(tt)
  BY <1>4, <1>3, SameIsFewer DEF FewerLinks, ss
<1>6. DOMAIN tt = DOMAIN ss /\ tt[c] = [ss[c] EXCEPT !.out = b] /\ \A d \in DOMAIN ss \ {c} : tt[d] = ss[d]
  <2>1. tt = [ss EXCEPT ![c].out = b]
    BY <1>1, <1>2 DEF SentAs, tt, ss
  <2> QED BY <1>3, <2>1 DEF AreLinks
<1>7. /\ IsLink(tt[c], c, L) /\ tt[c].out = b /\ tt[c].in = ss[c].in /\ tt[c].partner = ss[c].partner
      /\ tt[c].kind = ss[c].kind
  <2>1. IsLink(ss[c], c, L)
    BY <1>3 DEF Typed, ss
  <2> QED BY <1>1, <1>6, <2>1, OutLink
<1>8. /\ r.down = [d \in Links |-> r.down[d]] /\ r.down[c] = IF Ended(c) THEN st.down[c] ELSE st.down[c] \o a
      /\ \A d \in Links \ {c} : r.down[d] = st.down[d]
  <2>1. r.down = [st.down EXCEPT ![c] = IF Ended(c) THEN st.down[c] ELSE st.down[c] \o a]
    BY <1>1, <1>2 DEF SentAs
  <2>2. st.down = [d \in Links |-> st.down[d]]
    BY DEF Typed
  <2> QED BY <1>3, <2>1, <2>2
<1>9. Typed(r, L)
  <2>1. st.down[c] \in Seq(S \union {Eof})
    BY <1>3 DEF Typed
  <2>2. a \in Seq(S \union {Eof})
    BY SeqMonotonic
  <2> HIDE DEF S
  <2>3. r.down[c] \in Seq(S \union {Eof})
    <3>1. PICK d : d = st.down[c]
      OBVIOUS
    <3>2. d \o a \in Seq(S \union {Eof})
      BY <2>1, <2>2, <3>1, ConcatProperties
    <3> QED BY <1>8, <2>1, <3>1, <3>2
  <2>4. \A d \in Links : r.down[d] \in Seq(ForConsole(d, L) \union {Eof})
    BY <1>8, <2>3 DEF Typed, S
  <2>5. \A d \in DOMAIN tt : IsLink(tt[d], d, L)
    BY <1>6, <1>7 DEF Typed, ss
  <2> QED BY <1>4, <1>8, <2>4, <2>5 DEF Typed, tt
<1>10. \A d : Sends(tt, uu, d) = Sends(ss, uu, d) \/ d \notin DOMAIN ss
  BY <1>6, <1>7 DEF Sends
<1>11. \A d \in DOMAIN ss : ss[d].partner # NoLink => ss[d].partner \in DOMAIN ss
  BY DEF Partners, ss
<1>12. ASSUME NEW d \in Links, d # c PROVE Coming(r, uu, d) = Coming(st, uu, d)
  <2>1. d \in DOMAIN ss <=> d \in DOMAIN tt
    BY <1>6
  <2>2. d \in DOMAIN ss => /\ tt[d].out = ss[d].out /\ tt[d].partner = ss[d].partner
                           /\ ss[d].partner # NoLink =>
                                Sends(tt, uu, ss[d].partner) = Sends(ss, uu, ss[d].partner)
    BY <1>6, <1>10, <1>11, <1>12
  <2>3. Passing(tt, uu, d) = Passing(ss, uu, d)
    BY <2>1, <2>2, SamePassing
  <2> QED BY <1>8, <1>12, <2>3 DEF Coming, ss, tt
<1>13. Coming(r, uu, c) = Coming(st, uu, c)
  <2>1. EndedIn(uu, c) <=> Ended(c)
    BY <1>3 DEF Uploads
  <2>2. CASE Ended(c)
    <3>1. Passing(tt, uu, c) = <<>> /\ Passing(ss, uu, c) = <<>>
      BY <2>1, <2>2 DEF Passing
    <3> QED BY <1>8, <2>2, <3>1 DEF Coming, ss, tt
  <2>3. CASE ~ Ended(c)
    <3> DEFINE more == IF ss[c].partner = NoLink THEN <<>> ELSE Sends(ss, uu, ss[c].partner)
    <3>1. more \in Seq(Items)
      <4>1. CASE ss[c].partner = NoLink
        <5>1. more = <<>>
          BY <4>1
        <5> QED BY <5>1, EmptySeq
      <4>2. CASE ss[c].partner # NoLink
        <5>1. PICK p \in DOMAIN ss : p = ss[c].partner
          BY <1>3, <1>11, <4>2
        <5>2. Sends(ss, uu, p) \in Seq(Items)
          <6>1. p \in Links /\ p \in DOMAIN st.sessions
            BY <1>3 DEF ss
          <6> QED BY <6>1, TypedItems DEF ss
        <5>3. more = Sends(ss, uu, p)
          BY <4>2, <5>1
        <5> QED BY <5>2, <5>3
      <4> QED BY <4>1, <4>2
    <3>8. PICK now \in Seq(Items) : now = st.down[c]
      BY <1>3, TypedItems DEF ss
    <3>2. a \in Seq(Items) /\ b \in Seq(Items)
      BY ForItems, SeqMonotonic
    <3>3. Passing(ss, uu, c) = (a \o b) \o more
      <4>1. a \o b \in Seq(Items)
        BY <3>2, ConcatProperties
      <4>2. (a \o b) \o <<>> = a \o b
        BY <4>1, ConcatEmptySeq
      <4> QED BY <1>1, <1>3, <2>1, <2>3, <4>2 DEF Passing, SentAs, ss
    <3>4. Passing(tt, uu, c) = b \o more
      <4>1. b \o <<>> = b
        BY <3>2, ConcatEmptySeq
      <4>2. ss[c].partner # NoLink => Sends(tt, uu, ss[c].partner) = Sends(ss, uu, ss[c].partner)
        BY <1>3, <1>10, <1>11
      <4> QED BY <1>3, <1>6, <1>7, <2>1, <2>3, <4>1, <4>2 DEF Passing
    <3> HIDE DEF more
    <3>5. (a \o b) \o more = a \o (b \o more)
      BY <3>1, <3>2, ConcatAssociative
    <3>6. PICK rest \in Seq(Items) : rest = b \o more
      BY <3>1, <3>2, ConcatProperties
    <3>7. (now \o a) \o rest = now \o (a \o rest)
      BY <3>2, ItemsConcat
    <3> QED BY <1>8, <2>3, <3>3, <3>4, <3>5, <3>6, <3>7, <3>8 DEF Coming, ss, tt
  <2> QED BY <2>2, <2>3
<1>14. \A d \in Links : Coming(r, uu, d) = Coming(st, uu, d)
  BY <1>12, <1>13
<1>15. Kept(st, r, uu)
  <2>1. \A d \in DOMAIN tt : /\ tt[d].kind = ss[d].kind /\ tt[d].in = ss[d].in /\ tt[d].partner = ss[d].partner
                             /\ Sends(tt, uu, d) = Sends(ss, uu, d) /\ d \in Links
    BY <1>3, <1>6, <1>7, <1>10
  <2>2. \A d \in Links : Follows(Coming(st, uu, d), Coming(r, uu, d))
    BY <1>14, FollowsSelf
  <2>3. \A q : Lags(q, q)
    BY DEF Lags
  <2> QED BY <1>6, <1>14, <2>1, <2>2, <2>3 DEF Kept, ss, tt
<1> QED BY <1>2, <1>5, <1>9, <1>15 DEF Handled, tt

LeftAlone(s) == [s EXCEPT !.partner = NoLink, !.closing = TRUE]

LEMMA LeftLink ==
    ASSUME NEW s, NEW c, NEW L, IsLink(s, c, L), NEW t, t = LeftAlone(s)
    PROVE  IsLink(t, c, L) /\ t.in = s.in /\ t.out = s.out /\ t.kind = s.kind /\ t.partner = NoLink
<1>1. s \in Sessions
  BY DEF IsLink
<1>2. t \in Sessions
  BY <1>1 DEF Sessions, LeftAlone
<1>3. t.in = s.in /\ t.out = s.out /\ t.kind = s.kind /\ t.partner = NoLink /\ t.name = s.name
  BY <1>1 DEF Sessions, LeftAlone
<1>4. IsLink(t, c, L)
  BY <1>2, <1>3 DEF IsLink
<1> QED BY <1>3, <1>4

LEMMA RemovedHandled ==
    ASSUME NEW st, NEW L, Typed(st, L), Partners(st.sessions), NEW uu, Uploads(uu), NEW c \in DOMAIN st.sessions
    PROVE  Handled(st, L, Removed(st, c), uu)
<1> DEFINE ss == st.sessions
           p == ss[c].partner
<1>1. PICK r : r = Removed(st, c)
  OBVIOUS
<1> DEFINE tt == r.sessions
<1>2. /\ tt = [d \in DOMAIN ss \ {c} |-> IF d = p THEN [ss[d] EXCEPT !.partner = NoLink, !.closing = TRUE] ELSE ss[d]]
      /\ r.down = [st.down EXCEPT ![c] = IF Ended(c) THEN st.down[c] ELSE Append(st.down[c], Eof)]
  BY <1>1 DEF Removed
<1>3. IsState(st) /\ c \in Links /\ DOMAIN ss \subseteq Links /\ c \in DOMAIN ss /\ NoLink \notin Links
  BY DEF Typed, IsState, AreLinks, Links, NoLink
<1>4. IsState(r) /\ FewerLinks(ss, tt)
  BY <1>1, <1>3, RemovedFewer
<1>5. Partners(tt)
  BY <1>4 DEF FewerLinks
<1>6. p # NoLink => p \in DOMAIN ss /\ ss[p].partner = c /\ p # c
  BY DEF Partners, Ends
<1>7. /\ DOMAIN tt = DOMAIN ss \ {c}
      /\ \A d \in DOMAIN tt : IF d = p THEN tt[d] = [ss[d] EXCEPT !.partner = NoLink, !.closing = TRUE]
                              ELSE tt[d] = ss[d]
  BY <1>2
<1> HIDE DEF ss, tt, p
<1>8. \A d \in DOMAIN tt : /\ IsLink(tt[d], d, L) /\ tt[d].in = ss[d].in /\ tt[d].out = ss[d].out
                           /\ tt[d].kind = ss[d].kind
                           /\ tt[d].partner = IF d = p THEN NoLink ELSE ss[d].partner
  <2> SUFFICES ASSUME NEW d \in DOMAIN tt
               PROVE  /\ IsLink(tt[d], d, L) /\ tt[d].in = ss[d].in /\ tt[d].out = ss[d].out
                      /\ tt[d].kind = ss[d].kind
                      /\ tt[d].partner = IF d = p THEN NoLink ELSE ss[d].partner
    OBVIOUS
  <2>1. IsLink(ss[d], d, L)
    BY <1>7 DEF Typed, ss
  <2>2. CASE d = p
    <3>1. tt[d] = LeftAlone(ss[d])
      BY <1>7, <2>2 DEF LeftAlone
    <3> QED BY <2>1, <2>2, <3>1, LeftLink
  <2>3. CASE d # p
    BY <1>7, <2>1, <2>3
  <2> QED BY <2>2, <2>3
<1>9. /\ r.down = [d \in Links |-> r.down[d]]
      /\ r.down[c] = IF Ended(c) THEN st.down[c] ELSE Append(st.down[c], Eof)
      /\ \A d \in Links \ {c} : r.down[d] = st.down[d]
  <2>1. st.down = [d \in Links |-> st.down[d]]
    BY DEF Typed
  <2> QED BY <1>2, <1>3, <2>1
<1>10. Typed(r, L)
  <2>1. PICK T : T = ForConsole(c, L) \union {Eof}
    OBVIOUS
  <2>2. st.down[c] \in Seq(T) /\ Eof \in T
    BY <1>3, <2>1 DEF Typed
  <2>3. r.down[c] \in Seq(T)
    <3>1. PICK now : now = st.down[c]
      OBVIOUS
    <3>2. Append(now, Eof) \in Seq(T)
      BY <2>2, <3>1, AppendProperties
    <3> QED BY <1>9, <2>2, <3>1, <3>2
  <2>4. \A d \in Links : r.down[d] \in Seq(ForConsole(d, L) \union {Eof})
    BY <1>9, <2>1, <2>3 DEF Typed
  <2> QED BY <1>4, <1>8, <1>9, <2>4 DEF Typed, tt
<1>11. \A d \in DOMAIN tt : Sends(tt, uu, d) = Sends(ss, uu, d)
  BY <1>8 DEF Sends
<1>12. \A d \in DOMAIN tt : tt[d].partner # NoLink => tt[d].partner \in DOMAIN tt
  BY <1>5 DEF Partners
<1>13. ASSUME NEW d \in Links, d # c, d # p PROVE Coming(r, uu, d) = Coming(st, uu, d)
  <2>1. d \in DOMAIN ss <=> d \in DOMAIN tt
    BY <1>7, <1>13
  <2>2. d \in DOMAIN ss => /\ tt[d].out = ss[d].out /\ tt[d].partner = ss[d].partner
                           /\ ss[d].partner # NoLink =>
                                Sends(tt, uu, ss[d].partner) = Sends(ss, uu, ss[d].partner)
    BY <1>8, <1>11, <1>12, <1>13, <2>1
  <2>3. Passing(tt, uu, d) = Passing(ss, uu, d)
    BY <2>1, <2>2, SamePassing
  <2> QED BY <1>9, <1>13, <2>3 DEF Coming, ss, tt
<1>14. \A d \in Links : st.down[d] \in Seq(Items) /\ Passing(ss, uu, d) \in Seq(Items)
  BY TypedItems DEF ss
<1>15. Follows(Coming(st, uu, c), Coming(r, uu, c))
  <2>1. PICK now \in Seq(Items) : now = st.down[c]
    BY <1>3, <1>14
  <2>2. PICK rest \in Seq(Items) : rest = Passing(ss, uu, c)
    BY <1>3, <1>14
  <2>3. Coming(st, uu, c) = now \o rest
    BY <2>1, <2>2 DEF Coming, ss
  <2>4. Passing(tt, uu, c) = <<>>
    BY <1>7 DEF Passing
  <2>5. Append(now, Eof) \in Seq(Items) /\ \A q \in Seq(Items) : q \o <<>> = q
    BY AppendProperties, ConcatEmptySeq, ItemTypes
  <2>6. CASE Ended(c)
    <3>1. rest = <<>>
      BY <1>3, <2>2, <2>6 DEF Passing, Uploads
    <3> QED BY <1>9, <2>1, <2>3, <2>4, <2>6, <3>1, FollowsSelf DEF Coming, tt
  <2>7. CASE ~ Ended(c)
    <3>1. Coming(r, uu, c) = Append(now, Eof)
      BY <1>9, <2>1, <2>4, <2>5, <2>7 DEF Coming, tt
    <3>2. Follows(now \o rest, now) /\ Follows(now, Append(now, Eof))
      BY FollowsPart, FollowsEnd, ItemTypes
    <3> QED BY <2>3, <3>1, <3>2, FollowsAgain
  <2> QED BY <2>6, <2>7
<1>16. ASSUME p # NoLink PROVE Follows(Coming(st, uu, p), Coming(r, uu, p))
  <2>1. p \in DOMAIN ss /\ p \in DOMAIN tt /\ p \in Links /\ p # c /\ ss[p].partner = c
    BY <1>3, <1>6, <1>7, <1>16
  <2>2. CASE EndedIn(uu, p)
    <3>1. Passing(tt, uu, p) = <<>> /\ Passing(ss, uu, p) = <<>>
      BY <2>2 DEF Passing
    <3> QED BY <1>9, <2>1, <3>1, FollowsSelf DEF Coming, ss, tt
  <2>3. CASE ~ EndedIn(uu, p)
    <3>1. PICK now \in Seq(Items) : now = st.down[p]
      BY <1>14, <2>1
    <3>2. PICK out \in Seq(Items) : out = ss[p].out
      BY <2>1, TypedItems DEF ss
    <3>3. PICK sent \in Seq(Items) : sent = Sends(ss, uu, c)
      BY <1>3, TypedItems DEF ss
    <3>4. Passing(ss, uu, p) = out \o sent /\ Passing(tt, uu, p) = out
      BY <1>3, <1>8, <2>1, <2>3, <3>2, <3>3 DEF Passing
    <3>5. now \o (out \o sent) = (now \o out) \o sent /\ now \o out \in Seq(Items)
      BY ItemsConcat
    <3>6. Follows((now \o out) \o sent, now \o out)
      BY <3>5, FollowsPart
    <3> QED BY <1>9, <2>1, <3>1, <3>4, <3>5, <3>6 DEF Coming, ss, tt
  <2> QED BY <2>2, <2>3
<1>17. Kept(st, r, uu)
  <2>1. \A d \in Links : Follows(Coming(st, uu, d), Coming(r, uu, d))
    BY <1>3, <1>13, <1>15, <1>16, FollowsSelf
  <2>2. \A q : Lags(q, q)
    BY DEF Lags
  <2>3. \A d \in DOMAIN tt : tt[d].partner # NoLink =>
          tt[d].partner = ss[d].partner /\ Coming(r, uu, d) = Coming(st, uu, d)
    BY <1>3, <1>7, <1>8, <1>13
  <2> QED BY <1>7, <1>8, <1>11, <2>1, <2>2, <2>3 DEF Kept, ss, tt
<1> QED BY <1>1, <1>5, <1>10, <1>17 DEF Handled, tt

LEMMA EraseHandled ==
    ASSUME NEW st, NEW L, Typed(st, L), Partners(st.sessions), NEW uu, Uploads(uu), NEW c \in DOMAIN st.sessions
    PROVE  Handled(st, L, Erase(st, c), uu)
<1> DEFINE p == st.sessions[c].partner
           gone == Removed(st, c)
           last == Sent(gone, p)
<1>1. Handled(st, L, gone, uu) /\ (p # NoLink => p \in DOMAIN gone.sessions)
  BY RemovedHandled, RemovedFewer DEF Typed
<1>2. Erase(st, c) = IF p = NoLink THEN gone
                     ELSE IF last.sessions[p].out = <<>> THEN Removed(last, p) ELSE last
  BY DEF Erase
<1>3. CASE p = NoLink
  BY <1>1, <1>2, <1>3
<1>4. CASE p # NoLink
  <2> HIDE DEF gone, p
  <2>1. Typed(gone, L) /\ Partners(gone.sessions) /\ p \in DOMAIN gone.sessions
    BY <1>1, <1>4 DEF Handled
  <2>2. Handled(gone, L, last, uu) /\ DOMAIN last.sessions = DOMAIN gone.sessions
    BY <2>1, SentHandled, SentSame DEF SameLinks, Typed
  <2> HIDE DEF last
  <2>3. Handled(last, L, Removed(last, p), uu)
    BY <2>1, <2>2, RemovedHandled DEF Handled
  <2> QED BY <1>1, <1>2, <1>4, <2>2, <2>3, HandledAgain
<1> QED BY <1>3, <1>4

LEMMA WrittenHandled ==
    ASSUME NEW st, NEW L, Typed(st, L), Partners(st.sessions), NEW uu, Uploads(uu), NEW c \in DOMAIN st.sessions
    PROVE  Handled(st, L, Written(st, c), uu)
<1> DEFINE after == Sent(st, c)
<1>1. Handled(st, L, after, uu) /\ c \in DOMAIN after.sessions
  BY SentHandled, SentSame DEF SameLinks, Typed
<1>2. Written(st, c) = after \/ Written(st, c) = Erase(after, c)
  BY DEF Written
<1> HIDE DEF after
<1>3. Handled(after, L, Erase(after, c), uu)
  BY <1>1, EraseHandled DEF Handled
<1> QED BY <1>1, <1>2, <1>3, HandledAgain

(* What Forwarded does: the partner has a now, and b is left. *)
ForwardedAs(st, r, c, a, b) ==
    LET p == st.sessions[c].partner IN
    /\ a \o b = st.sessions[c].in
    /\ r.sessions = [[st.sessions EXCEPT ![p].out = st.sessions[p].out \o a] EXCEPT ![c].in = b]
    /\ r.down = st.down

LEMMA ForwardedParts ==
    ASSUME NEW st, NEW L, Typed(st, L), Partners(st.sessions),
           NEW c \in DOMAIN st.sessions, st.sessions[c].partner # NoLink
    PROVE  \E a \in Seq(Blocks), b \in Seq(Blocks) : ForwardedAs(st, Forwarded(st, c), c, a, b)
<1> DEFINE in == st.sessions[c].in
           p == st.sessions[c].partner
           out == st.sessions[p].out
           taken == AtMost((QueueLimit + 1) - AtMost(Len(out), QueueLimit + 1), Len(in))
<1>1. p \in DOMAIN st.sessions /\ p # c /\ st.sessions[p].partner = c
  BY DEF Partners, Ends
<1>2. in \in Seq(Blocks) /\ out \in Seq(ForConsole(p, L)) /\ DOMAIN st = {"sessions", "down"}
  BY <1>1 DEF Typed, IsLink, Sessions, IsState
<1> HIDE DEF in, out
<1>3. Len(in) \in Nat /\ Len(out) \in Nat /\ QueueLimit \in Nat
  BY <1>2, LenProperties, RelayAssumption
<1>4. taken \in 0 .. Len(in)
  BY <1>3 DEF AtMost
<1>5. Forwarded(st, c) = [st EXCEPT !.sessions[p].out = out \o SubSeq(in, 1, taken),
                                    !.sessions[c].in = SubSeq(in, taken + 1, Len(in))]
  BY DEF Forwarded, in, out
<1> HIDE DEF taken, p
<1>6. PICK a, b : a = SubSeq(in, 1, taken) /\ b = SubSeq(in, taken + 1, Len(in))
  OBVIOUS
<1>7. a \in Seq(Blocks) /\ b \in Seq(Blocks) /\ a \o b = in
  BY <1>2, <1>4, <1>6, CutInTwo
<1>8. PICK more : more = out \o a
  OBVIOUS
<1>9. Forwarded(st, c) = [st EXCEPT !.sessions[p].out = more, !.sessions[c].in = b]
  BY <1>5, <1>6, <1>8
<1>10. /\ Forwarded(st, c).sessions = [[st.sessions EXCEPT ![p].out = more] EXCEPT ![c].in = b]
       /\ Forwarded(st, c).down = st.down
  BY <1>2, <1>9
<1>11. ForwardedAs(st, Forwarded(st, c), c, a, b)
  BY <1>7, <1>8, <1>10 DEF ForwardedAs, in, out, p
<1> QED BY <1>7, <1>11

LEMMA ForwardedHandled ==
    ASSUME NEW st, NEW L, Typed(st, L), Partners(st.sessions), NEW uu, Uploads(uu), NEW c \in DOMAIN st.sessions
    PROVE  Handled(st, L, Forwarded(st, c), uu)
<1> DEFINE ss == st.sessions
           p == ss[c].partner
<1>1. PICK r : r = Forwarded(st, c)
  OBVIOUS
<1> DEFINE tt == r.sessions
<1>2. CASE p = NoLink
  <2>1. r = st
    BY <1>1, <1>2 DEF Forwarded
  <2> QED BY <1>1, <2>1, KeptSelf DEF Handled
<1>3. CASE p # NoLink
  <2>1. PICK a \in Seq(Blocks), b \in Seq(Blocks) : ForwardedAs(st, r, c, a, b)
    BY <1>1, <1>3, ForwardedParts
  <2>2. /\ IsState(st) /\ AreLinks(ss) /\ DOMAIN ss \subseteq Links /\ c \in DOMAIN ss
        /\ p \in DOMAIN ss /\ ss[p].partner = c /\ p # c
        /\ ss[c].kind \in {"connect", "accept"} /\ ss[p].kind \in {"connect", "accept"}
    BY <1>3 DEF Typed, IsState, AreLinks, Partners, Ends
  <2>3. IsState(r) /\ SameLinks(ss, tt)
    BY <1>1, ForwardedSame DEF Typed
  <2>4. Partners(tt)
    BY <2>2, <2>3, SameIsFewer DEF FewerLinks
  <2>5. /\ a \o b = ss[c].in /\ r.down = st.down
        /\ tt = [[ss EXCEPT ![p].out = ss[p].out \o a] EXCEPT ![c].in = b]
    BY <2>1 DEF ForwardedAs
  <2> HIDE DEF ss, tt, p
  <2>6. IsLink(ss[c], c, L) /\ IsLink(ss[p], p, L)
    BY <2>2 DEF Typed, ss
  <2>7. PICK more \in Seq(ForConsole(p, L)) : more = ss[p].out \o a
    <3>1. ss[p].out \in Seq(ForConsole(p, L)) /\ p \notin L
      BY <2>2, <2>6 DEF IsLink
    <3>2. Blocks \subseteq ForConsole(p, L)
      BY <3>1 DEF ForConsole
    <3>3. a \in Seq(ForConsole(p, L))
      BY <3>2, SeqMonotonic
    <3>4. PICK o : o = ss[p].out
      OBVIOUS
    <3>5. o \o a \in Seq(ForConsole(p, L))
      BY <3>1, <3>3, <3>4, ConcatProperties
    <3> QED BY <3>4, <3>5
  <2>8. /\ DOMAIN tt = DOMAIN ss /\ tt[p] = [ss[p] EXCEPT !.out = more] /\ tt[c] = [ss[c] EXCEPT !.in = b]
        /\ \A d \in DOMAIN ss \ {c, p} : tt[d] = ss[d]
    BY <2>2, <2>5, <2>7 DEF AreLinks
  <2>9. /\ IsLink(tt[p], p, L) /\ tt[p].out = more /\ tt[p].in = ss[p].in /\ tt[p].partner = c
        /\ tt[p].kind = ss[p].kind
    BY <2>2, <2>6, <2>8, OutLink
  <2>10. /\ IsLink(tt[c], c, L) /\ tt[c].in = b /\ tt[c].out = ss[c].out /\ tt[c].partner = p
         /\ tt[c].kind = ss[c].kind
    <3>1. ss[c].partner = p
      BY DEF p
    <3> QED BY <2>6, <2>8, <3>1, InLink
  <2>11. Typed(r, L)
    <3>1. \A d \in DOMAIN tt : IsLink(tt[d], d, L)
      BY <2>8, <2>9, <2>10 DEF Typed, ss
    <3> QED BY <2>3, <2>5, <3>1 DEF Typed, tt
  <2>12. a \in Seq(Items) /\ b \in Seq(Items)
    BY ItemTypes, SeqMonotonic
  <2>13. PICK rest \in Seq(Items) : rest = uu[c]
    BY <2>2 DEF Uploads
  <2>14. Sends(ss, uu, c) = a \o (b \o rest) /\ Sends(tt, uu, c) = b \o rest /\ b \o rest \in Seq(Items)
    <3>1. (a \o b) \o rest = a \o (b \o rest) /\ b \o rest \in Seq(Items)
      BY <2>12, ItemsConcat
    <3> QED BY <2>5, <2>10, <2>13, <3>1 DEF Sends
  <2>15. \A d \in DOMAIN ss \ {c} : Sends(tt, uu, d) = Sends(ss, uu, d)
    BY <2>8, <2>9 DEF Sends
  <2>16. \A d \in DOMAIN ss : Lags(Sends(ss, uu, d), Sends(tt, uu, d))
    <3>1. \A q : Lags(q, q)
      BY DEF Lags
    <3>2. Lags(Sends(ss, uu, c), Sends(tt, uu, c))
      BY <2>12, <2>14, LagsPart
    <3> QED BY <2>15, <3>1, <3>2
  <2>17. \A d \in DOMAIN ss : ss[d].partner # NoLink => ss[d].partner \in DOMAIN ss /\ (ss[d].partner = c => d = p)
    <3>1. \A d \in DOMAIN ss : ss[d].partner # NoLink => ss[d].partner \in DOMAIN ss /\ ss[ss[d].partner].partner = d
      BY DEF Partners, ss
    <3> QED BY <3>1 DEF p
  <2>18. ASSUME NEW d \in Links, d # p PROVE Coming(r, uu, d) = Coming(st, uu, d)
    <3>1. d \in DOMAIN ss <=> d \in DOMAIN tt
      BY <2>8
    <3>2. d \in DOMAIN ss => /\ tt[d].out = ss[d].out /\ tt[d].partner = ss[d].partner
                             /\ ss[d].partner # NoLink =>
                                  Sends(tt, uu, ss[d].partner) = Sends(ss, uu, ss[d].partner)
      <4> SUFFICES ASSUME d \in DOMAIN ss
                   PROVE  /\ tt[d].out = ss[d].out /\ tt[d].partner = ss[d].partner
                          /\ ss[d].partner # NoLink =>
                               Sends(tt, uu, ss[d].partner) = Sends(ss, uu, ss[d].partner)
        OBVIOUS
      <4>1. tt[d].out = ss[d].out /\ tt[d].partner = ss[d].partner
        BY <2>8, <2>10, <2>18 DEF p
      <4> QED BY <2>15, <2>17, <2>18, <4>1
    <3>3. Passing(tt, uu, d) = Passing(ss, uu, d)
      BY <3>1, <3>2, SamePassing
    <3> QED BY <2>5, <3>3 DEF Coming, ss, tt
  <2>19. Coming(r, uu, p) = Coming(st, uu, p)
    <3>1. PICK o \in Seq(Items) : o = ss[p].out
      BY <2>2, TypedItems DEF ss
    <3>2. (o \o a) \o (b \o rest) = o \o (a \o (b \o rest))
      <4>1. PICK u \in Seq(Items) : u = b \o rest
        BY <2>14
      <4>2. (o \o a) \o u = o \o (a \o u)
        BY <2>12, ItemsConcat
      <4> QED BY <4>1, <4>2
    <3>3. CASE EndedIn(uu, p)
      BY <2>5, <3>3 DEF Coming, Passing
    <3>4. CASE ~ EndedIn(uu, p)
      <4>1. Passing(ss, uu, p) = o \o (a \o (b \o rest))
        <5>1. c # NoLink
          BY <2>2 DEF Links, NoLink
        <5> QED BY <2>2, <2>14, <3>1, <3>4, <5>1 DEF Passing
      <4>2. Passing(tt, uu, p) = (o \o a) \o (b \o rest)
        <5>1. c # NoLink
          BY <2>2 DEF Links, NoLink
        <5> QED BY <2>2, <2>7, <2>8, <2>9, <2>14, <3>1, <3>4, <5>1 DEF Passing
      <4> QED BY <2>5, <3>2, <4>1, <4>2 DEF Coming, ss, tt
    <3> QED BY <3>3, <3>4
  <2>20. Kept(st, r, uu)
    <3>1. \A d \in Links : Coming(r, uu, d) = Coming(st, uu, d)
      BY <2>18, <2>19
    <3>2. \A d \in Links : Follows(Coming(st, uu, d), Coming(r, uu, d))
      BY <3>1, FollowsSelf
    <3>3. \A d \in DOMAIN tt : /\ tt[d].kind = ss[d].kind /\ (tt[d].kind = "pending" => tt[d].in = ss[d].in)
                               /\ tt[d].partner = ss[d].partner
      BY <2>2, <2>8, <2>9, <2>10 DEF p
    <3> QED BY <2>2, <2>8, <2>16, <3>1, <3>2, <3>3 DEF Kept, ss, tt
  <2> QED BY <1>1, <2>4, <2>11, <2>20 DEF Handled, tt
<1> QED BY <1>2, <1>3

Announced(s) == [s EXCEPT !.announced = TRUE]

LEMMA AnnouncedLink ==
    ASSUME NEW s, NEW c, NEW L, IsLink(s, c, L), NEW t, t = Announced(s)
    PROVE  IsLink(t, c, L) /\ t.in = s.in /\ t.out = s.out /\ t.kind = s.kind /\ t.partner = s.partner
<1>1. s \in Sessions
  BY DEF IsLink
<1>2. t \in Sessions
  BY <1>1 DEF Sessions, Announced
<1>3. t.in = s.in /\ t.out = s.out /\ t.kind = s.kind /\ t.partner = s.partner /\ t.name = s.name
  BY <1>1 DEF Sessions, Announced
<1>4. IsLink(t, c, L)
  BY <1>2, <1>3 DEF IsLink
<1> QED BY <1>3, <1>4

(* A listening socket is told of a socket that connects. *)
LEMMA OfferedHandled ==
    ASSUME NEW st, NEW L, Typed(st, L), Partners(st.sessions), NEW uu, Uploads(uu),
           NEW c \in DOMAIN st.sessions, st.sessions[c].kind = "connect"
    PROVE  Handled(st, L, Offered(st, c), uu)
<1> DEFINE ss == st.sessions
           listening == Listening(ss, ss[c].peer)
           l == Least(listening)
<1>1. PICK r : r = Offered(st, c)
  OBVIOUS
<1> DEFINE tt == r.sessions
<1>2. CASE ss[c].announced \/ listening = {}
  <2>1. r = st
    BY <1>1, <1>2 DEF Offered
  <2> QED BY <1>1, <2>1, KeptSelf DEF Handled
<1>3. CASE ~ (ss[c].announced \/ listening = {})
  <2>1. l \in listening
    <3>1. listening \subseteq DOMAIN ss
      BY DEF Listening
    <3>2. listening \subseteq Links /\ listening # {}
      BY <1>3, <3>1 DEF Typed, IsState, AreLinks
    <3> HIDE DEF listening
    <3> QED BY <3>2, LeastIn
  <2>2. /\ IsState(st) /\ AreLinks(ss) /\ DOMAIN ss \subseteq Links /\ c \in DOMAIN ss
        /\ l \in DOMAIN ss /\ ss[l].kind = "listen" /\ l # c
    BY <2>1 DEF Typed, IsState, AreLinks, Listening
  <2>3. ss[l].partner = NoLink
    BY <2>2 DEF Partners, Ends
  <2>4. IsState(r) /\ SameLinks(ss, tt)
    BY <1>1, OfferedSame DEF Typed
  <2>5. Partners(tt)
    BY <2>2, <2>4, SameIsFewer DEF FewerLinks
  <2>6. IsLink(ss[c], c, L) /\ IsLink(ss[l], l, L) /\ ss[c].name \in Openers
    BY <2>2 DEF Typed, IsLink
  <2>7. PICK e : e = Notice(ss[c].name)
    OBVIOUS
  <2>8. e \in ForConsole(l, L) /\ e \in Items /\ e \notin Blocks
    <3>1. ss[c].name \in Names
      BY <2>6, StreamsAssumption
    <3>2. e \in Notices /\ e \in Items /\ e \notin Blocks
      BY <2>7, <3>1, ItemTypes
    <3> QED BY <2>6, <2>7, <3>2 DEF ForConsole
  <2>9. r = [st EXCEPT !.sessions[l].out = Append(@, e), !.sessions[c].announced = TRUE]
    BY <1>1, <1>3, <2>7 DEF Offered
  <2> HIDE DEF l, listening
  <2>10. PICK more : more = Append(ss[l].out, e)
    OBVIOUS
  <2>11. r = [st EXCEPT !.sessions[l].out = more, !.sessions[c].announced = TRUE]
    BY <2>9, <2>10
  <2>12. r.down = st.down /\ tt = [[ss EXCEPT ![l].out = more] EXCEPT ![c].announced = TRUE]
    BY <2>11 DEF Typed, IsState
  <2> HIDE DEF ss, tt
  <2>13. /\ DOMAIN tt = DOMAIN ss /\ tt[l] = [ss[l] EXCEPT !.out = more] /\ tt[c] = Announced(ss[c])
         /\ \A d \in DOMAIN ss \ {c, l} : tt[d] = ss[d]
    BY <2>2, <2>12 DEF AreLinks, Announced
  <2>14. more \in Seq(ForConsole(l, L))
    <3>1. PICK o : o = ss[l].out
      OBVIOUS
    <3>2. o \in Seq(ForConsole(l, L))
      BY <2>6, <3>1 DEF IsLink
    <3>3. Append(o, e) \in Seq(ForConsole(l, L))
      BY <2>8, <3>2, AppendProperties
    <3> QED BY <2>10, <3>1, <3>3
  <2>15. /\ IsLink(tt[l], l, L) /\ tt[l].out = more /\ tt[l].in = ss[l].in /\ tt[l].partner = ss[l].partner
         /\ tt[l].kind = ss[l].kind
    BY <2>6, <2>13, <2>14, OutLink
  <2>16. /\ IsLink(tt[c], c, L) /\ tt[c].in = ss[c].in /\ tt[c].out = ss[c].out /\ tt[c].partner = ss[c].partner
         /\ tt[c].kind = ss[c].kind
    BY <2>6, <2>13, AnnouncedLink
  <2>17. Typed(r, L)
    <3>1. \A d \in DOMAIN tt : IsLink(tt[d], d, L)
      BY <2>13, <2>15, <2>16 DEF Typed, ss
    <3> QED BY <2>4, <2>12, <3>1 DEF Typed, tt
  <2>18. \A d \in DOMAIN ss : /\ tt[d].in = ss[d].in /\ tt[d].partner = ss[d].partner /\ tt[d].kind = ss[d].kind
                              /\ Sends(tt, uu, d) = Sends(ss, uu, d)
    BY <2>13, <2>15, <2>16 DEF Sends
  <2>19. \A d \in DOMAIN ss : ss[d].partner # NoLink => ss[d].partner \in DOMAIN ss
    BY DEF Partners, ss
  <2>20. ASSUME NEW d \in Links, d # l PROVE Coming(r, uu, d) = Coming(st, uu, d)
    <3>1. d \in DOMAIN ss <=> d \in DOMAIN tt
      BY <2>13
    <3>2. d \in DOMAIN ss => /\ tt[d].out = ss[d].out /\ tt[d].partner = ss[d].partner
                             /\ ss[d].partner # NoLink =>
                                  Sends(tt, uu, ss[d].partner) = Sends(ss, uu, ss[d].partner)
      BY <2>13, <2>16, <2>18, <2>19, <2>20
    <3>3. Passing(tt, uu, d) = Passing(ss, uu, d)
      BY <3>1, <3>2, SamePassing
    <3> QED BY <2>12, <3>3 DEF Coming, ss, tt
  <2>21. Follows(Coming(st, uu, l), Coming(r, uu, l))
    <3>1. CASE EndedIn(uu, l)
      <4>1. Passing(ss, uu, l) = <<>> /\ Passing(tt, uu, l) = <<>>
        BY <3>1 DEF Passing
      <4> QED BY <2>12, <4>1, FollowsSelf DEF Coming, ss, tt
    <3>2. CASE ~ EndedIn(uu, l)
      <4>1. PICK o \in Seq(Items), now \in Seq(Items) : o = ss[l].out /\ now = st.down[l]
        BY <2>2, TypedItems DEF ss
      <4>2. Passing(ss, uu, l) = o /\ Passing(tt, uu, l) = Append(o, e)
        BY <2>2, <2>3, <2>10, <2>13, <2>15, <3>2, <4>1 DEF Passing
      <4>3. now \o Append(o, e) = Append(now \o o, e) /\ now \o o \in Seq(Items)
        BY <2>8, AppendAfter, ItemsConcat
      <4>4. Follows(now \o o, Append(now \o o, e))
        BY <2>8, <4>3, FollowsEnd
      <4> QED BY <2>12, <4>1, <4>2, <4>3, <4>4 DEF Coming, ss, tt
    <3> QED BY <3>1, <3>2
  <2>22. Kept(st, r, uu)
    <3>1. \A d \in Links : Follows(Coming(st, uu, d), Coming(r, uu, d))
      BY <2>20, <2>21, FollowsSelf
    <3>2. \A q : Lags(q, q)
      BY DEF Lags
    <3>3. \A d \in DOMAIN tt : tt[d].partner # NoLink =>
            tt[d].partner = ss[d].partner /\ Coming(r, uu, d) = Coming(st, uu, d)
      BY <2>2, <2>3, <2>13, <2>18, <2>20
    <3> QED BY <2>13, <2>18, <3>1, <3>2, <3>3 DEF Kept, ss, tt
  <2> QED BY <1>1, <2>5, <2>17, <2>22 DEF Handled, tt
<1> QED BY <1>2, <1>3
-----------------------------------------------------------------------------
(* The order of the blocks, for the sockets sk, the links and queues of st *)
(* and the queues uu.                                                      *)

Streams(sk) == \A h \in DOMAIN sk : sk[h] \in Sockets
Flow(sk, st, uu, h) == sk[h].received \o Coming(st, uu, sk[h].link)

SendsRuns(st, uu) ==
    \A c \in DOMAIN st.sessions :
        LET s == st.sessions[c] IN
        /\ s.kind # "listen" => RunIn(Sends(st.sessions, uu, c))
        /\ s.kind = "pending" => s.in = <<>> /\ uu[c] # <<>> /\ uu[c][1] \notin Blocks

(* A stream whose notice has not been read does not start with a block.    *)
IsPaired(st, uu, c) == c \in DOMAIN st.sessions /\ st.sessions[c].partner # NoLink /\ ~ EndedIn(uu, c)
ReadsRun(sk, st, uu, h) ==
    /\ RunIn(Flow(sk, st, uu, h))
    /\ ~ sk[h].noticed => /\ Starts(Flow(sk, st, uu, h))
                          /\ IsPaired(st, uu, sk[h].link) => Flow(sk, st, uu, h) # <<>>
ReadsRuns(sk, st, uu) == \A h \in DOMAIN sk : sk[h].link # NoLink => ReadsRun(sk, st, uu, h)

(* The last block on its way is the last one sent: the next one continues  *)
(* the run, where it is sent and where it will be read.                    *)
CanSend(sk, st, uu, h) ==
    /\ sk[h].link \in DOMAIN st.sessions /\ ~ EndedIn(uu, sk[h].link)
    /\ st.sessions[sk[h].link].kind # "listen"
Reader(sk, st, uu, h, r) ==
    sk[r].link # NoLink /\ sk[r].link = st.sessions[sk[h].link].partner /\ ~ EndedIn(uu, sk[r].link)
SendsLast(sk, st, uu) ==
    \A h \in DOMAIN sk : CanSend(sk, st, uu, h) =>
        /\ EndsAt(Sends(st.sessions, uu, sk[h].link), Block(h, sk[h].sent))
        /\ \A r \in DOMAIN sk : Reader(sk, st, uu, h, r) => EndsAt(Flow(sk, st, uu, r), Block(h, sk[h].sent))

Flows(sk, st, uu) == SendsRuns(st, uu) /\ ReadsRuns(sk, st, uu) /\ SendsLast(sk, st, uu)

LEMMA StreamTypes ==
    ASSUME NEW sk, Streams(sk), NEW h \in DOMAIN sk
    PROVE  sk[h].received \in Seq(Items) /\ sk[h].link \in Links \union {NoLink}
<1>1. sk[h].received \in Seq(Blocks) /\ sk[h].link \in Links \union {NoLink}
  BY DEF Streams, Sockets
<1> QED BY <1>1, ItemTypes, SeqMonotonic

(* What a step may do to the queues and the links without getting the flows *)
(* of the sockets out of order.                                             *)
CarriedLink(ss, uu, tt, vv, c) ==
    /\ tt[c].kind # "listen" =>
         /\ ss[c].kind # "listen"
         /\ RunIn(Sends(ss, uu, c)) => RunIn(Sends(tt, vv, c))
         /\ ~ EndedIn(vv, c) => \A b : EndsAt(Sends(ss, uu, c), b) => EndsAt(Sends(tt, vv, c), b)
    /\ tt[c].kind = "pending" =>
         /\ ss[c].kind = "pending" /\ tt[c].in = ss[c].in
         /\ uu[c] # <<>> /\ uu[c][1] \notin Blocks => vv[c] # <<>> /\ vv[c][1] \notin Blocks
    /\ EndedIn(uu, c) => EndedIn(vv, c)
    /\ tt[c].partner # NoLink => tt[c].partner = ss[c].partner
CarriedFlow(st, uu, r, vv, c) ==
    /\ Follows(Coming(st, uu, c), Coming(r, vv, c))
    /\ IsPaired(r, vv, c) =>
         /\ Coming(st, uu, c) # <<>> => Coming(r, vv, c) # <<>>
         /\ ~ EndedIn(vv, r.sessions[c].partner) => Coming(r, vv, c) = Coming(st, uu, c)
Carried(sk, st, uu, r, vv) ==
    /\ DOMAIN r.sessions \subseteq DOMAIN st.sessions
    /\ \A c \in DOMAIN r.sessions : CarriedLink(st.sessions, uu, r.sessions, vv, c)
    /\ \A h \in DOMAIN sk : sk[h].link # NoLink => CarriedFlow(st, uu, r, vv, sk[h].link)
Itemised(st, uu) == \A c \in Links : Coming(st, uu, c) \in Seq(Items)

LEMMA CarriedFlows ==
    ASSUME NEW sk, NEW st, NEW uu, NEW r, NEW vv, Streams(sk), Flows(sk, st, uu), Carried(sk, st, uu, r, vv),
           Itemised(st, uu), Itemised(r, vv), AreLinks(r.sessions), Partners(r.sessions)
    PROVE  Flows(sk, r, vv)
<1> DEFINE ss == st.sessions
           tt == r.sessions
<1>1. DOMAIN tt \subseteq DOMAIN ss /\ DOMAIN tt \subseteq Links /\ NoLink \notin Links
  BY DEF Carried, AreLinks, Links, NoLink
<1>2. \A c \in DOMAIN tt : CarriedLink(ss, uu, tt, vv, c)
  BY DEF Carried
<1>3. \A h \in DOMAIN sk : sk[h].link # NoLink => CarriedFlow(st, uu, r, vv, sk[h].link)
  BY DEF Carried
<1>4. SendsRuns(st, uu) /\ ReadsRuns(sk, st, uu) /\ SendsLast(sk, st, uu)
  BY DEF Flows
<1> HIDE DEF ss, tt
<1>5. SendsRuns(r, vv)
  <2>1. \A c \in DOMAIN ss : /\ ss[c].kind # "listen" => RunIn(Sends(ss, uu, c))
                             /\ ss[c].kind = "pending" => ss[c].in = <<>> /\ uu[c] # <<>> /\ uu[c][1] \notin Blocks
    BY <1>4 DEF SendsRuns, ss
  <2>2. \A c \in DOMAIN tt : /\ tt[c].kind # "listen" => RunIn(Sends(tt, vv, c))
                             /\ tt[c].kind = "pending" => tt[c].in = <<>> /\ vv[c] # <<>> /\ vv[c][1] \notin Blocks
    BY <1>1, <1>2, <2>1 DEF CarriedLink
  <2> QED BY <2>2 DEF SendsRuns, tt
<1>6. ReadsRuns(sk, r, vv)
  <2> SUFFICES ASSUME NEW h \in DOMAIN sk, sk[h].link # NoLink PROVE ReadsRun(sk, r, vv, h)
    BY DEF ReadsRuns
  <2>1. PICK c \in Links : c = sk[h].link
    BY StreamTypes
  <2>2. ReadsRun(sk, st, uu, h) /\ CarriedFlow(st, uu, r, vv, c)
    BY <1>3, <1>4, <2>1 DEF ReadsRuns
  <2>3. PICK a \in Seq(Items) : a = sk[h].received
    BY StreamTypes
  <2>4. PICK q \in Seq(Items) : q = Coming(st, uu, c)
    BY DEF Itemised
  <2>5. PICK t \in Seq(Items) : t = Coming(r, vv, c)
    BY DEF Itemised
  <2>6. Flow(sk, st, uu, h) = a \o q /\ Flow(sk, r, vv, h) = a \o t
    BY <2>1, <2>3, <2>4, <2>5 DEF Flow
  <2>7. /\ RunIn(a \o q) => RunIn(a \o t)
        /\ Starts(a \o q) => Starts(a \o t)
    BY <2>2, <2>4, <2>5 DEF CarriedFlow, Follows
  <2>8. IsPaired(r, vv, c) => IsPaired(st, uu, c)
    BY <1>1, <1>2 DEF IsPaired, CarriedLink, ss, tt
  <2>9. IsPaired(r, vv, c) => (q # <<>> => t # <<>>)
    BY <2>2, <2>4, <2>5 DEF CarriedFlow
  <2>10. (q # <<>> => t # <<>>) => (a \o q # <<>> => a \o t # <<>>)
    <3>1. a \o q # <<>> => a # <<>> \/ q # <<>>
      BY ConcatEmptySeq
    <3>2. a # <<>> \/ t # <<>> => a \o t # <<>>
      BY ConcatProperties, EmptySeq
    <3> QED BY <3>1, <3>2
  <2> QED BY <2>1, <2>2, <2>6, <2>7, <2>8, <2>9, <2>10 DEF ReadsRun
<1>7. SendsLast(sk, r, vv)
  <2> SUFFICES ASSUME NEW h \in DOMAIN sk, CanSend(sk, r, vv, h)
               PROVE  /\ EndsAt(Sends(tt, vv, sk[h].link), Block(h, sk[h].sent))
                      /\ \A x \in DOMAIN sk : Reader(sk, r, vv, h, x) =>
                            EndsAt(Flow(sk, r, vv, x), Block(h, sk[h].sent))
    BY DEF SendsLast, tt
  <2>1. PICK c \in DOMAIN tt : c = sk[h].link
    BY DEF CanSend, tt
  <2>2. CarriedLink(ss, uu, tt, vv, c) /\ tt[c].kind # "listen" /\ ~ EndedIn(vv, c)
    BY <1>2, <2>1 DEF CanSend, tt
  <2>3. CanSend(sk, st, uu, h)
    BY <1>1, <2>1, <2>2 DEF CanSend, CarriedLink, ss
  <2>4. /\ EndsAt(Sends(ss, uu, c), Block(h, sk[h].sent))
        /\ \A x \in DOMAIN sk : Reader(sk, st, uu, h, x) => EndsAt(Flow(sk, st, uu, x), Block(h, sk[h].sent))
    BY <1>4, <2>1, <2>3 DEF SendsLast, ss
  <2>5. EndsAt(Sends(tt, vv, c), Block(h, sk[h].sent))
    BY <2>2, <2>4 DEF CarriedLink
  <2>6. ASSUME NEW x \in DOMAIN sk, Reader(sk, r, vv, h, x)
        PROVE  EndsAt(Flow(sk, r, vv, x), Block(h, sk[h].sent))
    <3>1. PICK p : p = sk[x].link
      OBVIOUS
    <3>2. p # NoLink /\ p = tt[c].partner /\ ~ EndedIn(vv, p)
      BY <2>1, <2>6, <3>1 DEF Reader, tt
    <3>3. p \in DOMAIN tt /\ tt[p].partner = c /\ c # NoLink /\ p = ss[c].partner
      BY <1>1, <2>2, <3>2 DEF Partners, CarriedLink, tt
    <3>4. IsPaired(r, vv, p)
      BY <3>2, <3>3 DEF IsPaired, tt
    <3>5. Coming(r, vv, p) = Coming(st, uu, p)
      BY <1>3, <2>2, <3>1, <3>2, <3>3, <3>4 DEF CarriedFlow, tt
    <3>6. ~ EndedIn(uu, p)
      BY <1>2, <3>2, <3>3 DEF CarriedLink
    <3>7. Reader(sk, st, uu, h, x)
      BY <2>1, <3>1, <3>2, <3>3, <3>6 DEF Reader, ss
    <3> QED BY <2>4, <3>1, <3>5, <3>7 DEF Flow
  <2> QED BY <2>1, <2>5, <2>6
<1> QED BY <1>5, <1>6, <1>7 DEF Flows

LEMMA TypedItemised ==
    ASSUME NEW st, NEW L, Typed(st, L), Partners(st.sessions), NEW uu, Uploads(uu)
    PROVE  Itemised(st, uu)
BY TypedItems DEF Itemised

(* A handler that keeps the flows keeps their order. *)
LEMMA KeptFlows ==
    ASSUME NEW sk, NEW st, NEW L, NEW r, NEW uu, Streams(sk), Flows(sk, st, uu), Uploads(uu),
           Typed(st, L), Partners(st.sessions), Handled(st, L, r, uu)
    PROVE  Flows(sk, r, uu)
<1>1. Typed(r, L) /\ Partners(r.sessions) /\ Kept(st, r, uu) /\ AreLinks(r.sessions)
  BY DEF Handled, Typed, IsState
<1>2. Itemised(st, uu) /\ Itemised(r, uu)
  BY <1>1, TypedItemised
<1>3. \A c \in DOMAIN r.sessions : CarriedLink(st.sessions, uu, r.sessions, uu, c)
  BY <1>1 DEF Kept, Lags, CarriedLink
<1>4. ASSUME NEW h \in DOMAIN sk, sk[h].link # NoLink PROVE CarriedFlow(st, uu, r, uu, sk[h].link)
  <2>1. PICK c \in Links : c = sk[h].link
    BY <1>4, StreamTypes
  <2>2. CarriedFlow(st, uu, r, uu, c)
    BY <1>1 DEF Kept, CarriedFlow, IsPaired
  <2> QED BY <2>1, <2>2
<1>5. Carried(sk, st, uu, r, uu)
  BY <1>1, <1>3, <1>4 DEF Carried, Kept
<1> QED BY <1>1, <1>2, <1>5, CarriedFlows

(* A link that gets a partner, and a notice of it. *)
WithPartner(s, p, e) == [[s EXCEPT !.partner = p] EXCEPT !.out = Append(s.out, e)]

LEMMA PartnerLink ==
    ASSUME NEW s, NEW c, NEW L, IsLink(s, c, L), s.kind \in {"connect", "accept"}, NEW p \in Links,
           NEW e \in Notices, NEW t, t = WithPartner(s, p, e)
    PROVE  /\ IsLink(t, c, L) /\ t.in = s.in /\ t.kind = s.kind /\ t.partner = p
           /\ t.name = s.name /\ t.peer = s.peer /\ s.out \in Seq(Items) /\ t.out = Append(s.out, e)
<1> DEFINE u == [s EXCEPT !.partner = p]
<1>1. s \in Sessions /\ c \notin L /\ s.out \in Seq(ForConsole(c, L)) /\ (s.kind = "connect" => s.name \in Openers)
  BY DEF IsLink
<1>2. u \in Sessions
  BY <1>1 DEF Sessions
<1>3. /\ u.in = s.in /\ u.out = s.out /\ u.kind = s.kind /\ u.partner = p
      /\ u.name = s.name /\ u.peer = s.peer
  BY <1>1 DEF Sessions
<1> HIDE DEF u
<1>4. IsLink(u, c, L)
  BY <1>1, <1>2, <1>3 DEF IsLink
<1>5. e \in ForConsole(c, L)
  BY <1>1 DEF ForConsole
<1>6. PICK more \in Seq(ForConsole(c, L)) : more = Append(s.out, e)
  <2>1. PICK o \in Seq(ForConsole(c, L)) : o = s.out
    BY <1>1
  <2>2. Append(o, e) \in Seq(ForConsole(c, L))
    BY <1>5, AppendProperties
  <2> QED BY <2>1, <2>2
<1>7. t = [u EXCEPT !.out = more]
  BY <1>6 DEF WithPartner, u
<1>8. s.out \in Seq(Items)
  BY <1>1, ForItems, SeqMonotonic
<1>9. /\ IsLink([u EXCEPT !.out = more], c, L) /\ [u EXCEPT !.out = more].out = more
      /\ [u EXCEPT !.out = more].in = u.in /\ [u EXCEPT !.out = more].partner = u.partner
      /\ [u EXCEPT !.out = more].kind = u.kind /\ [u EXCEPT !.out = more].name = u.name
      /\ [u EXCEPT !.out = more].peer = u.peer
  BY <1>4, OutLink
<1> QED BY <1>3, <1>6, <1>7, <1>8, <1>9

(* accept_stream pairs c with d: each has the other, and a notice of it. *)
PairedAs(st, r, c, d) ==
    /\ DOMAIN r = {"sessions", "down"} /\ r.down = st.down
    /\ DOMAIN r.sessions = DOMAIN st.sessions /\ AreLinks(r.sessions)
    /\ r.sessions[c] = WithPartner(st.sessions[c], d, Notice(st.sessions[d].name))
    /\ r.sessions[d] = WithPartner(st.sessions[d], c, Notice(st.sessions[c].name))
    /\ \A e \in DOMAIN st.sessions \ {c, d} : r.sessions[e] = st.sessions[e]

LEMMA PairedParts ==
    ASSUME NEW st, IsState(st), NEW c \in DOMAIN st.sessions, Waiting(st.sessions, c) # {}
    PROVE  \E d \in Waiting(st.sessions, c) : \E r : PairedAs(st, r, c, d) /\ Paired(st, c) = Forwarded(r, d)
<1> DEFINE ss == st.sessions
           waiting == Waiting(ss, c)
<1>1. waiting \subseteq DOMAIN ss \ {c}
  BY DEF Waiting
<1>2. PICK d \in waiting : d = Least(waiting)
  <2>1. waiting \subseteq Links /\ waiting # {}
    BY <1>1 DEF IsState, AreLinks
  <2> HIDE DEF waiting
  <2> QED BY <2>1, LeastIn
<1>3. d \in DOMAIN ss /\ d # c
  BY <1>1
<1> HIDE DEF waiting
<1>4. PICK x, y : x = Append(ss[d].out, Notice(ss[c].name)) /\ y = Append(ss[c].out, Notice(ss[d].name))
  OBVIOUS
<1> DEFINE pair == [st EXCEPT !.sessions[d].partner = c, !.sessions[c].partner = d,
                              !.sessions[d].out = x, !.sessions[c].out = y]
<1>5. Paired(st, c) = Forwarded(pair, d)
  BY <1>2, <1>4 DEF Paired, waiting
<1> DEFINE t1 == [ss EXCEPT ![d].partner = c]
           t2 == [t1 EXCEPT ![c].partner = d]
           t3 == [t2 EXCEPT ![d].out = x]
           tt == [t3 EXCEPT ![c].out = y]
<1>6. AreLinks(ss)
  BY DEF IsState
<1>7. PICK r : r = pair
  OBVIOUS
<1>8. DOMAIN r = {"sessions", "down"} /\ r.sessions = tt /\ r.down = st.down
  BY <1>7 DEF IsState
<1> HIDE DEF pair, tt, ss
<1>9. /\ DOMAIN t1 = DOMAIN ss /\ t1[d] = [ss[d] EXCEPT !.partner = c] /\ AreLinks(t1)
      /\ \A e \in DOMAIN ss \ {d} : t1[e] = ss[e]
  BY <1>3, <1>6 DEF AreLinks, Fields
<1> HIDE DEF t1
<1>10. /\ DOMAIN t2 = DOMAIN ss /\ t2[c] = [t1[c] EXCEPT !.partner = d] /\ AreLinks(t2)
       /\ \A e \in DOMAIN ss \ {c} : t2[e] = t1[e]
  BY <1>9 DEF AreLinks, Fields, ss
<1> HIDE DEF t2
<1>11. /\ DOMAIN t3 = DOMAIN ss /\ t3[d] = [t2[d] EXCEPT !.out = x] /\ AreLinks(t3)
       /\ \A e \in DOMAIN ss \ {d} : t3[e] = t2[e]
  BY <1>3, <1>10 DEF AreLinks, Fields
<1> HIDE DEF t3
<1>12. /\ DOMAIN tt = DOMAIN ss /\ tt[c] = [t3[c] EXCEPT !.out = y] /\ AreLinks(tt)
       /\ \A e \in DOMAIN ss \ {c} : tt[e] = t3[e]
  BY <1>11 DEF AreLinks, Fields, ss, tt
<1>13. c \in DOMAIN ss
  BY DEF ss
<1>14. tt[c] = WithPartner(ss[c], d, Notice(ss[d].name))
  <2>1. t3[c] = [ss[c] EXCEPT !.partner = d]
    BY <1>3, <1>9, <1>10, <1>11, <1>13
  <2> QED BY <1>4, <1>12, <2>1 DEF WithPartner
<1>15. tt[d] = WithPartner(ss[d], c, Notice(ss[c].name))
  <2>1. t2[d] = [ss[d] EXCEPT !.partner = c]
    BY <1>3, <1>9, <1>10
  <2>2. tt[d] = [t2[d] EXCEPT !.out = x]
    BY <1>3, <1>11, <1>12
  <2> QED BY <1>4, <2>1, <2>2 DEF WithPartner
<1>16. \A e \in DOMAIN ss \ {c, d} : tt[e] = ss[e]
  BY <1>9, <1>10, <1>11, <1>12
<1>17. PairedAs(st, r, c, d)
  BY <1>8, <1>12, <1>14, <1>15, <1>16 DEF PairedAs, ss
<1> QED BY <1>2, <1>5, <1>7, <1>17 DEF waiting, ss

(* x, paired with y: what y sends follows the notice. *)
LinkedTo(st, r, x, y) ==
    /\ x \in DOMAIN st.sessions /\ y \in DOMAIN st.sessions /\ x # y
    /\ st.sessions[x].partner = NoLink /\ st.sessions[x].kind \in {"connect", "accept"}
    /\ st.sessions[y].kind \in {"connect", "accept"}
    /\ r.sessions[x] = WithPartner(st.sessions[x], y, Notice(st.sessions[y].name))
    /\ r.down = st.down /\ DOMAIN r.sessions = DOMAIN st.sessions
    /\ \A z \in DOMAIN st.sessions : r.sessions[z].in = st.sessions[z].in /\ r.sessions[z].kind = st.sessions[z].kind

LEMMA JoinedLink ==
    ASSUME NEW st, NEW L, Typed(st, L), NEW r, NEW x, NEW y, LinkedTo(st, r, x, y)
    PROVE  /\ IsLink(r.sessions[x], x, L) /\ r.sessions[x].partner = y
           /\ r.sessions[x].name = st.sessions[x].name /\ r.sessions[x].peer = st.sessions[x].peer
           /\ r.sessions[x].out = Append(st.sessions[x].out, Notice(st.sessions[y].name))
           /\ st.sessions[x].out \in Seq(Items)
           /\ Notice(st.sessions[y].name) \in Items /\ Notice(st.sessions[y].name) \notin Blocks
<1>1. PICK s : s = st.sessions[x]
  OBVIOUS
<1>2. PICK t : t = r.sessions[x]
  OBVIOUS
<1>3. PICK e : e = Notice(st.sessions[y].name)
  OBVIOUS
<1>4. IsLink(s, x, L) /\ s.kind \in {"connect", "accept"} /\ y \in Links
  BY <1>1 DEF Typed, LinkedTo, IsState, AreLinks
<1>5. e \in Notices /\ e \in Items /\ e \notin Blocks
  <2>1. st.sessions[y] \in Sessions
    BY DEF Typed, LinkedTo, IsLink
  <2>2. st.sessions[y].name \in Names
    BY <2>1 DEF Sessions
  <2> QED BY <1>3, <2>2, ItemTypes
<1>6. t = WithPartner(s, y, e)
  BY <1>1, <1>2, <1>3 DEF LinkedTo
<1>7. /\ IsLink(t, x, L) /\ t.in = s.in /\ t.kind = s.kind /\ t.partner = y
      /\ t.name = s.name /\ t.peer = s.peer /\ s.out \in Seq(Items) /\ t.out = Append(s.out, e)
  BY <1>4, <1>5, <1>6, PartnerLink
<1> QED BY <1>1, <1>2, <1>3, <1>5, <1>7

LEMMA JoinedComing ==
    ASSUME NEW st, NEW L, Typed(st, L), Partners(st.sessions), NEW uu, Uploads(uu),
           NEW r, NEW x, NEW y, LinkedTo(st, r, x, y)
    PROVE  /\ EndedIn(uu, x) => Coming(r, uu, x) = Coming(st, uu, x)
           /\ ~ EndedIn(uu, x) => \E e \in Items \ Blocks :
                Coming(r, uu, x) = Append(Coming(st, uu, x), e) \o Sends(st.sessions, uu, y)
<1> DEFINE e == Notice(st.sessions[y].name)
<1>1. x \in Links /\ y \in Links /\ x \in DOMAIN st.sessions /\ x \in DOMAIN r.sessions /\ y \in DOMAIN st.sessions
      /\ y # NoLink /\ st.sessions[x].partner = NoLink /\ r.down = st.down
  BY DEF LinkedTo, Typed, IsState, AreLinks, Links, NoLink
<1>2. CASE EndedIn(uu, x)
  BY <1>1, <1>2 DEF Coming, Passing
<1>3. CASE ~ EndedIn(uu, x)
  <2>1. /\ r.sessions[x].partner = y /\ r.sessions[x].out = Append(st.sessions[x].out, e)
        /\ e \in Items /\ e \notin Blocks
    BY JoinedLink
  <2> HIDE DEF e
  <2>2. PICK o \in Seq(Items) : o = st.sessions[x].out
    BY JoinedLink
  <2>3. PICK w \in Seq(Items) : w = Sends(st.sessions, uu, y)
    BY <1>1, TypedItems
  <2>4. PICK q \in Seq(Items) : q = st.down[x]
    BY <1>1, TypedItems
  <2>5. Sends(r.sessions, uu, y) = w
    BY <1>1, <2>3 DEF LinkedTo, Sends
  <2>6. Coming(r, uu, x) = q \o (Append(o, e) \o w)
    BY <1>1, <1>3, <2>1, <2>2, <2>4, <2>5 DEF Coming, Passing
  <2>7. Coming(st, uu, x) = q \o o
    BY <1>1, <1>3, <2>2, <2>4 DEF Coming, Passing
  <2>8. Append(o, e) \in Seq(Items) /\ q \o Append(o, e) = Append(q \o o, e)
    BY <2>1, AppendAfter, AppendProperties
  <2>9. (q \o Append(o, e)) \o w = q \o (Append(o, e) \o w)
    BY <2>8, ItemsConcat
  <2> QED BY <1>3, <2>1, <2>3, <2>6, <2>7, <2>8, <2>9
<1> QED BY <1>2, <1>3

(* Two links that are paired, and all others as they were. *)
Joining(st, r, c, d) ==
    /\ LinkedTo(st, r, c, d) /\ LinkedTo(st, r, d, c)
    /\ \A e \in DOMAIN st.sessions \ {c, d} : r.sessions[e] = st.sessions[e]

LEMMA OthersComing ==
    ASSUME NEW st, NEW L, Typed(st, L), Partners(st.sessions), NEW uu,
           NEW r, NEW c, NEW d, Joining(st, r, c, d), NEW x \in Links, x # c, x # d
    PROVE  /\ Coming(r, uu, x) = Coming(st, uu, x)
           /\ x \in DOMAIN st.sessions => r.sessions[x].partner = st.sessions[x].partner
<1> DEFINE p == st.sessions[x].partner
<1>1. DOMAIN r.sessions = DOMAIN st.sessions /\ r.down = st.down
  BY DEF Joining, LinkedTo
<1>2. x \in DOMAIN st.sessions => r.sessions[x] = st.sessions[x]
  BY DEF Joining
<1>3. \A z \in DOMAIN st.sessions : r.sessions[z].in = st.sessions[z].in
  BY DEF Joining, LinkedTo
<1>4. x \in DOMAIN st.sessions /\ p # NoLink => p \in DOMAIN st.sessions
  BY DEF Partners
<1>5. x \in DOMAIN st.sessions /\ p # NoLink => Sends(r.sessions, uu, p) = Sends(st.sessions, uu, p)
  BY <1>3, <1>4 DEF Sends
<1>6. Passing(r.sessions, uu, x) = Passing(st.sessions, uu, x)
  <2> DEFINE ss == st.sessions
             tt == r.sessions
  <2>1. x \in DOMAIN ss => /\ tt[x].out = ss[x].out /\ tt[x].partner = ss[x].partner
                           /\ ss[x].partner # NoLink => Sends(tt, uu, ss[x].partner) = Sends(ss, uu, ss[x].partner)
    BY <1>2, <1>5
  <2>2. x \in DOMAIN ss <=> x \in DOMAIN tt
    BY <1>1
  <2> HIDE DEF ss, tt
  <2>3. Passing(tt, uu, x) = Passing(ss, uu, x)
    BY <2>1, <2>2, SamePassing
  <2> QED BY <2>3 DEF ss, tt
<1> QED BY <1>1, <1>2, <1>6 DEF Coming

(* The flows of a link that gets a partner. *)
LEMMA JoinedFlow ==
    ASSUME NEW sk, Streams(sk), NEW st, NEW L, Typed(st, L), Partners(st.sessions), NEW uu, Uploads(uu),
           NEW r, NEW x, NEW y, LinkedTo(st, r, x, y), SendsRuns(st, uu),
           NEW h \in DOMAIN sk, sk[h].link = x
    PROVE  /\ ReadsRun(sk, st, uu, h) => ReadsRun(sk, r, uu, h)
           /\ \A b : ~ EndedIn(uu, x) /\ EndsAt(Sends(st.sessions, uu, y), b) => EndsAt(Flow(sk, r, uu, h), b)
<1>1. x \in Links /\ y \in Links /\ y \in DOMAIN st.sessions
  BY DEF LinkedTo, Typed, IsState, AreLinks
<1>2. PICK a \in Seq(Items) : a = sk[h].received
  BY StreamTypes
<1>3. PICK q \in Seq(Items) : q = Coming(st, uu, x)
  BY <1>1, TypedItems
<1>4. PICK w \in Seq(Items) : w = Sends(st.sessions, uu, y)
  BY <1>1, TypedItems
<1>5. RunIn(w)
  BY <1>1, <1>4 DEF SendsRuns, LinkedTo
<1>6. CASE EndedIn(uu, x)
  <2>1. Coming(r, uu, x) = Coming(st, uu, x)
    BY <1>6, JoinedComing
  <2> QED BY <1>6, <2>1 DEF ReadsRun, Flow, IsPaired
<1>7. CASE ~ EndedIn(uu, x)
  <2>1. PICK e \in Items \ Blocks : Coming(r, uu, x) = Append(q, e) \o w
    <3>1. \E e \in Items \ Blocks :
             Coming(r, uu, x) = Append(Coming(st, uu, x), e) \o Sends(st.sessions, uu, y)
      BY <1>7, JoinedComing
    <3> QED BY <1>3, <1>4, <3>1
  <2>2. PICK f \in Seq(Items) : f = Append(q, e)
    BY <2>1, AppendProperties
  <2>3. f # <<>> /\ (\A b : EndsAt(f, b))
    BY <2>1, <2>2, EndsOfAppend, AppendProperties
  <2>4. PICK g \in Seq(Items) : g = f \o w
    BY ItemsConcat
  <2>5. Flow(sk, r, uu, h) = a \o g /\ Flow(sk, st, uu, h) = a \o q
    BY <1>2, <1>3, <2>1, <2>2, <2>4 DEF Flow
  <2>6. Follows(q, g)
    BY <1>5, <2>1, <2>2, <2>4, FollowsJoin
  <2>7. /\ RunIn(a \o q) => RunIn(a \o g)
        /\ Starts(a \o q) => Starts(a \o g)
    BY <2>6 DEF Follows
  <2>8. a \o g # <<>> /\ g # <<>>
    <3>1. g # <<>>
      BY <2>3, <2>4, ConcatProperties, EmptySeq
    <3> QED BY <3>1, ConcatProperties, EmptySeq
  <2>9. ASSUME NEW b, EndsAt(w, b) PROVE EndsAt(a \o g, b)
    <3>1. EndsAt(g, b)
      <4>1. EndsAt(f \o w, b) <=> EndsAt(IF w = <<>> THEN f ELSE w, b)
        BY EndsOfConcat
      <4> QED BY <2>3, <2>4, <2>9, <4>1
    <3>2. EndsAt(a \o g, b) <=> EndsAt(IF g = <<>> THEN a ELSE g, b)
      BY EndsOfConcat
    <3> QED BY <2>8, <3>1, <3>2
  <2> QED BY <1>4, <2>5, <2>7, <2>8, <2>9 DEF ReadsRun
<1> QED BY <1>6, <1>7

LEMMA JoiningFlows ==
    ASSUME NEW sk, Streams(sk), NEW st, NEW L, Typed(st, L), Partners(st.sessions), NEW uu, Uploads(uu),
           NEW r, NEW c, NEW d, Joining(st, r, c, d), Flows(sk, st, uu)
    PROVE  Flows(sk, r, uu)
<1> DEFINE ss == st.sessions
           tt == r.sessions
<1>1. DOMAIN tt = DOMAIN ss /\ (\A z \in DOMAIN ss : tt[z].in = ss[z].in /\ tt[z].kind = ss[z].kind)
  BY DEF Joining, LinkedTo
<1>2. DOMAIN ss \subseteq Links /\ NoLink \notin Links
  BY DEF Typed, IsState, AreLinks, Links, NoLink
<1>3. LinkedTo(st, r, c, d) /\ LinkedTo(st, r, d, c)
  BY DEF Joining
<1>4. SendsRuns(st, uu) /\ ReadsRuns(sk, st, uu) /\ SendsLast(sk, st, uu)
  BY DEF Flows
<1>5. \A z \in DOMAIN ss : Sends(tt, uu, z) = Sends(ss, uu, z)
  BY <1>1 DEF Sends
<1> HIDE DEF ss, tt
<1>6. SendsRuns(r, uu)
  <2>1. \A z \in DOMAIN ss : /\ ss[z].kind # "listen" => RunIn(Sends(ss, uu, z))
                             /\ ss[z].kind = "pending" => ss[z].in = <<>> /\ uu[z] # <<>> /\ uu[z][1] \notin Blocks
    BY <1>4 DEF SendsRuns, ss
  <2>2. \A z \in DOMAIN tt : /\ tt[z].kind # "listen" => RunIn(Sends(tt, uu, z))
                             /\ tt[z].kind = "pending" => tt[z].in = <<>> /\ uu[z] # <<>> /\ uu[z][1] \notin Blocks
    BY <1>1, <1>5, <2>1
  <2> QED BY <2>2 DEF SendsRuns, tt
<1>7. ReadsRuns(sk, r, uu)
  <2> SUFFICES ASSUME NEW h \in DOMAIN sk, sk[h].link # NoLink PROVE ReadsRun(sk, r, uu, h)
    BY DEF ReadsRuns
  <2>1. PICK x \in Links : x = sk[h].link
    BY StreamTypes
  <2>2. ReadsRun(sk, st, uu, h)
    BY <1>4 DEF ReadsRuns
  <2>3. CASE x = c \/ x = d
    BY <1>3, <1>4, <2>1, <2>2, <2>3, JoinedFlow
  <2>4. CASE x # c /\ x # d
    <3>1. /\ Coming(r, uu, x) = Coming(st, uu, x)
          /\ x \in DOMAIN ss => tt[x].partner = ss[x].partner
      BY <2>4, OthersComing DEF ss, tt
    <3>2. IsPaired(r, uu, x) => IsPaired(st, uu, x)
      BY <1>1, <3>1 DEF IsPaired, ss, tt
    <3> QED BY <2>1, <2>2, <3>1, <3>2 DEF ReadsRun, Flow
  <2> QED BY <2>3, <2>4
<1>8. SendsLast(sk, r, uu)
  <2> SUFFICES ASSUME NEW h \in DOMAIN sk, CanSend(sk, r, uu, h)
               PROVE  /\ EndsAt(Sends(tt, uu, sk[h].link), Block(h, sk[h].sent))
                      /\ \A k \in DOMAIN sk : Reader(sk, r, uu, h, k) =>
                            EndsAt(Flow(sk, r, uu, k), Block(h, sk[h].sent))
    BY DEF SendsLast, tt
  <2>1. PICK x \in DOMAIN tt : x = sk[h].link
    BY DEF CanSend, tt
  <2>2. CanSend(sk, st, uu, h)
    BY <1>1, <2>1 DEF CanSend, ss, tt
  <2>3. /\ EndsAt(Sends(ss, uu, x), Block(h, sk[h].sent))
        /\ \A k \in DOMAIN sk : Reader(sk, st, uu, h, k) => EndsAt(Flow(sk, st, uu, k), Block(h, sk[h].sent))
    BY <1>4, <2>1, <2>2 DEF SendsLast, ss
  <2>4. EndsAt(Sends(tt, uu, x), Block(h, sk[h].sent))
    BY <1>1, <1>5, <2>3
  <2>5. ASSUME NEW k \in DOMAIN sk, Reader(sk, r, uu, h, k)
        PROVE  EndsAt(Flow(sk, r, uu, k), Block(h, sk[h].sent))
    <3>1. PICK p : p = sk[k].link
      OBVIOUS
    <3>2. p # NoLink /\ p = tt[x].partner /\ ~ EndedIn(uu, p)
      BY <2>1, <2>5, <3>1 DEF Reader, tt
    <3>3. CASE x = c
      <4>1. p = d
        BY <1>3, <3>2, <3>3, JoinedLink DEF tt
      <4> QED BY <1>3, <1>4, <2>3, <3>1, <3>2, <3>3, <4>1, JoinedFlow DEF ss
    <3>4. CASE x = d
      <4>1. p = c
        BY <1>3, <3>2, <3>4, JoinedLink DEF tt
      <4> QED BY <1>3, <1>4, <2>3, <3>1, <3>2, <3>4, <4>1, JoinedFlow DEF ss
    <3>5. CASE x # c /\ x # d
      <4>1. x \in Links /\ x \in DOMAIN ss
        BY <1>1, <1>2
      <4>2. p = ss[x].partner
        BY <3>2, <3>5, <4>1, OthersComing DEF ss, tt
      <4>3. p \in DOMAIN ss /\ ss[p].partner = x /\ x # NoLink
        BY <1>2, <3>2, <4>1, <4>2 DEF Partners, ss
      <4>4. p # c /\ p # d
        BY <1>3, <4>3 DEF LinkedTo, ss
      <4>5. Coming(r, uu, p) = Coming(st, uu, p)
        BY <1>2, <4>3, <4>4, OthersComing
      <4>6. Reader(sk, st, uu, h, k)
        BY <2>1, <3>1, <3>2, <4>2 DEF Reader, ss
      <4> QED BY <2>3, <3>1, <4>5, <4>6 DEF Flow
    <3> QED BY <3>3, <3>4, <3>5
  <2> QED BY <2>1, <2>4, <2>5
<1> QED BY <1>6, <1>7, <1>8 DEF Flows

LEMMA PairedJoined ==
    ASSUME NEW st, NEW L, Typed(st, L), NEW r, NEW x \in DOMAIN st.sessions, NEW y \in DOMAIN st.sessions, x # y,
           r.sessions[x] = WithPartner(st.sessions[x], y, Notice(st.sessions[y].name)),
           st.sessions[x].kind \in {"connect", "accept"}
    PROVE  r.sessions[x].in = st.sessions[x].in /\ r.sessions[x].kind = st.sessions[x].kind
<1>1. PICK s : s = st.sessions[x]
  OBVIOUS
<1>2. PICK t : t = r.sessions[x]
  OBVIOUS
<1>3. PICK e : e = Notice(st.sessions[y].name)
  OBVIOUS
<1>4. IsLink(s, x, L) /\ y \in Links
  BY <1>1 DEF Typed, IsState, AreLinks
<1>5. e \in Notices
  <2>1. st.sessions[y] \in Sessions
    BY DEF Typed, IsLink
  <2>2. st.sessions[y].name \in Names
    BY <2>1 DEF Sessions
  <2> QED BY <1>3, <2>2, ItemTypes
<1>6. t = WithPartner(s, y, e)
  BY <1>1, <1>2, <1>3
<1>7. t.in = s.in /\ t.kind = s.kind
  BY <1>1, <1>4, <1>5, <1>6, PartnerLink
<1> QED BY <1>1, <1>2, <1>7

LEMMA PairedKept ==
    ASSUME NEW st, NEW L, Typed(st, L), Partners(st.sessions), NEW r, NEW c, NEW d,
           PairedAs(st, r, c, d), c \in DOMAIN st.sessions, d \in Waiting(st.sessions, c),
           st.sessions[c].kind = "accept", st.sessions[c].partner = NoLink
    PROVE  Joining(st, r, c, d) /\ Typed(r, L) /\ Partners(r.sessions)
<1> DEFINE ss == st.sessions
           tt == r.sessions
<1>1. /\ d \in DOMAIN ss /\ d # c /\ ss[d].kind = "connect" /\ ss[d].partner = NoLink
      /\ ss[d].name = ss[c].peer /\ ss[d].peer = ss[c].name
  BY DEF Waiting
<1>2. /\ DOMAIN tt = DOMAIN ss /\ r.down = st.down /\ \A e \in DOMAIN ss \ {c, d} : tt[e] = ss[e]
      /\ tt[c] = WithPartner(ss[c], d, Notice(ss[d].name))
      /\ tt[d] = WithPartner(ss[d], c, Notice(ss[c].name))
      /\ IsState(r)
  BY DEF PairedAs, IsState
<1>3. tt[c].in = ss[c].in /\ tt[c].kind = ss[c].kind
  BY <1>1, <1>2, PairedJoined
<1>4. tt[d].in = ss[d].in /\ tt[d].kind = ss[d].kind
  BY <1>1, <1>2, PairedJoined
<1> HIDE DEF ss, tt
<1>5. \A z \in DOMAIN ss : tt[z].in = ss[z].in /\ tt[z].kind = ss[z].kind
  BY <1>2, <1>3, <1>4
<1>6. LinkedTo(st, r, c, d) /\ LinkedTo(st, r, d, c)
  BY <1>1, <1>2, <1>5 DEF LinkedTo, ss, tt
<1>7. Joining(st, r, c, d)
  BY <1>2, <1>6 DEF Joining, ss, tt
<1>8. /\ IsLink(tt[c], c, L) /\ tt[c].partner = d /\ tt[c].name = ss[c].name /\ tt[c].peer = ss[c].peer
      /\ IsLink(tt[d], d, L) /\ tt[d].partner = c /\ tt[d].name = ss[d].name /\ tt[d].peer = ss[d].peer
  BY <1>6, JoinedLink DEF ss, tt
<1>9. Typed(r, L)
  <2>1. \A e \in DOMAIN tt : IsLink(tt[e], e, L)
    <3> SUFFICES ASSUME NEW e \in DOMAIN tt PROVE IsLink(tt[e], e, L)
      OBVIOUS
    <3>1. CASE e = c \/ e = d
      BY <1>8, <3>1
    <3>2. CASE e # c /\ e # d
      BY <1>2, <3>2 DEF Typed, ss
    <3> QED BY <3>1, <3>2
  <2> QED BY <1>2, <2>1 DEF Typed, ss, tt
<1>10. Partners(tt)
  <2> SUFFICES ASSUME NEW e \in DOMAIN tt, tt[e].partner # NoLink
               PROVE  /\ tt[e].partner \in DOMAIN tt /\ tt[tt[e].partner].partner = e
                      /\ Ends(tt[e], tt[tt[e].partner])
    BY DEF Partners
  <2>1. CASE e = c
    <3>1. Ends(tt[c], tt[d])
      BY <1>1, <1>3, <1>4, <1>8 DEF Ends, ss
    <3> QED BY <1>1, <1>2, <1>8, <2>1, <3>1
  <2>2. CASE e = d
    <3>1. Ends(tt[d], tt[c])
      BY <1>1, <1>3, <1>4, <1>8 DEF Ends, ss
    <3> QED BY <1>1, <1>2, <1>6, <1>8, <2>2, <3>1 DEF LinkedTo, ss
  <2>3. CASE e # c /\ e # d
    <3>1. tt[e] = ss[e] /\ e \in DOMAIN ss
      BY <1>2, <2>3
    <3>2. ss[e].partner \in DOMAIN ss /\ ss[ss[e].partner].partner = e /\ Ends(ss[e], ss[ss[e].partner])
      BY <2>3, <3>1 DEF Partners, ss
    <3>3. e # NoLink
      BY <3>1 DEF Typed, IsState, AreLinks, Links, NoLink, ss
    <3>4. ss[e].partner # c /\ ss[e].partner # d
      BY <1>1, <3>2, <3>3 DEF ss
    <3> QED BY <1>2, <3>1, <3>2, <3>4
  <2> QED BY <2>1, <2>2, <2>3
<1> QED BY <1>7, <1>9, <1>10 DEF tt

(* A handler keeps the types, the pairs and the order of the flows. *)
Keeps(sk, L, r, uu) == Typed(r, L) /\ Partners(r.sessions) /\ Flows(sk, r, uu)

LEMMA HandledKeeps ==
    ASSUME NEW sk, NEW st, NEW L, NEW r, NEW uu, Streams(sk), Uploads(uu), Keeps(sk, L, st, uu),
           Handled(st, L, r, uu)
    PROVE  Keeps(sk, L, r, uu)
BY KeptFlows DEF Handled, Keeps

LEMMA PairedKeeps ==
    ASSUME NEW sk, NEW st, NEW L, NEW uu, Streams(sk), Uploads(uu), Keeps(sk, L, st, uu),
           NEW c \in DOMAIN st.sessions, st.sessions[c].kind = "accept", st.sessions[c].partner = NoLink
    PROVE  Keeps(sk, L, Paired(st, c), uu)
<1>1. Typed(st, L) /\ Partners(st.sessions) /\ Flows(sk, st, uu) /\ IsState(st)
  BY DEF Keeps, Typed
<1>2. CASE Waiting(st.sessions, c) = {}
  <2>1. Paired(st, c) = Erase(st, c)
    BY <1>2 DEF Paired
  <2>2. Handled(st, L, Erase(st, c), uu)
    BY <1>1, EraseHandled
  <2> QED BY <1>1, <2>1, <2>2, HandledKeeps
<1>3. CASE Waiting(st.sessions, c) # {}
  <2>1. \E d \in Waiting(st.sessions, c) : \E r : PairedAs(st, r, c, d) /\ Paired(st, c) = Forwarded(r, d)
    BY <1>1, <1>3, PairedParts
  <2>2. PICK d \in Waiting(st.sessions, c) : \E r : PairedAs(st, r, c, d) /\ Paired(st, c) = Forwarded(r, d)
    BY <2>1
  <2>3. PICK r : PairedAs(st, r, c, d) /\ Paired(st, c) = Forwarded(r, d)
    BY <2>2
  <2>4. Joining(st, r, c, d) /\ Typed(r, L) /\ Partners(r.sessions)
    BY <1>1, <2>3, PairedKept
  <2>5. Flows(sk, r, uu)
    BY <1>1, <2>4, JoiningFlows
  <2>6. d \in DOMAIN r.sessions
    BY <2>4 DEF Joining, LinkedTo
  <2>7. Handled(r, L, Forwarded(r, d), uu)
    BY <2>4, <2>6, ForwardedHandled
  <2> QED BY <2>3, <2>4, <2>5, <2>7, HandledKeeps DEF Keeps
<1> QED BY <1>2, <1>3
-----------------------------------------------------------------------------
(* The requests on their way to the server. *)

Requests(c, L) ==
    Blocks \union {Eof} \union
    {i \in Inits : (i.kind = "connect" => i.name \in Openers) /\ (c \in L => i.kind = "listen")}
Asked(uu, L) == uu = [c \in Links |-> uu[c]] /\ \A c \in Links : uu[c] \in Seq(Requests(c, L))

LEMMA RequestItems ==
    ASSUME NEW c, NEW L
    PROVE  Requests(c, L) \subseteq Items /\ Eof \in Requests(c, L) /\ Blocks \subseteq Requests(c, L)
BY DEF Requests, Items

LEMMA RequestKinds ==
    ASSUME NEW c, NEW L, NEW q \in Requests(c, L)
    PROVE  /\ q.op = "init" => q \in Inits /\ (q.kind = "connect" => q.name \in Openers)
                               /\ (c \in L => q.kind = "listen")
           /\ q.op = "block" => q \in Blocks
           /\ q.op = "eof" <=> q = Eof
<1>1. \A b \in Blocks : b.op = "block"
  BY DEF Blocks, Block
<1>2. Eof.op = "eof"
  BY DEF Eof
<1>3. \A i \in Inits : i.op = "init"
  BY DEF Inits, Init
<1> QED BY <1>1, <1>2, <1>3 DEF Requests

LEMMA AskedUploads ==
    ASSUME NEW L, Asked(up, L)
    PROVE  Uploads(up)
<1> SUFFICES ASSUME NEW c \in Links PROVE up[c] \in Seq(Items) /\ (EndedIn(up, c) <=> Ended(c))
  BY DEF Uploads
<1>1. up[c] \in Seq(Requests(c, L)) /\ Requests(c, L) \subseteq Items
  BY RequestItems DEF Asked
<1>2. up[c] \in Seq(Items)
  BY <1>1, SeqMonotonic
<1> QED BY <1>2 DEF EndedIn, Ended

LEMMA TailFacts ==
    ASSUME NEW S, NEW q \in Seq(S), q # <<>>
    PROVE  /\ Head(q) \in S /\ Head(q) = q[1] /\ <<Head(q)>> \in Seq(S) /\ Tail(q) \in Seq(S)
           /\ q = <<Head(q)>> \o Tail(q) /\ 1 \in DOMAIN q
           /\ \A x : (\E i \in DOMAIN q : q[i] = x) <=> Head(q) = x \/ \E i \in DOMAIN Tail(q) : Tail(q)[i] = x
<1>1. Len(q) \in Nat \ {0} /\ DOMAIN q = 1 .. Len(q)
  BY EmptySeq, LenProperties
<1>2. Head(q) \in S /\ Tail(q) \in Seq(S) /\ Len(Tail(q)) = Len(q) - 1
      /\ \A i \in 1 .. Len(Tail(q)) : Tail(q)[i] = q[i + 1]
  BY HeadTailProperties
<1>3. Head(q) = q[1]
  BY <1>1
<1>4. <<Head(q)>> \in Seq(S)
  BY <1>2
<1>5. q = <<Head(q)>> \o Tail(q)
  <2>1. SubSeq(q, 1, Len(q)) = <<q[1]>> \o SubSeq(q, 1 + 1, Len(q))
    BY <1>1, SubSeqRecursiveFirst
  <2>2. SubSeq(q, 1, Len(q)) = q /\ Tail(q) = SubSeq(q, 2, Len(q))
    BY SubSeqFull, TailIsSubSeq
  <2> QED BY <1>3, <2>1, <2>2
<1>6. DOMAIN Tail(q) = 1 .. Len(q) - 1
  BY <1>1, <1>2, LenProperties
<1>7. ASSUME NEW x
      PROVE  (\E i \in DOMAIN q : q[i] = x) <=> Head(q) = x \/ \E i \in DOMAIN Tail(q) : Tail(q)[i] = x
  <2>1. ASSUME NEW i \in DOMAIN q, q[i] = x PROVE Head(q) = x \/ \E j \in DOMAIN Tail(q) : Tail(q)[j] = x
    <3>1. CASE i = 1
      BY <1>3, <2>1, <3>1
    <3>2. CASE i # 1
      <4>1. i - 1 \in DOMAIN Tail(q) /\ (i - 1) + 1 = i
        BY <1>1, <1>6, <3>2
      <4>2. Tail(q)[i - 1] = q[(i - 1) + 1]
        BY <1>1, <1>2, <1>6, <4>1
      <4> QED BY <2>1, <4>1, <4>2
    <3> QED BY <3>1, <3>2
  <2>2. ASSUME NEW j \in DOMAIN Tail(q), Tail(q)[j] = x PROVE \E i \in DOMAIN q : q[i] = x
    <3>1. j + 1 \in DOMAIN q /\ q[j + 1] = x
      BY <1>1, <1>2, <1>6, <2>2
    <3> QED BY <3>1
  <2>3. Head(q) = x => \E i \in DOMAIN q : q[i] = x
    BY <1>1, <1>3
  <2> QED BY <2>1, <2>2, <2>3
<1> QED BY <1>1, <1>2, <1>3, <1>4, <1>5, <1>7

(* The handlers' results are taken over field by field. *)
LEMMA KeepsFields ==
    ASSUME NEW sk, NEW L, NEW r, NEW uu, Keeps(sk, L, r, uu), NEW x,
           DOMAIN x = {"sessions", "down"}, x.sessions = r.sessions, x.down = r.down
    PROVE  Keeps(sk, L, x, uu)
<1>1. \A c : Coming(x, uu, c) = Coming(r, uu, c)
  BY DEF Coming
<1>2. SendsRuns(x, uu)
  BY DEF Keeps, Flows, SendsRuns
<1>3. \A h : Flow(sk, x, uu, h) = Flow(sk, r, uu, h)
  BY <1>1 DEF Flow
<1>4. ReadsRuns(sk, x, uu)
  BY <1>3 DEF Keeps, Flows, ReadsRuns, ReadsRun, IsPaired
<1>5. SendsLast(sk, x, uu)
  BY <1>3 DEF Keeps, Flows, SendsLast, CanSend, Reader
<1> QED BY <1>2, <1>4, <1>5 DEF Keeps, Flows, Typed, IsState

(* A handler makes no link, and sends nothing where there is none. *)
Quiet(st, r) ==
    /\ DOMAIN r.sessions \subseteq DOMAIN st.sessions
    /\ \A e \in Links \ DOMAIN st.sessions : r.down[e] = st.down[e]

LEMMA QuietParts ==
    ASSUME NEW st, NEW c \in DOMAIN st.sessions, st.down = [e \in Links |-> st.down[e]]
    PROVE  /\ Quiet(st, Removed(st, c)) /\ Quiet(st, Sent(st, c)) /\ Quiet(st, Offered(st, c))
           /\ Quiet(st, Forwarded(st, c)) /\ Quiet(st, st)
           /\ Removed(st, c).down = [e \in Links |-> Removed(st, c).down[e]]
           /\ Sent(st, c).down = [e \in Links |-> Sent(st, c).down[e]]
<1>1. PICK q : Removed(st, c).down = [st.down EXCEPT ![c] = q]
  BY DEF Removed
<1>2. PICK t : Sent(st, c).down = [st.down EXCEPT ![c] = t]
  BY DEF Sent
<1>3. DOMAIN Removed(st, c).sessions \subseteq DOMAIN st.sessions /\ DOMAIN Sent(st, c).sessions = DOMAIN st.sessions
  BY DEF Removed, Sent
<1>4. Forwarded(st, c).down = st.down /\ DOMAIN Forwarded(st, c).sessions = DOMAIN st.sessions
  BY DEF Forwarded
<1>5. Offered(st, c).down = st.down /\ DOMAIN Offered(st, c).sessions = DOMAIN st.sessions
  BY DEF Offered
<1>6. ASSUME NEW x, NEW v, x = [st.down EXCEPT ![c] = v]
      PROVE  x = [e \in Links |-> x[e]] /\ \A e \in Links \ DOMAIN st.sessions : x[e] = st.down[e]
  BY <1>6
<1>7. Quiet(st, Removed(st, c)) /\ Quiet(st, Sent(st, c))
  BY <1>1, <1>2, <1>3, <1>6 DEF Quiet
<1>8. Quiet(st, Forwarded(st, c)) /\ Quiet(st, Offered(st, c)) /\ Quiet(st, st)
  BY <1>4, <1>5 DEF Quiet
<1> QED BY <1>1, <1>2, <1>6, <1>7, <1>8

LEMMA QuietAgain ==
    ASSUME NEW st, NEW r, NEW x, Quiet(st, r), Quiet(r, x)
    PROVE  Quiet(st, x)
BY DEF Quiet

LEMMA QuietErase ==
    ASSUME NEW st, NEW L, Typed(st, L), Partners(st.sessions), NEW c \in DOMAIN st.sessions
    PROVE  Quiet(st, Erase(st, c))
<1> DEFINE p == st.sessions[c].partner
           gone == Removed(st, c)
           last == Sent(gone, p)
<1>1. st.down = [e \in Links |-> st.down[e]] /\ IsState(st)
  BY DEF Typed
<1>2. Quiet(st, gone) /\ gone.down = [e \in Links |-> gone.down[e]]
  BY <1>1, QuietParts
<1>3. p # NoLink => p \in DOMAIN gone.sessions
  BY <1>1, RemovedFewer
<1>4. Erase(st, c) = IF p = NoLink THEN gone
                     ELSE IF last.sessions[p].out = <<>> THEN Removed(last, p) ELSE last
  BY DEF Erase
<1>5. CASE p = NoLink
  BY <1>2, <1>4, <1>5
<1>6. CASE p # NoLink
  <2> HIDE DEF gone, p
  <2>1. Quiet(gone, last) /\ last.down = [e \in Links |-> last.down[e]]
    BY <1>2, <1>3, <1>6, QuietParts
  <2>2. DOMAIN last.sessions = DOMAIN gone.sessions
    BY DEF Sent, last
  <2> HIDE DEF last
  <2>3. Quiet(last, Removed(last, p))
    BY <1>3, <1>6, <2>1, <2>2, QuietParts
  <2>4. Quiet(st, last)
    BY <1>2, <2>1, QuietAgain
  <2>5. Quiet(st, Removed(last, p))
    BY <2>3, <2>4, QuietAgain
  <2> QED BY <1>4, <1>6, <2>4, <2>5
<1> QED BY <1>5, <1>6

LEMMA QuietWritten ==
    ASSUME NEW st, NEW L, Typed(st, L), Partners(st.sessions), NEW c \in DOMAIN st.sessions,
           NEW uu, Uploads(uu)
    PROVE  Quiet(st, Written(st, c))
<1> DEFINE after == Sent(st, c)
<1>1. Handled(st, L, after, uu) /\ c \in DOMAIN after.sessions
  BY SentHandled, SentSame DEF SameLinks, Typed
<1>2. Written(st, c) = after \/ Written(st, c) = Erase(after, c)
  BY DEF Written
<1>3. Quiet(st, after)
  BY QuietParts DEF Typed
<1> HIDE DEF after
<1>4. Quiet(after, Erase(after, c))
  BY <1>1, QuietErase DEF Handled
<1> QED BY <1>2, <1>3, <1>4, QuietAgain

LEMMA QuietPaired ==
    ASSUME NEW st, NEW L, Typed(st, L), Partners(st.sessions), NEW c \in DOMAIN st.sessions,
           st.sessions[c].kind = "accept", st.sessions[c].partner = NoLink
    PROVE  Quiet(st, Paired(st, c))
<1>1. CASE Waiting(st.sessions, c) = {}
  <2>1. Paired(st, c) = Erase(st, c)
    BY <1>1 DEF Paired
  <2> QED BY <2>1, QuietErase
<1>2. CASE Waiting(st.sessions, c) # {}
  <2>1. \E d \in Waiting(st.sessions, c) : \E r : PairedAs(st, r, c, d) /\ Paired(st, c) = Forwarded(r, d)
    BY <1>2, PairedParts DEF Typed
  <2>2. PICK d \in Waiting(st.sessions, c) : \E r : PairedAs(st, r, c, d) /\ Paired(st, c) = Forwarded(r, d)
    BY <2>1
  <2>3. PICK r : PairedAs(st, r, c, d) /\ Paired(st, c) = Forwarded(r, d)
    BY <2>2
  <2>4. Forwarded(r, d).down = r.down /\ DOMAIN Forwarded(r, d).sessions = DOMAIN r.sessions
    <3>1. r.sessions = [e \in DOMAIN r.sessions |-> r.sessions[e]] /\ DOMAIN r = {"sessions", "down"}
      BY <2>3 DEF PairedAs, AreLinks
    <3> QED BY <3>1 DEF Forwarded
  <2> QED BY <2>3, <2>4 DEF PairedAs, Quiet
<1> QED BY <1>1, <1>2

(* A handler that runs on what is on its way. *)
HandlerKeeps(sk, L, st, r, uu) == Keeps(sk, L, r, uu) /\ Quiet(st, r)

LEMMA HandlersKeep ==
    ASSUME NEW sk, NEW st, NEW L, NEW uu, Streams(sk), Uploads(uu), Keeps(sk, L, st, uu), NEW c \in DOMAIN st.sessions
    PROVE  /\ HandlerKeeps(sk, L, st, Erase(st, c), uu) /\ HandlerKeeps(sk, L, st, Written(st, c), uu)
           /\ HandlerKeeps(sk, L, st, Forwarded(st, c), uu)
           /\ st.sessions[c].kind = "connect" => HandlerKeeps(sk, L, st, Offered(st, c), uu)
           /\ st.sessions[c].kind = "accept" /\ st.sessions[c].partner = NoLink =>
                HandlerKeeps(sk, L, st, Paired(st, c), uu)
<1>1. Typed(st, L) /\ Partners(st.sessions) /\ Flows(sk, st, uu) /\ st.down = [e \in Links |-> st.down[e]]
  BY DEF Keeps, Typed
<1>2. HandlerKeeps(sk, L, st, Erase(st, c), uu)
  <2>1. Handled(st, L, Erase(st, c), uu)
    BY <1>1, EraseHandled
  <2> QED BY <1>1, <2>1, HandledKeeps, QuietErase DEF HandlerKeeps
<1>3. HandlerKeeps(sk, L, st, Written(st, c), uu)
  <2>1. Handled(st, L, Written(st, c), uu)
    BY <1>1, WrittenHandled
  <2> QED BY <1>1, <2>1, HandledKeeps, QuietWritten DEF HandlerKeeps
<1>4. HandlerKeeps(sk, L, st, Forwarded(st, c), uu)
  <2>1. Handled(st, L, Forwarded(st, c), uu)
    BY <1>1, ForwardedHandled
  <2> QED BY <1>1, <2>1, HandledKeeps, QuietParts DEF HandlerKeeps
<1>5. ASSUME st.sessions[c].kind = "connect" PROVE HandlerKeeps(sk, L, st, Offered(st, c), uu)
  <2>1. Handled(st, L, Offered(st, c), uu)
    BY <1>1, <1>5, OfferedHandled
  <2> QED BY <1>1, <2>1, HandledKeeps, QuietParts DEF HandlerKeeps
<1>6. ASSUME st.sessions[c].kind = "accept", st.sessions[c].partner = NoLink
      PROVE  HandlerKeeps(sk, L, st, Paired(st, c), uu)
  BY <1>1, <1>6, PairedKeeps, QuietPaired DEF HandlerKeeps
<1> QED BY <1>2, <1>3, <1>4, <1>5, <1>6
-----------------------------------------------------------------------------
(* What the server reads. *)

TailAt(vv, c) == up[c] # <<>> /\ vv = [up EXCEPT ![c] = Tail(up[c])]

LEMMA TailAsked ==
    ASSUME NEW L, Asked(up, L), NEW c \in Links, NEW vv, TailAt(vv, c)
    PROVE  /\ Asked(vv, L) /\ vv[c] = Tail(up[c]) /\ \A e \in Links \ {c} : vv[e] = up[e]
           /\ up[c] \in Seq(Items) /\ vv[c] \in Seq(Items)
           /\ Head(up[c]) # Eof => Uploads(vv) /\ \A e \in Links : EndedIn(vv, e) <=> EndedIn(up, e)
<1>1. PICK q \in Seq(Requests(c, L)) : q = up[c]
  BY DEF Asked
<1>2. PICK t \in Seq(Requests(c, L)) : t = Tail(q)
  <2>1. q # <<>>
    BY <1>1 DEF TailAt
  <2> QED BY <2>1, TailFacts
<1>3. up = [e \in Links |-> up[e]] /\ vv = [up EXCEPT ![c] = t]
  BY <1>1, <1>2 DEF Asked, TailAt
<1>4. vv = [e \in Links |-> vv[e]] /\ vv[c] = t /\ \A e \in Links \ {c} : vv[e] = up[e]
  BY <1>3
<1>5. Asked(vv, L)
  BY <1>4 DEF Asked
<1>6. q \in Seq(Items) /\ t \in Seq(Items)
  BY RequestItems, SeqMonotonic
<1>7. ASSUME Head(q) # Eof
      PROVE  Uploads(vv) /\ \A e \in Links : EndedIn(vv, e) <=> EndedIn(up, e)
  <2>1. (\E i \in DOMAIN q : q[i] = Eof) <=> (\E i \in DOMAIN t : t[i] = Eof)
    <3>1. q # <<>>
      BY <1>1 DEF TailAt
    <3>2. \A x : (\E i \in DOMAIN q : q[i] = x) <=> Head(q) = x \/ \E i \in DOMAIN Tail(q) : Tail(q)[i] = x
      BY <3>1, TailFacts
    <3> QED BY <1>2, <1>7, <3>2
  <2>2. EndedIn(vv, c) <=> EndedIn(up, c)
    BY <1>1, <1>4, <2>1 DEF EndedIn
  <2>3. \A e \in Links : EndedIn(vv, e) <=> EndedIn(up, e)
    BY <1>4, <2>2 DEF EndedIn
  <2>4. Uploads(up)
    BY AskedUploads
  <2>5. \A e \in Links : vv[e] \in Seq(Items)
    BY <1>4, <1>6, <2>4 DEF Uploads
  <2> QED BY <2>3, <2>4, <2>5 DEF Uploads
<1> QED BY <1>1, <1>2, <1>4, <1>5, <1>6, <1>7

(* handle_init makes the link what its console asks for. *)
AsAsked(s, i) == [s EXCEPT !.kind = i.kind, !.name = i.name, !.peer = i.peer]

LEMMA AskedLink ==
    ASSUME NEW s, NEW c, NEW L, IsLink(s, c, L), NEW i \in Requests(c, L), i.op = "init", NEW t, t = AsAsked(s, i)
    PROVE  /\ IsLink(t, c, L) /\ t.in = s.in /\ t.out = s.out /\ t.partner = s.partner
           /\ t.kind = i.kind /\ t.kind # "pending" /\ DOMAIN t = Fields
<1>1. s \in Sessions /\ s.out \in Seq(ForConsole(c, L))
  BY DEF IsLink
<1>2. i \in Inits /\ (i.kind = "connect" => i.name \in Openers) /\ (c \in L => i.kind = "listen")
  BY RequestKinds
<1>3. i.kind \in Kinds /\ i.kind # "pending" /\ i.name \in Names /\ i.peer \in Names
  BY <1>2 DEF Inits, Init
<1>4. t \in Sessions /\ DOMAIN t = Fields
  BY <1>1, <1>3 DEF Sessions, AsAsked, Fields
<1>5. /\ t.in = s.in /\ t.out = s.out /\ t.partner = s.partner /\ t.kind = i.kind /\ t.name = i.name
  BY <1>1 DEF Sessions, AsAsked
<1> QED BY <1>1, <1>2, <1>3, <1>4, <1>5 DEF IsLink

(* Queues that differ in one, and not in whether it ends. *)
SameEnds(uu, vv, c) ==
    /\ \A e \in Links : EndedIn(vv, e) <=> EndedIn(uu, e)
    /\ \A e \in Links \ {c} : vv[e] = uu[e]

(* A link that changes, but not in its partner and what it is sent. *)
ChangedAt(st, r, c, t) ==
    /\ DOMAIN r = {"sessions", "down"} /\ r.down = st.down
    /\ r.sessions = [st.sessions EXCEPT ![c] = t]

UnseenChange(st, uu, r, vv, c, t) ==
    /\ ChangedAt(st, r, c, t) /\ DOMAIN t = Fields /\ SameEnds(uu, vv, c)
    /\ t.out = st.sessions[c].out /\ t.partner = st.sessions[c].partner
    /\ t.partner = NoLink \/ Sends(r.sessions, vv, c) = Sends(st.sessions, uu, c)

LEMMA ChangedComing ==
    ASSUME NEW st, NEW L, Typed(st, L), Partners(st.sessions), NEW c \in DOMAIN st.sessions, NEW t,
           NEW r, NEW uu, NEW vv, UnseenChange(st, uu, r, vv, c, t), IsLink(t, c, L)
    PROVE  /\ Typed(r, L) /\ DOMAIN r.sessions = DOMAIN st.sessions /\ r.sessions[c] = t
           /\ \A e \in DOMAIN st.sessions \ {c} : /\ r.sessions[e] = st.sessions[e]
                                                  /\ Sends(r.sessions, vv, e) = Sends(st.sessions, uu, e)
           /\ \A e \in Links : Coming(r, vv, e) = Coming(st, uu, e)
<1> DEFINE ss == st.sessions
           tt == r.sessions
<1>0. /\ ChangedAt(st, r, c, t) /\ DOMAIN t = Fields /\ SameEnds(uu, vv, c)
      /\ t.out = st.sessions[c].out /\ t.partner = st.sessions[c].partner
      /\ t.partner = NoLink \/ Sends(r.sessions, vv, c) = Sends(st.sessions, uu, c)
  BY DEF UnseenChange
<1>1. /\ DOMAIN tt = DOMAIN ss /\ tt[c] = t /\ \A e \in DOMAIN ss \ {c} : tt[e] = ss[e]
      /\ tt = [e \in DOMAIN tt |-> tt[e]]
  BY <1>0 DEF ChangedAt, Typed, IsState, AreLinks
<1>2. DOMAIN ss \subseteq Links /\ NoLink \notin Links /\ \A e \in DOMAIN ss : DOMAIN ss[e] = Fields
  BY DEF Typed, IsState, AreLinks, Links, NoLink
<1> HIDE DEF ss, tt
<1>3. AreLinks(tt)
  BY <1>0, <1>1, <1>2 DEF AreLinks
<1>4. \A e \in DOMAIN tt : IsLink(tt[e], e, L)
  BY <1>1 DEF Typed, ss
<1>5. Typed(r, L)
  BY <1>0, <1>3, <1>4 DEF Typed, IsState, ChangedAt, tt
<1>6. \A e \in DOMAIN ss \ {c} : Sends(tt, vv, e) = Sends(ss, uu, e)
  BY <1>0, <1>1, <1>2 DEF Sends, SameEnds
<1>7. ASSUME NEW e \in Links PROVE Passing(tt, vv, e) = Passing(ss, uu, e)
  <2>1. EndedIn(vv, e) <=> EndedIn(uu, e)
    BY <1>0 DEF SameEnds
  <2>2. e \in DOMAIN ss => tt[e].out = ss[e].out /\ tt[e].partner = ss[e].partner
    BY <1>0, <1>1 DEF ss
  <2>3. e \in DOMAIN ss /\ ss[e].partner # NoLink =>
          Sends(tt, vv, ss[e].partner) = Sends(ss, uu, ss[e].partner)
    <3> SUFFICES ASSUME e \in DOMAIN ss, ss[e].partner # NoLink
                 PROVE  Sends(tt, vv, ss[e].partner) = Sends(ss, uu, ss[e].partner)
      OBVIOUS
    <3>1. ss[e].partner \in DOMAIN ss /\ ss[ss[e].partner].partner = e /\ e # NoLink
      BY <1>2 DEF Partners, ss
    <3>2. CASE ss[e].partner = c
      BY <1>0, <3>1, <3>2 DEF ss, tt
    <3> QED BY <1>6, <3>1, <3>2
  <2> QED BY <1>1, <2>1, <2>2, <2>3 DEF Passing
<1>8. \A e \in Links : Coming(r, vv, e) = Coming(st, uu, e)
  BY <1>0, <1>7 DEF Coming, ChangedAt, ss, tt
<1> QED BY <1>1, <1>5, <1>6, <1>8 DEF ss, tt

(* All but one link are carried as they are. *)
LEMMA OthersCarried ==
    ASSUME NEW ss, NEW uu, NEW tt, NEW vv, NEW e, tt[e] = ss[e], vv[e] = uu[e]
    PROVE  CarriedLink(ss, uu, tt, vv, e)
<1>1. Sends(tt, vv, e) = Sends(ss, uu, e)
  BY DEF Sends
<1>2. EndedIn(vv, e) <=> EndedIn(uu, e)
  BY DEF EndedIn
<1> QED BY <1>1, <1>2 DEF CarriedLink

LEMMA SameFlowCarried ==
    ASSUME NEW st, NEW uu, NEW r, NEW vv, NEW c, Coming(r, vv, c) = Coming(st, uu, c)
    PROVE  CarriedFlow(st, uu, r, vv, c)
BY FollowsSelf DEF CarriedFlow

LEMMA InitKeeps ==
    ASSUME NEW sk, Streams(sk), NEW L, Asked(up, L), Keeps(sk, L, Relay, up), NEW c \in DOMAIN sessions,
           sessions[c].kind = "pending", Head(up[c]).op = "init", NEW vv, TailAt(vv, c),
           NEW r, ChangedAt(Relay, r, c, AsAsked(sessions[c], Head(up[c])))
    PROVE  /\ Keeps(sk, L, r, vv) /\ Uploads(vv) /\ Quiet(Relay, r) /\ DOMAIN r.sessions = DOMAIN sessions
           /\ r.sessions[c].kind = Head(up[c]).kind /\ r.sessions[c].partner = NoLink
<1> DEFINE s == sessions[c]
           tt == r.sessions
<1>1. Typed(Relay, L) /\ Partners(sessions) /\ Flows(sk, Relay, up) /\ Relay.sessions = sessions /\ Relay.down = down
  BY DEF Keeps, Relay
<1>2. c \in Links /\ IsLink(s, c, L) /\ s.partner = NoLink /\ NoLink \notin Links /\ DOMAIN sessions \subseteq Links
  BY <1>1 DEF Typed, IsState, AreLinks, Partners, Ends, Links, NoLink
<1>3. PICK i : i = Head(up[c])
  OBVIOUS
<1>4. i \in Requests(c, L) /\ i.op = "init" /\ i # Eof
  <2>1. PICK q \in Seq(Requests(c, L)) : q = up[c]
    BY <1>2 DEF Asked
  <2>2. Head(q) \in Requests(c, L)
    BY <2>1, TailFacts DEF TailAt
  <2>3. Eof.op = "eof"
    BY DEF Eof
  <2> QED BY <1>3, <2>1, <2>2, <2>3
<1>5. PICK t : t = AsAsked(s, i)
  OBVIOUS
<1>6. /\ IsLink(t, c, L) /\ t.in = s.in /\ t.out = s.out /\ t.partner = s.partner
      /\ t.kind = i.kind /\ t.kind # "pending" /\ DOMAIN t = Fields
  BY <1>2, <1>4, <1>5, AskedLink
<1>7. ChangedAt(Relay, r, c, t)
  BY <1>3, <1>5
<1>8. /\ vv[c] = Tail(up[c]) /\ (\A e \in Links \ {c} : vv[e] = up[e])
      /\ Uploads(vv) /\ (\A e \in Links : EndedIn(vv, e) <=> EndedIn(up, e))
      /\ up[c] \in Seq(Items) /\ vv[c] \in Seq(Items)
  <2>1. c \in Links /\ Head(up[c]) # Eof
    BY <1>2, <1>3, <1>4
  <2> QED BY <2>1, TailAsked
<1>9. /\ Typed(r, L) /\ DOMAIN tt = DOMAIN sessions /\ tt[c] = t
      /\ (\A e \in DOMAIN sessions \ {c} : tt[e] = sessions[e])
      /\ \A e \in Links : Coming(r, vv, e) = Coming(Relay, up, e)
  <2>1. /\ c \in DOMAIN Relay.sessions /\ Partners(Relay.sessions)
        /\ t.out = Relay.sessions[c].out /\ t.partner = Relay.sessions[c].partner /\ t.partner = NoLink
    BY <1>1, <1>2, <1>6
  <2>2. /\ Typed(r, L) /\ DOMAIN r.sessions = DOMAIN Relay.sessions /\ r.sessions[c] = t
        /\ (\A e \in DOMAIN Relay.sessions \ {c} : r.sessions[e] = Relay.sessions[e])
        /\ \A e \in Links : Coming(r, vv, e) = Coming(Relay, up, e)
    <3>1. UnseenChange(Relay, up, r, vv, c, t)
      BY <1>6, <1>7, <1>8, <2>1 DEF UnseenChange, SameEnds
    <3> QED BY <1>1, <1>6, <2>1, <3>1, ChangedComing
  <2> QED BY <1>1, <2>2
<1> HIDE DEF tt, s
<1>10. Partners(tt)
  <2> SUFFICES ASSUME NEW e \in DOMAIN tt, tt[e].partner # NoLink
               PROVE  /\ tt[e].partner \in DOMAIN tt /\ tt[tt[e].partner].partner = e
                      /\ Ends(tt[e], tt[tt[e].partner])
    BY DEF Partners
  <2>1. e # c /\ e \in DOMAIN sessions /\ tt[e] = sessions[e]
    BY <1>2, <1>6, <1>9
  <2>2. /\ sessions[e].partner \in DOMAIN sessions /\ sessions[sessions[e].partner].partner = e
        /\ Ends(sessions[e], sessions[sessions[e].partner])
    BY <1>1, <2>1 DEF Partners
  <2>3. sessions[e].partner # c
    BY <1>2, <2>1, <2>2 DEF s
  <2> QED BY <1>9, <2>1, <2>2, <2>3
<1>11. CarriedLink(sessions, up, tt, vv, c)
  <2>1. s.kind = "pending" => RunIn(Sends(sessions, up, c)) /\ s.in = <<>>
    BY <1>1 DEF Flows, SendsRuns, s
  <2>2. s.kind = "pending"
    BY DEF s
  <2>3. Sends(sessions, up, c) = up[c] /\ Sends(tt, vv, c) = Tail(up[c])
    BY <1>6, <1>8, <1>9, <2>1, <2>2, ConcatEmptySeq DEF Sends, s
  <2>4. Lags(up[c], Tail(up[c]))
    <3>1. PICK q \in Seq(Items) : q = up[c]
      BY <1>8
    <3>2. q # <<>>
      BY <3>1 DEF TailAt
    <3>3. q = <<Head(q)>> \o Tail(q) /\ <<Head(q)>> \in Seq(Items) /\ Tail(q) \in Seq(Items)
      BY <3>2, TailFacts
    <3>4. Lags(<<Head(q)>> \o Tail(q), Tail(q))
      BY <3>3, LagsPart
    <3> QED BY <3>1, <3>3, <3>4
  <2>5. EndedIn(vv, c) <=> EndedIn(up, c)
    BY <1>2, <1>8
  <2> QED BY <1>2, <1>6, <1>9, <2>1, <2>2, <2>3, <2>4, <2>5 DEF CarriedLink, Lags, s
<1>12. \A e \in DOMAIN tt : CarriedLink(sessions, up, tt, vv, e)
  <2> SUFFICES ASSUME NEW e \in DOMAIN tt, e # c PROVE CarriedLink(sessions, up, tt, vv, e)
    BY <1>11
  <2>1. tt[e] = sessions[e] /\ vv[e] = up[e]
    BY <1>2, <1>8, <1>9
  <2> QED BY <2>1, OthersCarried
<1>13. \A h \in DOMAIN sk : sk[h].link # NoLink => CarriedFlow(Relay, up, r, vv, sk[h].link)
  BY <1>9, StreamTypes, SameFlowCarried
<1>14. Carried(sk, Relay, up, r, vv)
  BY <1>1, <1>9, <1>12, <1>13 DEF Carried, tt
<1>15. Itemised(Relay, up) /\ Itemised(r, vv)
  BY <1>1, <1>8, <1>9, <1>10, AskedUploads, TypedItemised DEF tt
<1>16. AreLinks(tt)
  BY <1>9 DEF Typed, IsState, tt
<1>17. Flows(sk, r, vv)
  BY <1>1, <1>10, <1>14, <1>15, <1>16, CarriedFlows DEF tt
<1>18. Quiet(Relay, r)
  BY <1>1, <1>9 DEF Quiet, ChangedAt, tt
<1> QED BY <1>2, <1>3, <1>6, <1>8, <1>9, <1>10, <1>17, <1>18 DEF Keeps, tt

(* A block read adds to what its console sent before. *)
LEMMA ReadOn ==
    ASSUME NEW a \in Seq(Items), NEW q \in Seq(Items), q # <<>>
    PROVE  Append(a, Head(q)) \o Tail(q) = a \o q
<1>1. PICK b : b = Head(q)
  OBVIOUS
<1>2. PICK t \in Seq(Items) : t = Tail(q)
  BY TailFacts
<1>3. b \in Items /\ <<b>> \in Seq(Items) /\ q = <<b>> \o t
  BY <1>1, <1>2, TailFacts
<1>4. Append(a, b) = a \o <<b>>
  BY <1>3, AppendIsConcat
<1>5. (a \o <<b>>) \o t = a \o (<<b>> \o t)
  BY <1>3, ConcatAssociative
<1> QED BY <1>1, <1>2, <1>3, <1>4, <1>5

LEMMA BlockKeeps ==
    ASSUME NEW sk, Streams(sk), NEW L, Asked(up, L), Keeps(sk, L, Relay, up), NEW c \in DOMAIN sessions,
           Head(up[c]).op = "block", NEW vv, TailAt(vv, c),
           NEW t, t = IF sessions[c].kind = "listen" THEN sessions[c]
                      ELSE [sessions[c] EXCEPT !.in = Append(sessions[c].in, Head(up[c]))],
           NEW r, ChangedAt(Relay, r, c, t)
    PROVE  Keeps(sk, L, r, vv) /\ Uploads(vv) /\ Quiet(Relay, r) /\ DOMAIN r.sessions = DOMAIN sessions
<1> DEFINE s == sessions[c]
           tt == r.sessions
<1>1. Typed(Relay, L) /\ Partners(sessions) /\ Flows(sk, Relay, up) /\ Relay.sessions = sessions /\ Relay.down = down
  BY DEF Keeps, Relay
<1>2. /\ c \in Links /\ IsLink(s, c, L) /\ NoLink \notin Links /\ DOMAIN sessions \subseteq Links
      /\ s.kind = "listen" => s.partner = NoLink
  BY <1>1 DEF Typed, IsState, AreLinks, Partners, Ends, Links, NoLink
<1>3. PICK b : b = Head(up[c])
  OBVIOUS
<1>4. b \in Requests(c, L) /\ b \in Blocks /\ b # Eof /\ b \in Items /\ b = up[c][1]
  <2>1. PICK q \in Seq(Requests(c, L)) : q = up[c]
    BY <1>2 DEF Asked
  <2>2. Head(q) \in Requests(c, L) /\ Head(q) = q[1]
    BY <2>1, TailFacts DEF TailAt
  <2>3. b \in Requests(c, L) /\ b = up[c][1] /\ b.op = "block"
    BY <1>3, <2>1, <2>2
  <2>4. b \in Blocks
    BY <2>3, RequestKinds
  <2> QED BY <2>3, <2>4, ItemTypes
<1>5. /\ vv[c] = Tail(up[c]) /\ (\A e \in Links \ {c} : vv[e] = up[e])
      /\ Uploads(vv) /\ (\A e \in Links : EndedIn(vv, e) <=> EndedIn(up, e))
      /\ up[c] \in Seq(Items) /\ vv[c] \in Seq(Items)
  <2>1. c \in Links /\ Head(up[c]) # Eof
    BY <1>2, <1>3, <1>4
  <2> QED BY <2>1, TailAsked
<1>6. s \in Sessions /\ s.in \in Seq(Blocks) /\ s.in \in Seq(Items) /\ DOMAIN s = Fields
  <2>1. s \in Sessions
    BY <1>2 DEF IsLink
  <2>2. s.in \in Seq(Blocks) /\ DOMAIN s = Fields
    BY <2>1 DEF Sessions, Fields
  <2>3. s.in \in Seq(Items)
    BY <2>2, ItemTypes, SeqMonotonic
  <2> QED BY <2>1, <2>2, <2>3
<1>7. PICK more \in Seq(Blocks) : more = Append(s.in, b)
  BY <1>4, <1>6, AppendProperties
<1>8. t = IF s.kind = "listen" THEN s ELSE [s EXCEPT !.in = more]
  BY <1>3, <1>7
<1>9. /\ IsLink(t, c, L) /\ t.out = s.out /\ t.partner = s.partner /\ t.kind = s.kind
      /\ t.name = s.name /\ t.peer = s.peer /\ DOMAIN t = Fields
      /\ s.kind # "listen" => t.in = more
  <2>1. CASE s.kind = "listen"
    BY <1>2, <1>6, <1>8, <2>1
  <2>2. CASE s.kind # "listen"
    <3>1. PICK x : x = [s EXCEPT !.in = more]
      OBVIOUS
    <3>2. /\ IsLink(x, c, L) /\ x.in = more /\ x.out = s.out /\ x.partner = s.partner
          /\ x.kind = s.kind /\ x.name = s.name /\ x.peer = s.peer
      BY <1>2, <3>1, InLink
    <3>3. DOMAIN x = Fields
      BY <1>6, <3>1
    <3> QED BY <1>8, <2>2, <3>1, <3>2, <3>3
  <2> QED BY <2>1, <2>2
<1> HIDE DEF s, tt
<1>10. Sends(tt, vv, c) = Sends(sessions, up, c) \/ (s.kind = "listen" /\ s.partner = NoLink)
  <2> SUFFICES ASSUME s.kind # "listen" PROVE Sends(tt, vv, c) = Sends(sessions, up, c)
    BY <1>2
  <2>1. tt[c] = t
    BY <1>1 DEF ChangedAt, tt
  <2>2. PICK a \in Seq(Items) : a = s.in
    BY <1>6
  <2>3. PICK q \in Seq(Items) : q = up[c]
    BY <1>5
  <2>4. Append(a, Head(q)) \o Tail(q) = a \o q
    BY <2>3, ReadOn DEF TailAt
  <2> QED BY <1>3, <1>5, <1>7, <1>9, <2>1, <2>2, <2>3, <2>4 DEF Sends, s
<1>11. UnseenChange(Relay, up, r, vv, c, t)
  BY <1>1, <1>5, <1>9, <1>10 DEF UnseenChange, SameEnds, s, tt
<1>12. /\ Typed(r, L) /\ DOMAIN tt = DOMAIN sessions /\ tt[c] = t
       /\ (\A e \in DOMAIN sessions \ {c} : tt[e] = sessions[e])
       /\ \A e \in Links : Coming(r, vv, e) = Coming(Relay, up, e)
  <2>1. c \in DOMAIN Relay.sessions /\ Partners(Relay.sessions)
    BY <1>1
  <2>2. /\ Typed(r, L) /\ DOMAIN r.sessions = DOMAIN Relay.sessions /\ r.sessions[c] = t
        /\ (\A e \in DOMAIN Relay.sessions \ {c} : r.sessions[e] = Relay.sessions[e])
        /\ \A e \in Links : Coming(r, vv, e) = Coming(Relay, up, e)
    <3>1. Typed(Relay, L) /\ IsLink(t, c, L)
      BY <1>1, <1>9
    <3> QED BY <1>11, <2>1, <3>1, ChangedComing
  <2> QED BY <1>1, <2>2 DEF tt
<1>13. Partners(tt)
  <2>1. \A e \in DOMAIN tt : /\ tt[e].kind = sessions[e].kind /\ tt[e].partner = sessions[e].partner
                             /\ tt[e].name = sessions[e].name /\ tt[e].peer = sessions[e].peer
    BY <1>9, <1>12 DEF s
  <2> QED BY <1>1, <1>12, <2>1 DEF Partners, Ends
<1>14. s.kind # "pending"
  <2>1. s.kind = "pending" => up[c][1] \notin Blocks
    BY <1>1 DEF Flows, SendsRuns, s
  <2> QED BY <1>4, <2>1
<1>15. CarriedLink(sessions, up, tt, vv, c)
  BY <1>2, <1>5, <1>9, <1>10, <1>12, <1>14 DEF CarriedLink, s
<1>16. \A e \in DOMAIN tt : CarriedLink(sessions, up, tt, vv, e)
  <2> SUFFICES ASSUME NEW e \in DOMAIN tt, e # c PROVE CarriedLink(sessions, up, tt, vv, e)
    BY <1>15
  <2>1. tt[e] = sessions[e] /\ vv[e] = up[e]
    BY <1>2, <1>5, <1>12
  <2> QED BY <2>1, OthersCarried
<1>17. \A h \in DOMAIN sk : sk[h].link # NoLink => CarriedFlow(Relay, up, r, vv, sk[h].link)
  BY <1>12, StreamTypes, SameFlowCarried
<1>18. Carried(sk, Relay, up, r, vv)
  BY <1>1, <1>12, <1>16, <1>17 DEF Carried, tt
<1>19. Itemised(Relay, up) /\ Itemised(r, vv)
  BY <1>1, <1>5, <1>12, <1>13, AskedUploads, TypedItemised DEF tt
<1>20. AreLinks(tt)
  BY <1>12 DEF Typed, IsState, tt
<1>21. Flows(sk, r, vv)
  BY <1>1, <1>13, <1>18, <1>19, <1>20, CarriedFlows DEF tt
<1>22. Quiet(Relay, r)
  BY <1>1, <1>12 DEF Quiet, ChangedAt, tt
<1> QED BY <1>5, <1>12, <1>13, <1>21, <1>22 DEF Keeps, tt

(* What a console that is gone has sent is of no account. *)
LEMMA GoneKeeps ==
    ASSUME NEW sk, Streams(sk), NEW L, NEW r, Uploads(up), Keeps(sk, L, r, up), NEW c, c \notin DOMAIN r.sessions,
           NEW vv, \A e \in Links \ {c} : vv[e] = up[e]
    PROVE  Keeps(sk, L, r, vv)
<1> DEFINE tt == r.sessions
<1>1. Typed(r, L) /\ Partners(tt) /\ Flows(sk, r, up) /\ AreLinks(tt) /\ NoLink \notin Links
  BY DEF Keeps, Typed, IsState, Links, NoLink
<1> HIDE DEF tt
<1>2. \A e \in DOMAIN tt : vv[e] = up[e]
  BY <1>1 DEF AreLinks, tt
<1>3. \A e \in DOMAIN tt : CarriedLink(tt, up, tt, vv, e)
  BY <1>2, OthersCarried
<1>4. ASSUME NEW e \in Links PROVE Coming(r, vv, e) = Coming(r, up, e)
  <2>1. e \in DOMAIN tt => (EndedIn(vv, e) <=> EndedIn(up, e))
    BY <1>2 DEF EndedIn
  <2>2. e \in DOMAIN tt /\ tt[e].partner # NoLink => Sends(tt, vv, tt[e].partner) = Sends(tt, up, tt[e].partner)
    BY <1>1, <1>2 DEF Partners, Sends
  <2>3. Passing(tt, vv, e) = Passing(tt, up, e)
    BY <2>1, <2>2 DEF Passing
  <2> QED BY <2>3 DEF Coming, tt
<1>5. \A h \in DOMAIN sk : sk[h].link # NoLink => CarriedFlow(r, up, r, vv, sk[h].link)
  BY <1>4, StreamTypes, SameFlowCarried
<1>6. Carried(sk, r, up, r, vv)
  BY <1>3, <1>5 DEF Carried, tt
<1>7. Itemised(r, up) /\ Itemised(r, vv)
  <2>1. Itemised(r, up)
    BY <1>1, TypedItemised DEF tt
  <2> QED BY <1>4, <2>1 DEF Itemised
<1>8. Flows(sk, r, vv)
  BY <1>1, <1>6, <1>7, CarriedFlows DEF tt
<1> QED BY <1>1, <1>8 DEF Keeps, tt

LEMMA EraseGone ==
    ASSUME NEW st, NEW c
    PROVE  c \notin DOMAIN Erase(st, c).sessions
<1> DEFINE p == st.sessions[c].partner
           gone == Removed(st, c)
           last == Sent(gone, p)
<1>1. c \notin DOMAIN gone.sessions
  BY DEF Removed
<1>2. DOMAIN last.sessions = DOMAIN gone.sessions
  BY DEF Sent
<1>3. DOMAIN Removed(last, p).sessions \subseteq DOMAIN last.sessions
  BY DEF Removed
<1>4. Erase(st, c) = IF p = NoLink THEN gone
                     ELSE IF last.sessions[p].out = <<>> THEN Removed(last, p) ELSE last
  BY DEF Erase
<1> HIDE DEF p, gone, last
<1> QED BY <1>1, <1>2, <1>3, <1>4

(* A handler's turn: what the relay becomes keeps all that is in order. *)
Served(sk, L, vv) == Asked(vv, L) /\ \E r : Become(r) /\ Keeps(sk, L, r, vv) /\ Quiet(Relay, r)

LEMMA ServedBy ==
    ASSUME NEW sk, NEW L, NEW st, NEW r, NEW vv, Asked(vv, L), HandlerKeeps(sk, L, st, r, vv),
           Quiet(Relay, st), Become(r)
    PROVE  Served(sk, L, vv)
BY QuietAgain DEF Served, HandlerKeeps

LEMMA ServedInit ==
    ASSUME NEW sk, Streams(sk), NEW L, Asked(up, L), Keeps(sk, L, Relay, up), PairInv,
           NEW c \in Links, ReadInit(c), NEW vv, vv = up'
    PROVE  Served(sk, L, vv)
<1>1. PICK i : i = Head(up[c])
  OBVIOUS
<1>2. PICK st : st = [Relay EXCEPT !.sessions[c].kind = i.kind, !.sessions[c].name = i.name,
                                   !.sessions[c].peer = i.peer]
  OBVIOUS
<1>3. PICK older : older = Listening(sessions, i.name) \ {c}
  OBVIOUS
<1>4. /\ c \in DOMAIN sessions /\ i.op = "init" /\ TailAt(vv, c)
      /\ \/ i.kind = "listen" /\ Become(IF older = {} THEN st ELSE Erase(st, Least(older)))
         \/ i.kind = "connect" /\ Become(Offered(st, c))
         \/ i.kind = "accept" /\ Become(Paired(st, c))
  BY <1>1, <1>2, <1>3 DEF ReadInit, Reads, TailAt
<1>5. sessions[c].kind = "pending"
  <2>1. Queue(up[c], sessions[c].kind) /\ up[c] # <<>>
    BY <1>4 DEF PairInv, Queues, TailAt
  <2> QED BY <1>1, <1>4, <2>1, HeadInit
<1>6. ChangedAt(Relay, st, c, AsAsked(sessions[c], i))
  <2>1. DOMAIN st = {"sessions", "down"} /\ st.down = down
    BY <1>2 DEF Relay
  <2>2. st.sessions = [[[sessions EXCEPT ![c].kind = i.kind] EXCEPT ![c].name = i.name] EXCEPT ![c].peer = i.peer]
    BY <1>2 DEF Relay
  <2>3. st.sessions = [sessions EXCEPT ![c] = AsAsked(sessions[c], i)]
    BY <1>4, <2>2 DEF AsAsked
  <2> QED BY <2>1, <2>3 DEF ChangedAt, Relay
<1>7. /\ Keeps(sk, L, st, vv) /\ Uploads(vv) /\ Quiet(Relay, st) /\ DOMAIN st.sessions = DOMAIN sessions
      /\ st.sessions[c].kind = i.kind /\ st.sessions[c].partner = NoLink
  BY <1>1, <1>4, <1>5, <1>6, InitKeeps
<1>8. Asked(vv, L)
  BY <1>4, TailAsked
<1>9. CASE i.kind = "listen" /\ Become(IF older = {} THEN st ELSE Erase(st, Least(older)))
  <2>1. CASE older = {}
    BY <1>7, <1>8, <1>9, <2>1 DEF Served
  <2>2. CASE older # {}
    <3>1. older \subseteq Links /\ older \subseteq DOMAIN st.sessions
      BY <1>3, <1>7 DEF Listening, PairInv, AreLinks
    <3>2. PICK d \in DOMAIN st.sessions : d = Least(older)
      BY <2>2, <3>1, LeastIn
    <3>3. HandlerKeeps(sk, L, st, Erase(st, d), vv)
      BY <1>7, HandlersKeep
    <3> QED BY <1>7, <1>8, <1>9, <2>2, <3>2, <3>3, ServedBy
  <2> QED BY <2>1, <2>2
<1>10. CASE i.kind = "connect" /\ Become(Offered(st, c))
  <2>1. HandlerKeeps(sk, L, st, Offered(st, c), vv)
    BY <1>4, <1>7, <1>10, HandlersKeep
  <2> QED BY <1>7, <1>8, <1>10, <2>1, ServedBy
<1>11. CASE i.kind = "accept" /\ Become(Paired(st, c))
  <2>1. HandlerKeeps(sk, L, st, Paired(st, c), vv)
    BY <1>4, <1>7, <1>11, HandlersKeep
  <2> QED BY <1>7, <1>8, <1>11, <2>1, ServedBy
<1> QED BY <1>4, <1>9, <1>10, <1>11

LEMMA ServedBlock ==
    ASSUME NEW sk, Streams(sk), NEW L, Asked(up, L), Keeps(sk, L, Relay, up),
           NEW c \in Links, ReadBlock(c), NEW vv, vv = up'
    PROVE  Served(sk, L, vv)
<1>1. PICK b : b = Head(up[c])
  OBVIOUS
<1>2. PICK st : st = [Relay EXCEPT !.sessions[c].in = Append(@, b)]
  OBVIOUS
<1>3. /\ c \in DOMAIN sessions /\ b.op = "block" /\ TailAt(vv, c)
      /\ Become(IF sessions[c].kind = "listen" THEN Relay ELSE Forwarded(st, c))
  BY <1>1, <1>2 DEF ReadBlock, Reads, TailAt
<1>4. Asked(vv, L)
  BY <1>3, TailAsked
<1>5. PICK t : t = IF sessions[c].kind = "listen" THEN sessions[c]
                   ELSE [sessions[c] EXCEPT !.in = Append(sessions[c].in, b)]
  OBVIOUS
<1>6. CASE sessions[c].kind = "listen"
  <2>1. ChangedAt(Relay, Relay, c, t)
    <3>1. sessions = [sessions EXCEPT ![c] = sessions[c]]
      BY DEF Keeps, Typed, IsState, AreLinks, Relay
    <3> QED BY <1>5, <1>6, <3>1 DEF ChangedAt, Relay
  <2>2. Keeps(sk, L, Relay, vv) /\ Quiet(Relay, Relay)
    BY <1>1, <1>3, <1>5, <2>1, BlockKeeps
  <2> QED BY <1>3, <1>4, <1>6, <2>2 DEF Served
<1>7. CASE sessions[c].kind # "listen"
  <2>1. ChangedAt(Relay, st, c, t)
    <3>1. DOMAIN st = {"sessions", "down"} /\ st.down = down
      BY <1>2 DEF Relay
    <3>2. st.sessions = [sessions EXCEPT ![c].in = Append(@, b)]
      BY <1>2 DEF Relay
    <3>3. st.sessions = [sessions EXCEPT ![c] = t]
      BY <1>3, <1>5, <1>7, <3>2
    <3> QED BY <3>1, <3>3 DEF ChangedAt, Relay
  <2>2. Keeps(sk, L, st, vv) /\ Uploads(vv) /\ Quiet(Relay, st) /\ DOMAIN st.sessions = DOMAIN sessions
    BY <1>1, <1>3, <1>5, <2>1, BlockKeeps
  <2>3. HandlerKeeps(sk, L, st, Forwarded(st, c), vv)
    BY <1>3, <2>2, HandlersKeep
  <2> QED BY <1>3, <1>4, <1>7, <2>2, <2>3, ServedBy
<1> QED BY <1>6, <1>7

LEMMA ServedGone ==
    ASSUME NEW sk, Streams(sk), NEW L, Asked(up, L), NEW st, Keeps(sk, L, st, up), Quiet(Relay, st),
           NEW c \in DOMAIN st.sessions, NEW vv, Asked(vv, L), \A e \in Links \ {c} : vv[e] = up[e],
           Become(Erase(st, c))
    PROVE  Served(sk, L, vv)
<1>1. PICK r : r = Erase(st, c)
  OBVIOUS
<1>2. Uploads(up)
  BY AskedUploads
<1>3. Keeps(sk, L, r, up) /\ Quiet(st, r)
  BY <1>1, <1>2, HandlersKeep DEF HandlerKeeps
<1>4. c \notin DOMAIN r.sessions
  BY <1>1, EraseGone
<1>5. Keeps(sk, L, r, vv)
  BY <1>2, <1>3, <1>4, GoneKeeps
<1> QED BY <1>1, <1>3, <1>5, QuietAgain DEF Served

LEMMA ServedQuietly ==
    ASSUME NEW sk, Streams(sk), NEW L, Asked(up, L), Keeps(sk, L, Relay, up), NEW c \in DOMAIN sessions, UNCHANGED up,
           \/ Become(Forwarded(Relay, c)) \/ Become(Written(Relay, c))
           \/ sessions[c].kind = "connect" /\ Become(Offered(Relay, c))
    PROVE  Served(sk, L, up')
<1>1. Uploads(up) /\ c \in DOMAIN Relay.sessions /\ Relay.sessions = sessions /\ up' = up
  BY AskedUploads DEF Relay
<1>2. /\ HandlerKeeps(sk, L, Relay, Written(Relay, c), up) /\ HandlerKeeps(sk, L, Relay, Forwarded(Relay, c), up)
      /\ Relay.sessions[c].kind = "connect" => HandlerKeeps(sk, L, Relay, Offered(Relay, c), up)
  BY <1>1, HandlersKeep
<1> QED BY <1>1, <1>2 DEF Served, HandlerKeeps

LEMMA EmptiedAsked ==
    ASSUME NEW L, Asked(up, L), NEW c \in Links, NEW vv, vv = [up EXCEPT ![c] = <<>>]
    PROVE  Asked(vv, L) /\ \A e \in Links \ {c} : vv[e] = up[e]
<1>1. vv = [e \in Links |-> vv[e]] /\ vv[c] = <<>> /\ \A e \in Links \ {c} : vv[e] = up[e]
  BY DEF Asked
<1>2. <<>> \in Seq(Requests(c, L))
  BY EmptySeq
<1> QED BY <1>1, <1>2 DEF Asked

LEMMA ServedEnd ==
    ASSUME NEW sk, Streams(sk), NEW L, Asked(up, L), Keeps(sk, L, Relay, up), NEW c \in Links,
           ReadEof(c) \/ HangUp(c) \/ WriteFails(c) \/ Expire(c), NEW vv, vv = up'
    PROVE  Served(sk, L, vv)
<1>1. up = [e \in Links |-> up[e]] /\ Uploads(up) /\ Relay.sessions = sessions
  BY AskedUploads DEF Asked, Relay
<1>2. CASE ReadEof(c)
  <2>1. PICK st : st = Forwarded(Relay, c)
    OBVIOUS
  <2>2. c \in DOMAIN sessions /\ TailAt(vv, c) /\ Become(Erase(st, c))
    BY <1>2, <2>1 DEF ReadEof, Reads, TailAt
  <2>3. Asked(vv, L) /\ \A e \in Links \ {c} : vv[e] = up[e]
    BY <2>2, TailAsked
  <2>4. HandlerKeeps(sk, L, Relay, st, up) /\ DOMAIN st.sessions = DOMAIN Relay.sessions
    <3>1. HandlerKeeps(sk, L, Relay, Forwarded(Relay, c), up)
      BY <1>1, <2>2, HandlersKeep
    <3>2. DOMAIN Forwarded(Relay, c).sessions = DOMAIN Relay.sessions
      BY <1>1, <2>2, ForwardedSame DEF Keeps, Typed, SameLinks
    <3> QED BY <2>1, <3>1, <3>2
  <2> QED BY <1>1, <2>2, <2>3, <2>4, ServedGone DEF HandlerKeeps
<1>3. CASE HangUp(c)
  <2>1. PICK st : st = Forwarded(Relay, c)
    OBVIOUS
  <2>2. c \in DOMAIN sessions /\ vv = [up EXCEPT ![c] = <<>>] /\ Become(Erase(st, c))
    BY <1>3, <2>1 DEF HangUp
  <2>3. Asked(vv, L) /\ \A e \in Links \ {c} : vv[e] = up[e]
    BY <2>2, EmptiedAsked
  <2>4. HandlerKeeps(sk, L, Relay, st, up) /\ DOMAIN st.sessions = DOMAIN Relay.sessions
    <3>1. HandlerKeeps(sk, L, Relay, Forwarded(Relay, c), up)
      BY <1>1, <2>2, HandlersKeep
    <3>2. DOMAIN Forwarded(Relay, c).sessions = DOMAIN Relay.sessions
      BY <1>1, <2>2, ForwardedSame DEF Keeps, Typed, SameLinks
    <3> QED BY <2>1, <3>1, <3>2
  <2> QED BY <1>1, <2>2, <2>3, <2>4, ServedGone DEF HandlerKeeps
<1>4. CASE WriteFails(c) \/ Expire(c)
  <2>1. c \in DOMAIN sessions /\ vv = [up EXCEPT ![c] = <<>>] /\ Become(Erase(Relay, c))
    BY <1>4 DEF WriteFails, Expire
  <2>2. Asked(vv, L) /\ \A e \in Links \ {c} : vv[e] = up[e]
    BY <2>1, EmptiedAsked
  <2>3. Quiet(Relay, Relay)
    BY DEF Quiet
  <2> QED BY <1>1, <2>1, <2>2, <2>3, ServedGone
<1> QED BY <1>2, <1>3, <1>4

(* Whatever the server does next, it keeps the flows in order.             *)
LEMMA ServeKeeps ==
    ASSUME NEW sk, Streams(sk), NEW L, Asked(up, L), Keeps(sk, L, Relay, up), PairInv, NEW c \in Links, Serve(c)
    PROVE  Served(sk, L, up')
<1>1. CASE ReadInit(c)
  BY <1>1, ServedInit
<1>2. CASE ReadBlock(c)
  BY <1>2, ServedBlock
<1>3. CASE ReadEof(c) \/ HangUp(c) \/ WriteFails(c) \/ Expire(c)
  BY <1>3, ServedEnd
<1>4. CASE Forward(c)
  <2>1. c \in DOMAIN sessions /\ UNCHANGED up /\ Become(Forwarded(Relay, c))
    BY <1>4 DEF Forward
  <2> QED BY <2>1, ServedQuietly
<1>5. CASE Write(c)
  <2>1. c \in DOMAIN sessions /\ UNCHANGED up /\ Become(Written(Relay, c))
    BY <1>5 DEF Write
  <2> QED BY <2>1, ServedQuietly
<1>6. CASE Offer(c)
  <2>1. c \in DOMAIN sessions /\ UNCHANGED up /\ sessions[c].kind = "connect" /\ Become(Offered(Relay, c))
    BY <1>6 DEF Offer
  <2> QED BY <2>1, ServedQuietly
<1> QED BY <1>1, <1>2, <1>3, <1>4, <1>5, <1>6 DEF Serve
-----------------------------------------------------------------------------
(* The sockets. *)

CanStart(s) == s.state \in {"listening", "opening"} \/ s.pending
Fits(s, m) ==
    /\ s \in Sockets /\ s.link <= m
    /\ s.kind = "connect" => s.name \in Openers
    /\ s.kind = "listen" <=> s.state = "listening"
    /\ CanStart(s) => s.received = <<>> /\ ~ s.noticed
    /\ s.pending => s.link = NoLink
    /\ RunIn(s.received)
Apart(sk) == \A g, h \in DOMAIN sk : g # h /\ sk[g].link = sk[h].link => sk[g].link = NoLink
Fitting(sk, m) ==
    /\ sk = [h \in DOMAIN sk |-> sk[h]] /\ DOMAIN sk \subseteq Handles
    /\ \A h \in DOMAIN sk : Fits(sk[h], m)

(* The links of the listening sockets. *)
Heard(sk) == {sk[h].link : h \in {g \in DOMAIN sk : sk[g].kind = "listen"}} \ {NoLink}

Counters == used \in {0} \union Handles /\ made \in 0 .. MaxLinks /\ events \in 0 .. MaxEvents
Unmade == \A c \in Links : c > made => down[c] = <<>>

(* What is sent, on its way and received is in order. *)
FlowInv ==
    /\ Keeps(sockets, Heard(sockets), Relay, up) /\ Asked(up, Heard(sockets))
    /\ Fitting(sockets, made) /\ Apart(sockets) /\ Counters /\ Unmade
OrderInv == PairInv /\ FlowInv

(* The same streams, or fewer. *)
SameStreams(sk, tk) ==
    \A h \in DOMAIN tk : tk[h].link # NoLink =>
        /\ h \in DOMAIN sk /\ tk[h].link = sk[h].link /\ tk[h].kind = sk[h].kind
        /\ tk[h].received = sk[h].received /\ tk[h].sent = sk[h].sent /\ tk[h].noticed = sk[h].noticed

LEMMA FitStreams ==
    ASSUME NEW sk, NEW m, Fitting(sk, m)
    PROVE  Streams(sk)
BY DEF Fitting, Fits, Streams

LEMMA SameFlows ==
    ASSUME NEW sk, NEW tk, NEW st, NEW uu, AreLinks(st.sessions), Flows(sk, st, uu), SameStreams(sk, tk)
    PROVE  Flows(tk, st, uu)
<1>1. ASSUME NEW h \in DOMAIN tk, tk[h].link # NoLink
      PROVE  Flow(tk, st, uu, h) = Flow(sk, st, uu, h) /\ h \in DOMAIN sk /\ tk[h].link = sk[h].link
             /\ tk[h].noticed = sk[h].noticed /\ tk[h].sent = sk[h].sent
  BY <1>1 DEF SameStreams, Flow
<1>2. NoLink \notin DOMAIN st.sessions
  BY DEF AreLinks, Links, NoLink
<1>3. SendsRuns(st, uu) /\ ReadsRuns(sk, st, uu) /\ SendsLast(sk, st, uu)
  BY DEF Flows
<1>4. ReadsRuns(tk, st, uu)
  <2> SUFFICES ASSUME NEW h \in DOMAIN tk, tk[h].link # NoLink PROVE ReadsRun(tk, st, uu, h)
    BY DEF ReadsRuns
  <2>1. ReadsRun(sk, st, uu, h)
    BY <1>1, <1>3 DEF ReadsRuns
  <2> QED BY <1>1, <2>1 DEF ReadsRun
<1>5. SendsLast(tk, st, uu)
  <2> SUFFICES ASSUME NEW h \in DOMAIN tk, CanSend(tk, st, uu, h)
               PROVE  /\ EndsAt(Sends(st.sessions, uu, tk[h].link), Block(h, tk[h].sent))
                      /\ \A x \in DOMAIN tk : Reader(tk, st, uu, h, x) =>
                            EndsAt(Flow(tk, st, uu, x), Block(h, tk[h].sent))
    BY DEF SendsLast
  <2>1. /\ tk[h].link # NoLink /\ h \in DOMAIN sk /\ tk[h].link = sk[h].link /\ tk[h].sent = sk[h].sent
    BY <1>1, <1>2 DEF CanSend
  <2>2. CanSend(sk, st, uu, h)
    BY <2>1 DEF CanSend
  <2>3. /\ EndsAt(Sends(st.sessions, uu, sk[h].link), Block(h, sk[h].sent))
        /\ \A x \in DOMAIN sk : Reader(sk, st, uu, h, x) => EndsAt(Flow(sk, st, uu, x), Block(h, sk[h].sent))
    BY <1>3, <2>1, <2>2 DEF SendsLast
  <2>4. ASSUME NEW x \in DOMAIN tk, Reader(tk, st, uu, h, x)
        PROVE  EndsAt(Flow(tk, st, uu, x), Block(h, tk[h].sent))
    <3>1. tk[x].link # NoLink
      BY <2>4 DEF Reader
    <3>2. Flow(tk, st, uu, x) = Flow(sk, st, uu, x) /\ x \in DOMAIN sk /\ tk[x].link = sk[x].link
      BY <1>1, <3>1
    <3>3. Reader(sk, st, uu, h, x)
      BY <2>1, <2>4, <3>2 DEF Reader
    <3> QED BY <2>1, <2>3, <3>2, <3>3
  <2> QED BY <2>1, <2>3, <2>4
<1> QED BY <1>3, <1>4, <1>5 DEF Flows

(* Of fewer listening sockets less is known. *)
LEMMA LessHeard ==
    ASSUME NEW st, NEW uu, NEW L, NEW M, M \subseteq L
    PROVE  (Typed(st, L) => Typed(st, M)) /\ (Asked(uu, L) => Asked(uu, M))
<1>1. \A c : ForConsole(c, L) \subseteq ForConsole(c, M)
  BY ItemTypes DEF ForConsole
<1>2. ASSUME NEW s, NEW c, IsLink(s, c, L) PROVE IsLink(s, c, M)
  <2>1. s.out \in Seq(ForConsole(c, M))
    BY <1>1, <1>2, SeqMonotonic DEF IsLink
  <2> QED BY <1>2, <2>1 DEF IsLink
<1>3. ASSUME NEW c, NEW q \in Seq(ForConsole(c, L) \union {Eof}) PROVE q \in Seq(ForConsole(c, M) \union {Eof})
  <2>1. ForConsole(c, L) \union {Eof} \subseteq ForConsole(c, M) \union {Eof}
    BY <1>1
  <2> QED BY <2>1, SeqMonotonic
<1>4. Typed(st, L) => Typed(st, M)
  BY <1>2, <1>3 DEF Typed
<1>5. ASSUME NEW c, NEW q \in Seq(Requests(c, L)) PROVE q \in Seq(Requests(c, M))
  <2>1. Requests(c, L) \subseteq Requests(c, M)
    BY DEF Requests
  <2> QED BY <2>1, SeqMonotonic
<1>6. Asked(uu, L) => Asked(uu, M)
  BY <1>5 DEF Asked
<1> QED BY <1>4, <1>6

LEMMA SameHeard ==
    ASSUME NEW sk, NEW tk, SameStreams(sk, tk)
    PROVE  Heard(tk) \subseteq Heard(sk) /\ (Apart(sk) => Apart(tk))
<1>1. Heard(tk) \subseteq Heard(sk)
  BY DEF Heard, SameStreams
<1>2. Apart(sk) => Apart(tk)
  BY DEF Apart, SameStreams
<1> QED BY <1>1, <1>2

LEMMA SameKeeps ==
    ASSUME NEW sk, NEW tk, NEW st, NEW uu, SameStreams(sk, tk), Keeps(sk, Heard(sk), st, uu), Asked(uu, Heard(sk))
    PROVE  Keeps(tk, Heard(tk), st, uu) /\ Asked(uu, Heard(tk))
<1>1. Typed(st, Heard(sk)) /\ Partners(st.sessions) /\ Flows(sk, st, uu) /\ AreLinks(st.sessions)
  BY DEF Keeps, Typed, IsState
<1>2. Heard(tk) \subseteq Heard(sk)
  BY SameHeard
<1>3. Typed(st, Heard(tk)) /\ Asked(uu, Heard(tk))
  BY <1>1, <1>2, LessHeard
<1>4. Flows(tk, st, uu)
  BY <1>1, SameFlows
<1> QED BY <1>1, <1>3, <1>4 DEF Keeps

LEMMA FlowStep ==
    ASSUME NEW r, Become(r), NEW tk, tk = sockets', NEW vv, vv = up', Keeps(tk, Heard(tk), r, vv), Asked(vv, Heard(tk)),
           Fitting(tk, made'), Apart(tk), Counters', Unmade'
    PROVE  FlowInv'
<1>1. PICK x : x = Relay'
  OBVIOUS
<1>2. DOMAIN x = {"sessions", "down"} /\ x.sessions = r.sessions /\ x.down = r.down
  BY <1>1 DEF Relay, Become
<1>3. Keeps(tk, Heard(tk), x, vv)
  BY <1>2, KeepsFields
<1> QED BY <1>1, <1>3 DEF FlowInv

LEMMA SocketStep ==
    ASSUME FlowInv, UNCHANGED <<sessions, up, down, made>>, SameStreams(sockets, sockets'), Fitting(sockets', made),
           Counters'
    PROVE  FlowInv'
<1>1. PICK tk : tk = sockets'
  OBVIOUS
<1>2. SameStreams(sockets, tk) /\ Fitting(tk, made')
  BY <1>1
<1>3. Keeps(tk, Heard(tk), Relay, up) /\ Asked(up, Heard(tk))
  BY <1>2, SameKeeps DEF FlowInv
<1>4. Apart(tk)
  BY <1>2, SameHeard DEF FlowInv
<1>5. Become(Relay) /\ Unmade' /\ up = up'
  BY DEF Become, Relay, FlowInv, Unmade
<1> QED BY <1>1, <1>2, <1>3, <1>4, <1>5, FlowStep

LEMMA NewFits ==
    ASSUME NEW k \in {"listen", "connect", "accept"}, NEW n \in Names, NEW p \in Names,
           NEW s \in {"listening", "opening", "established"}, k = "listen" <=> s = "listening",
           k = "connect" => n \in Openers, NEW m \in Nat
    PROVE  Fits(Socket(k, n, p, s), m) /\ Socket(k, n, p, s).link = NoLink
<1> DEFINE t == Socket(k, n, p, s)
<1>1. <<>> \in Seq(Blocks) /\ <<>> \in Seq(Openers)
  BY EmptySeq
<1>2. Retries \in 0 .. Retries /\ 0 \in 0 .. MaxSent
  BY RelayAssumption, StreamsAssumption
<1>3. t \in Sockets
  BY <1>1, <1>2 DEF Socket, Sockets
<1>4. /\ t.kind = k /\ t.name = n /\ t.state = s /\ t.link = NoLink /\ t.received = <<>> /\ t.noticed = FALSE
  BY DEF Socket
<1> HIDE DEF t
<1>5. t.link <= m
  BY <1>4 DEF NoLink
<1> QED BY <1>3, <1>4, <1>5, RunEmpty DEF Fits, t

(* A socket more, and none of the streams changed. *)
LEMMA MakeStep ==
    ASSUME FlowInv, NEW s, NEW others, Make(s, others), SameStreams(sockets, others),
           Fitting(others, made), Fits(s, made), s.link = NoLink
    PROVE  FlowInv'
<1>1. PICK h \in Handles : h = used + 1
  BY DEF Make
<1>2. /\ used' = h /\ UNCHANGED <<sessions, up, down, made, events>>
      /\ sockets' = [g \in DOMAIN others \union {h} |-> IF g = h THEN s ELSE others[g]]
  BY <1>1 DEF Make, serverVars
<1>3. PICK tk : tk = sockets'
  OBVIOUS
<1>4. /\ DOMAIN tk = DOMAIN others \union {h} /\ tk[h] = s /\ \A g \in DOMAIN tk \ {h} : tk[g] = others[g]
      /\ tk = [g \in DOMAIN tk |-> tk[g]]
  BY <1>2, <1>3
<1>5. Fitting(tk, made)
  BY <1>4 DEF Fitting
<1>6. SameStreams(sockets, tk)
  BY <1>4 DEF SameStreams
<1>7. Counters'
  BY <1>2 DEF FlowInv, Counters
<1> QED BY <1>2, <1>3, <1>5, <1>6, <1>7, SocketStep

(* A socket that only forgets pending connections. *)
LEMMA BacklogFits ==
    ASSUME FlowInv, NEW l \in DOMAIN sockets, sockets[l].backlog # <<>>,
           NEW others, others = [sockets EXCEPT ![l].backlog = Tail(@)]
    PROVE  /\ SameStreams(sockets, others) /\ Fitting(others, made)
           /\ Head(sockets[l].backlog) \in Openers /\ sockets[l].name \in Names
<1>1. PICK s : s = sockets[l]
  OBVIOUS
<1>2. Fits(s, made) /\ sockets = [h \in DOMAIN sockets |-> sockets[h]] /\ DOMAIN sockets \subseteq Handles
  BY <1>1 DEF FlowInv, Fitting
<1>3. s \in Sockets /\ s.backlog \in Seq(Openers) /\ s.backlog # <<>> /\ s.name \in Names
  BY <1>1, <1>2 DEF Fits, Sockets
<1>4. PICK rest \in Seq(Openers) : rest = Tail(s.backlog)
  BY <1>3, TailFacts
<1>5. PICK t : t = [s EXCEPT !.backlog = rest]
  OBVIOUS
<1>6. t \in Sockets /\ t.link = s.link /\ t.kind = s.kind /\ t.name = s.name /\ t.state = s.state
      /\ t.received = s.received /\ t.noticed = s.noticed /\ t.pending = s.pending /\ t.sent = s.sent
  BY <1>3, <1>5 DEF Sockets
<1>7. Fits(t, made)
  BY <1>2, <1>6 DEF Fits, CanStart
<1>8. others = [sockets EXCEPT ![l] = t]
  BY <1>1, <1>2, <1>4, <1>5
<1>9. /\ DOMAIN others = DOMAIN sockets /\ others[l] = t /\ (\A g \in DOMAIN others \ {l} : others[g] = sockets[g])
      /\ others = [g \in DOMAIN others |-> others[g]]
  BY <1>2, <1>8
<1>10. Fitting(others, made)
  BY <1>2, <1>7, <1>9 DEF FlowInv, Fitting
<1>11. SameStreams(sockets, others)
  BY <1>1, <1>6, <1>9 DEF SameStreams
<1>12. Head(sockets[l].backlog) \in Openers
  BY <1>1, <1>3, TailFacts
<1> QED BY <1>1, <1>3, <1>10, <1>11, <1>12

LEMMA ListenStep ==
    ASSUME FlowInv, NEW n \in Listeners, PtpListen(n)
    PROVE  FlowInv'
<1>1. Make(Socket("listen", n, n, "listening"), sockets)
  BY DEF PtpListen
<1>2. n \in Names /\ made \in Nat
  BY StreamsAssumption DEF FlowInv, Counters
<1>3. Fits(Socket("listen", n, n, "listening"), made) /\ Socket("listen", n, n, "listening").link = NoLink
  BY <1>2, NewFits
<1>4. SameStreams(sockets, sockets) /\ Fitting(sockets, made)
  BY DEF SameStreams, FlowInv
<1> QED BY <1>1, <1>3, <1>4, MakeStep

LEMMA OpenStep ==
    ASSUME FlowInv, NEW n \in Openers, NEW p \in Listeners, PtpOpen(n, p)
    PROVE  FlowInv'
<1>1. Make(Socket("connect", n, p, "opening"), sockets)
  BY DEF PtpOpen
<1>2. n \in Names /\ p \in Names /\ made \in Nat
  BY StreamsAssumption DEF FlowInv, Counters
<1>3. Fits(Socket("connect", n, p, "opening"), made) /\ Socket("connect", n, p, "opening").link = NoLink
  BY <1>2, NewFits
<1>4. SameStreams(sockets, sockets) /\ Fitting(sockets, made)
  BY DEF SameStreams, FlowInv
<1> QED BY <1>1, <1>3, <1>4, MakeStep

LEMMA AcceptStep ==
    ASSUME FlowInv, NEW l \in DOMAIN sockets, PtpAccept(l)
    PROVE  FlowInv'
<1>1. PICK others : others = [sockets EXCEPT ![l].backlog = Tail(@)]
  OBVIOUS
<1>2. PICK n : n = sockets[l].name
  OBVIOUS
<1>3. PICK p : p = Head(sockets[l].backlog)
  OBVIOUS
<1>4. sockets[l].backlog # <<>> /\ Make(Socket("accept", n, p, "established"), others)
  BY <1>1, <1>2, <1>3 DEF PtpAccept
<1>5. SameStreams(sockets, others) /\ Fitting(others, made) /\ p \in Openers /\ n \in Names
  BY <1>1, <1>2, <1>3, <1>4, BacklogFits
<1>6. p \in Names /\ made \in Nat
  BY <1>5, StreamsAssumption DEF FlowInv, Counters
<1>7. Fits(Socket("accept", n, p, "established"), made) /\ Socket("accept", n, p, "established").link = NoLink
  BY <1>5, <1>6, NewFits
<1> QED BY <1>4, <1>5, <1>7, MakeStep

LEMMA OlderStep ==
    ASSUME FlowInv, NEW l \in DOMAIN sockets, RequestExpires(l)
    PROVE  FlowInv'
<1>1. PICK others : others = [sockets EXCEPT ![l].backlog = Tail(@)]
  OBVIOUS
<1>2. sockets[l].backlog # <<>> /\ sockets' = others /\ UNCHANGED <<sessions, up, down, made, used>>
  BY <1>1 DEF RequestExpires, serverVars
<1>3. SameStreams(sockets, others) /\ Fitting(others, made)
  BY <1>1, <1>2, BacklogFits
<1>4. Counters'
  BY <1>2, StreamsAssumption DEF RequestExpires, Happens, FlowInv, Counters
<1> QED BY <1>2, <1>3, <1>4, SocketStep
-----------------------------------------------------------------------------
(* Links that are closed or break. *)

(* Some of what was on its way, and the end. *)
CutTo(q, t) == \E n \in 0 .. Len(q) : t = Append(SubSeq(q, 1, n), Eof)
CutShort(r, vv, c) ==
    \/ vv[c] = up[c] /\ r.down[c] = down[c]
    \/ /\ r.down[c] \in {<<>>, Append(down[c], Eof)}
       /\ Alive(c) => CutTo(up[c], vv[c])
       /\ ~ Alive(c) => vv[c] = up[c]

LEMMA QueueCut ==
    ASSUME NEW S, NEW q \in Seq(S), S \subseteq Items, Eof \in S, NEW t, CutTo(q, t)
    PROVE  /\ t \in Seq(S) /\ t \in Seq(Items) /\ t # <<>> /\ Follows(q, t) /\ \E i \in DOMAIN t : t[i] = Eof
           /\ q # <<>> /\ q[1] \notin Blocks => t[1] \notin Blocks
<1>0. PICK n \in 0 .. Len(q) : t = Append(SubSeq(q, 1, n), Eof)
  BY DEF CutTo
<1>1. PICK a \in Seq(S) : a = SubSeq(q, 1, n)
  BY CutInTwo
<1>2. /\ t \in Seq(S) /\ Len(a) \in Nat /\ DOMAIN t = 1 .. Len(a) + 1 /\ t[Len(a) + 1] = Eof /\ t # <<>>
  <2>1. t = Append(a, Eof)
    BY <1>0, <1>1
  <2> QED BY <2>1, AppendFacts, AppendProperties
<1>3. Len(a) + 1 \in DOMAIN t
  BY <1>2
<1>4. q \in Seq(Items) /\ t \in Seq(Items)
  BY <1>2, SeqMonotonic
<1>5. Follows(q, t)
  BY <1>0, <1>4, ItemTypes, FollowsCut
<1>6. q # <<>> /\ q[1] \notin Blocks => t[1] \notin Blocks
  <2>1. Starts(q) => Starts(t)
    BY <1>4, <1>5, FollowsRun
  <2> QED BY <1>2, <2>1 DEF Starts
<1> QED BY <1>2, <1>3, <1>4, <1>5, <1>6

LEMMA CutUp ==
    ASSUME NEW L, Asked(up, L), NEW r, NEW vv, NEW c \in Links, CutShort(r, vv, c)
    PROVE  /\ vv[c] \in Seq(Requests(c, L)) /\ vv[c] \in Seq(Items) /\ up[c] \in Seq(Items)
           /\ EndedIn(up, c) => EndedIn(vv, c)
           /\ vv[c] = up[c] \/ EndedIn(vv, c)
           /\ vv[c] # up[c] => vv[c] # <<>>
           /\ Follows(up[c], vv[c])
           /\ up[c] # <<>> /\ up[c][1] \notin Blocks => vv[c] # <<>> /\ vv[c][1] \notin Blocks
<1>1. PICK q \in Seq(Requests(c, L)) : q = up[c]
  BY DEF Asked
<1>2. q \in Seq(Items) /\ Requests(c, L) \subseteq Items /\ Eof \in Requests(c, L)
  BY RequestItems, SeqMonotonic
<1>3. CASE vv[c] = up[c]
  BY <1>1, <1>2, <1>3, FollowsSelf DEF EndedIn
<1>4. CASE vv[c] # up[c]
  <2>1. PICK t : t = vv[c]
    OBVIOUS
  <2>2. CutTo(q, t)
    BY <1>1, <1>4, <2>1 DEF CutShort
  <2>3. /\ t \in Seq(Requests(c, L)) /\ t \in Seq(Items) /\ t # <<>> /\ Follows(q, t) /\ (\E i \in DOMAIN t : t[i] = Eof)
        /\ q # <<>> /\ q[1] \notin Blocks => t[1] \notin Blocks
    BY <1>2, <2>2, QueueCut
  <2> QED BY <1>1, <1>2, <2>1, <2>3 DEF EndedIn
<1> QED BY <1>3, <1>4

LEMMA CutDown ==
    ASSUME NEW L, Asked(up, L), Typed(Relay, L), NEW r, NEW vv, NEW c \in Links, CutShort(r, vv, c)
    PROVE  /\ r.down[c] \in Seq(ForConsole(c, L) \union {Eof}) /\ r.down[c] \in Seq(Items) /\ down[c] \in Seq(Items)
           /\ \/ vv[c] = up[c] /\ r.down[c] = down[c]
              \/ /\ c \notin DOMAIN sessions \/ EndedIn(vv, c)
                 /\ r.down[c] \in {<<>>, Append(down[c], Eof)}
<1>1. PICK S : S = ForConsole(c, L) \union {Eof}
  OBVIOUS
<1>2. S \subseteq Items /\ Eof \in S /\ down[c] \in Seq(S)
  BY <1>1, ForItems, ItemTypes DEF Typed, Relay
<1>3. Append(down[c], Eof) \in Seq(S) /\ <<>> \in Seq(S)
  BY <1>2, AppendProperties, EmptySeq
<1>4. r.down[c] \in Seq(S)
  BY <1>2, <1>3 DEF CutShort
<1>5. r.down[c] \in Seq(Items) /\ down[c] \in Seq(Items)
  BY <1>2, <1>4, SeqMonotonic
<1>6. \/ vv[c] = up[c] /\ r.down[c] = down[c]
      \/ /\ c \notin DOMAIN sessions \/ EndedIn(vv, c)
         /\ r.down[c] \in {<<>>, Append(down[c], Eof)}
  <2> SUFFICES ASSUME ~ (vv[c] = up[c] /\ r.down[c] = down[c])
               PROVE  /\ c \notin DOMAIN sessions \/ EndedIn(vv, c)
                      /\ r.down[c] \in {<<>>, Append(down[c], Eof)}
    OBVIOUS
  <2>1. r.down[c] \in {<<>>, Append(down[c], Eof)}
    BY DEF CutShort
  <2>2. CASE Alive(c)
    <3>1. PICK q \in Seq(Requests(c, L)) : q = up[c]
      BY DEF Asked
    <3>2. PICK t : t = vv[c]
      OBVIOUS
    <3>3. CutTo(q, t)
      BY <2>2, <3>1, <3>2 DEF CutShort
    <3>4. Requests(c, L) \subseteq Items /\ Eof \in Requests(c, L)
      BY RequestItems
    <3>5. \E i \in DOMAIN t : t[i] = Eof
      BY <3>3, <3>4, QueueCut
    <3> QED BY <2>1, <3>2, <3>3, <3>5 DEF EndedIn
  <2>3. CASE ~ Alive(c)
    <3>1. vv[c] = up[c]
      BY <2>3 DEF CutShort
    <3> QED BY <2>1, <2>3, <3>1 DEF Alive, Ended, EndedIn
  <2> QED BY <2>2, <2>3
<1> QED BY <1>1, <1>4, <1>5, <1>6

(* The links in r and vv are those of the relay, cut short or not at all.  *)
Cut(r, vv) ==
    /\ DOMAIN r = {"sessions", "down"} /\ r.sessions = sessions
    /\ r.down = [c \in Links |-> r.down[c]] /\ vv = [c \in Links |-> vv[c]]
    /\ \A c \in Links : CutShort(r, vv, c)

LEMMA CutStill ==
    ASSUME NEW L, Asked(up, L), Typed(Relay, L), Partners(sessions), NEW r, NEW vv, Cut(r, vv), NEW c \in Links,
           vv[c] = up[c], r.down[c] = down[c]
    PROVE  Coming(r, vv, c) \in Seq(Items) /\ CarriedFlow(Relay, up, r, vv, c)
<1>1. /\ Relay.sessions = sessions /\ Relay.down = down /\ r.sessions = sessions
      /\ (EndedIn(vv, c) <=> EndedIn(up, c))
  BY DEF Relay, Cut, EndedIn
<1>2. Uploads(up) /\ NoLink \notin Links /\ DOMAIN sessions \subseteq Links
  BY <1>1, AskedUploads DEF Typed, IsState, AreLinks, Links, NoLink
<1>3. Coming(Relay, up, c) \in Seq(Items)
  BY <1>1, <1>2, TypedItems
<1>4. CASE c \notin DOMAIN sessions \/ EndedIn(up, c) \/ sessions[c].partner = NoLink
  <2>1. Passing(sessions, vv, c) = Passing(sessions, up, c)
    BY <1>1, <1>4 DEF Passing
  <2>2. Coming(r, vv, c) = Coming(Relay, up, c)
    BY <1>1, <2>1 DEF Coming
  <2> QED BY <1>3, <2>2, SameFlowCarried
<1>5. CASE c \in DOMAIN sessions /\ ~ EndedIn(up, c) /\ sessions[c].partner # NoLink
  <2>1. PICK p \in DOMAIN sessions : p = sessions[c].partner
    BY <1>5 DEF Partners
  <2>2. PICK q \in Seq(Items) : q = up[p]
    BY <1>2, <2>1, CutUp DEF Cut
  <2>3. PICK t \in Seq(Items) : t = vv[p]
    BY <1>2, <2>1, CutUp DEF Cut
  <2>4. PICK d \in Seq(Items) : d = down[c]
    BY <1>1, <1>2, TypedItems
  <2>5. PICK o \in Seq(Items) : o = sessions[c].out
    BY <1>1, <1>2, <1>5, TypedItems
  <2>6. PICK i \in Seq(Items) : i = sessions[p].in
    BY <1>1, <1>2, <2>1, TypedItems
  <2>7. Passing(sessions, up, c) = o \o (i \o q) /\ Passing(sessions, vv, c) = o \o (i \o t)
    BY <1>1, <1>5, <2>1, <2>2, <2>3, <2>5, <2>6 DEF Passing, Sends
  <2>8. Coming(Relay, up, c) = d \o (o \o (i \o q)) /\ Coming(r, vv, c) = d \o (o \o (i \o t))
    BY <1>1, <2>4, <2>7 DEF Coming
  <2>9. Follows(q, t) /\ (t = q \/ (EndedIn(vv, p) /\ t # <<>>))
    <3>1. p \in Links /\ CutShort(r, vv, p)
      BY <1>2, <2>1 DEF Cut
    <3>2. Follows(up[p], vv[p]) /\ (vv[p] = up[p] \/ EndedIn(vv, p)) /\ (vv[p] # up[p] => vv[p] # <<>>)
      BY <3>1, CutUp
    <3> QED BY <2>2, <2>3, <3>2
  <2>10. i \o q \in Seq(Items) /\ i \o t \in Seq(Items) /\ Follows(i \o q, i \o t)
    BY <2>9, FollowsAfter, ItemsConcat
  <2>11. PICK iq \in Seq(Items) : iq = i \o q
    BY <2>10
  <2>12. PICK it \in Seq(Items) : it = i \o t
    BY <2>10
  <2>13. o \o iq \in Seq(Items) /\ o \o it \in Seq(Items) /\ Follows(o \o iq, o \o it)
    BY <2>10, <2>11, <2>12, FollowsAfter, ItemsConcat
  <2>14. PICK oq \in Seq(Items) : oq = o \o iq
    BY <2>13
  <2>15. PICK ot \in Seq(Items) : ot = o \o it
    BY <2>13
  <2>16. d \o ot \in Seq(Items) /\ Follows(d \o oq, d \o ot)
    BY <2>13, <2>14, <2>15, FollowsAfter, ItemsConcat
  <2>17. Coming(Relay, up, c) = d \o oq /\ Coming(r, vv, c) = d \o ot
    BY <2>8, <2>11, <2>12, <2>14, <2>15
  <2>18. t # <<>> => d \o ot # <<>>
    <3>1. t # <<>> => it # <<>>
      BY <2>12, ConcatProperties, EmptySeq
    <3>2. it # <<>> => ot # <<>>
      BY <2>15, ConcatProperties, EmptySeq
    <3>3. ot # <<>> => d \o ot # <<>>
      BY ConcatProperties, EmptySeq
    <3> QED BY <3>1, <3>2, <3>3
  <2>19. t = q => oq = ot
    BY <2>11, <2>12, <2>14, <2>15
  <2>20. Coming(Relay, up, c) # <<>> => Coming(r, vv, c) # <<>>
    BY <2>9, <2>17, <2>18, <2>19
  <2>21. ~ EndedIn(vv, p) => Coming(r, vv, c) = Coming(Relay, up, c)
    BY <2>9, <2>17, <2>19
  <2> QED BY <1>1, <2>1, <2>16, <2>17, <2>20, <2>21 DEF CarriedFlow
<1> QED BY <1>4, <1>5

LEMMA CutFlow ==
    ASSUME NEW L, Asked(up, L), Typed(Relay, L), Partners(sessions), NEW r, NEW vv, Cut(r, vv), NEW c \in Links
    PROVE  Coming(r, vv, c) \in Seq(Items) /\ CarriedFlow(Relay, up, r, vv, c)
<1>1. CutShort(r, vv, c) /\ Relay.sessions = sessions /\ Relay.down = down /\ r.sessions = sessions
  BY DEF Cut, Relay
<1>2. CASE vv[c] = up[c] /\ r.down[c] = down[c]
  BY <1>2, CutStill
<1>3. CASE (c \notin DOMAIN sessions \/ EndedIn(vv, c)) /\ r.down[c] \in {<<>>, Append(down[c], Eof)}
  <2>1. PICK d \in Seq(Items) : d = down[c]
    BY <1>1, CutDown
  <2>2. PICK e \in Seq(Items) : e = r.down[c]
    BY <1>1, CutDown
  <2>3. PICK w \in Seq(Items) : w = Passing(sessions, up, c)
    BY <1>1, AskedUploads, TypedItems
  <2>4. Passing(sessions, vv, c) = <<>> /\ ~ IsPaired(r, vv, c)
    BY <1>1, <1>3 DEF Passing, IsPaired
  <2>5. Coming(Relay, up, c) = d \o w /\ Coming(r, vv, c) = e
    BY <1>1, <2>1, <2>2, <2>3, <2>4, ConcatEmptySeq DEF Coming
  <2>6. Follows(d \o w, d) /\ Follows(d, Append(d, Eof))
    BY FollowsPart, FollowsEnd, ItemTypes
  <2>7. Follows(d \o w, <<>>)
    <3>1. <<>> \in Seq(Items) /\ d \o w \in Seq(Items)
      BY EmptySeq, ItemsConcat
    <3>2. PICK v \in Seq(Items) : v = d \o w
      BY <3>1
    <3>3. Follows(<<>> \o v, <<>>) /\ <<>> \o v = v
      BY <3>1, FollowsPart, ConcatEmptySeq
    <3> QED BY <3>2, <3>3
  <2>8. Follows(d \o w, e)
    <3>1. e = <<>> \/ e = Append(d, Eof)
      BY <1>3, <2>1, <2>2
    <3>2. PICK v : v = d \o w
      OBVIOUS
    <3>3. PICK z : z = Append(d, Eof)
      OBVIOUS
    <3>4. Follows(v, d) /\ Follows(d, z)
      BY <2>6, <3>2, <3>3
    <3>5. Follows(v, z)
      BY <3>4, FollowsAgain
    <3> QED BY <2>7, <3>1, <3>2, <3>3, <3>5
  <2>9. Coming(r, vv, c) \in Seq(Items) /\ Follows(Coming(Relay, up, c), Coming(r, vv, c))
    BY <2>5, <2>8
  <2> QED BY <2>4, <2>9 DEF CarriedFlow
<1>4. \/ vv[c] = up[c] /\ r.down[c] = down[c]
      \/ (c \notin DOMAIN sessions \/ EndedIn(vv, c)) /\ r.down[c] \in {<<>>, Append(down[c], Eof)}
  BY <1>1, CutDown
<1> QED BY <1>2, <1>3, <1>4

LEMMA CutLink ==
    ASSUME NEW L, Asked(up, L), Typed(Relay, L), Partners(sessions), NEW r, NEW vv, Cut(r, vv),
           NEW c \in DOMAIN sessions
    PROVE  CarriedLink(sessions, up, sessions, vv, c)
<1>1. c \in Links /\ CutShort(r, vv, c) /\ Relay.sessions = sessions
  BY DEF Cut, Relay, Typed, IsState, AreLinks
<1>2. PICK q \in Seq(Items) : q = up[c]
  BY <1>1, CutUp
<1>3. PICK t \in Seq(Items) : t = vv[c]
  BY <1>1, CutUp
<1>4. PICK i \in Seq(Items) : i = sessions[c].in
  BY <1>1, AskedUploads, TypedItems
<1>5. /\ EndedIn(up, c) => EndedIn(vv, c)
      /\ Follows(q, t) /\ (t = q \/ EndedIn(vv, c))
      /\ q # <<>> /\ q[1] \notin Blocks => t # <<>> /\ t[1] \notin Blocks
  BY <1>1, <1>2, <1>3, CutUp
<1>6. Sends(sessions, up, c) = i \o q /\ Sends(sessions, vv, c) = i \o t
  BY <1>2, <1>3, <1>4 DEF Sends
<1>7. RunIn(i \o q) => RunIn(i \o t)
  BY <1>5 DEF Follows
<1>8. ~ EndedIn(vv, c) => i \o t = i \o q
  BY <1>5
<1> QED BY <1>2, <1>3, <1>5, <1>6, <1>7, <1>8 DEF CarriedLink

(* Where links are cut, what still comes is in order. *)
LEMMA CutKeeps ==
    ASSUME NEW sk, Streams(sk), NEW L, Asked(up, L), Keeps(sk, L, Relay, up), NEW r, NEW vv, Cut(r, vv)
    PROVE  Keeps(sk, L, r, vv) /\ Asked(vv, L)
<1>1. /\ Typed(Relay, L) /\ Partners(sessions) /\ Flows(sk, Relay, up) /\ Relay.sessions = sessions
      /\ r.sessions = sessions /\ AreLinks(sessions)
  BY DEF Keeps, Typed, IsState, Relay, Cut
<1>2. Asked(vv, L)
  <2>1. \A c \in Links : vv[c] \in Seq(Requests(c, L))
    BY CutUp DEF Cut
  <2> QED BY <2>1 DEF Asked, Cut
<1>3. Typed(r, L)
  <2>1. \A c \in Links : r.down[c] \in Seq(ForConsole(c, L) \union {Eof})
    BY <1>1, CutDown DEF Cut
  <2>2. \A c \in DOMAIN sessions : IsLink(sessions[c], c, L)
    BY <1>1 DEF Typed
  <2> QED BY <1>1, <2>1, <2>2 DEF Typed, IsState, Cut
<1>4. \A c \in DOMAIN sessions : CarriedLink(sessions, up, sessions, vv, c)
  BY <1>1, CutLink
<1>5. \A c \in Links : Coming(r, vv, c) \in Seq(Items) /\ CarriedFlow(Relay, up, r, vv, c)
  BY <1>1, CutFlow
<1>6. \A h \in DOMAIN sk : sk[h].link # NoLink => CarriedFlow(Relay, up, r, vv, sk[h].link)
  BY <1>5, StreamTypes
<1>7. Carried(sk, Relay, up, r, vv)
  BY <1>1, <1>4, <1>6 DEF Carried
<1>8. Itemised(Relay, up) /\ Itemised(r, vv)
  BY <1>1, <1>5, AskedUploads, TypedItemised DEF Itemised
<1>9. Flows(sk, r, vv)
  BY <1>1, <1>7, <1>8, CarriedFlows
<1> QED BY <1>1, <1>2, <1>3, <1>9 DEF Keeps

LEMMA CutStep ==
    ASSUME FlowInv, NEW r, r = [sessions |-> sessions, down |-> down'], NEW vv, vv = up', Cut(r, vv),
           UNCHANGED <<sessions, made>>, SameStreams(sockets, sockets'), Fitting(sockets', made), Counters',
           \A c \in Links : c > made => down'[c] = <<>>
    PROVE  FlowInv'
<1>1. PICK tk : tk = sockets'
  OBVIOUS
<1>2. SameStreams(sockets, tk) /\ Fitting(tk, made')
  BY <1>1
<1>3. Streams(sockets)
  BY FitStreams DEF FlowInv
<1>4. Keeps(sockets, Heard(sockets), r, vv) /\ Asked(vv, Heard(sockets))
  BY <1>3, CutKeeps DEF FlowInv
<1>5. Keeps(tk, Heard(tk), r, vv) /\ Asked(vv, Heard(tk))
  BY <1>2, <1>4, SameKeeps
<1>6. Apart(tk)
  BY <1>2, SameHeard DEF FlowInv
<1>7. Become(r) /\ Unmade'
  BY DEF Become, Unmade
<1> QED BY <1>1, <1>2, <1>5, <1>6, <1>7, FlowStep

LEMMA WholeCut ==
    ASSUME NEW S, NEW q \in Seq(S)
    PROVE  CutTo(q, Append(q, Eof)) /\ CutTo(q, Append(<<>>, Eof))
<1>1. Len(q) \in Nat /\ SubSeq(q, 1, Len(q)) = q
  BY LenProperties, SubSeqFull
<1>2. SubSeq(q, 1, 0) = <<>>
  BY SubSeqEmpty
<1>3. 0 \in 0 .. Len(q) /\ Len(q) \in 0 .. Len(q)
  BY <1>1
<1>4. Append(q, Eof) = Append(SubSeq(q, 1, Len(q)), Eof) /\ Append(<<>>, Eof) = Append(SubSeq(q, 1, 0), Eof)
  BY <1>1, <1>2
<1> QED BY <1>3, <1>4 DEF CutTo

LEMMA ClosedCuts ==
    ASSUME FlowInv, NEW c \in Links, Closed(c), NEW r, r = [sessions |-> sessions, down |-> down']
    PROVE  Cut(r, up') /\ \A e \in Links : e > made => down'[e] = <<>>
<1>1. PICK vv : vv = up'
  OBVIOUS
<1>2. PICK n \in 0 .. Len(up[c]) :
        vv = IF Alive(c) THEN [up EXCEPT ![c] = Append(SubSeq(@, 1, n), Eof)] ELSE up
  BY <1>1 DEF Closed
<1>3. up = [e \in Links |-> up[e]] /\ down = [e \in Links |-> down[e]]
  BY DEF FlowInv, Asked, Keeps, Typed, Relay
<1>4. r.down = [down EXCEPT ![c] = <<>>] /\ r.sessions = sessions /\ DOMAIN r = {"sessions", "down"} /\ r.down = down'
  BY DEF Closed
<1>5. r.down = [e \in Links |-> r.down[e]] /\ r.down[c] = <<>> /\ \A e \in Links \ {c} : r.down[e] = down[e]
  BY <1>3, <1>4
<1>6. vv = [e \in Links |-> vv[e]] /\ \A e \in Links \ {c} : vv[e] = up[e]
  BY <1>2, <1>3
<1>7. CutShort(r, vv, c)
  <2>1. Alive(c) => vv[c] = Append(SubSeq(up[c], 1, n), Eof)
    BY <1>2, <1>3
  <2>2. ~ Alive(c) => vv[c] = up[c]
    BY <1>2
  <2> QED BY <1>5, <2>1, <2>2 DEF CutShort, CutTo
<1>8. \A e \in Links : CutShort(r, vv, e)
  BY <1>5, <1>6, <1>7 DEF CutShort
<1>9. Cut(r, vv)
  BY <1>4, <1>5, <1>6, <1>8 DEF Cut
<1>10. \A e \in Links : e > made => down'[e] = <<>>
  BY <1>4, <1>5 DEF FlowInv, Unmade
<1> QED BY <1>1, <1>9, <1>10

(* A socket that has lost its link. *)
LEMMA LostFits ==
    ASSUME NEW s, NEW m \in Nat, Fits(s, m), NEW t, t = Lost(s) \/ t = LeavesGroup(s)
    PROVE  Fits(t, m) /\ t.link = NoLink
<1>1. s \in Sockets /\ Retries \in Nat
  BY StreamsAssumption DEF Fits
<1>2. t \in Sockets /\ t.link = NoLink /\ t.kind = s.kind /\ t.name = s.name /\ t.received = s.received
      /\ t.pending = s.pending
  <2>1. CASE t = Lost(s)
    <3>1. PICK x : x = [s EXCEPT !.link = NoLink, !.noticed = FALSE]
      OBVIOUS
    <3>2. x \in Sockets /\ x.link = NoLink /\ x.kind = s.kind /\ x.name = s.name /\ x.received = s.received
          /\ x.pending = s.pending /\ x.state = s.state /\ x.retries = s.retries
      BY <1>1, <3>1 DEF Sockets, NoLink
    <3>3. CASE s.state = "opening" /\ s.retries > 0
      <4>1. t = [x EXCEPT !.retries = x.retries - 1]
        BY <2>1, <3>1, <3>3 DEF Lost
      <4>2. x.retries - 1 \in 0 .. Retries
        BY <1>1, <3>2, <3>3 DEF Sockets
      <4> QED BY <3>2, <4>1, <4>2 DEF Sockets
    <3>4. CASE t = x \/ t = [x EXCEPT !.state = "failed"] \/ t = [x EXCEPT !.state = "disconnected"]
      BY <3>2, <3>4 DEF Sockets
    <3> QED BY <2>1, <3>1, <3>3, <3>4 DEF Lost
  <2>2. CASE t = LeavesGroup(s)
    <3>1. <<>> \in Seq(Openers)
      BY EmptySeq
    <3> QED BY <1>1, <2>2, <3>1 DEF LeavesGroup, Sockets, NoLink
  <2> QED BY <2>1, <2>2
<1>3. /\ t.state \in {"listening", "opening"} => s.state \in {"listening", "opening"}
      /\ t.noticed => s.noticed
      /\ s.state = "listening" <=> t.state = "listening"
  <2>1. CASE t = Lost(s)
    BY <1>1, <2>1 DEF Lost, Sockets
  <2>2. CASE t = LeavesGroup(s)
    BY <1>1, <2>2 DEF LeavesGroup, Sockets
  <2> QED BY <2>1, <2>2
<1>4. t.link <= m
  BY <1>2 DEF NoLink
<1> QED BY <1>2, <1>3, <1>4 DEF Fits, CanStart

LEMMA LostSocket ==
    ASSUME FlowInv, NEW h \in DOMAIN sockets, NEW t, t = Lost(sockets[h]), NEW tk, tk = [sockets EXCEPT ![h] = t]
    PROVE  SameStreams(sockets, tk) /\ Fitting(tk, made)
<1>1. /\ sockets = [g \in DOMAIN sockets |-> sockets[g]] /\ DOMAIN sockets \subseteq Handles
      /\ (\A g \in DOMAIN sockets : Fits(sockets[g], made)) /\ made \in Nat
  BY DEF FlowInv, Fitting, Counters
<1>2. Fits(t, made) /\ t.link = NoLink
  BY <1>1, LostFits
<1>3. /\ DOMAIN tk = DOMAIN sockets /\ tk[h] = t /\ (\A g \in DOMAIN tk \ {h} : tk[g] = sockets[g])
      /\ tk = [g \in DOMAIN tk |-> tk[g]]
  BY <1>1
<1>4. Fitting(tk, made)
  BY <1>1, <1>2, <1>3 DEF Fitting
<1>5. SameStreams(sockets, tk)
  BY <1>2, <1>3 DEF SameStreams
<1> QED BY <1>4, <1>5

LEMMA SocketLink ==
    ASSUME FlowInv, NEW h \in DOMAIN sockets, HasLink(h)
    PROVE  sockets[h].link \in Links /\ sockets[h].link <= made /\ made \in Nat /\ Fits(sockets[h], made)
BY DEF FlowInv, Fitting, Fits, Sockets, HasLink, Counters

LEMMA CloseStep ==
    ASSUME FlowInv, NEW h \in DOMAIN sockets, PtpClose(h)
    PROVE  FlowInv'
<1>1. PICK tk : tk = sockets'
  OBVIOUS
<1>2. tk = [g \in DOMAIN sockets \ {h} |-> sockets[g]] /\ UNCHANGED <<sessions, made>>
  BY <1>1 DEF PtpClose
<1>3. SameStreams(sockets, tk) /\ Fitting(tk, made)
  BY <1>2 DEF SameStreams, FlowInv, Fitting
<1>4. Counters'
  BY StreamsAssumption DEF PtpClose, Happens, FlowInv, Counters
<1>5. CASE ~ HasLink(h)
  BY <1>1, <1>2, <1>3, <1>4, <1>5, SocketStep DEF PtpClose
<1>6. CASE HasLink(h)
  <2>1. PICK c \in Links : c = sockets[h].link
    BY <1>6, SocketLink
  <2>2. Closed(c)
    BY <1>6, <2>1 DEF PtpClose
  <2>3. PICK r : r = [sessions |-> sessions, down |-> down']
    OBVIOUS
  <2>4. Cut(r, up') /\ \A e \in Links : e > made => down'[e] = <<>>
    BY <2>2, <2>3, ClosedCuts
  <2> QED BY <1>1, <1>2, <1>3, <1>4, <2>3, <2>4, CutStep
<1> QED BY <1>5, <1>6

LEMMA OversizedStep ==
    ASSUME FlowInv, NEW h \in DOMAIN sockets, OnOversized(h)
    PROVE  FlowInv'
<1>1. PICK tk : tk = sockets'
  OBVIOUS
<1>2. PICK t : t = Lost(sockets[h])
  OBVIOUS
<1>3. tk = [sockets EXCEPT ![h] = t] /\ UNCHANGED <<sessions, made, used, events>> /\ HasLink(h)
  BY <1>1, <1>2 DEF OnOversized, Receives
<1>4. SameStreams(sockets, tk) /\ Fitting(tk, made)
  BY <1>2, <1>3, LostSocket
<1>5. Counters'
  BY <1>3 DEF FlowInv, Counters
<1>6. PICK c \in Links : c = sockets[h].link
  BY <1>3, SocketLink
<1>7. Closed(c)
  BY <1>6 DEF OnOversized
<1>8. PICK r : r = [sessions |-> sessions, down |-> down']
  OBVIOUS
<1>9. Cut(r, up') /\ \A e \in Links : e > made => down'[e] = <<>>
  BY <1>7, <1>8, ClosedCuts
<1> QED BY <1>1, <1>3, <1>4, <1>5, <1>8, <1>9, CutStep

LEMMA GroupSockets ==
    ASSUME FlowInv, NEW mine, mine \subseteq DOMAIN sockets,
           NEW tk, tk = [h \in DOMAIN sockets |-> IF h \in mine THEN LeavesGroup(sockets[h]) ELSE sockets[h]]
    PROVE  SameStreams(sockets, tk) /\ Fitting(tk, made)
<1>1. /\ DOMAIN sockets \subseteq Handles /\ (\A g \in DOMAIN sockets : Fits(sockets[g], made)) /\ made \in Nat
  BY DEF FlowInv, Fitting, Counters
<1>2. DOMAIN tk = DOMAIN sockets /\ tk = [h \in DOMAIN tk |-> tk[h]]
  OBVIOUS
<1>3. ASSUME NEW h \in DOMAIN tk
      PROVE  Fits(tk[h], made) /\ (tk[h].link = NoLink \/ tk[h] = sockets[h])
  <2>1. CASE h \in mine
    <3>1. PICK t : t = LeavesGroup(sockets[h])
      OBVIOUS
    <3>2. tk[h] = t
      BY <1>2, <2>1, <3>1
    <3>3. Fits(t, made) /\ t.link = NoLink
      BY <1>1, <1>2, <3>1, LostFits
    <3> QED BY <3>2, <3>3
  <2>2. CASE h \notin mine
    BY <1>1, <1>2, <2>2
  <2> QED BY <2>1, <2>2
<1>4. Fitting(tk, made)
  BY <1>1, <1>2, <1>3 DEF Fitting
<1>5. SameStreams(sockets, tk)
  BY <1>2, <1>3 DEF SameStreams
<1> QED BY <1>4, <1>5

LEMMA GroupStep ==
    ASSUME FlowInv, NEW m, CloseRelayLinks(m), Counters'
    PROVE  FlowInv'
<1>1. PICK mine : mine = {h \in DOMAIN sockets : MacOf[sockets[h].name] = m}
  OBVIOUS
<1>2. PICK links : links = {sockets[h].link : h \in {h \in DOMAIN sockets : MacOf[sockets[h].name] = m}} \ {NoLink}
  OBVIOUS
<1>3. PICK tk : tk = sockets'
  OBVIOUS
<1>4. PICK vv : vv = up'
  OBVIOUS
<1>5. PICK r : r = [sessions |-> sessions, down |-> down']
  OBVIOUS
<1>6. /\ UNCHANGED <<sessions, made, used>>
      /\ tk = [h \in DOMAIN sockets |-> IF h \in mine THEN LeavesGroup(sockets[h]) ELSE sockets[h]]
      /\ r.down = [c \in Links |-> IF c \in links THEN <<>> ELSE down[c]]
      /\ r.sessions = sessions /\ DOMAIN r = {"sessions", "down"} /\ r.down = down'
  BY <1>1, <1>2, <1>3, <1>5 DEF CloseRelayLinks
<1>7. PICK sent \in [links -> 0 .. MaxSent + 1] :
        vv = [c \in Links |->
                IF c \in links /\ Alive(c)
                THEN Append(SubSeq(up[c], 1, AtMost(sent[c], Len(up[c]))), Eof) ELSE up[c]]
  BY <1>2, <1>4 DEF CloseRelayLinks
<1>8. SameStreams(sockets, tk) /\ Fitting(tk, made)
  BY <1>1, <1>6, GroupSockets
<1>9. ASSUME NEW c \in Links PROVE CutShort(r, vv, c)
  <2>1. CASE c \notin links
    BY <1>6, <1>7, <2>1 DEF CutShort
  <2>2. CASE c \in links
    <3>1. PICK q \in Seq(Requests(c, Heard(sockets))) : q = up[c]
      BY DEF FlowInv, Asked
    <3>2. PICK n : n = AtMost(sent[c], Len(q))
      OBVIOUS
    <3>3. n \in 0 .. Len(q)
      BY <1>7, <2>2, <3>2, SomeSent
    <3>4. (Alive(c) => vv[c] = Append(SubSeq(q, 1, n), Eof)) /\ (~ Alive(c) => vv[c] = up[c]) /\ r.down[c] = <<>>
      BY <1>6, <1>7, <2>2, <3>1, <3>2
    <3> QED BY <3>1, <3>3, <3>4 DEF CutShort, CutTo
  <2> QED BY <2>1, <2>2
<1>10. Cut(r, vv)
  BY <1>6, <1>7, <1>9 DEF Cut
<1>11. \A c \in Links : c > made => down'[c] = <<>>
  BY <1>6 DEF FlowInv, Unmade
<1> QED BY <1>3, <1>4, <1>5, <1>6, <1>8, <1>10, <1>11, CutStep

LEMMA MemberStep ==
    ASSUME FlowInv, NEW m \in Macs, Join(m) \/ OnConnectBssid(m) \/ JoinTimesOut(m) \/ LoseGroup(m)
    PROVE  FlowInv'
<1>1. UNCHANGED <<used, made>> /\ (UNCHANGED events \/ Happens)
  BY DEF Join, OnConnectBssid, JoinTimesOut, LoseGroup, CloseRelayLinks
<1>2. Counters'
  BY <1>1, StreamsAssumption DEF Happens, FlowInv, Counters
<1>3. CASE Join(m) \/ LoseGroup(m)
  BY <1>2, <1>3, GroupStep DEF Join, LoseGroup
<1>4. CASE OnConnectBssid(m) \/ JoinTimesOut(m)
  <2>1. UNCHANGED <<sessions, up, down, made, sockets>>
    BY <1>4 DEF OnConnectBssid, JoinTimesOut, serverVars
  <2>2. SameStreams(sockets, sockets') /\ Fitting(sockets', made)
    BY <2>1 DEF SameStreams, FlowInv
  <2> QED BY <1>2, <2>1, <2>2, SocketStep
<1> QED BY <1>3, <1>4

LEMMA FlowBreak ==
    ASSUME FlowInv, NEW h \in DOMAIN sockets, Break(h)
    PROVE  FlowInv'
<1>1. PICK c \in Links : c = sockets[h].link /\ c <= made
  BY SocketLink DEF Break
<1>2. PICK vv : vv = up'
  OBVIOUS
<1>3. PICK r : r = [sessions |-> sessions, down |-> down']
  OBVIOUS
<1>4. PICK rest \in {up[c], <<>>} : vv = [up EXCEPT ![c] = Append(rest, Eof)]
  BY <1>1, <1>2 DEF Break
<1>5. /\ r.down = [down EXCEPT ![c] = Append(down[c], Eof)]
      /\ r.sessions = sessions /\ DOMAIN r = {"sessions", "down"} /\ r.down = down'
  BY <1>1, <1>3 DEF Break
<1>6. Happens /\ UNCHANGED <<sessions, sockets, made, used>> /\ Alive(c) /\ made \in Nat
  BY <1>1 DEF Break, FlowInv, Counters
<1>7. up = [e \in Links |-> up[e]] /\ down = [e \in Links |-> down[e]]
  BY DEF FlowInv, Asked, Keeps, Typed, Relay
<1>8. /\ r.down = [e \in Links |-> r.down[e]] /\ r.down[c] = Append(down[c], Eof)
      /\ \A e \in Links \ {c} : r.down[e] = down[e]
  BY <1>5, <1>7
<1>9. vv = [e \in Links |-> vv[e]] /\ vv[c] = Append(rest, Eof) /\ \A e \in Links \ {c} : vv[e] = up[e]
  BY <1>4, <1>7
<1>10. CutShort(r, vv, c)
  <2>1. PICK q \in Seq(Requests(c, Heard(sockets))) : q = up[c]
    BY DEF FlowInv, Asked
  <2>2. CutTo(q, Append(q, Eof)) /\ CutTo(q, Append(<<>>, Eof))
    BY WholeCut
  <2>3. CutTo(up[c], vv[c])
    BY <1>4, <1>9, <2>1, <2>2
  <2> QED BY <1>6, <1>8, <2>3 DEF CutShort
<1>11. \A e \in Links : CutShort(r, vv, e)
  BY <1>8, <1>9, <1>10 DEF CutShort
<1>12. Cut(r, vv)
  BY <1>5, <1>8, <1>9, <1>11 DEF Cut
<1>13. \A e \in Links : e > made => down'[e] = <<>>
  <2>1. ASSUME NEW e \in Links, e > made PROVE e # c
    BY <1>1, <1>6, <2>1 DEF Links
  <2> QED BY <1>5, <1>8, <2>1 DEF FlowInv, Unmade
<1>14. SameStreams(sockets, sockets') /\ Fitting(sockets', made)
  BY <1>6 DEF SameStreams, FlowInv
<1>15. Counters'
  BY <1>6, StreamsAssumption DEF Happens, FlowInv, Counters
<1> QED BY <1>2, <1>3, <1>6, <1>12, <1>13, <1>14, <1>15, CutStep
-----------------------------------------------------------------------------
(* What the consoles read. *)

ReadFrom(r, c) ==
    /\ DOMAIN r = {"sessions", "down"} /\ r.sessions = sessions
    /\ down[c] # <<>> /\ r.down = [down EXCEPT ![c] = Tail(down[c])]

LEMMA ReadDown ==
    ASSUME NEW L, Asked(up, L), Typed(Relay, L), Partners(sessions), NEW c \in Links, NEW r, ReadFrom(r, c)
    PROVE  /\ Typed(r, L) /\ Itemised(r, up) /\ Itemised(Relay, up)
           /\ Head(down[c]) \in ForConsole(c, L) \union {Eof}
           /\ Coming(Relay, up, c) = <<Head(down[c])>> \o Coming(r, up, c)
           /\ \A e \in Links \ {c} : r.down[e] = down[e] /\ Coming(r, up, e) = Coming(Relay, up, e)
<1>1. Relay.sessions = sessions /\ Relay.down = down /\ r.sessions = sessions /\ Uploads(up)
  BY AskedUploads DEF ReadFrom, Relay
<1>2. PICK S : S = ForConsole(c, L) \union {Eof}
  OBVIOUS
<1>3. PICK q \in Seq(S) : q = down[c] /\ q # <<>>
  BY <1>1, <1>2 DEF Typed, ReadFrom
<1>4. Head(q) \in S /\ <<Head(q)>> \in Seq(S) /\ Tail(q) \in Seq(S) /\ q = <<Head(q)>> \o Tail(q)
  BY <1>3, TailFacts
<1>5. PICK t \in Seq(S) : t = Tail(q)
  BY <1>4
<1>6. down = [e \in Links |-> down[e]] /\ r.down = [down EXCEPT ![c] = t]
  BY <1>1, <1>3, <1>5 DEF Typed, ReadFrom
<1>7. r.down = [e \in Links |-> r.down[e]] /\ r.down[c] = t /\ \A e \in Links \ {c} : r.down[e] = down[e]
  BY <1>6
<1>8. Typed(r, L)
  <2>1. \A e \in Links : r.down[e] \in Seq(ForConsole(e, L) \union {Eof})
    BY <1>1, <1>2, <1>7 DEF Typed
  <2>2. /\ \A e \in DOMAIN sessions : IsLink(sessions[e], e, L)
        /\ AreLinks(sessions)
    BY <1>1 DEF Typed, IsState
  <2> QED BY <1>1, <1>7, <2>1, <2>2 DEF Typed, IsState, ReadFrom
<1>9. Itemised(r, up) /\ Itemised(Relay, up)
  BY <1>1, <1>8, TypedItemised
<1>10. \A e \in Links \ {c} : Coming(r, up, e) = Coming(Relay, up, e)
  BY <1>1, <1>7 DEF Coming
<1>11. Coming(Relay, up, c) = <<Head(q)>> \o Coming(r, up, c)
  <2>1. PICK w \in Seq(Items) : w = Passing(sessions, up, c)
    BY <1>1, TypedItems
  <2>2. S \subseteq Items
    BY <1>2, ForItems, ItemTypes
  <2>3. PICK a \in Seq(Items) : a = <<Head(q)>>
    BY <1>4, <2>2, SeqMonotonic
  <2>4. t \in Seq(Items) /\ q = a \o t
    BY <1>4, <1>5, <2>2, <2>3, SeqMonotonic
  <2>5. (a \o t) \o w = a \o (t \o w)
    BY <2>4, ItemsConcat
  <2>6. Coming(Relay, up, c) = q \o w /\ Coming(r, up, c) = t \o w
    BY <1>1, <1>3, <1>7, <2>1 DEF Coming
  <2> QED BY <2>3, <2>4, <2>5, <2>6
<1> QED BY <1>2, <1>3, <1>4, <1>7, <1>8, <1>9, <1>10, <1>11

(* A socket that has taken over what was first for it. *)
TakenOver(sk, tk, h, r, c) ==
    /\ DOMAIN tk = DOMAIN sk /\ \A g \in DOMAIN sk \ {h} : tk[g] = sk[g]
    /\ sk[h].link = c /\ tk[h].link = c /\ tk[h].kind = sk[h].kind /\ tk[h].sent = sk[h].sent
    /\ Lags(Flow(sk, Relay, up, h), Flow(tk, r, up, h))
    /\ ~ tk[h].noticed => /\ Starts(Flow(tk, r, up, h))
                          /\ IsPaired(r, up, c) => Flow(tk, r, up, h) # <<>>

LEMMA ReadFlows ==
    ASSUME NEW sk, NEW L, Asked(up, L), Keeps(sk, L, Relay, up), Apart(sk), Streams(sk), NEW c \in Links,
           NEW r, ReadFrom(r, c), NEW h \in DOMAIN sk, NEW tk, TakenOver(sk, tk, h, r, c)
    PROVE  Keeps(tk, L, r, up)
<1>1. /\ Typed(Relay, L) /\ Partners(sessions) /\ Relay.sessions = sessions /\ r.sessions = sessions
      /\ SendsRuns(Relay, up) /\ ReadsRuns(sk, Relay, up) /\ SendsLast(sk, Relay, up)
  BY DEF Keeps, Flows, Relay, ReadFrom
<1>2. Typed(r, L) /\ \A e \in Links \ {c} : Coming(r, up, e) = Coming(Relay, up, e)
  BY <1>1, ReadDown
<1>3. c # NoLink /\ NoLink \notin DOMAIN sessions
  BY <1>1 DEF Links, NoLink, Typed, IsState, AreLinks
<1>4. /\ DOMAIN tk = DOMAIN sk /\ (\A g \in DOMAIN sk \ {h} : tk[g] = sk[g])
      /\ sk[h].link = c /\ tk[h].link = c /\ tk[h].kind = sk[h].kind /\ tk[h].sent = sk[h].sent
      /\ Lags(Flow(sk, Relay, up, h), Flow(tk, r, up, h))
      /\ ~ tk[h].noticed => /\ Starts(Flow(tk, r, up, h))
                            /\ IsPaired(r, up, c) => Flow(tk, r, up, h) # <<>>
  BY DEF TakenOver
<1>5. ASSUME NEW g \in DOMAIN sk, g # h, sk[g].link # NoLink
      PROVE  Flow(tk, r, up, g) = Flow(sk, Relay, up, g)
  <2>1. sk[g].link \in Links /\ sk[g].link # c
    BY <1>4, <1>5, StreamTypes DEF Apart
  <2> QED BY <1>2, <1>4, <1>5, <2>1 DEF Flow
<1>6. SendsRuns(r, up)
  BY <1>1 DEF SendsRuns
<1>7. ReadsRuns(tk, r, up)
  <2> SUFFICES ASSUME NEW g \in DOMAIN tk, tk[g].link # NoLink PROVE ReadsRun(tk, r, up, g)
    BY DEF ReadsRuns
  <2>1. CASE g = h
    <3>1. RunIn(Flow(sk, Relay, up, h))
      BY <1>1, <1>3, <1>4 DEF ReadsRuns, ReadsRun
    <3>2. RunIn(Flow(tk, r, up, h))
      BY <1>4, <3>1 DEF Lags
    <3> QED BY <1>4, <2>1, <3>2 DEF ReadsRun
  <2>2. CASE g # h
    <3>1. g \in DOMAIN sk /\ tk[g] = sk[g] /\ ReadsRun(sk, Relay, up, g)
      BY <1>1, <1>4, <2>2 DEF ReadsRuns
    <3>2. Flow(tk, r, up, g) = Flow(sk, Relay, up, g)
      BY <1>5, <2>2, <3>1
    <3>3. IsPaired(r, up, tk[g].link) <=> IsPaired(Relay, up, sk[g].link)
      BY <1>1, <3>1 DEF IsPaired
    <3> QED BY <3>1, <3>2, <3>3 DEF ReadsRun
  <2> QED BY <2>1, <2>2
<1>8. SendsLast(tk, r, up)
  <2> SUFFICES ASSUME NEW g \in DOMAIN tk, CanSend(tk, r, up, g)
               PROVE  /\ EndsAt(Sends(r.sessions, up, tk[g].link), Block(g, tk[g].sent))
                      /\ \A x \in DOMAIN tk : Reader(tk, r, up, g, x) =>
                            EndsAt(Flow(tk, r, up, x), Block(g, tk[g].sent))
    BY DEF SendsLast
  <2>1. g \in DOMAIN sk /\ tk[g].link = sk[g].link /\ tk[g].sent = sk[g].sent
    BY <1>4
  <2>2. CanSend(sk, Relay, up, g)
    BY <1>1, <2>1 DEF CanSend
  <2>3. /\ EndsAt(Sends(sessions, up, sk[g].link), Block(g, sk[g].sent))
        /\ \A x \in DOMAIN sk : Reader(sk, Relay, up, g, x) => EndsAt(Flow(sk, Relay, up, x), Block(g, sk[g].sent))
    BY <1>1, <2>1, <2>2 DEF SendsLast
  <2>4. ASSUME NEW x \in DOMAIN tk, Reader(tk, r, up, g, x)
        PROVE  EndsAt(Flow(tk, r, up, x), Block(g, tk[g].sent))
    <3>1. x \in DOMAIN sk /\ tk[x].link = sk[x].link /\ sk[x].link # NoLink
      BY <1>4, <2>4 DEF Reader
    <3>2. Reader(sk, Relay, up, g, x)
      BY <1>1, <2>1, <2>4, <3>1 DEF Reader
    <3>3. EndsAt(Flow(sk, Relay, up, x), Block(g, sk[g].sent))
      BY <2>3, <3>1, <3>2
    <3>4. CASE x = h
      BY <1>4, <2>1, <3>3, <3>4 DEF Lags
    <3>5. CASE x # h
      BY <1>5, <2>1, <3>1, <3>3, <3>5
    <3> QED BY <3>4, <3>5
  <2> QED BY <1>1, <2>1, <2>3, <2>4
<1> QED BY <1>1, <1>2, <1>6, <1>7, <1>8 DEF Keeps, Flows

(* A socket that has left its link: nobody is told what comes for it. *)
LEMMA UnreadKeeps ==
    ASSUME NEW tk, Streams(tk), NEW L, Asked(up, L), Keeps(tk, L, Relay, up), NEW c \in Links,
           \A g \in DOMAIN tk : tk[g].link # c, NEW r, ReadFrom(r, c)
    PROVE  Keeps(tk, L, r, up)
<1>1. /\ Typed(Relay, L) /\ Partners(sessions) /\ Flows(tk, Relay, up) /\ Relay.sessions = sessions
      /\ r.sessions = sessions
  BY DEF Keeps, Relay, ReadFrom
<1>2. /\ Typed(r, L) /\ Itemised(r, up) /\ Itemised(Relay, up)
      /\ \A e \in Links \ {c} : Coming(r, up, e) = Coming(Relay, up, e)
  BY <1>1, ReadDown
<1>3. AreLinks(sessions)
  BY <1>1 DEF Typed, IsState
<1>4. \A e \in DOMAIN sessions : CarriedLink(sessions, up, sessions, up, e)
  BY OthersCarried
<1>5. \A h \in DOMAIN tk : tk[h].link # NoLink => CarriedFlow(Relay, up, r, up, tk[h].link)
  BY <1>2, StreamTypes, SameFlowCarried
<1>6. Carried(tk, Relay, up, r, up)
  BY <1>1, <1>4, <1>5 DEF Carried
<1> QED BY <1>1, <1>2, <1>3, <1>6, CarriedFlows DEF Keeps

(* What the socket s of the link c has to come in r. *)
Reading(s, r, c) == s.received \o Coming(r, up, c)

LEMMA ReceivedStep ==
    ASSUME FlowInv, NEW h \in DOMAIN sockets, NEW c \in Links, c = sockets[h].link, down[c] # <<>>,
           NEW t, Received(h, t), Fits(t, made), t.link = c, t.kind = sockets[h].kind, t.sent = sockets[h].sent,
           NEW r, r = [sessions |-> sessions, down |-> down'],
           Lags(Reading(sockets[h], Relay, c), Reading(t, r, c)),
           ~ t.noticed => Starts(Reading(t, r, c)) /\ (IsPaired(r, up, c) => Reading(t, r, c) # <<>>)
    PROVE  FlowInv'
<1>1. PICK tk : tk = sockets'
  OBVIOUS
<1>2. tk = [sockets EXCEPT ![h] = t] /\ UNCHANGED <<sessions, up, used, made, events>>
  BY <1>1 DEF Received
<1>3. sockets = [g \in DOMAIN sockets |-> sockets[g]] /\ DOMAIN sockets \subseteq Handles
      /\ \A g \in DOMAIN sockets : Fits(sockets[g], made)
  BY DEF FlowInv, Fitting
<1>4. /\ DOMAIN tk = DOMAIN sockets /\ tk[h] = t /\ (\A g \in DOMAIN sockets \ {h} : tk[g] = sockets[g])
      /\ tk = [g \in DOMAIN tk |-> tk[g]]
  BY <1>2, <1>3
<1>5. Fitting(tk, made')
  BY <1>2, <1>3, <1>4 DEF Fitting
<1>6. Apart(tk) /\ Heard(tk) = Heard(sockets)
  <2>1. \A g \in DOMAIN sockets : tk[g].link = sockets[g].link /\ tk[g].kind = sockets[g].kind
    BY <1>4
  <2>2. Apart(tk)
    BY <1>4, <2>1 DEF FlowInv, Apart
  <2>3. Heard(tk) = Heard(sockets)
    BY <1>4, <2>1 DEF Heard
  <2> QED BY <2>2, <2>3
<1>7. ReadFrom(r, c) /\ Become(r)
  BY <1>2 DEF ReadFrom, Become, Received
<1>8. TakenOver(sockets, tk, h, r, c)
  <2>1. Flow(sockets, Relay, up, h) = Reading(sockets[h], Relay, c) /\ Flow(tk, r, up, h) = Reading(t, r, c)
    BY <1>4 DEF Flow, Reading
  <2> QED BY <1>4, <2>1 DEF TakenOver
<1>9. Keeps(tk, Heard(tk), r, up)
  <2>1. Streams(sockets)
    BY FitStreams DEF FlowInv
  <2> QED BY <1>6, <1>7, <1>8, <2>1, ReadFlows DEF FlowInv
<1>10. Asked(up, Heard(tk)) /\ Counters' /\ up = up'
  BY <1>2, <1>6 DEF FlowInv, Counters
<1>11. Unmade'
  <2>1. Unmade /\ down = [e \in Links |-> down[e]]
    BY DEF FlowInv, Keeps, Typed, Relay
  <2>2. c <= made
    BY <1>3 DEF Fits
  <2>3. ASSUME NEW e \in Links, e > made PROVE down'[e] = <<>>
    <3>1. e # c
      BY <2>2, <2>3 DEF Links, FlowInv, Counters
    <3>2. down'[e] = down[e]
      BY <2>1, <3>1 DEF Received
    <3> QED BY <2>1, <2>3, <3>2 DEF Unmade
  <2> QED BY <1>2, <2>3 DEF Unmade
<1> QED BY <1>1, <1>5, <1>6, <1>7, <1>9, <1>10, <1>11, FlowStep

(* The item a socket receives is first of what comes for it. *)
FirstOf(s, r, c, i, a, w) ==
    /\ c \in Links /\ s.link = c /\ down[c] # <<>> /\ i = Head(down[c]) /\ ReadFrom(r, c) /\ Fits(s, made)
    /\ a = s.received /\ w = Coming(r, up, c) /\ i \in ForConsole(c, Heard(sockets)) \union {Eof} /\ i \in Items
    /\ Reading(s, Relay, c) = a \o (<<i>> \o w) /\ RunIn(a \o (<<i>> \o w))
    /\ ~ s.noticed => Starts(a \o (<<i>> \o w))
    /\ Typed(r, Heard(sockets)) /\ Partners(sessions)

LEMMA ReceiveFacts ==
    ASSUME FlowInv, NEW h \in DOMAIN sockets, NEW op, Receives(h, op), NEW d,
           d = [down EXCEPT ![sockets[h].link] = Tail(@)], NEW r, r = [sessions |-> sessions, down |-> d]
    PROVE  /\ Item(h).op = op
           /\ \E a, w \in Seq(Items) : FirstOf(sockets[h], r, sockets[h].link, Item(h), a, w)
<1>1. PICK s : s = sockets[h]
  OBVIOUS
<1>2. PICK c \in Links : c = s.link
  BY <1>1, SocketLink DEF Receives
<1>3. PICK i : i = Item(h)
  OBVIOUS
<1>4. i = Head(down[c]) /\ i.op = op /\ down[c] # <<>>
  BY <1>1, <1>2, <1>3 DEF Receives, Item
<1>5. ReadFrom(r, c)
  BY <1>1, <1>2, <1>4 DEF ReadFrom
<1>6. /\ Typed(Relay, Heard(sockets)) /\ Partners(sessions) /\ Asked(up, Heard(sockets))
      /\ ReadsRuns(sockets, Relay, up)
  BY DEF FlowInv, Keeps, Flows, Relay
<1>7. /\ Typed(r, Heard(sockets)) /\ Itemised(r, up) /\ i \in ForConsole(c, Heard(sockets)) \union {Eof}
      /\ Coming(Relay, up, c) = <<i>> \o Coming(r, up, c)
  BY <1>4, <1>5, <1>6, ReadDown
<1>8. i \in Items
  BY <1>7, ForItems, ItemTypes
<1>9. PICK w \in Seq(Items) : w = Coming(r, up, c)
  BY <1>7 DEF Itemised
<1>10. Fits(s, made) /\ s.link # NoLink
  BY <1>1, SocketLink DEF Receives, HasLink
<1>11. PICK a \in Seq(Items) : a = s.received
  BY <1>1, FitStreams, StreamTypes DEF FlowInv
<1>12. Reading(s, Relay, c) = a \o (<<i>> \o w) /\ Flow(sockets, Relay, up, h) = a \o (<<i>> \o w)
  BY <1>1, <1>2, <1>7, <1>9, <1>11 DEF Reading, Flow
<1>13. RunIn(a \o (<<i>> \o w)) /\ (~ s.noticed => Starts(a \o (<<i>> \o w)))
  <2>1. ReadsRun(sockets, Relay, up, h)
    BY <1>1, <1>6, <1>10 DEF ReadsRuns
  <2> QED BY <1>1, <1>12, <2>1 DEF ReadsRun
<1>14. FirstOf(s, r, c, i, a, w)
  BY <1>2, <1>4, <1>5, <1>6, <1>7, <1>8, <1>9, <1>10, <1>11, <1>12, <1>13 DEF FirstOf
<1> QED BY <1>1, <1>2, <1>3, <1>4, <1>14

(* Nothing but notices comes for a listening socket. *)
LEMMA ListenComing ==
    ASSUME NEW st, NEW L, Typed(st, L), Partners(st.sessions), NEW c \in L, c \in Links, NEW uu
    PROVE  Starts(Coming(st, uu, c)) /\ ~ IsPaired(st, uu, c)
<1>1. PICK S : S = ForConsole(c, L) \union {Eof}
  OBVIOUS
<1>2. \A i \in S : i \notin Blocks
  BY <1>1, ItemTypes DEF ForConsole
<1>3. c \in DOMAIN st.sessions =>
        /\ st.sessions[c].partner = NoLink /\ st.sessions[c].out \in Seq(S)
  <2> SUFFICES ASSUME c \in DOMAIN st.sessions
               PROVE  st.sessions[c].partner = NoLink /\ st.sessions[c].out \in Seq(S)
    OBVIOUS
  <2>1. IsLink(st.sessions[c], c, L)
    BY DEF Typed
  <2>2. st.sessions[c].out \in Seq(S)
    BY <1>1, <2>1, SeqMonotonic DEF IsLink
  <2>3. st.sessions[c].partner = NoLink
    BY <2>1 DEF IsLink, Partners, Ends
  <2> QED BY <2>2, <2>3
<1>4. PICK p \in Seq(S) : p = Passing(st.sessions, uu, c)
  <2>1. <<>> \in Seq(S)
    BY EmptySeq
  <2> QED BY <1>3, <2>1 DEF Passing
<1>5. PICK d \in Seq(S) : d = st.down[c]
  BY <1>1 DEF Typed
<1>6. Coming(st, uu, c) = d \o p
  BY <1>4, <1>5 DEF Coming
<1>7. Starts(d \o p)
  <2>1. PICK q \in Seq(S) : q = d \o p
    BY ConcatProperties
  <2>2. q # <<>> => q[1] \in S
    BY TailFacts
  <2> QED BY <1>2, <2>1, <2>2 DEF Starts
<1>8. ~ IsPaired(st, uu, c)
  BY <1>3 DEF IsPaired
<1> QED BY <1>6, <1>7, <1>8

LEMMA FirstHead ==
    ASSUME NEW a \in Seq(Items), NEW w \in Seq(Items), NEW i \in Items
    PROVE  /\ <<i>> \o w \in Seq(Items) /\ Append(a, i) \o w = a \o (<<i>> \o w)
           /\ a = <<>> => Lags(a \o (<<i>> \o w), a \o w) /\ a \o w = w
           /\ Starts(a \o (<<i>> \o w)) /\ a \in Seq(Blocks) => a = <<>> /\ i \notin Blocks
<1>1. PICK x \in Seq(Items) : x = <<i>>
  <2>1. <<i>> \in Seq(Items)
    BY EmptySeq, AppendProperties
  <2> QED BY <2>1
<1>2. Len(x) = 1 /\ x[1] = i /\ x # <<>> /\ DOMAIN x = {1}
  BY <1>1
<1>3. PICK v \in Seq(Items) : v = x \o w
  BY ItemsConcat
<1>4. v # <<>> /\ v[1] = i
  <2>1. \A j \in DOMAIN x : v[j] = x[j]
    BY <1>3, ConcatFacts
  <2>2. x # <<>> => v # <<>>
    BY <1>3, ConcatProperties, EmptySeq
  <2> QED BY <1>2, <2>1, <2>2
<1>5. Append(a, i) = a \o x
  BY <1>1, AppendIsConcat
<1>6. Append(a, i) \o w = a \o v
  BY <1>3, <1>5, ItemsConcat
<1>7. Lags(v, w)
  BY <1>3, LagsPart
<1>8. a = <<>> => a \o v = v /\ a \o w = w
  BY ConcatEmptySeq
<1>9. Starts(a \o v) /\ a \in Seq(Blocks) => a = <<>> /\ i \notin Blocks
  <2> SUFFICES ASSUME Starts(a \o v), a \in Seq(Blocks) PROVE a = <<>> /\ i \notin Blocks
    OBVIOUS
  <2>1. a = <<>>
    <3> SUFFICES ASSUME a # <<>> PROVE FALSE
      OBVIOUS
    <3>1. Starts(a)
      BY EndsOfConcat
    <3>2. a[1] \in Blocks
      BY TailFacts
    <3> QED BY <3>1, <3>2 DEF Starts
  <2>2. a \o v = v
    BY <1>8, <2>1
  <2> QED BY <1>4, <2>1, <2>2 DEF Starts
<1> QED BY <1>1, <1>3, <1>4, <1>6, <1>7, <1>8, <1>9

LEMMA RequestStep ==
    ASSUME FlowInv, NEW h \in DOMAIN sockets, OnRequest(h)
    PROVE  FlowInv'
<1>1. PICK s : s = sockets[h]
  OBVIOUS
<1>2. PICK c : c = s.link
  OBVIOUS
<1>3. PICK i : i = Item(h)
  OBVIOUS
<1>4. PICK t : t = IF Len(s.backlog) < Backlog THEN [s EXCEPT !.backlog = Append(s.backlog, i.name)] ELSE s
  OBVIOUS
<1>5. Receives(h, "notice") /\ s.kind = "listen" /\ Received(h, t) /\ down' = [down EXCEPT ![sockets[h].link] = Tail(@)]
  BY <1>1, <1>3, <1>4 DEF OnRequest, Received
<1>6. PICK r : r = [sessions |-> sessions, down |-> down']
  OBVIOUS
<1>7. i.op = "notice" /\ \E a, w \in Seq(Items) : FirstOf(s, r, c, i, a, w)
  BY <1>1, <1>2, <1>3, <1>5, <1>6, ReceiveFacts
<1>8. PICK a, w \in Seq(Items) : FirstOf(s, r, c, i, a, w)
  BY <1>7
<1>9. /\ c \in Links /\ s.link = c /\ down[c] # <<>> /\ Fits(s, made) /\ s \in Sockets
      /\ a = s.received /\ w = Coming(r, up, c) /\ i \in ForConsole(c, Heard(sockets)) \union {Eof} /\ i \in Items
      /\ Reading(s, Relay, c) = a \o (<<i>> \o w) /\ Typed(r, Heard(sockets)) /\ Partners(sessions)
  BY <1>8 DEF FirstOf, Fits
<1>10. a = <<>>
  BY <1>5, <1>9 DEF Fits, CanStart
<1>11. c \in Heard(sockets)
  BY <1>1, <1>2, <1>5, <1>9 DEF Heard, Links, NoLink
<1>12. i.name \in Openers
  BY <1>7, <1>9, <1>11 DEF ForConsole, Notice, Eof
<1>13. t.link = c /\ t.kind = s.kind /\ t.sent = s.sent /\ t.received = s.received /\ t.noticed = s.noticed
       /\ t.state = s.state /\ t.pending = s.pending /\ t.name = s.name /\ t \in Sockets
  <2>1. s.backlog \in Seq(Openers)
    BY <1>9 DEF Sockets
  <2>2. Append(s.backlog, i.name) \in Seq(Openers)
    BY <1>12, <2>1, AppendProperties
  <2> QED BY <1>4, <1>9, <2>2 DEF Sockets
<1>14. Fits(t, made)
  BY <1>9, <1>13 DEF Fits, CanStart
<1>15. Lags(a \o (<<i>> \o w), a \o w) /\ a \o w = w
  <2>1. i \in Items /\ a = <<>>
    BY <1>9, <1>10
  <2> QED BY <2>1, FirstHead
<1>16. Lags(Reading(s, Relay, c), Reading(t, r, c)) /\ Reading(t, r, c) = w
  BY <1>9, <1>13, <1>15 DEF Reading
<1>17. Starts(w) /\ ~ IsPaired(r, up, c)
  BY <1>6, <1>9, <1>11, ListenComing
<1> QED BY <1>1, <1>2, <1>5, <1>6, <1>9, <1>13, <1>14, <1>16, <1>17, ReceivedStep

LEMMA EstablishedStep ==
    ASSUME FlowInv, NEW h \in DOMAIN sockets, OnEstablished(h)
    PROVE  FlowInv'
<1>1. PICK s : s = sockets[h]
  OBVIOUS
<1>2. PICK c : c = s.link
  OBVIOUS
<1>3. PICK i : i = Item(h)
  OBVIOUS
<1>4. PICK t : t = [s EXCEPT !.noticed = TRUE, !.state = IF @ = "opening" THEN "established" ELSE @]
  OBVIOUS
<1>5. Receives(h, "notice") /\ s.kind # "listen" /\ ~ s.noticed /\ Received(h, t)
      /\ down' = [down EXCEPT ![sockets[h].link] = Tail(@)]
  BY <1>1, <1>3, <1>4 DEF OnEstablished, Received
<1>6. PICK r : r = [sessions |-> sessions, down |-> down']
  OBVIOUS
<1>7. i.op = "notice" /\ \E a, w \in Seq(Items) : FirstOf(s, r, c, i, a, w)
  BY <1>1, <1>2, <1>3, <1>5, <1>6, ReceiveFacts
<1>8. PICK a, w \in Seq(Items) : FirstOf(s, r, c, i, a, w)
  BY <1>7
<1>9. /\ c \in Links /\ s.link = c /\ down[c] # <<>> /\ Fits(s, made) /\ s \in Sockets
      /\ a = s.received /\ w = Coming(r, up, c) /\ i \in Items
      /\ Reading(s, Relay, c) = a \o (<<i>> \o w) /\ Starts(a \o (<<i>> \o w))
  BY <1>5, <1>8 DEF FirstOf, Fits
<1>10. a = <<>>
  <2>1. a \in Seq(Blocks)
    BY <1>9 DEF Sockets
  <2> QED BY <1>9, <2>1, FirstHead
<1>11. t.link = c /\ t.kind = s.kind /\ t.sent = s.sent /\ t.received = s.received /\ t.noticed
       /\ t.pending = s.pending /\ t.name = s.name /\ t \in Sockets
       /\ t.state # "opening" /\ (t.state = "listening" <=> s.state = "listening")
  BY <1>4, <1>9 DEF Sockets
<1>12. ~ CanStart(t)
  <2>1. ~ s.pending
    BY <1>9 DEF Fits, Links, NoLink
  <2>2. t.state # "listening"
    BY <1>5, <1>9, <1>11 DEF Fits
  <2> QED BY <1>11, <2>1, <2>2 DEF CanStart
<1>13. Fits(t, made)
  BY <1>5, <1>9, <1>11, <1>12 DEF Fits
<1>14. Lags(a \o (<<i>> \o w), a \o w)
  <2>1. i \in Items /\ a = <<>>
    BY <1>9, <1>10
  <2> QED BY <2>1, FirstHead
<1>15. Lags(Reading(s, Relay, c), Reading(t, r, c))
  BY <1>9, <1>11, <1>14 DEF Reading
<1> QED BY <1>1, <1>2, <1>5, <1>6, <1>9, <1>11, <1>13, <1>15, ReceivedStep

LEMMA BlockStep ==
    ASSUME FlowInv, NEW h \in DOMAIN sockets, OnBlock(h)
    PROVE  FlowInv'
<1>1. PICK s : s = sockets[h]
  OBVIOUS
<1>2. PICK c : c = s.link
  OBVIOUS
<1>3. PICK i : i = Item(h)
  OBVIOUS
<1>4. PICK t : t = [s EXCEPT !.received = Append(s.received, i)]
  OBVIOUS
<1>5. Receives(h, "block") /\ Received(h, t) /\ down' = [down EXCEPT ![sockets[h].link] = Tail(@)]
  BY <1>1, <1>3, <1>4 DEF OnBlock, Received
<1>6. PICK r : r = [sessions |-> sessions, down |-> down']
  OBVIOUS
<1>7. i.op = "block" /\ \E a, w \in Seq(Items) : FirstOf(s, r, c, i, a, w)
  BY <1>1, <1>2, <1>3, <1>5, <1>6, ReceiveFacts
<1>8. PICK a, w \in Seq(Items) : FirstOf(s, r, c, i, a, w)
  BY <1>7
<1>9. /\ c \in Links /\ s.link = c /\ down[c] # <<>> /\ Fits(s, made) /\ s \in Sockets
      /\ a = s.received /\ w = Coming(r, up, c) /\ i \in ForConsole(c, Heard(sockets)) \union {Eof} /\ i \in Items
      /\ Reading(s, Relay, c) = a \o (<<i>> \o w) /\ RunIn(a \o (<<i>> \o w))
      /\ ~ s.noticed => Starts(a \o (<<i>> \o w))
  BY <1>8 DEF FirstOf, Fits
<1>10. i \in Blocks
  <2>1. i \in Blocks \union Notices \union {Eof}
    BY <1>9, ForItems
  <2> QED BY <1>7, <2>1 DEF Notices, Notice, Eof
<1>11. a \in Seq(Blocks) /\ Append(a, i) \in Seq(Blocks)
  <2>1. a \in Seq(Blocks)
    BY <1>9 DEF Sockets
  <2> QED BY <1>10, <2>1, AppendProperties
<1>12. s.noticed
  BY <1>9, <1>10, <1>11, FirstHead
<1>13. t.link = c /\ t.kind = s.kind /\ t.sent = s.sent /\ t.received = Append(a, i) /\ t.noticed
       /\ t.pending = s.pending /\ t.name = s.name /\ t.state = s.state /\ t \in Sockets
  BY <1>4, <1>9, <1>11, <1>12 DEF Sockets
<1>14. PICK q \in Seq(Items) : q = Append(a, i)
  BY <1>9, AppendProperties
<1>15. Append(a, i) \o w = a \o (<<i>> \o w)
  <2>1. i \in Items
    BY <1>9
  <2> QED BY <2>1, FirstHead
<1>16. RunIn(q)
  <2>1. RunIn(q \o w)
    BY <1>9, <1>14, <1>15
  <2> QED BY <2>1, RunParts
<1>17. Fits(t, made)
  BY <1>9, <1>12, <1>13, <1>14, <1>16 DEF Fits, CanStart
<1>18. Lags(Reading(s, Relay, c), Reading(t, r, c))
  <2>1. Reading(t, r, c) = Reading(s, Relay, c)
    BY <1>9, <1>13, <1>15 DEF Reading
  <2> QED BY <2>1 DEF Lags
<1> QED BY <1>1, <1>2, <1>5, <1>6, <1>9, <1>13, <1>17, <1>18, ReceivedStep

LEMMA EofStep ==
    ASSUME FlowInv, NEW h \in DOMAIN sockets, OnEof(h)
    PROVE  FlowInv'
<1>1. PICK t : t = Lost(sockets[h])
  OBVIOUS
<1>2. PICK tk : tk = sockets'
  OBVIOUS
<1>3. PICK r : r = [sessions |-> sessions, down |-> down']
  OBVIOUS
<1>4. /\ Receives(h, "eof") /\ HasLink(h) /\ tk = [sockets EXCEPT ![h] = t]
      /\ down' = [down EXCEPT ![sockets[h].link] = Tail(@)] /\ UNCHANGED <<sessions, up, used, made, events>>
  BY <1>1, <1>2 DEF OnEof, Received, Receives
<1>5. PICK c \in Links : c = sockets[h].link
  BY <1>4, SocketLink
<1>6. SameStreams(sockets, tk) /\ Fitting(tk, made')
  BY <1>1, <1>4, LostSocket
<1>7. Keeps(tk, Heard(tk), Relay, up) /\ Asked(up, Heard(tk))
  BY <1>6, SameKeeps DEF FlowInv
<1>8. Apart(tk) /\ Streams(tk)
  BY <1>4, <1>6, SameHeard, FitStreams DEF FlowInv
<1>9. \A g \in DOMAIN tk : tk[g].link # c
  <2> SUFFICES ASSUME NEW g \in DOMAIN tk, tk[g].link = c PROVE FALSE
    OBVIOUS
  <2>1. c # NoLink /\ g \in DOMAIN sockets /\ sockets[g].link = c
    BY <1>6 DEF Links, NoLink, SameStreams
  <2>2. g = h
    BY <1>5, <2>1 DEF FlowInv, Apart
  <2>3. t.link = NoLink
    BY <1>1, SocketLink, <1>4, LostFits
  <2> QED BY <1>4, <2>1, <2>2, <2>3
<1>10. ReadFrom(r, c) /\ Become(r)
  BY <1>3, <1>4, <1>5 DEF ReadFrom, Become, Receives
<1>11. Keeps(tk, Heard(tk), r, up)
  BY <1>7, <1>8, <1>9, <1>10, UnreadKeeps
<1>12. Counters' /\ up = up'
  BY <1>4 DEF FlowInv, Counters
<1>13. Unmade'
  <2>1. Unmade /\ down = [e \in Links |-> down[e]] /\ c <= made /\ made \in Nat
    BY <1>4, <1>5, SocketLink DEF FlowInv, Keeps, Typed, Relay
  <2>2. ASSUME NEW e \in Links, e > made PROVE down'[e] = <<>>
    <3>1. e # c
      BY <2>1, <2>2 DEF Links
    <3> QED BY <1>4, <1>5, <2>1, <2>2, <3>1 DEF Unmade
  <2> QED BY <1>4, <2>2 DEF Unmade
<1> QED BY <1>2, <1>6, <1>7, <1>8, <1>10, <1>11, <1>12, <1>13, FlowStep
-----------------------------------------------------------------------------
(* What the games send. *)

Passes(e, c) == e \in DOMAIN sessions /\ ~ EndedIn(up, e) /\ sessions[e].partner = c
Longer(q, b) == q \in Seq(Items) /\ b \in Items /\ Append(q, b) \in Seq(Items)
SentOn(vv, c, b) ==
    /\ vv = [e \in Links |-> vv[e]] /\ vv[c] = Append(up[c], b) /\ \A e \in Links \ {c} : vv[e] = up[e]
    /\ \A e \in Links : EndedIn(vv, e) <=> EndedIn(up, e)
    /\ up[c] # <<>> => vv[c] # <<>> /\ vv[c][1] = up[c][1]
    /\ Sends(sessions, vv, c) = Append(Sends(sessions, up, c), b) /\ Sends(sessions, up, c) \in Seq(Items)
    /\ \A e \in DOMAIN sessions \ {c} : Sends(sessions, vv, e) = Sends(sessions, up, e)
    /\ \A e \in Links : Coming(Relay, up, e) \in Seq(Items)
    /\ \A e \in Links : Passes(e, c) => Coming(Relay, vv, e) = Append(Coming(Relay, up, e), b)
    /\ \A e \in Links : ~ Passes(e, c) => Coming(Relay, vv, e) = Coming(Relay, up, e)

LEMMA SendComing ==
    ASSUME NEW L, Asked(up, L), Typed(Relay, L), Partners(sessions), NEW c \in DOMAIN sessions,
           ~ EndedIn(up, c), NEW b \in Blocks, NEW vv, vv = [up EXCEPT ![c] = Append(up[c], b)]
    PROVE  SentOn(vv, c, b)
<1>1. /\ Relay.sessions = sessions /\ Relay.down = down /\ Uploads(up) /\ up = [e \in Links |-> up[e]]
      /\ DOMAIN sessions \subseteq Links /\ NoLink \notin Links /\ b \in Items /\ b # Eof
  <2>1. b \in Items /\ b # Eof
    BY ItemTypes
  <2>2. DOMAIN sessions \subseteq Links /\ NoLink \notin Links
    BY DEF Relay, Typed, IsState, AreLinks, Links, NoLink
  <2> QED BY <2>1, <2>2, AskedUploads DEF Relay, Asked
<1>2. vv = [e \in Links |-> vv[e]] /\ vv[c] = Append(up[c], b) /\ \A e \in Links \ {c} : vv[e] = up[e]
  BY <1>1
<1>3. PICK q \in Seq(Items) : q = up[c]
  BY <1>1 DEF Uploads
<1>4. PICK t \in Seq(Items) : t = Append(q, b)
  BY <1>1, AppendProperties
<1>5. /\ Len(q) \in Nat /\ DOMAIN q = 1 .. Len(q) /\ DOMAIN t = 1 .. Len(q) + 1 /\ t[Len(q) + 1] = b
      /\ \A j \in DOMAIN q : t[j] = q[j]
  BY <1>1, <1>4, AppendFacts
<1>6. ~ EndedIn(vv, c)
  <2>1. \A j \in DOMAIN q : q[j] # Eof
    BY <1>3 DEF EndedIn
  <2>2. \A j \in DOMAIN t : t[j] # Eof
    BY <1>1, <1>5, <2>1
  <2> QED BY <1>2, <1>3, <1>4, <2>2 DEF EndedIn
<1>7. \A e \in Links : EndedIn(vv, e) <=> EndedIn(up, e)
  BY <1>2, <1>6 DEF EndedIn
<1>8. up[c] # <<>> => vv[c] # <<>> /\ vv[c][1] = up[c][1]
  <2>1. q # <<>> => 1 \in DOMAIN q
    BY TailFacts
  <2>2. t # <<>>
    BY <1>4, <1>1, AppendProperties
  <2> QED BY <1>2, <1>3, <1>4, <1>5, <2>1, <2>2
<1>9. PICK i \in Seq(Items) : i = sessions[c].in
  BY <1>1, TypedItems
<1>10. i \o Append(q, b) = Append(i \o q, b) /\ i \o q \in Seq(Items)
  BY <1>1, AppendAfter, ItemsConcat
<1>11. Sends(sessions, vv, c) = Append(Sends(sessions, up, c), b) /\ Sends(sessions, up, c) \in Seq(Items)
  BY <1>2, <1>3, <1>9, <1>10 DEF Sends
<1>12. \A e \in DOMAIN sessions \ {c} : Sends(sessions, vv, e) = Sends(sessions, up, e)
  BY <1>1, <1>2 DEF Sends
<1>13. \A e \in Links : Coming(Relay, up, e) \in Seq(Items)
  BY <1>1, TypedItems
<1>14. ASSUME NEW e \in Links, Passes(e, c)
       PROVE  Coming(Relay, vv, e) = Append(Coming(Relay, up, e), b)
  <2>1. c # NoLink /\ e \in DOMAIN sessions /\ ~ EndedIn(up, e) /\ sessions[e].partner = c
    BY <1>1, <1>14 DEF Passes
  <2>2. PICK o \in Seq(Items) : o = sessions[e].out
    BY <1>1, <2>1, TypedItems
  <2>3. PICK d \in Seq(Items) : d = down[e]
    BY <1>1, TypedItems
  <2>4. PICK x \in Seq(Items) : x = Sends(sessions, up, c)
    BY <1>11
  <2>5. Coming(Relay, up, e) = d \o (o \o x)
    BY <1>1, <2>1, <2>2, <2>3, <2>4 DEF Coming, Passing
  <2>6. Coming(Relay, vv, e) = d \o (o \o Append(x, b))
    BY <1>1, <1>7, <1>11, <2>1, <2>2, <2>3, <2>4 DEF Coming, Passing
  <2>7. PICK y \in Seq(Items) : y = o \o x
    BY ItemsConcat
  <2>8. o \o Append(x, b) = Append(y, b)
    BY <1>1, <2>7, AppendAfter
  <2>9. d \o Append(y, b) = Append(d \o y, b)
    BY <1>1, AppendAfter
  <2> QED BY <2>5, <2>6, <2>7, <2>8, <2>9
<1>15. ASSUME NEW e \in Links, ~ Passes(e, c)
       PROVE  Coming(Relay, vv, e) = Coming(Relay, up, e)
  <2>1. EndedIn(vv, e) <=> EndedIn(up, e)
    BY <1>7
  <2>2. CASE e \notin DOMAIN sessions \/ EndedIn(up, e) \/ sessions[e].partner = NoLink
    BY <1>1, <2>1, <2>2 DEF Coming, Passing
  <2>3. CASE e \in DOMAIN sessions /\ ~ EndedIn(up, e) /\ sessions[e].partner # NoLink
    <3>1. PICK p \in DOMAIN sessions : p = sessions[e].partner /\ p # c
      BY <1>15, <2>3 DEF Partners, Passes
    <3>2. Sends(sessions, vv, p) = Sends(sessions, up, p)
      BY <1>12, <3>1
    <3> QED BY <1>1, <2>1, <2>3, <3>1, <3>2 DEF Coming, Passing
  <2> QED BY <2>2, <2>3
<1> QED BY <1>2, <1>7, <1>8, <1>11, <1>12, <1>13, <1>14, <1>15 DEF SentOn

LEMMA SendRuns ==
    ASSUME NEW q \in Seq(Items), NEW h \in Handles, NEW n \in 0 .. MaxSent, n < MaxSent, RunIn(q), EndsAt(q, Block(h, n))
    PROVE  RunIn(Append(q, Block(h, n + 1))) /\ EndsAt(Append(q, Block(h, n + 1)), Block(h, n + 1))
<1>1. MaxSent \in Nat /\ n + 1 \in 1 .. MaxSent
  BY RelayAssumption
<1>2. Block(h, n + 1) \in Blocks
  BY <1>1 DEF Blocks
<1>3. PICK b \in Items : b = Block(h, n + 1)
  BY <1>2, ItemTypes
<1>4. PICK a : a = Block(h, n)
  OBVIOUS
<1>5. Consecutive(a, b)
  BY <1>1, <1>3, <1>4 DEF Consecutive, Block
<1>6. RunIn(Append(q, b))
  BY <1>4, <1>5, RunMore
<1>7. EndsAt(Append(q, b), b)
  BY EndsOfAppend
<1> QED BY <1>3, <1>6, <1>7

(* The sockets after h has sent a block more. *)
SentMore(tk, h) ==
    /\ DOMAIN tk = DOMAIN sockets /\ \A g \in DOMAIN sockets \ {h} : tk[g] = sockets[g]
    /\ tk[h].link = sockets[h].link /\ tk[h].kind = sockets[h].kind /\ tk[h].received = sockets[h].received
    /\ tk[h].noticed = sockets[h].noticed /\ tk[h].sent = sockets[h].sent + 1

(* What comes for a socket of the link at the other end goes one further. *)
GoesOn(tk, vv, x, c, b) ==
    /\ Passes(sockets[x].link, c) => Flow(tk, Relay, vv, x) = Append(Flow(sockets, Relay, up, x), b)
    /\ ~ Passes(sockets[x].link, c) => Flow(tk, Relay, vv, x) = Flow(sockets, Relay, up, x)
    /\ Flow(sockets, Relay, up, x) \in Seq(Items)

LEMMA SendFlow ==
    ASSUME FlowInv, NEW h \in DOMAIN sockets, NEW tk, SentMore(tk, h), NEW c, NEW b \in Items, NEW vv,
           SentOn(vv, c, b), NEW x \in DOMAIN sockets, sockets[x].link # NoLink
    PROVE  GoesOn(tk, vv, x, c, b)
<1>1. Streams(sockets)
  BY FitStreams DEF FlowInv
<1>2. PICK e \in Links : e = sockets[x].link
  BY <1>1, StreamTypes
<1>3. PICK a \in Seq(Items) : a = sockets[x].received
  BY <1>1, StreamTypes
<1>4. tk[x].received = a /\ tk[x].link = e
  BY <1>2, <1>3 DEF SentMore
<1>5. PICK q \in Seq(Items) : q = Coming(Relay, up, e)
  BY DEF SentOn
<1>6. Flow(sockets, Relay, up, x) = a \o q /\ Flow(tk, Relay, vv, x) = a \o Coming(Relay, vv, e)
  BY <1>2, <1>3, <1>4, <1>5 DEF Flow
<1>7. a \o Append(q, b) = Append(a \o q, b) /\ a \o q \in Seq(Items)
  BY AppendAfter, ItemsConcat
<1>8. Passes(e, c) => Coming(Relay, vv, e) = Append(q, b)
  BY <1>5 DEF SentOn
<1>9. ~ Passes(e, c) => Coming(Relay, vv, e) = q
  BY <1>5 DEF SentOn
<1> QED BY <1>2, <1>6, <1>7, <1>8, <1>9 DEF GoesOn

LEMMA SendFlows ==
    ASSUME FlowInv, NEW h \in DOMAIN sockets, NEW c \in DOMAIN sessions, c = sockets[h].link, ~ EndedIn(up, c),
           sockets[h].sent < MaxSent, NEW tk, SentMore(tk, h), NEW b \in Items,
           b = Block(h, sockets[h].sent + 1), NEW vv, SentOn(vv, c, b)
    PROVE  Flows(tk, Relay, vv)
<1>1. /\ Typed(Relay, Heard(sockets)) /\ Partners(sessions) /\ Relay.sessions = sessions /\ Streams(sockets)
      /\ SendsRuns(Relay, up) /\ ReadsRuns(sockets, Relay, up) /\ SendsLast(sockets, Relay, up)
      /\ DOMAIN sessions \subseteq Links /\ NoLink \notin Links
  <2>1. DOMAIN sessions \subseteq Links /\ NoLink \notin Links
    BY DEF FlowInv, Keeps, Relay, Typed, IsState, AreLinks, Links, NoLink
  <2> QED BY <2>1, FitStreams DEF FlowInv, Keeps, Flows, Relay
<1>2. PICK n \in 0 .. MaxSent : n = sockets[h].sent
  BY <1>1 DEF Streams, Sockets
<1>3. h \in Handles /\ b = Block(h, n + 1) /\ n < MaxSent
  BY <1>2 DEF FlowInv, Fitting
<1>4. /\ vv[c] = Append(up[c], b) /\ (\A e \in Links \ {c} : vv[e] = up[e])
      /\ (\A e \in Links : EndedIn(vv, e) <=> EndedIn(up, e))
      /\ (up[c] # <<>> => vv[c] # <<>> /\ vv[c][1] = up[c][1])
      /\ Sends(sessions, vv, c) = Append(Sends(sessions, up, c), b) /\ Sends(sessions, up, c) \in Seq(Items)
      /\ \A e \in DOMAIN sessions \ {c} : Sends(sessions, vv, e) = Sends(sessions, up, e)
  BY DEF SentOn
<1>5. \A q \in Seq(Items) : RunIn(q) /\ EndsAt(q, Block(h, n)) =>
        RunIn(Append(q, b)) /\ EndsAt(Append(q, b), b)
  BY <1>3, SendRuns
<1>6. sessions[c].kind # "listen" => CanSend(sockets, Relay, up, h)
  BY <1>1 DEF CanSend
<1>7. sessions[c].kind # "listen" =>
        /\ EndsAt(Sends(sessions, up, c), Block(h, n))
        /\ \A x \in DOMAIN sockets : Reader(sockets, Relay, up, h, x) => EndsAt(Flow(sockets, Relay, up, x), Block(h, n))
  BY <1>1, <1>2, <1>6 DEF SendsLast
<1>8. sessions[c].kind # "listen" => RunIn(Sends(sessions, vv, c)) /\ EndsAt(Sends(sessions, vv, c), b)
  <2>1. sessions[c].kind # "listen" => RunIn(Sends(sessions, up, c))
    BY <1>1 DEF SendsRuns
  <2> QED BY <1>4, <1>5, <1>7, <2>1
<1>9. \A x \in DOMAIN sockets : sockets[x].link # NoLink => GoesOn(tk, vv, x, c, b)
  BY SendFlow
<1>10. ASSUME NEW x \in DOMAIN sockets, sockets[x].link # NoLink, Passes(sockets[x].link, c)
       PROVE  /\ Reader(sockets, Relay, up, h, x) /\ RunIn(Flow(tk, Relay, vv, x)) /\ EndsAt(Flow(tk, Relay, vv, x), b)
              /\ ~ sockets[x].noticed => Starts(Flow(tk, Relay, vv, x)) /\ Flow(tk, Relay, vv, x) # <<>>
  <2>1. PICK e \in DOMAIN sessions : e = sockets[x].link /\ sessions[e].partner = c /\ ~ EndedIn(up, e)
    BY <1>10 DEF Passes
  <2>2. c # NoLink /\ sessions[c].partner = e /\ Ends(sessions[e], sessions[c])
    BY <1>1, <2>1 DEF Partners
  <2>3. sessions[c].kind # "listen"
    BY <2>2 DEF Ends
  <2>4. Reader(sockets, Relay, up, h, x)
    BY <1>1, <1>10, <2>1, <2>2 DEF Reader
  <2>5. PICK q \in Seq(Items) : q = Flow(sockets, Relay, up, x)
    BY <1>9, <1>10 DEF GoesOn
  <2>6. Flow(tk, Relay, vv, x) = Append(q, b)
    BY <1>9, <1>10, <2>5 DEF GoesOn
  <2>7. EndsAt(q, Block(h, n))
    BY <1>7, <2>3, <2>4, <2>5
  <2>8. ReadsRun(sockets, Relay, up, x)
    BY <1>1, <1>10 DEF ReadsRuns
  <2>9. RunIn(q) /\ (~ sockets[x].noticed => Starts(q) /\ q # <<>>)
    BY <1>1, <2>1, <2>2, <2>5, <2>8 DEF ReadsRun, IsPaired
  <2>10. RunIn(Append(q, b)) /\ EndsAt(Append(q, b), b)
    BY <1>5, <2>7, <2>9
  <2>11. q # <<>> /\ Starts(q) => Starts(Append(q, b)) /\ Append(q, b) # <<>>
    BY EndsOfAppend, AppendProperties
  <2> QED BY <2>4, <2>6, <2>9, <2>10, <2>11
<1>11. SendsRuns(Relay, vv)
  <2>1. ASSUME NEW e \in DOMAIN sessions
        PROVE  /\ sessions[e].kind # "listen" => RunIn(Sends(sessions, vv, e))
               /\ sessions[e].kind = "pending" => sessions[e].in = <<>> /\ vv[e] # <<>> /\ vv[e][1] \notin Blocks
    <3>1. /\ sessions[e].kind # "listen" => RunIn(Sends(sessions, up, e))
          /\ sessions[e].kind = "pending" => sessions[e].in = <<>> /\ up[e] # <<>> /\ up[e][1] \notin Blocks
      BY <1>1 DEF SendsRuns
    <3>2. CASE e = c
      BY <1>4, <1>8, <3>1, <3>2
    <3>3. CASE e # c
      BY <1>1, <1>4, <3>1, <3>3
    <3> QED BY <3>2, <3>3
  <2> QED BY <1>1, <2>1 DEF SendsRuns
<1>12. ReadsRuns(tk, Relay, vv)
  <2> SUFFICES ASSUME NEW x \in DOMAIN tk, tk[x].link # NoLink PROVE ReadsRun(tk, Relay, vv, x)
    BY DEF ReadsRuns
  <2>1. x \in DOMAIN sockets /\ tk[x].link = sockets[x].link /\ tk[x].noticed = sockets[x].noticed
    BY DEF SentMore
  <2>2. CASE Passes(sockets[x].link, c)
    BY <1>10, <2>1, <2>2 DEF ReadsRun
  <2>3. CASE ~ Passes(sockets[x].link, c)
    <3>1. Flow(tk, Relay, vv, x) = Flow(sockets, Relay, up, x)
      BY <1>9, <2>1, <2>3 DEF GoesOn
    <3>2. ReadsRun(sockets, Relay, up, x)
      BY <1>1, <2>1 DEF ReadsRuns
    <3>3. sockets[x].link \in Links
      BY <1>1, <2>1, StreamTypes
    <3>4. IsPaired(Relay, vv, sockets[x].link) <=> IsPaired(Relay, up, sockets[x].link)
      BY <1>4, <3>3 DEF IsPaired
    <3> QED BY <2>1, <3>1, <3>2, <3>4 DEF ReadsRun
  <2> QED BY <2>2, <2>3
<1>13. SendsLast(tk, Relay, vv)
  <2> SUFFICES ASSUME NEW g \in DOMAIN tk, CanSend(tk, Relay, vv, g)
               PROVE  /\ EndsAt(Sends(sessions, vv, tk[g].link), Block(g, tk[g].sent))
                      /\ \A x \in DOMAIN tk : Reader(tk, Relay, vv, g, x) =>
                            EndsAt(Flow(tk, Relay, vv, x), Block(g, tk[g].sent))
    BY <1>1 DEF SendsLast
  <2>1. g \in DOMAIN sockets /\ tk[g].link = sockets[g].link
    BY DEF SentMore
  <2>2. PICK f \in DOMAIN sessions : f = sockets[g].link /\ sessions[f].kind # "listen" /\ ~ EndedIn(vv, f)
    BY <1>1, <2>1 DEF CanSend
  <2>3. ~ EndedIn(up, f) /\ f # NoLink /\ f \in Links
    BY <1>1, <1>4, <2>2
  <2>4. \A x \in DOMAIN tk : Reader(tk, Relay, vv, g, x) =>
          /\ x \in DOMAIN sockets /\ sockets[x].link # NoLink /\ sockets[x].link = sessions[f].partner
          /\ Reader(sockets, Relay, up, g, x) /\ sockets[x].link \in DOMAIN sessions
          /\ sessions[sockets[x].link].partner = f /\ ~ EndedIn(up, sockets[x].link)
    <3> SUFFICES ASSUME NEW x \in DOMAIN tk, Reader(tk, Relay, vv, g, x)
                 PROVE  /\ x \in DOMAIN sockets /\ sockets[x].link # NoLink /\ sockets[x].link = sessions[f].partner
                        /\ Reader(sockets, Relay, up, g, x) /\ sockets[x].link \in DOMAIN sessions
                        /\ sessions[sockets[x].link].partner = f /\ ~ EndedIn(up, sockets[x].link)
      OBVIOUS
    <3>1. x \in DOMAIN sockets /\ tk[x].link = sockets[x].link
      BY DEF SentMore
    <3>2. sockets[x].link # NoLink /\ sockets[x].link = sessions[f].partner /\ ~ EndedIn(vv, sockets[x].link)
      BY <1>1, <2>1, <2>2, <3>1 DEF Reader
    <3>3. sockets[x].link \in DOMAIN sessions /\ sessions[sockets[x].link].partner = f
      BY <3>2 , <1>1 DEF Partners
    <3>4. ~ EndedIn(up, sockets[x].link)
      BY <1>1, <1>4, <3>2, <3>3
    <3>5. Reader(sockets, Relay, up, g, x)
      BY <1>1, <2>2, <3>2, <3>4 DEF Reader
    <3> QED BY <3>1, <3>2, <3>3, <3>4, <3>5
  <2>5. CASE g = h
    <3>1. f = c /\ tk[g].sent = n + 1 /\ Block(g, tk[g].sent) = b
      BY <1>2, <1>3, <2>2, <2>5 DEF SentMore
    <3>2. EndsAt(Sends(sessions, vv, c), b)
      BY <1>8, <2>2, <3>1
    <3>3. ASSUME NEW x \in DOMAIN tk, Reader(tk, Relay, vv, g, x) PROVE EndsAt(Flow(tk, Relay, vv, x), b)
      <4>1. Passes(sockets[x].link, c)
        BY <2>4, <3>1, <3>3 DEF Passes
      <4> QED BY <1>10, <2>4, <3>3, <4>1
    <3> QED BY <2>1, <2>2, <3>1, <3>2, <3>3
  <2>6. CASE g # h
    <3>1. f # c /\ tk[g] = sockets[g]
      <4>1. Apart(sockets)
        BY DEF FlowInv
      <4> QED BY <2>1, <2>2, <2>3, <2>6, <4>1 DEF SentMore, Apart
    <3>2. CanSend(sockets, Relay, up, g)
      BY <1>1, <2>2, <2>3 DEF CanSend
    <3>3. /\ EndsAt(Sends(sessions, up, f), Block(g, tk[g].sent))
          /\ \A x \in DOMAIN sockets : Reader(sockets, Relay, up, g, x) =>
                EndsAt(Flow(sockets, Relay, up, x), Block(g, tk[g].sent))
      BY <1>1, <2>1, <2>2, <3>1, <3>2 DEF SendsLast
    <3>4. Sends(sessions, vv, f) = Sends(sessions, up, f)
      BY <1>4, <2>2, <3>1
    <3>5. ASSUME NEW x \in DOMAIN tk, Reader(tk, Relay, vv, g, x)
          PROVE  EndsAt(Flow(tk, Relay, vv, x), Block(g, tk[g].sent))
      <4>1. ~ Passes(sockets[x].link, c)
        BY <2>4, <3>1, <3>5 DEF Passes
      <4>2. Flow(tk, Relay, vv, x) = Flow(sockets, Relay, up, x)
        BY <1>9, <2>4, <3>5, <4>1 DEF GoesOn
      <4> QED BY <2>4, <3>3, <3>5, <4>2
    <3> QED BY <2>1, <2>2, <3>3, <3>4, <3>5
  <2> QED BY <2>5, <2>6
<1> QED BY <1>11, <1>12, <1>13 DEF Flows

LEMMA SendNowhere ==
    ASSUME FlowInv, NEW h \in DOMAIN sockets, NEW c, c = sockets[h].link, c \notin DOMAIN sessions \/ EndedIn(up, c),
           NEW tk, SentMore(tk, h)
    PROVE  Flows(tk, Relay, up)
<1>1. /\ Relay.sessions = sessions
      /\ SendsRuns(Relay, up) /\ ReadsRuns(sockets, Relay, up) /\ SendsLast(sockets, Relay, up)
  BY DEF FlowInv, Keeps, Flows, Relay
<1>2. ASSUME NEW g \in DOMAIN tk
      PROVE  /\ g \in DOMAIN sockets /\ tk[g].link = sockets[g].link /\ tk[g].noticed = sockets[g].noticed
             /\ Flow(tk, Relay, up, g) = Flow(sockets, Relay, up, g) /\ (g # h => tk[g].sent = sockets[g].sent)
  BY <1>2 DEF SentMore, Flow
<1>3. ReadsRuns(tk, Relay, up)
  <2> SUFFICES ASSUME NEW g \in DOMAIN tk, tk[g].link # NoLink PROVE ReadsRun(tk, Relay, up, g)
    BY DEF ReadsRuns
  <2>1. ReadsRun(sockets, Relay, up, g)
    BY <1>1, <1>2 DEF ReadsRuns
  <2> QED BY <1>2, <2>1 DEF ReadsRun
<1>4. SendsLast(tk, Relay, up)
  <2> SUFFICES ASSUME NEW g \in DOMAIN tk, CanSend(tk, Relay, up, g)
               PROVE  /\ EndsAt(Sends(Relay.sessions, up, tk[g].link), Block(g, tk[g].sent))
                      /\ \A x \in DOMAIN tk : Reader(tk, Relay, up, g, x) =>
                            EndsAt(Flow(tk, Relay, up, x), Block(g, tk[g].sent))
    BY DEF SendsLast
  <2>1. CanSend(sockets, Relay, up, g) /\ g \in DOMAIN sockets /\ g # h
    BY <1>1, <1>2 DEF CanSend
  <2>2. /\ EndsAt(Sends(Relay.sessions, up, sockets[g].link), Block(g, sockets[g].sent))
        /\ \A x \in DOMAIN sockets : Reader(sockets, Relay, up, g, x) =>
              EndsAt(Flow(sockets, Relay, up, x), Block(g, sockets[g].sent))
    BY <1>1, <2>1 DEF SendsLast
  <2>3. \A x \in DOMAIN tk : Reader(tk, Relay, up, g, x) => x \in DOMAIN sockets /\ Reader(sockets, Relay, up, g, x)
    BY <1>2, <2>1 DEF Reader
  <2> QED BY <1>2, <2>1, <2>2, <2>3
<1> QED BY <1>1, <1>3, <1>4 DEF Flows

LEMMA FlowSend ==
    ASSUME FlowInv, NEW h \in DOMAIN sockets, PtpSend(h)
    PROVE  FlowInv'
<1>1. PICK s : s = sockets[h]
  OBVIOUS
<1>2. PICK tk : tk = sockets'
  OBVIOUS
<1>3. PICK c : c = s.link
  OBVIOUS
<1>4. PICK vv : vv = up'
  OBVIOUS
<1>5. PICK b : b = Block(h, s.sent + 1)
  OBVIOUS
<1>6. PICK t : t = [s EXCEPT !.sent = s.sent + 1]
  OBVIOUS
<1>7. /\ HasLink(h) /\ s.sent < MaxSent /\ tk = [sockets EXCEPT ![h] = t]
      /\ UNCHANGED <<sessions, down, used, made, events>>
  BY <1>1, <1>2, <1>6 DEF PtpSend
<1>8. /\ Fits(s, made) /\ s \in Sockets /\ h \in Handles /\ c \in Links
      /\ sockets = [g \in DOMAIN sockets |-> sockets[g]]
  BY <1>1, <1>3, <1>7, SocketLink DEF FlowInv, Fitting, Fits
<1>9. s.sent \in 0 .. MaxSent /\ MaxSent \in Nat /\ s.sent + 1 \in 1 .. MaxSent /\ s.sent + 1 \in 0 .. MaxSent
  BY <1>7, <1>8, RelayAssumption DEF Sockets
<1>10. /\ t.link = s.link /\ t.kind = s.kind /\ t.received = s.received /\ t.noticed = s.noticed /\ t.pending = s.pending
       /\ t.name = s.name /\ t.state = s.state /\ t.sent = s.sent + 1 /\ t \in Sockets
  BY <1>6, <1>8, <1>9 DEF Sockets
<1>11. Fits(t, made)
  BY <1>8, <1>10 DEF Fits, CanStart
<1>12. /\ DOMAIN tk = DOMAIN sockets /\ tk[h] = t /\ (\A g \in DOMAIN sockets \ {h} : tk[g] = sockets[g])
       /\ tk = [g \in DOMAIN tk |-> tk[g]]
  BY <1>7, <1>8
<1>13. Fitting(tk, made') /\ SentMore(tk, h)
  BY <1>1, <1>7, <1>10, <1>11, <1>12 DEF FlowInv, Fitting, SentMore
<1>14. Apart(tk) /\ Heard(tk) = Heard(sockets)
  <2>1. \A g \in DOMAIN sockets : tk[g].link = sockets[g].link /\ tk[g].kind = sockets[g].kind
    BY <1>1, <1>10, <1>12
  <2>2. Apart(tk)
    BY <1>12, <2>1 DEF FlowInv, Apart
  <2>3. Heard(tk) = Heard(sockets)
    BY <1>12, <2>1 DEF Heard
  <2> QED BY <2>2, <2>3
<1>15. /\ Typed(Relay, Heard(sockets)) /\ Partners(sessions) /\ Asked(up, Heard(sockets)) /\ Relay.sessions = sessions
  BY DEF FlowInv, Keeps, Relay
<1>16. b \in Blocks /\ b \in Items
  <2>1. b \in Blocks
    BY <1>5, <1>8, <1>9 DEF Blocks
  <2> QED BY <2>1, ItemTypes
<1>17. Flows(tk, Relay, vv) /\ Asked(vv, Heard(sockets))
  <2>1. CASE Alive(c)
    <3>1. c \in DOMAIN sessions /\ ~ EndedIn(up, c)
      BY <2>1 DEF Alive, Ended, EndedIn
    <3>2. tk[h].sent = s.sent + 1
      BY <1>10, <1>12
    <3>3. vv = [up EXCEPT ![c] = Append(up[c], b)]
      BY <1>1, <1>2, <1>3, <1>4, <1>5, <2>1, <3>2 DEF PtpSend
    <3>4. SentOn(vv, c, b)
      BY <1>15, <1>16, <3>1, <3>3, SendComing
    <3>5. Flows(tk, Relay, vv)
      BY <1>1, <1>3, <1>5, <1>7, <1>13, <1>16, <3>1, <3>4, SendFlows
    <3>6. Asked(vv, Heard(sockets))
      <4>1. PICK S : S = Requests(c, Heard(sockets))
        OBVIOUS
      <4>2. up[c] \in Seq(S) /\ b \in S
        BY <1>8, <1>15, <1>16, <4>1 DEF Asked, Requests
      <4>3. Append(up[c], b) \in Seq(S)
        BY <4>2, AppendProperties
      <4>4. vv = [e \in Links |-> vv[e]] /\ vv[c] = Append(up[c], b) /\ \A e \in Links \ {c} : vv[e] = up[e]
        BY <3>4 DEF SentOn
      <4> QED BY <1>15, <4>1, <4>3, <4>4 DEF Asked
    <3> QED BY <3>5, <3>6
  <2>2. CASE ~ Alive(c)
    <3>1. vv = up /\ (c \notin DOMAIN sessions \/ EndedIn(up, c))
      BY <1>1, <1>3, <1>4, <2>2 DEF PtpSend, Alive, Ended, EndedIn
    <3> QED BY <1>1, <1>3, <1>13, <1>15, <3>1, SendNowhere
  <2> QED BY <2>1, <2>2
<1>18. Keeps(tk, Heard(tk), Relay, vv)
  BY <1>14, <1>15, <1>17 DEF Keeps
<1>19. Become(Relay) /\ Counters' /\ Unmade'
  BY <1>7 DEF Become, Relay, FlowInv, Counters, Unmade
<1> QED BY <1>2, <1>4, <1>13, <1>14, <1>17, <1>18, <1>19, FlowStep
-----------------------------------------------------------------------------
(* A new link. *)

(* The link c is added, with the request i on its way, for the socket h.   *)
Started(r, tk, vv, h, c, i, t) ==
    /\ DOMAIN r = {"sessions", "down"} /\ r.down = down
    /\ r.sessions = [e \in DOMAIN sessions \union {c} |-> IF e = c THEN Accepted ELSE sessions[e]]
    /\ vv = [up EXCEPT ![c] = <<i>>] /\ tk = [sockets EXCEPT ![h] = t]
    /\ c \in Links /\ c \notin DOMAIN sessions /\ c > made /\ made \in Nat
    /\ t.link = c /\ t.received = <<>> /\ t.noticed = FALSE /\ t.kind = sockets[h].kind
    /\ sockets[h].link = NoLink /\ i \in Inits /\ i.kind = t.kind
    /\ i.kind = "connect" => i.name \in Openers

StartedLinks(r, c) ==
    /\ DOMAIN r.sessions = DOMAIN sessions \union {c} /\ r.sessions[c] = Accepted
    /\ \A e \in DOMAIN sessions : e # c /\ r.sessions[e] = sessions[e]
    /\ r.sessions = [e \in DOMAIN r.sessions |-> r.sessions[e]]
    /\ AreLinks(sessions) /\ Partners(sessions) /\ DOMAIN sessions \subseteq Links /\ NoLink \notin Links /\ c # NoLink
StartedQueues(vv, c, i) ==
    vv = [e \in Links |-> vv[e]] /\ vv[c] = <<i>> /\ \A e \in Links \ {c} : vv[e] = up[e]
StartedSockets(tk, h, c, t) ==
    /\ DOMAIN tk = DOMAIN sockets /\ tk[h] = t /\ \A g \in DOMAIN sockets \ {h} : tk[g] = sockets[g]
    /\ tk = [g \in DOMAIN tk |-> tk[g]]
    /\ \A g \in DOMAIN sockets : sockets[g].link # c
    /\ \A e \in Links \ {c} : e \in Heard(tk) <=> e \in Heard(sockets)
    /\ c \in Heard(tk) => t.kind = "listen"
    /\ Apart(tk)

LEMMA StartedParts ==
    ASSUME FlowInv, NEW h \in DOMAIN sockets, NEW c, NEW i, NEW t, NEW r, NEW tk, NEW vv, Started(r, tk, vv, h, c, i, t)
    PROVE  StartedLinks(r, c) /\ StartedQueues(vv, c, i) /\ StartedSockets(tk, h, c, t)
<1>1. up = [e \in Links |-> up[e]] /\ sockets = [g \in DOMAIN sockets |-> sockets[g]]
      /\ AreLinks(sessions) /\ Partners(sessions) /\ DOMAIN sessions \subseteq Links /\ NoLink \notin Links
  BY DEF FlowInv, Asked, Fitting, Keeps, Typed, IsState, AreLinks, Relay, Links, NoLink
<1>2. r.sessions = [e \in DOMAIN sessions \union {c} |-> IF e = c THEN Accepted ELSE sessions[e]]
      /\ vv = [up EXCEPT ![c] = <<i>>] /\ tk = [sockets EXCEPT ![h] = t] /\ c \in Links
      /\ c \notin DOMAIN sessions /\ c > made /\ made \in Nat
      /\ t.link = c /\ t.kind = sockets[h].kind /\ sockets[h].link = NoLink
  BY DEF Started
<1>3. /\ DOMAIN r.sessions = DOMAIN sessions \union {c} /\ r.sessions[c] = Accepted
      /\ \A e \in DOMAIN sessions : e # c /\ r.sessions[e] = sessions[e]
      /\ r.sessions = [e \in DOMAIN r.sessions |-> r.sessions[e]]
  BY <1>2
<1>4. vv = [e \in Links |-> vv[e]] /\ vv[c] = <<i>> /\ \A e \in Links \ {c} : vv[e] = up[e]
  BY <1>1, <1>2
<1>5. DOMAIN tk = DOMAIN sockets /\ tk[h] = t /\ (\A g \in DOMAIN sockets \ {h} : tk[g] = sockets[g])
      /\ tk = [g \in DOMAIN tk |-> tk[g]]
  BY <1>1, <1>2
<1>6. \A g \in DOMAIN sockets : sockets[g].link # c
  <2> SUFFICES ASSUME NEW g \in DOMAIN sockets, sockets[g].link = c PROVE FALSE
    OBVIOUS
  <2>1. c <= made
    BY DEF FlowInv, Fitting, Fits
  <2> QED BY <1>2, <2>1 DEF Links
<1>7. \A e \in Links \ {c} : e \in Heard(tk) <=> e \in Heard(sockets)
  <2> SUFFICES ASSUME NEW e \in Links, e # c PROVE e \in Heard(tk) <=> e \in Heard(sockets)
    OBVIOUS
  <2>1. e # NoLink
    BY <1>1
  <2>2. e \in Heard(tk) <=> \E g \in DOMAIN tk : tk[g].kind = "listen" /\ tk[g].link = e
    BY <2>1 DEF Heard
  <2>3. e \in Heard(sockets) <=> \E g \in DOMAIN sockets : sockets[g].kind = "listen" /\ sockets[g].link = e
    BY <2>1 DEF Heard
  <2> QED BY <1>2, <1>5, <2>1, <2>2, <2>3
<1>8. c \in Heard(tk) => t.kind = "listen"
  BY <1>5, <1>6 DEF Heard
<1>9. Apart(tk) /\ c # NoLink
  BY <1>1, <1>2, <1>5, <1>6 DEF FlowInv, Apart
<1>10. StartedLinks(r, c) /\ StartedQueues(vv, c, i)
  BY <1>1, <1>3, <1>4, <1>9 DEF StartedLinks, StartedQueues
<1>11. StartedSockets(tk, h, c, t)
  BY <1>5, <1>6, <1>7, <1>8, <1>9 DEF StartedSockets
<1> QED BY <1>10, <1>11

LEMMA StartedTypes ==
    ASSUME FlowInv, NEW h \in DOMAIN sockets, NEW c, NEW i, NEW t, NEW r, NEW tk, NEW vv, Started(r, tk, vv, h, c, i, t)
    PROVE  Typed(r, Heard(tk)) /\ Asked(vv, Heard(tk)) /\ Partners(r.sessions)
<1> DEFINE L == Heard(sockets)
           M == Heard(tk)
<1>0. StartedLinks(r, c) /\ StartedQueues(vv, c, i) /\ StartedSockets(tk, h, c, t)
  BY StartedParts
<1>1. /\ DOMAIN r.sessions = DOMAIN sessions \union {c} /\ r.sessions[c] = Accepted
      /\ (\A e \in DOMAIN sessions : e # c /\ r.sessions[e] = sessions[e])
      /\ r.sessions = [e \in DOMAIN r.sessions |-> r.sessions[e]]
      /\ AreLinks(sessions) /\ Partners(sessions) /\ DOMAIN sessions \subseteq Links /\ c # NoLink
  BY <1>0 DEF StartedLinks
<1>2. /\ vv = [e \in Links |-> vv[e]] /\ vv[c] = <<i>> /\ (\A e \in Links \ {c} : vv[e] = up[e])
      /\ (\A e \in Links \ {c} : e \in M <=> e \in L) /\ (c \in M => t.kind = "listen")
  BY <1>0 DEF StartedQueues, StartedSockets
<1>3. /\ DOMAIN r = {"sessions", "down"} /\ r.down = down /\ c \in Links /\ i \in Inits /\ i.kind = t.kind
      /\ (i.kind = "connect" => i.name \in Openers) /\ c > made
  BY DEF Started
<1>4. Typed(Relay, L) /\ Asked(up, L) /\ Unmade /\ Relay.sessions = sessions /\ Relay.down = down
  BY DEF FlowInv, Keeps, Relay
<1> HIDE DEF L, M
<1>5. \A e \in Links \ {c} : ForConsole(e, M) = ForConsole(e, L) /\ Requests(e, M) = Requests(e, L)
  BY <1>2 DEF ForConsole, Requests
<1>6. Accepted \in Sessions /\ DOMAIN Accepted = Fields /\ Accepted.out = <<>> /\ Accepted.kind = "pending"
      /\ Accepted.partner = NoLink
  <2>1. sockets[h].name \in Names
    BY FitStreams DEF FlowInv, Streams, Sockets
  <2>2. SomeName \in Names
    BY <2>1 DEF SomeName
  <2>3. <<>> \in Seq(Blocks) /\ <<>> \in Seq(Blocks \union Notices)
    BY EmptySeq
  <2> QED BY <2>2, <2>3 DEF Accepted, Sessions, Fields, Kinds
<1>7. \A e \in DOMAIN r.sessions : IsLink(r.sessions[e], e, M)
  <2> SUFFICES ASSUME NEW e \in DOMAIN r.sessions PROVE IsLink(r.sessions[e], e, M)
    OBVIOUS
  <2>1. CASE e = c
    <3>1. <<>> \in Seq(ForConsole(c, M))
      BY EmptySeq
    <3> QED BY <1>1, <1>6, <2>1, <3>1 DEF IsLink
  <2>2. CASE e # c
    <3>1. e \in DOMAIN sessions /\ r.sessions[e] = sessions[e] /\ IsLink(sessions[e], e, L) /\ e \in Links
      BY <1>1, <1>4, <2>2 DEF Typed
    <3> QED BY <1>2, <1>5, <2>2, <3>1 DEF IsLink
  <2> QED BY <2>1, <2>2
<1>8. \A e \in Links : down[e] \in Seq(ForConsole(e, M) \union {Eof})
  <2> SUFFICES ASSUME NEW e \in Links PROVE down[e] \in Seq(ForConsole(e, M) \union {Eof})
    OBVIOUS
  <2>1. CASE e = c
    <3>1. down[c] = <<>>
      BY <1>3, <1>4 DEF Unmade
    <3> QED BY <2>1, <3>1, EmptySeq
  <2>2. CASE e # c
    BY <1>4, <1>5, <2>2 DEF Typed
  <2> QED BY <2>1, <2>2
<1>9. Typed(r, M)
  <2>1. AreLinks(r.sessions)
    BY <1>1, <1>3, <1>6 DEF AreLinks
  <2>2. down = [e \in Links |-> down[e]]
    BY <1>4 DEF Typed
  <2> QED BY <1>3, <1>7, <1>8, <2>1, <2>2 DEF Typed, IsState
<1>10. Asked(vv, M)
  <2>1. ASSUME NEW e \in Links PROVE vv[e] \in Seq(Requests(e, M))
    <3>1. CASE e = c
      <4>1. i \in Requests(c, M)
        BY <1>2, <1>3 DEF Requests
      <4>2. <<i>> \in Seq(Requests(c, M))
        BY <4>1, EmptySeq, AppendProperties
      <4> QED BY <1>2, <3>1, <4>2
    <3>2. CASE e # c
      BY <1>2, <1>4, <1>5, <3>2 DEF Asked
    <3> QED BY <3>1, <3>2
  <2> QED BY <1>2, <2>1 DEF Asked
<1>11. Partners(r.sessions)
  BY <1>1, <1>6 DEF Partners
<1> QED BY <1>9, <1>10, <1>11 DEF M

LEMMA StartedComing ==
    ASSUME FlowInv, NEW h \in DOMAIN sockets, NEW c, NEW i, NEW t, NEW r, NEW tk, NEW vv, Started(r, tk, vv, h, c, i, t)
    PROVE  /\ Coming(r, vv, c) = <<>> /\ Sends(r.sessions, vv, c) = <<i>>
           /\ \A e \in DOMAIN sessions : Sends(r.sessions, vv, e) = Sends(sessions, up, e)
           /\ \A e \in Links \ {c} : Coming(r, vv, e) = Coming(Relay, up, e)
<1> DEFINE tt == r.sessions
<1>0. StartedLinks(r, c) /\ StartedQueues(vv, c, i)
  BY StartedParts
<1>1. /\ DOMAIN tt = DOMAIN sessions \union {c} /\ tt[c] = Accepted
      /\ (\A e \in DOMAIN sessions : e # c /\ tt[e] = sessions[e])
      /\ Partners(sessions) /\ DOMAIN sessions \subseteq Links /\ NoLink \notin Links
      /\ vv[c] = <<i>> /\ (\A e \in Links \ {c} : vv[e] = up[e])
  BY <1>0 DEF StartedLinks, StartedQueues
<1>2. r.down = down /\ c \in Links /\ c > made /\ Relay.down = down /\ Relay.sessions = sessions /\ down[c] = <<>>
  BY DEF Started, Relay, FlowInv, Unmade
<1> HIDE DEF tt
<1>3. Accepted.in = <<>> /\ Accepted.out = <<>> /\ Accepted.partner = NoLink
  BY DEF Accepted
<1>4. Passing(tt, vv, c) = <<>>
  BY <1>1, <1>3 DEF Passing
<1>5. Coming(r, vv, c) = <<>>
  BY <1>2, <1>4, ConcatEmptySeq, EmptySeq DEF Coming, tt
<1>6. Sends(tt, vv, c) = <<i>>
  <2>1. PICK q \in Seq(Inits) : q = <<i>>
    <3>1. i \in Inits
      BY DEF Started
    <3>2. <<i>> \in Seq(Inits)
      BY <3>1, EmptySeq, AppendProperties
    <3> QED BY <3>2
  <2>2. <<>> \o q = q
    BY ConcatEmptySeq
  <2> QED BY <1>1, <1>3, <2>1, <2>2 DEF Sends
<1>7. \A e \in DOMAIN sessions : Sends(tt, vv, e) = Sends(sessions, up, e)
  BY <1>1 DEF Sends
<1>8. ASSUME NEW e \in Links, e # c PROVE Coming(r, vv, e) = Coming(Relay, up, e)
  <2>1. EndedIn(vv, e) <=> EndedIn(up, e)
    BY <1>1, <1>8 DEF EndedIn
  <2>2. e \in DOMAIN tt <=> e \in DOMAIN sessions
    BY <1>1, <1>8
  <2>3. e \in DOMAIN sessions /\ sessions[e].partner # NoLink =>
          Sends(tt, vv, sessions[e].partner) = Sends(sessions, up, sessions[e].partner)
    BY <1>1, <1>7 DEF Partners
  <2>4. Passing(tt, vv, e) = Passing(sessions, up, e)
    BY <1>1, <2>1, <2>2, <2>3 DEF Passing
  <2> QED BY <1>2, <2>4 DEF Coming, tt
<1> QED BY <1>5, <1>6, <1>7, <1>8 DEF tt

LEMMA StartedFlows ==
    ASSUME FlowInv, NEW h \in DOMAIN sockets, NEW c, NEW i, NEW t, NEW r, NEW tk, NEW vv, Started(r, tk, vv, h, c, i, t)
    PROVE  Flows(tk, r, vv)
<1> DEFINE tt == r.sessions
<1>0. StartedLinks(r, c) /\ StartedQueues(vv, c, i) /\ StartedSockets(tk, h, c, t)
  BY StartedParts
<1>1. /\ DOMAIN tt = DOMAIN sessions \union {c} /\ tt[c] = Accepted
      /\ (\A e \in DOMAIN sessions : e # c /\ tt[e] = sessions[e])
      /\ Partners(sessions) /\ DOMAIN sessions \subseteq Links /\ NoLink \notin Links /\ c # NoLink
      /\ vv[c] = <<i>> /\ (\A e \in Links \ {c} : vv[e] = up[e])
  BY <1>0 DEF StartedLinks, StartedQueues
<1>2. /\ DOMAIN tk = DOMAIN sockets /\ tk[h] = t /\ (\A g \in DOMAIN sockets \ {h} : tk[g] = sockets[g])
      /\ \A g \in DOMAIN sockets : sockets[g].link # c
  BY <1>0 DEF StartedSockets
<1>3. /\ Coming(r, vv, c) = <<>> /\ Sends(tt, vv, c) = <<i>>
      /\ (\A e \in DOMAIN sessions : Sends(tt, vv, e) = Sends(sessions, up, e))
      /\ (\A e \in Links \ {c} : Coming(r, vv, e) = Coming(Relay, up, e))
  BY StartedComing
<1>4. /\ Relay.sessions = sessions /\ Streams(sockets)
      /\ SendsRuns(Relay, up) /\ ReadsRuns(sockets, Relay, up) /\ SendsLast(sockets, Relay, up)
  BY FitStreams DEF FlowInv, Keeps, Flows, Relay
<1>5. c \in Links /\ i \in Inits /\ t.link = c /\ t.received = <<>> /\ ~ t.noticed
  BY DEF Started
<1> HIDE DEF tt
<1>6. i \notin Blocks
  BY <1>5 DEF Inits, Blocks, Init, Block
<1>7. Accepted.in = <<>> /\ Accepted.kind = "pending" /\ Accepted.partner = NoLink
  BY DEF Accepted
<1>8. RunIn(<<i>>) /\ \A b : EndsAt(<<i>>, b)
  BY <1>6 DEF RunIn, EndsAt
<1>9. SendsRuns(r, vv)
  <2>1. ASSUME NEW e \in DOMAIN tt
        PROVE  /\ tt[e].kind # "listen" => RunIn(Sends(tt, vv, e))
               /\ tt[e].kind = "pending" => tt[e].in = <<>> /\ vv[e] # <<>> /\ vv[e][1] \notin Blocks
    <3>1. CASE e = c
      BY <1>1, <1>3, <1>6, <1>7, <1>8, <3>1
    <3>2. CASE e # c
      <4>1. e \in DOMAIN sessions /\ tt[e] = sessions[e] /\ vv[e] = up[e] /\ Sends(tt, vv, e) = Sends(sessions, up, e)
        BY <1>1, <1>3, <3>2
      <4> QED BY <1>4, <4>1 DEF SendsRuns
    <3> QED BY <3>1, <3>2
  <2> QED BY <2>1 DEF SendsRuns, tt
<1>10. \A g \in DOMAIN sockets : g # h /\ sockets[g].link # NoLink =>
         Flow(tk, r, vv, g) = Flow(sockets, Relay, up, g) /\ sockets[g].link \in Links \ {c}
  <2> SUFFICES ASSUME NEW g \in DOMAIN sockets, g # h, sockets[g].link # NoLink
               PROVE  Flow(tk, r, vv, g) = Flow(sockets, Relay, up, g) /\ sockets[g].link \in Links \ {c}
    OBVIOUS
  <2>1. sockets[g].link \in Links \ {c}
    BY <1>2, <1>4, StreamTypes
  <2> QED BY <1>2, <1>3, <2>1 DEF Flow
<1>11. ReadsRuns(tk, r, vv)
  <2> SUFFICES ASSUME NEW g \in DOMAIN tk, tk[g].link # NoLink PROVE ReadsRun(tk, r, vv, g)
    BY DEF ReadsRuns
  <2>1. CASE g = h
    <3>1. Flow(tk, r, vv, h) = <<>>
      BY <1>2, <1>3, <1>5, ConcatEmptySeq, EmptySeq DEF Flow
    <3>2. ~ IsPaired(r, vv, c)
      BY <1>1, <1>7 DEF IsPaired, tt
    <3> QED BY <1>2, <1>5, <2>1, <3>1, <3>2, RunEmpty DEF ReadsRun
  <2>2. CASE g # h
    <3>1. g \in DOMAIN sockets /\ tk[g] = sockets[g] /\ ReadsRun(sockets, Relay, up, g)
      BY <1>2, <1>4, <2>2 DEF ReadsRuns
    <3>2. Flow(tk, r, vv, g) = Flow(sockets, Relay, up, g) /\ sockets[g].link \in Links \ {c}
      BY <1>10, <2>2, <3>1
    <3>3. EndedIn(vv, sockets[g].link) <=> EndedIn(up, sockets[g].link)
      BY <1>1, <3>2 DEF EndedIn
    <3>4. IsPaired(r, vv, sockets[g].link) <=> IsPaired(Relay, up, sockets[g].link)
      BY <1>1, <1>4, <3>2, <3>3 DEF IsPaired, tt
    <3> QED BY <3>1, <3>2, <3>4 DEF ReadsRun
  <2> QED BY <2>1, <2>2
<1>12. SendsLast(tk, r, vv)
  <2> SUFFICES ASSUME NEW g \in DOMAIN tk, CanSend(tk, r, vv, g)
               PROVE  /\ EndsAt(Sends(tt, vv, tk[g].link), Block(g, tk[g].sent))
                      /\ \A x \in DOMAIN tk : Reader(tk, r, vv, g, x) =>
                            EndsAt(Flow(tk, r, vv, x), Block(g, tk[g].sent))
    BY DEF SendsLast, tt
  <2>1. CASE g = h
    <3>1. tk[g].link = c
      BY <1>2, <1>5, <2>1
    <3>2. ASSUME NEW x \in DOMAIN tk PROVE ~ Reader(tk, r, vv, g, x)
      BY <1>1, <1>7, <3>1 DEF Reader, tt
    <3> QED BY <1>3, <1>8, <3>1, <3>2
  <2>2. CASE g # h
    <3>1. g \in DOMAIN sockets /\ tk[g] = sockets[g] /\ sockets[g].link # c
      BY <1>2, <2>2
    <3>2. PICK f \in DOMAIN sessions : f = sockets[g].link
      BY <1>1, <3>1 DEF CanSend, tt
    <3>3. tt[f] = sessions[f] /\ (EndedIn(vv, f) <=> EndedIn(up, f)) /\ Sends(tt, vv, f) = Sends(sessions, up, f)
      BY <1>1, <1>3 DEF EndedIn
    <3>4. CanSend(sockets, Relay, up, g)
      BY <1>4, <3>1, <3>2, <3>3 DEF CanSend, tt
    <3>5. /\ EndsAt(Sends(sessions, up, f), Block(g, sockets[g].sent))
          /\ \A x \in DOMAIN sockets : Reader(sockets, Relay, up, g, x) =>
                EndsAt(Flow(sockets, Relay, up, x), Block(g, sockets[g].sent))
      BY <1>4, <3>1, <3>2, <3>4 DEF SendsLast
    <3>6. ASSUME NEW x \in DOMAIN tk, Reader(tk, r, vv, g, x)
          PROVE  EndsAt(Flow(tk, r, vv, x), Block(g, tk[g].sent))
      <4>1. tk[x].link # NoLink /\ tk[x].link = sessions[f].partner /\ ~ EndedIn(vv, tk[x].link)
        BY <3>1, <3>2, <3>3, <3>6 DEF Reader, tt
      <4>2. tk[x].link \in DOMAIN sessions /\ tk[x].link # c
        BY <1>1, <4>1 DEF Partners
      <4>3. x # h /\ x \in DOMAIN sockets /\ tk[x] = sockets[x]
        BY <1>2, <1>5, <4>2
      <4>4. ~ EndedIn(up, sockets[x].link)
        BY <1>1, <4>1, <4>2, <4>3 DEF EndedIn
      <4>5. Reader(sockets, Relay, up, g, x)
        BY <1>4, <3>2, <4>1, <4>3, <4>4 DEF Reader
      <4> QED BY <1>10, <3>1, <3>5, <4>1, <4>3, <4>5
    <3> QED BY <3>1, <3>2, <3>3, <3>5, <3>6
  <2> QED BY <2>1, <2>2
<1> QED BY <1>9, <1>11, <1>12 DEF Flows

LEMMA FlowStart ==
    ASSUME OrderInv, NEW h \in DOMAIN sockets, StartLink(h)
    PROVE  FlowInv'
<1>1. PICK s : s = sockets[h]
  OBVIOUS
<1>2. PICK c : c = made + 1
  OBVIOUS
<1>3. PICK t : t = [s EXCEPT !.link = c, !.pending = FALSE]
  OBVIOUS
<1>4. PICK i : i = Init(s.kind, s.name, s.peer)
  OBVIOUS
<1>5. PICK tk : tk = sockets'
  OBVIOUS
<1>6. PICK vv : vv = up'
  OBVIOUS
<1>7. PICK r : r = [sessions |-> sessions', down |-> down']
  OBVIOUS
<1>8. FlowInv /\ made \in Nat /\ made \in 0 .. MaxLinks /\ (\A e \in DOMAIN sessions : e <= made) /\ MaxLinks \in Nat
  BY RelayAssumption DEF OrderInv, PairInv, FlowInv, Counters
<1>9. /\ s.link = NoLink /\ made < MaxLinks /\ CanStart(s) /\ made' = c
      /\ tk = [sockets EXCEPT ![h] = t] /\ vv = [up EXCEPT ![c] = <<i>>]
      /\ r.sessions = [e \in DOMAIN sessions \union {c} |-> IF e = c THEN Accepted ELSE sessions[e]]
      /\ DOMAIN r = {"sessions", "down"} /\ r.down = down /\ Become(r) /\ UNCHANGED <<down, used, events>>
  <2>1. UNCHANGED <<down, used, events>> /\ made' = c /\ s.link = NoLink /\ made < MaxLinks /\ CanStart(s)
    BY <1>1, <1>2 DEF StartLink, HasLink, CanStart
  <2>2. tk = [[sockets EXCEPT ![h].link = c] EXCEPT ![h].pending = FALSE]
    BY <1>5, <2>1 DEF StartLink
  <2>3. sockets = [g \in DOMAIN sockets |-> sockets[g]]
    BY <1>8 DEF FlowInv, Fitting
  <2>4. tk = [sockets EXCEPT ![h] = t]
    BY <1>1, <1>3, <2>2, <2>3
  <2>5. vv = [up EXCEPT ![c] = <<i>>]
    BY <1>1, <1>4, <1>6, <2>1 DEF StartLink
  <2>6. r.sessions = [e \in DOMAIN sessions \union {c} |-> IF e = c THEN Accepted ELSE sessions[e]]
    BY <1>7, <2>1 DEF StartLink
  <2>7. DOMAIN r = {"sessions", "down"} /\ r.down = down /\ Become(r)
    BY <1>7, <2>1 DEF Become
  <2> QED BY <2>1, <2>4, <2>5, <2>6, <2>7
<1>10. c \in Links /\ c \in 0 .. MaxLinks /\ c > made /\ c \notin DOMAIN sessions
  BY <1>2, <1>8, <1>9 DEF Links
<1>11. Fits(s, made) /\ s \in Sockets
  BY <1>1, <1>8 DEF FlowInv, Fitting, Fits
<1>12. s.received = <<>> /\ ~ s.noticed /\ s.noticed \in BOOLEAN /\ (s.kind = "connect" => s.name \in Openers)
  BY <1>9, <1>11 DEF Fits, Sockets
<1>13. /\ t.link = c /\ t.pending = FALSE /\ t.received = s.received /\ t.noticed = s.noticed /\ t.kind = s.kind
       /\ t.name = s.name /\ t.state = s.state /\ t \in Sockets
  BY <1>3, <1>10, <1>11 DEF Sockets
<1>14. i \in Inits /\ i.kind = s.kind /\ i.name = s.name
  <2>1. s.kind \in Kinds \ {"pending"} /\ s.name \in Names /\ s.peer \in Names
    BY <1>11 DEF Sockets, Kinds
  <2> QED BY <1>4, <2>1 DEF Inits, Init
<1>15. Started(r, tk, vv, h, c, i, t)
  BY <1>1, <1>8, <1>9, <1>10, <1>12, <1>13, <1>14 DEF Started
<1>16. Typed(r, Heard(tk)) /\ Asked(vv, Heard(tk)) /\ Partners(r.sessions)
  BY <1>8, <1>15, StartedTypes
<1>17. Flows(tk, r, vv)
  BY <1>8, <1>15, StartedFlows
<1>18. StartedSockets(tk, h, c, t)
  BY <1>8, <1>15, StartedParts
<1>19. Fits(t, c)
  BY <1>10, <1>11, <1>12, <1>13 DEF Fits, Links
<1>20. Fitting(tk, made')
  <2>1. DOMAIN tk = DOMAIN sockets /\ tk[h] = t /\ (\A g \in DOMAIN sockets \ {h} : tk[g] = sockets[g])
        /\ tk = [g \in DOMAIN tk |-> tk[g]]
    BY <1>18 DEF StartedSockets
  <2>2. ASSUME NEW g \in DOMAIN sockets PROVE Fits(sockets[g], c)
    <3>1. Fits(sockets[g], made)
      BY <1>8 DEF FlowInv, Fitting
    <3>2. sockets[g].link \in Nat
      BY <3>1 DEF Fits, Sockets, Links, NoLink
    <3>3. sockets[g].link <= c
      BY <1>2, <1>8, <3>1, <3>2 DEF Fits
    <3> QED BY <3>1, <3>3 DEF Fits
  <2> QED BY <1>8, <1>9, <1>19, <2>1, <2>2 DEF FlowInv, Fitting
<1>21. Apart(tk)
  BY <1>18 DEF StartedSockets
<1>22. Counters' /\ Unmade'
  <2>1. Counters'
    BY <1>8, <1>9, <1>10 DEF FlowInv, Counters
  <2>2. Unmade'
    BY <1>2, <1>8, <1>9 DEF FlowInv, Unmade, Links
  <2> QED BY <2>1, <2>2
<1> QED BY <1>5, <1>6, <1>9, <1>16, <1>17, <1>20, <1>21, <1>22, FlowStep DEF Keeps
-----------------------------------------------------------------------------
(* The invariant, and what follows from it. *)

LEMMA FlowServer ==
    ASSUME OrderInv, NEW c \in Links, Serve(c), UNCHANGED <<sockets, used, made, events>>
    PROVE  FlowInv'
<1>1. PICK L : L = Heard(sockets)
  OBVIOUS
<1>2. PICK vv : vv = up'
  OBVIOUS
<1>3. PairInv /\ FlowInv /\ Keeps(sockets, L, Relay, up) /\ Asked(up, L) /\ Streams(sockets)
  BY <1>1, FitStreams DEF OrderInv, FlowInv
<1>4. Served(sockets, L, vv)
  BY <1>2, <1>3, ServeKeeps
<1>5. PICK r : Become(r) /\ Keeps(sockets, L, r, vv) /\ Quiet(Relay, r)
  BY <1>4 DEF Served
<1>6. Asked(vv, L) /\ Fitting(sockets, made') /\ Apart(sockets) /\ Counters' /\ sockets = sockets'
  BY <1>3, <1>4 DEF Served, FlowInv, Counters
<1>7. Unmade'
  <2>1. /\ Relay.sessions = sessions /\ Relay.down = down
    BY DEF Relay
  <2>2. ASSUME NEW e \in Links, e > made PROVE down'[e] = <<>>
    <3>1. e \notin DOMAIN sessions
      BY <1>3, <2>2 DEF PairInv, Links
    <3>2. down[e] = <<>>
      BY <1>3, <2>2 DEF FlowInv, Unmade
    <3> QED BY <1>5, <2>1, <3>1, <3>2 DEF Quiet, Become
  <2> QED BY <2>2 DEF Unmade
<1> QED BY <1>1, <1>2, <1>5, <1>6, <1>7, FlowStep

LEMMA FlowInit == RelayInit => FlowInv
<1> SUFFICES ASSUME RelayInit PROVE FlowInv
  OBVIOUS
<1>1. /\ DOMAIN sessions = {} /\ DOMAIN sockets = {} /\ sessions = [c \in DOMAIN sessions |-> sessions[c]]
      /\ sockets = [h \in DOMAIN sockets |-> sockets[h]]
      /\ up = [c \in Links |-> up[c]] /\ down = [c \in Links |-> down[c]]
      /\ (\A c \in Links : up[c] = <<>> /\ down[c] = <<>>) /\ used = 0 /\ made = 0 /\ events = 0
  BY DEF RelayInit
<1>2. Relay.sessions = sessions /\ Relay.down = down /\ DOMAIN Relay = {"sessions", "down"}
  BY DEF Relay
<1>3. Typed(Relay, Heard(sockets))
  BY <1>1, <1>2, EmptySeq DEF Typed, IsState, AreLinks
<1>4. Partners(Relay.sessions)
  BY <1>1, <1>2 DEF Partners
<1>5. Flows(sockets, Relay, up)
  BY <1>1, <1>2 DEF Flows, SendsRuns, ReadsRuns, SendsLast
<1>6. Asked(up, Heard(sockets))
  BY <1>1, EmptySeq DEF Asked
<1>7. Fitting(sockets, made) /\ Apart(sockets) /\ Unmade
  BY <1>1 DEF Fitting, Apart, Unmade
<1>8. Counters
  BY <1>1, RelayAssumption, StreamsAssumption DEF Counters
<1> QED BY <1>3, <1>4, <1>5, <1>6, <1>7, <1>8 DEF FlowInv, Keeps

LEMMA OrderStep == OrderInv /\ [Next]_vars => OrderInv'
<1> SUFFICES ASSUME OrderInv, [Next]_vars PROVE FlowInv'
  BY PairStep DEF OrderInv
<1> FlowInv
  BY DEF OrderInv
<1>1. ASSUME NEW c \in Links, Serve(c), UNCHANGED <<sockets, used, made, events>> PROVE FlowInv'
  BY <1>1, FlowServer
<1>2. ASSUME NEW h \in DOMAIN sockets, PtpAccept(h) \/ PtpSend(h) \/ PtpClose(h) PROVE FlowInv'
  BY <1>2, AcceptStep, FlowSend, CloseStep
<1>3. ASSUME NEW h \in DOMAIN sockets, StartLink(h) \/ RequestExpires(h) \/ Break(h) PROVE FlowInv'
  BY <1>3, FlowStart, OlderStep, FlowBreak
<1>4. ASSUME NEW h \in DOMAIN sockets, Receive(h) PROVE FlowInv'
  BY <1>4, RequestStep, EstablishedStep, BlockStep, EofStep, OversizedStep DEF Receive
<1>5. ASSUME NEW n \in Listeners, PtpListen(n) PROVE FlowInv'
  BY <1>5, ListenStep
<1>6. ASSUME NEW n \in Openers, NEW p \in Listeners, PtpOpen(n, p) PROVE FlowInv'
  BY <1>6, OpenStep
<1>7. ASSUME NEW m \in Macs, Join(m) \/ OnConnectBssid(m) \/ JoinTimesOut(m) \/ LoseGroup(m) PROVE FlowInv'
  BY <1>7, MemberStep
<1>8. CASE UNCHANGED vars
  <2>1. UNCHANGED <<sessions, up, down, made>> /\ UNCHANGED <<sockets, used, events>>
    BY <1>8 DEF vars
  <2>2. SameStreams(sockets, sockets') /\ Fitting(sockets', made) /\ Counters'
    BY <2>1 DEF SameStreams, FlowInv, Counters
  <2> QED BY <2>1, <2>2, SocketStep
<1> QED BY <1>1, <1>2, <1>3, <1>4, <1>5, <1>6, <1>7, <1>8 DEF Next, Game, Network, Membership, Server

LEMMA OrderHolds == Spec => []OrderInv
<1>1. RelayInit => OrderInv
  BY QueueEmpty, FlowInit DEF RelayInit, OrderInv, PairInv, AreLinks, Partners, Queues
<1> QED BY <1>1, OrderStep, PTL DEF Spec

(* However many games connect, send and close, and whatever links break,   *)
(* what a game reads from a stream (adhoc/client.cpp, receive_stream) is a *)
(* run of the blocks one other socket sent, in order and without a gap.    *)
THEOREM RelayInOrder == Spec => []InOrder
<1>1. OrderInv => InOrder
  <2> SUFFICES ASSUME OrderInv, NEW h \in DOMAIN sockets, NEW i \in 2 .. Len(sockets[h].received)
               PROVE  /\ sockets[h].received[i - 1].from = sockets[h].received[i].from
                      /\ sockets[h].received[i].number = sockets[h].received[i - 1].number + 1
    BY DEF InOrder
  <2>1. Fits(sockets[h], made)
    BY DEF OrderInv, FlowInv, Fitting
  <2>2. PICK q \in Seq(Blocks) : q = sockets[h].received
    BY <2>1 DEF Fits, Sockets
  <2>3. RunIn(q)
    BY <2>1, <2>2 DEF Fits
  <2>4. Len(q) \in Nat /\ DOMAIN q = 1 .. Len(q) /\ \A j \in 1 .. Len(q) : q[j] \in Blocks
    BY LenProperties
  <2>5. i - 1 \in DOMAIN q /\ (i - 1) + 1 = i /\ i \in DOMAIN q /\ i \in 2 .. Len(q)
    BY <2>2, <2>4
  <2>6. Consecutive(q[i - 1], q[i]) /\ q[i - 1] \in Blocks /\ q[i] \in Blocks
    BY <2>3, <2>4, <2>5 DEF RunIn
  <2> QED BY <2>2, <2>6 DEF Consecutive
<1> QED BY <1>1, OrderHolds, PTL

GroupTyped == group \in [Macs -> Groups]

LEMMA GroupStays == GroupTyped /\ [Next]_vars => GroupTyped'
<1> SUFFICES ASSUME GroupTyped, [Next]_vars PROVE GroupTyped'
  OBVIOUS
<1>1. CASE UNCHANGED group
  BY <1>1 DEF GroupTyped
<1>2. ASSUME NEW m \in Macs, Join(m) \/ OnConnectBssid(m) \/ JoinTimesOut(m) \/ LoseGroup(m) PROVE GroupTyped'
  <2>1. PICK g \in Groups : group' = [group EXCEPT ![m] = g]
    BY <1>2 DEF Join, OnConnectBssid, JoinTimesOut, LoseGroup, Groups
  <2> QED BY <2>1 DEF GroupTyped
<1> QED BY <1>1, <1>2
        DEF Next, vars, Game, Network, Membership, Server, PtpListen, PtpOpen, PtpAccept, Make, PtpSend, PtpClose,
            StartLink, Receive, OnRequest, OnEstablished, OnBlock, OnEof, OnOversized, Received, RequestExpires, Break

LEMMA GroupHolds == Spec => []GroupTyped
<1>1. RelayInit => GroupTyped
  BY DEF RelayInit, GroupTyped, Groups
<1> QED BY <1>1, GroupStays, PTL DEF Spec

(* The links, the queues and the sockets keep their types.                 *)
THEOREM RelayTypeCorrect == Spec => []TypeOK
<1>1. OrderInv /\ GroupTyped => TypeOK
  <2> SUFFICES ASSUME OrderInv, GroupTyped PROVE TypeOK
    OBVIOUS
  <2>1. Typed(Relay, Heard(sockets)) /\ Asked(up, Heard(sockets)) /\ Fitting(sockets, made) /\ Counters
    BY DEF OrderInv, FlowInv, Keeps
  <2>2. DOMAIN sessions \subseteq Links /\ \A c \in DOMAIN sessions : sessions[c] \in Sessions
    BY <2>1 DEF Typed, IsState, AreLinks, IsLink, Relay
  <2>3. up \in [Links -> Seq(Inits \union Blocks \union {Eof})]
    <3>1. ASSUME NEW c \in Links PROVE up[c] \in Seq(Inits \union Blocks \union {Eof})
      <4>1. up[c] \in Seq(Requests(c, Heard(sockets)))
        BY <2>1 DEF Asked
      <4>2. Requests(c, Heard(sockets)) \subseteq Inits \union Blocks \union {Eof}
        BY DEF Requests
      <4> QED BY <4>1, <4>2, SeqMonotonic
    <3> QED BY <2>1, <3>1 DEF Asked
  <2>4. down \in [Links -> Seq(Notices \union Blocks \union {Eof})]
    <3>1. ASSUME NEW c \in Links PROVE down[c] \in Seq(Notices \union Blocks \union {Eof})
      <4>1. down[c] \in Seq(ForConsole(c, Heard(sockets)) \union {Eof})
        BY <2>1 DEF Typed, Relay
      <4>2. ForConsole(c, Heard(sockets)) \union {Eof} \subseteq Notices \union Blocks \union {Eof}
        BY ForItems
      <4> QED BY <4>1, <4>2, SeqMonotonic
    <3> QED BY <2>1, <3>1 DEF Typed, Relay
  <2>5. DOMAIN sockets \subseteq Handles /\ \A h \in DOMAIN sockets : sockets[h] \in Sockets
    BY <2>1 DEF Fitting, Fits
  <2> QED BY <2>1, <2>2, <2>3, <2>4, <2>5 DEF TypeOK, ServerTypeOK, Counters, GroupTyped
<1> QED BY <1>1, OrderHolds, GroupHolds, PTL
=============================================================================
