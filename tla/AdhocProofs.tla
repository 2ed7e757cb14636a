---------------------------- MODULE AdhocProofs ----------------------------
(***************************************************************************)
(* For any number of consoles, groups and connections: a console is logged *)
(* in on one connection at most; and where nothing is under way between    *)
(* the server and a game that was told it is in its group, the game is a   *)
(* member of it, knows the other members and agrees with them on the host. *)
(* That is the end of what LobbyInv says of every moment: the last thing   *)
(* on its way to the server, and then the last thing on its way back,      *)
(* makes it so.                                                            *)
(***************************************************************************)
EXTENDS Adhoc, SequenceTheorems, TLAPS

(* What the handlers work on: the players are ps, whatever the rest is. *)
IsPlayer(p) == p = [mac |-> p.mac, group |-> p.group]
ArePlayers(ps) == ps = [c \in DOMAIN ps |-> ps[c]] /\ \A c \in DOMAIN ps : IsPlayer(ps[c])
StateOf(st, ps) ==
    DOMAIN st = {"players", "hosts", "down", "failing"} /\ st.players = ps

OneEach(ps) == \A c, d \in DOMAIN ps : ps[c].mac = ps[d].mac /\ c # d => ps[c].mac = NoMac

(* The same connections, logged in by the same consoles. *)
SameMacs(ps, qs) ==
    /\ ArePlayers(qs) /\ DOMAIN qs = DOMAIN ps
    /\ \A c \in DOMAIN ps : qs[c].mac = ps[c].mac

LoginInv == ArePlayers(players) /\ OneEach(players)
-----------------------------------------------------------------------------
(* What the parts of the handlers do to the players. *)

LEMMA TellKeeps ==
    ASSUME NEW st, NEW ps, StateOf(st, ps), NEW S, NEW packets
    PROVE  StateOf(Tell(st, S, packets), ps)
BY DEF StateOf, Tell

LEMMA LeaveGroupKeeps ==
    ASSUME NEW st, NEW ps, StateOf(st, ps), ArePlayers(ps), NEW c \in DOMAIN ps
    PROVE  \E qs : StateOf(LeaveGroup(st, c), qs) /\ SameMacs(ps, qs)
<1> DEFINE others == GroupMembers(st.players, st.players[c].group) \ {c}
           told == Tell(st, others, <<PeerLeft(c)>>)
           qs == [ps EXCEPT ![c] = [@ EXCEPT !.group = NoGroup]]
<1>1. CASE st.players[c].group = NoGroup
  BY SMTT(30), <1>1 DEF LeaveGroup, SameMacs
<1>2. CASE st.players[c].group # NoGroup
  <2>1. StateOf(told, ps)
    BY TellKeeps
  <2>2. StateOf([told EXCEPT !.players[c].group = NoGroup,
                             !.hosts[st.players[c].group] = IF others = {} THEN NoMac ELSE @], qs)
    <3> HIDE DEF told
    <3> QED BY <2>1 DEF StateOf
  <2>3. SameMacs(ps, qs)
    BY DEF SameMacs, ArePlayers, IsPlayer
  <2> QED BY <1>2, <2>2, <2>3 DEF LeaveGroup
<1> QED BY <1>1, <1>2

LEMMA EraseRemoves ==
    ASSUME NEW st, NEW ps, StateOf(st, ps), NEW c
    PROVE  StateOf(Erase(st, c), [d \in DOMAIN ps \ {c} |-> ps[d]])
BY DEF StateOf, Erase

LEMMA DropPlayerRemoves ==
    ASSUME NEW st, NEW ps, StateOf(st, ps), ArePlayers(ps), NEW c \in DOMAIN ps
    PROVE  \E qs : StateOf(DropPlayer(st, c), qs) /\ SameMacs([d \in DOMAIN ps \ {c} |-> ps[d]], qs)
<1>1. PICK qs : StateOf(LeaveGroup(st, c), qs) /\ SameMacs(ps, qs)
  BY LeaveGroupKeeps
<1>2. StateOf(DropPlayer(st, c), [d \in DOMAIN qs \ {c} |-> qs[d]])
  BY <1>1, EraseRemoves DEF DropPlayer
<1>3. SameMacs([d \in DOMAIN ps \ {c} |-> ps[d]], [d \in DOMAIN qs \ {c} |-> qs[d]])
  BY <1>1 DEF SameMacs, ArePlayers
<1> QED BY <1>2, <1>3

LEMMA GroupSet ==
    ASSUME NEW ps, NEW qs, SameMacs(ps, qs), NEW c \in DOMAIN ps, NEW g
    PROVE  SameMacs(ps, [qs EXCEPT ![c] = [@ EXCEPT !.group = g]])
<1> DEFINE rs == [qs EXCEPT ![c] = [@ EXCEPT !.group = g]]
<1>1. c \in DOMAIN qs /\ DOMAIN qs = DOMAIN ps /\ \A d \in DOMAIN qs : IsPlayer(qs[d])
  BY DEF SameMacs, ArePlayers
<1>2. DOMAIN rs = DOMAIN ps /\ rs = [d \in DOMAIN rs |-> rs[d]]
  BY <1>1
<1>3. \A d \in DOMAIN qs : rs[d] = IF d = c THEN [qs[c] EXCEPT !.group = g] ELSE qs[d]
  BY <1>1
<1>4. [qs[c] EXCEPT !.group = g] = [mac |-> qs[c].mac, group |-> g]
  BY <1>1 DEF IsPlayer
<1> HIDE DEF rs
<1>5. \A d \in DOMAIN rs : rs[d].mac = qs[d].mac /\ IsPlayer(rs[d])
  BY <1>1, <1>2, <1>3, <1>4 DEF IsPlayer
<1> QED BY <1>1, <1>2, <1>5 DEF SameMacs, ArePlayers, rs

LEMMA JoinGroupKeeps ==
    ASSUME NEW st, NEW ps, StateOf(st, ps), ArePlayers(ps), NEW c \in DOMAIN ps, NEW g
    PROVE  \E qs : StateOf(JoinGroup(st, c, g), qs) /\ SameMacs(ps, qs)
<1> DEFINE left == LeaveGroup(st, c)
           host == IF left.hosts[g] = NoMac THEN st.players[c].mac ELSE left.hosts[g]
           members == GroupMembers(left.players, g)
           entry(d) == [mac |-> left.players[d].mac, id |-> d]
           others == IF members = {} THEN <<>> ELSE <<PeersJoined({entry(d) : d \in members})>>
           told == Tell(Tell(left, members, <<PeersJoined({entry(c)})>>), {c}, others \o <<Joined(host)>>)
<1>1. PICK qs : StateOf(left, qs) /\ SameMacs(ps, qs)
  BY LeaveGroupKeeps
<1> DEFINE rs == [qs EXCEPT ![c] = [@ EXCEPT !.group = g]]
<1>2. StateOf(told, qs)
  <2> HIDE DEF left, members, others, host
  <2> QED BY <1>1, TellKeeps
<1>3. StateOf([told EXCEPT !.players[c].group = g, !.hosts[g] = host], rs)
  <2> HIDE DEF told, host
  <2> QED BY <1>2 DEF StateOf
<1>4. SameMacs(ps, rs)
  BY <1>1, GroupSet
<1>5. JoinGroup(st, c, g) = [told EXCEPT !.players[c].group = g, !.hosts[g] = host]
  BY DEF JoinGroup
<1> QED BY ZenonT(60), <1>3, <1>4, <1>5

LEMMA BecomeSets ==
    ASSUME NEW st, NEW ps, StateOf(st, ps), Become(st)
    PROVE  players' = ps
BY DEF StateOf, Become
-----------------------------------------------------------------------------
LEMMA KeptOneEach ==
    ASSUME NEW ps, NEW qs, OneEach(ps), SameMacs(ps, qs)
    PROVE  ArePlayers(qs) /\ OneEach(qs)
BY DEF OneEach, SameMacs

LEMMA RemovedOneEach ==
    ASSUME NEW ps, NEW c, OneEach(ps), ArePlayers(ps)
    PROVE  ArePlayers([d \in DOMAIN ps \ {c} |-> ps[d]]) /\ OneEach([d \in DOMAIN ps \ {c} |-> ps[d]])
BY DEF OneEach, ArePlayers

LEMMA LoginStep == LoginInv /\ [Next]_vars => LoginInv'
<1> SUFFICES ASSUME LoginInv, [Next]_vars PROVE LoginInv'
  OBVIOUS
<1>1. ArePlayers(players) /\ OneEach(players) /\ StateOf(Server, players)
  BY DEF LoginInv, StateOf, Server
<1>2. SUFFICES \E qs : players' = qs /\ ArePlayers(qs) /\ OneEach(qs)
  BY DEF LoginInv
<1>3. ASSUME NEW c \in Conns, HandleLogin(c)
      PROVE  \E qs : players' = qs /\ ArePlayers(qs) /\ OneEach(qs)
  <2> DEFINE m == Head(up[c]).mac
             older == Older(c, m)
             first == CHOOSE d \in older : TRUE
             st == IF older = {} THEN Server ELSE DropPlayer(Server, first)
  <2>1. c \in DOMAIN players /\ older = {d \in DOMAIN players \ {c} : players[d].mac = m}
    BY <1>3 DEF HandleLogin, Takes, Older
  <2>2. Become([st EXCEPT !.players[c].mac = m])
    BY <1>3 DEF HandleLogin
  <2>3. PICK ps : /\ StateOf(st, ps) /\ ArePlayers(ps) /\ c \in DOMAIN ps
                  /\ DOMAIN ps \subseteq DOMAIN players
                  /\ \A d \in DOMAIN ps : ps[d].mac = players[d].mac
                  /\ m # NoMac => \A d \in DOMAIN ps \ {c} : ps[d].mac # m
    <3>1. CASE older = {}
      BY <1>1, <2>1, <3>1
    <3>2. CASE older # {}
      <4>1. first \in older
        BY <3>2
      <4>2. first \in DOMAIN players /\ first # c /\ players[first].mac = m
        BY <2>1, <4>1
      <4>3. PICK ps : /\ StateOf(DropPlayer(Server, first), ps)
                      /\ SameMacs([d \in DOMAIN players \ {first} |-> players[d]], ps)
        <5> HIDE DEF first
        <5> QED BY <1>1, <4>2, DropPlayerRemoves
      <4>4. \A d \in DOMAIN players : d # first /\ players[d].mac = m => m = NoMac
        <5> HIDE DEF first, m
        <5> QED BY <1>1, <4>2 DEF OneEach
      <4>5. /\ ArePlayers(ps) /\ DOMAIN ps = DOMAIN players \ {first}
            /\ \A d \in DOMAIN ps : ps[d].mac = players[d].mac
        <5> HIDE DEF first
        <5> QED BY <4>3 DEF SameMacs
      <4>6. StateOf(st, ps)
        BY <3>2, <4>3
      <4> HIDE DEF first, m, st, older
      <4> QED BY <2>1, <4>2, <4>4, <4>5, <4>6
    <3> QED BY <3>1, <3>2
  <2> DEFINE qs == [ps EXCEPT ![c] = [@ EXCEPT !.mac = m]]
  <2>4. StateOf([st EXCEPT !.players[c].mac = m], qs)
    <3> HIDE DEF st, m
    <3> QED BY <2>3 DEF StateOf
  <2>5. players' = qs
    <3> HIDE DEF st, m, qs
    <3> QED BY <2>2, <2>4, BecomeSets
  <2>6. ArePlayers(qs)
    <3> HIDE DEF m
    <3> QED BY <2>3 DEF ArePlayers, IsPlayer
  <2>7. OneEach(qs)
    <3> HIDE DEF m
    <3>1. /\ DOMAIN qs = DOMAIN ps /\ qs[c].mac = m
          /\ \A d \in DOMAIN ps \ {c} : qs[d].mac = players[d].mac
      BY <2>3 DEF ArePlayers, IsPlayer
    <3> HIDE DEF qs
    <3> QED BY <1>1, <2>3, <3>1 DEF OneEach
  <2> HIDE DEF qs
  <2> QED BY <2>5, <2>6, <2>7
<1>4. ASSUME NEW c \in Conns, HandleConnect(c)
      PROVE  \E qs : players' = qs /\ ArePlayers(qs) /\ OneEach(qs)
  <2>1. PICK qs : StateOf(JoinGroup(Server, c, Head(up[c]).group), qs) /\ SameMacs(players, qs)
    BY <1>1, <1>4, JoinGroupKeeps DEF HandleConnect, Takes
  <2> QED BY <1>1, <1>4, <2>1, BecomeSets, KeptOneEach DEF HandleConnect
<1>5. ASSUME NEW c \in Conns, HandleDisconnect(c)
      PROVE  \E qs : players' = qs /\ ArePlayers(qs) /\ OneEach(qs)
  <2>1. PICK qs : StateOf(LeaveGroup(Server, c), qs) /\ SameMacs(players, qs)
    BY <1>1, <1>5, LeaveGroupKeeps DEF HandleDisconnect, Takes
  <2> QED BY <1>1, <1>5, <2>1, BecomeSets, KeptOneEach DEF HandleDisconnect
<1>6. ASSUME NEW c \in Conns, HandleEof(c) \/ Expire(c)
      PROVE  \E qs : players' = qs /\ ArePlayers(qs) /\ OneEach(qs)
  <2>1. c \in DOMAIN players /\ Become(DropPlayer(Server, c))
    BY <1>6 DEF HandleEof, Takes, Expire
  <2>2. PICK qs : /\ StateOf(DropPlayer(Server, c), qs)
                  /\ SameMacs([d \in DOMAIN players \ {c} |-> players[d]], qs)
    BY <1>1, <2>1, DropPlayerRemoves
  <2> QED BY <1>1, <2>1, <2>2, BecomeSets, RemovedOneEach, KeptOneEach
<1>7. ASSUME NEW c \in Conns, WriteFails(c)
      PROVE  \E qs : players' = qs /\ ArePlayers(qs) /\ OneEach(qs)
  <2>1. StateOf(Erase(Server, c), [d \in DOMAIN players \ {c} |-> players[d]]) /\ Become(Erase(Server, c))
    BY <1>1, <1>7, EraseRemoves DEF WriteFails
  <2>2. players' = [d \in DOMAIN players \ {c} |-> players[d]]
    BY <2>1, BecomeSets
  <2> QED BY <1>1, <2>2, RemovedOneEach
<1>8. ASSUME NEW m \in Macs, LogIn(m)
      PROVE  \E qs : players' = qs /\ ArePlayers(qs) /\ OneEach(qs)
  BY <1>1, <1>8 DEF LogIn, Stranger, ArePlayers, IsPlayer, OneEach
<1>9. CASE UNCHANGED players
  BY <1>1, <1>9
<1> QED
  BY <1>3, <1>4, <1>5, <1>6, <1>7, <1>8, <1>9
     DEF Next, vars, serverVars, ServerNext, Handle, ClientNext, ConnectionBreaks, Join, Leave, Receive,
         OnPeersJoined, OnPeerLeft, OnJoined, OnEof, Received, Reconnect, RequestTimeout, GraceEnds

(* "A new login with a MAC already logged in replaces the older            *)
(* connection" (server.hpp), for any number of consoles and connections    *)
(* and whatever breaks, times out or is made again meanwhile.              *)
THEOREM AdhocOneLogin == Spec => []OneLoginPerMac
<1>1. Init => LoginInv
  BY DEF Init, LoginInv, ArePlayers, OneEach
<1>2. LoginInv => OneLoginPerMac
  BY DEF LoginInv, OneEach, OneLoginPerMac
<1> QED BY <1>1, <1>2, LoginStep, PTL DEF Spec

-----------------------------------------------------------------------------
(* What a console will come to believe, and the server will come to do.    *)
(* A packet may set something, and a later one clear it: what x is set to, *)
(* or was before (x \in X), lasts to the end of the queue q when no packet *)
(* that clears it comes after the last that sets it.                       *)

Lasts(x, X, q, S, C) ==
    \E i \in 0 .. Len(q) :
       /\ IF i = 0 THEN x \in X ELSE q[i] \in S
       /\ \A j \in 1 .. Len(q) : j > i => q[j] \notin C
Has(q, S) == \E j \in 1 .. Len(q) : q[j] \in S

LEMMA LastsAppended ==
    ASSUME NEW T, NEW q \in Seq(T), NEW p \in T, NEW x, NEW X, NEW S, NEW C,
           p \in S \/ (p \notin C /\ Lasts(x, X, q, S, C))
    PROVE  Lasts(x, X, Append(q, p), S, C)
<1> DEFINE r == Append(q, p)
<1>1. Len(q) \in Nat /\ Len(r) = Len(q) + 1 /\ r[Len(r)] = p /\ \A i \in 1 .. Len(q) : r[i] = q[i]
  BY AppendProperties, LenProperties
<1> HIDE DEF r
<1>2. CASE p \in S
  <2>1. Len(r) \in 0 .. Len(r) /\ Len(r) # 0 /\ \A j \in 1 .. Len(r) : ~ (j > Len(r))
    BY <1>1
  <2> QED BY <1>1, <1>2, <2>1 DEF Lasts, r
<1>3. CASE p \notin C /\ Lasts(x, X, q, S, C)
  <2>1. PICK i \in 0 .. Len(q) : /\ IF i = 0 THEN x \in X ELSE q[i] \in S
                                 /\ \A j \in 1 .. Len(q) : j > i => q[j] \notin C
    BY <1>3 DEF Lasts
  <2>2. i \in 0 .. Len(r) /\ (i # 0 => i \in 1 .. Len(q))
    BY <1>1
  <2>3. \A j \in 1 .. Len(r) : j \in 1 .. Len(q) \/ j = Len(r)
    BY <1>1
  <2>4. \A j \in 1 .. Len(r) : j > i => r[j] \notin C
    BY <1>1, <1>3, <2>1, <2>3
  <2> QED BY <1>1, <2>1, <2>2, <2>4 DEF Lasts, r
<1> QED BY <1>2, <1>3

LEMMA LastsTaken ==
    ASSUME NEW T, NEW q \in Seq(T), q # <<>>, NEW x, NEW X, NEW S, NEW C, NEW y, NEW Y,
           Lasts(x, X, q, S, C), Head(q) \in S \/ (Head(q) \notin C /\ x \in X) => y \in Y
    PROVE  Lasts(y, Y, Tail(q), S, C)
<1> DEFINE r == Tail(q)
<1>1. /\ Len(q) \in Nat \ {0} /\ Len(r) = Len(q) - 1 /\ q[1] = Head(q)
      /\ \A i \in 1 .. Len(r) : r[i] = q[i + 1]
  BY LenProperties, EmptySeq, HeadTailProperties
<1> HIDE DEF r
<1>2. PICK i \in 0 .. Len(q) : /\ IF i = 0 THEN x \in X ELSE q[i] \in S
                               /\ \A j \in 1 .. Len(q) : j > i => q[j] \notin C
  BY DEF Lasts
<1>3. \A j \in 1 .. Len(r) : j + 1 \in 1 .. Len(q) /\ (j + 1 > i => r[j] \notin C)
  BY <1>1, <1>2
<1>4. CASE i \in {0, 1}
  <2>1. y \in Y
    BY <1>1, <1>2, <1>4
  <2>2. 0 \in 0 .. Len(r) /\ \A j \in 1 .. Len(r) : j > 0 => r[j] \notin C
    BY <1>1, <1>3, <1>4
  <2> QED BY <2>1, <2>2 DEF Lasts, r
<1>5. CASE i \notin {0, 1}
  <2>1. i - 1 \in 1 .. Len(r) /\ i - 1 \in 0 .. Len(r) /\ i - 1 # 0 /\ r[i - 1] = q[i] /\ i # 0
    BY <1>1, <1>5
  <2>2. \A j \in 1 .. Len(r) : j > i - 1 => r[j] \notin C
    BY <1>1, <1>3
  <2> QED BY <1>2, <2>1, <2>2 DEF Lasts, r
<1> QED BY <1>4, <1>5

\* Where nothing in the queue clears it, it holds already or is set there.
LEMMA LastsUnasked ==
    ASSUME NEW q, NEW x, NEW X, NEW S, NEW C, S \subseteq C, Lasts(x, X, q, S, C), ~ Has(q, C),
           Len(q) \in Nat
    PROVE  x \in X
<1>1. PICK i \in 0 .. Len(q) : IF i = 0 THEN x \in X ELSE q[i] \in S
  BY DEF Lasts
<1>2. i # 0 => i \in 1 .. Len(q)
  OBVIOUS
<1> QED BY <1>1, <1>2 DEF Has

LEMMA HasAppended ==
    ASSUME NEW T, NEW q \in Seq(T), NEW p \in T, NEW S
    PROVE  Has(Append(q, p), S) <=> Has(q, S) \/ p \in S
<1> DEFINE r == Append(q, p)
<1>1. Len(q) \in Nat /\ Len(r) = Len(q) + 1 /\ r[Len(r)] = p /\ \A i \in 1 .. Len(q) : r[i] = q[i]
  BY AppendProperties, LenProperties
<1> HIDE DEF r
<1>2. Has(r, S) <=> Has(q, S) \/ p \in S
  BY <1>1 DEF Has
<1> QED BY <1>2 DEF r

LEMMA HasTaken ==
    ASSUME NEW T, NEW q \in Seq(T), q # <<>>, NEW S
    PROVE  Has(q, S) <=> Head(q) \in S \/ Has(Tail(q), S)
<1> DEFINE r == Tail(q)
<1>1. /\ Len(q) \in Nat \ {0} /\ Len(r) = Len(q) - 1 /\ q[1] = Head(q)
      /\ \A i \in 1 .. Len(r) : r[i] = q[i + 1]
  BY LenProperties, EmptySeq, HeadTailProperties
<1> HIDE DEF r
<1>2. \A j \in 1 .. Len(q) : j = 1 \/ (j - 1 \in 1 .. Len(r) /\ r[j - 1] = q[j])
  BY <1>1
<1>3. \A j \in 1 .. Len(r) : j + 1 \in 1 .. Len(q)
  BY <1>1
<1>4. Has(q, S) <=> Head(q) \in S \/ Has(r, S)
  BY <1>1, <1>2, <1>3 DEF Has
<1> QED BY <1>4 DEF r

-----------------------------------------------------------------------------
(* What the parts of the handlers do, to the whole of the server.           *)

Player == [mac : Macs \union {NoMac}, group : Groups \union {NoGroup}]
ServerFields == {"players", "hosts", "down", "failing"}
IsServer(st) ==
    /\ DOMAIN st = ServerFields
    /\ st.players \in [DOMAIN st.players -> Player] /\ DOMAIN st.players \subseteq Conns
    /\ st.hosts \in [Groups -> Macs \union {NoMac}]
    /\ st.down \in [Conns -> Seq(Answers)]
    /\ st.failing \subseteq DOMAIN st.players

\* r is st after the player of connection c has left its group.
HasLeft(st, r, c) ==
    /\ DOMAIN r.players = DOMAIN st.players
    /\ \A d \in DOMAIN st.players :
          /\ r.players[d].mac = st.players[d].mac
          /\ r.players[d].group = IF d = c THEN NoGroup ELSE st.players[d].group
    /\ \A h \in Groups : r.hosts[h] = st.hosts[h] \/ GroupMembers(st.players, h) \subseteq {c}
    /\ \A d \in Conns : \/ r.down[d] = st.down[d]
                        \/ d # c /\ r.down[d] = Append(st.down[d], PeerLeft(c))

LEMMA TellFields ==
    ASSUME NEW st, DOMAIN st = ServerFields, NEW S, NEW packets
    PROVE  /\ DOMAIN Tell(st, S, packets) = ServerFields
           /\ Tell(st, S, packets).players = st.players
           /\ Tell(st, S, packets).hosts = st.hosts
           /\ \A d \in Conns : Tell(st, S, packets).down[d] =
                 IF d \in S /\ ~ Broken(d) THEN st.down[d] \o packets ELSE st.down[d]
           /\ Tell(st, S, packets).failing = st.failing \union {d \in S : WasReset(d)}
  BY DEF Tell, ServerFields

LEMMA TellTyped ==
    ASSUME NEW st, IsServer(st), NEW S \in SUBSET DOMAIN st.players, NEW packets \in Seq(Answers)
    PROVE  IsServer(Tell(st, S, packets))
<1> DEFINE r == Tell(st, S, packets)
           heard == [d \in Conns |-> IF d \in S /\ ~ Broken(d) THEN st.down[d] \o packets ELSE st.down[d]]
<1>1. /\ DOMAIN r = ServerFields /\ r.players = st.players /\ r.hosts = st.hosts
      /\ r.failing = st.failing \union {d \in S : WasReset(d)}
  BY TellFields DEF IsServer
<1>2. r.down = heard
  BY DEF Tell, ServerFields, IsServer
<1> HIDE DEF r
<1>3. \A d \in Conns : st.down[d] \o packets \in Seq(Answers) /\ st.down[d] \in Seq(Answers)
  BY ConcatProperties DEF IsServer
<1>4. heard \in [Conns -> Seq(Answers)]
  BY <1>3
<1> HIDE DEF heard
<1>5. IsServer(r)
  BY <1>1, <1>2, <1>4 DEF IsServer
<1> QED BY <1>5 DEF r

LEMMA LeaveGroupLeaves ==
    ASSUME NEW st, IsServer(st), NEW c \in DOMAIN st.players
    PROVE  IsServer(LeaveGroup(st, c)) /\ HasLeft(st, LeaveGroup(st, c), c)
<1> DEFINE g == st.players[c].group
           others == GroupMembers(st.players, g) \ {c}
           told == Tell(st, others, <<PeerLeft(c)>>)
           r == [told EXCEPT !.players[c].group = NoGroup,
                             !.hosts[g] = IF others = {} THEN NoMac ELSE @]
<1>1. CASE g = NoGroup
  <2>1. LeaveGroup(st, c) = st
    BY <1>1 DEF LeaveGroup
  <2>2. HasLeft(st, st, c)
    BY <1>1 DEF HasLeft
  <2> QED BY <2>1, <2>2
<1>2. CASE g # NoGroup
  <2>1. LeaveGroup(st, c) = r
    BY <1>2 DEF LeaveGroup
  <2>2. g \in Groups /\ c \in Conns /\ st.players[c] \in Player
    BY <1>2 DEF IsServer, Player
  <2>3. others \in SUBSET DOMAIN st.players /\ c \notin others
    BY DEF GroupMembers
  <2>4. others = {} => GroupMembers(st.players, g) \subseteq {c}
    OBVIOUS
  <2>5. PeerLeft(c) \in Answers /\ <<PeerLeft(c)>> \in Seq(Answers)
    BY <2>2 DEF Answers
  <2>6. IsServer(told)
    <3> HIDE DEF others
    <3> QED BY <2>3, <2>5, TellTyped
  <2>7. /\ DOMAIN told = ServerFields /\ told.players = st.players /\ told.hosts = st.hosts
        /\ \A d \in Conns : told.down[d] =
              IF d \in others /\ ~ Broken(d) THEN st.down[d] \o <<PeerLeft(c)>> ELSE st.down[d]
    <3> HIDE DEF others
    <3> QED BY TellFields DEF IsServer
  <2> HIDE DEF g, others, told
  <2>8. /\ DOMAIN r = ServerFields /\ r.down = told.down /\ r.failing = told.failing
        /\ r.players = [told.players EXCEPT ![c].group = NoGroup]
        /\ r.hosts = [told.hosts EXCEPT ![g] = IF others = {} THEN NoMac ELSE @]
    BY <2>7 DEF ServerFields
  <2> HIDE DEF r
  <2>9. /\ DOMAIN r.players = DOMAIN st.players
        /\ \A d \in DOMAIN st.players : d # c => r.players[d] = st.players[d]
        /\ r.players[c] = [st.players[c] EXCEPT !.group = NoGroup]
        /\ r.players = [d \in DOMAIN r.players |-> r.players[d]]
    BY <2>7, <2>8 DEF IsServer
  <2>10. r.players[c] \in Player /\ r.players[c].mac = st.players[c].mac /\ r.players[c].group = NoGroup
    BY <2>2, <2>9 DEF Player
  <2>11. r.players \in [DOMAIN r.players -> Player]
    <3>1. \A d \in DOMAIN r.players : r.players[d] \in Player
      BY <2>9, <2>10 DEF IsServer
    <3> QED BY <2>9, <3>1
  <2>12. r.hosts \in [Groups -> Macs \union {NoMac}] /\ \A h \in Groups : h # g => r.hosts[h] = st.hosts[h]
    BY <2>2, <2>7, <2>8 DEF IsServer
  <2>13. others # {} => r.hosts[g] = st.hosts[g]
    BY <2>2, <2>7, <2>8 DEF IsServer
  <2>14. IsServer(r)
    BY <2>6, <2>7, <2>8, <2>9, <2>11, <2>12 DEF IsServer
  <2>15. \A d \in Conns : st.down[d] \o <<PeerLeft(c)>> = Append(st.down[d], PeerLeft(c))
    BY <2>5, AppendIsConcat DEF IsServer
  <2>16. \A d \in Conns : \/ r.down[d] = st.down[d]
                          \/ d # c /\ r.down[d] = Append(st.down[d], PeerLeft(c))
    BY <2>3, <2>7, <2>8, <2>15
  <2>17. HasLeft(st, r, c)
    BY <2>4, <2>9, <2>10, <2>12, <2>13, <2>16 DEF HasLeft
  <2> QED BY <2>1, <2>14, <2>17
<1> QED BY <1>1, <1>2

\* As the members of a group are entered.
Entry(ps, d) == [mac |-> ps[d].mac, id |-> d]
NamedMembers(ps) == \A d \in DOMAIN ps : ps[d].group # NoGroup => ps[d].mac # NoMac
NewsFor(ps, g, q) ==
    IF GroupMembers(ps, g) = {} THEN q
    ELSE Append(q, PeersJoined({Entry(ps, d) : d \in GroupMembers(ps, g)}))

\* r is left after the player of connection c has joined g.
HasJoined(left, r, c, g) ==
    /\ DOMAIN r.players = DOMAIN left.players
    /\ \A d \in DOMAIN left.players :
          /\ r.players[d].mac = left.players[d].mac
          /\ r.players[d].group = IF d = c THEN g ELSE left.players[d].group
    /\ r.hosts[g] \in Macs
    /\ \A h \in Groups : h # g \/ left.hosts[h] # NoMac => r.hosts[h] = left.hosts[h]
    /\ \A d \in Conns \ {c} :
          r.down[d] = IF d \in GroupMembers(left.players, g) /\ ~ Broken(d)
                      THEN Append(left.down[d], PeersJoined({Entry(left.players, c)})) ELSE left.down[d]
    /\ ~ Broken(c) => r.down[c] = Append(NewsFor(left.players, g, left.down[c]), Joined(r.hosts[g]))

LEMMA JoinGroupJoins ==
    ASSUME NEW st, IsServer(st), NEW c \in DOMAIN st.players, NEW g \in Groups,
           NamedMembers(st.players), st.players[c].mac # NoMac
    PROVE  LET left == LeaveGroup(st, c)
               r == JoinGroup(st, c, g)
           IN  IsServer(left) /\ HasLeft(st, left, c) /\ IsServer(r) /\ HasJoined(left, r, c, g)
<1> DEFINE left == LeaveGroup(st, c)
           host == IF left.hosts[g] = NoMac THEN st.players[c].mac ELSE left.hosts[g]
           members == GroupMembers(left.players, g)
           entry(d) == [mac |-> left.players[d].mac, id |-> d]
           entries == {entry(d) : d \in members}
           others == IF members = {} THEN <<>> ELSE <<PeersJoined(entries)>>
           newcomer == PeersJoined({entry(c)})
           packets == others \o <<Joined(host)>>
           told == Tell(left, members, <<newcomer>>)
           both == Tell(told, {c}, packets)
           r == [both EXCEPT !.players[c].group = g, !.hosts[g] = host]
<1>1. JoinGroup(st, c, g) = r
  BY DEF JoinGroup
<1>2. IsServer(left) /\ HasLeft(st, left, c)
  BY LeaveGroupLeaves
<1>3. /\ c \in DOMAIN left.players /\ c \in Conns /\ left.players[c].group = NoGroup
      /\ left.players[c].mac = st.players[c].mac /\ left.players[c].mac \in Macs
      /\ NamedMembers(left.players) /\ g # NoGroup
  <2> HIDE DEF left
  <2> QED BY <1>2, LinksAssumption DEF HasLeft, NamedMembers, IsServer, Player
<1>4. host \in Macs /\ (left.hosts[g] # NoMac => host = left.hosts[g])
  <2> HIDE DEF left
  <2> QED BY <1>2, <1>3 DEF IsServer
<1> HIDE DEF left, host
<1>5. members \in SUBSET DOMAIN left.players /\ c \notin members /\ {c} \in SUBSET DOMAIN left.players
  BY <1>3 DEF GroupMembers
<1>6. \A d \in members : left.players[d].mac \in Macs /\ d \in Conns
  BY <1>2, <1>3 DEF GroupMembers, NamedMembers, IsServer, Player
<1>7. (\A d \in members : entry(d) \in Entries) /\ entry(c) \in Entries
  BY <1>3, <1>6 DEF Entries
<1>8. PeersJoined(entries) \in Answers /\ newcomer \in Answers /\ Joined(host) \in Answers
  <2>1. entries \in SUBSET Entries /\ {entry(c)} \in SUBSET Entries
    BY <1>7
  <2> HIDE DEF entries, entry
  <2> QED BY <1>4, <2>1 DEF Answers
<1>9. entry(c) = Entry(left.players, c) /\ entries = {Entry(left.players, d) : d \in members}
  BY DEF Entry
<1> HIDE DEF members, entries, newcomer
<1>10. packets \in Seq(Answers) /\ <<newcomer>> \in Seq(Answers)
  BY <1>8, ConcatProperties
<1>11. \A q \in Seq(Answers) :
          q \o packets = Append(IF members = {} THEN q ELSE Append(q, PeersJoined(entries)), Joined(host))
  <2> TAKE q \in Seq(Answers)
  <2>1. CASE members = {}
    BY <1>8, <2>1, AppendIsConcat
  <2>2. CASE members # {}
    <3>1. packets = <<PeersJoined(entries)>> \o <<Joined(host)>>
      BY <2>2
    <3>2. q \o packets = (q \o <<PeersJoined(entries)>>) \o <<Joined(host)>>
      BY <1>8, <3>1, ConcatAssociative
    <3>3. Append(q, PeersJoined(entries)) \in Seq(Answers)
      BY <1>8, AppendProperties
    <3> QED BY <1>8, <2>2, <3>2, <3>3, AppendIsConcat
  <2> QED BY <2>1, <2>2
<1> HIDE DEF packets
<1>12. IsServer(told) /\ told.players = left.players /\ told.hosts = left.hosts
       /\ \A d \in Conns : told.down[d] =
             IF d \in members /\ ~ Broken(d) THEN left.down[d] \o <<newcomer>> ELSE left.down[d]
  <2>1. IsServer(told)
    BY <1>2, <1>5, <1>10, TellTyped
  <2>2. DOMAIN left = ServerFields
    BY <1>2 DEF IsServer
  <2>3. /\ told.players = left.players /\ told.hosts = left.hosts
        /\ \A d \in Conns : told.down[d] =
              IF d \in members /\ ~ Broken(d) THEN left.down[d] \o <<newcomer>> ELSE left.down[d]
    BY <2>2, TellFields
  <2> QED BY <2>1, <2>3
<1> HIDE DEF told
<1>13. IsServer(both) /\ both.players = left.players /\ both.hosts = left.hosts
       /\ \A d \in Conns : both.down[d] =
             IF d \in {c} /\ ~ Broken(d) THEN told.down[d] \o packets ELSE told.down[d]
  <2>1. {c} \in SUBSET DOMAIN told.players /\ DOMAIN told = ServerFields
    BY <1>5, <1>12 DEF IsServer
  <2>2. IsServer(both)
    BY <1>10, <1>12, <2>1, TellTyped
  <2>3. /\ both.players = told.players /\ both.hosts = told.hosts
        /\ \A d \in Conns : both.down[d] =
              IF d \in {c} /\ ~ Broken(d) THEN told.down[d] \o packets ELSE told.down[d]
    BY <2>1, TellFields
  <2> QED BY <1>12, <2>2, <2>3
<1> HIDE DEF both
<1>14. /\ DOMAIN r = ServerFields /\ r.down = both.down /\ r.failing = both.failing
       /\ r.players = [left.players EXCEPT ![c].group = g]
       /\ r.hosts = [left.hosts EXCEPT ![g] = host]
  BY <1>13 DEF ServerFields, IsServer
<1> HIDE DEF r
<1>15. /\ DOMAIN r.players = DOMAIN left.players
       /\ \A d \in DOMAIN left.players : d # c => r.players[d] = left.players[d]
       /\ r.players[c] = [left.players[c] EXCEPT !.group = g]
       /\ r.players = [d \in DOMAIN r.players |-> r.players[d]]
  BY <1>2, <1>3, <1>14 DEF IsServer
<1>16. r.players[c] \in Player /\ r.players[c].mac = left.players[c].mac /\ r.players[c].group = g
  <2>1. left.players[c] \in Player
    BY <1>2, <1>3 DEF IsServer
  <2> QED BY <1>15, <2>1 DEF Player
<1>17. r.players \in [DOMAIN r.players -> Player]
  <2>1. \A d \in DOMAIN r.players : r.players[d] \in Player
    BY <1>2, <1>15, <1>16 DEF IsServer
  <2> QED BY <1>15, <2>1
<1>18. r.hosts \in [Groups -> Macs \union {NoMac}] /\ r.hosts[g] = host
       /\ \A h \in Groups : h # g => r.hosts[h] = left.hosts[h]
  BY <1>2, <1>4, <1>14 DEF IsServer
<1>19. IsServer(r)
  BY <1>2, <1>13, <1>14, <1>15, <1>17, <1>18 DEF IsServer
<1>20. \A d \in Conns : left.down[d] \o <<newcomer>> = Append(left.down[d], newcomer)
  BY <1>2, <1>8, AppendIsConcat DEF IsServer
<1>21. \A d \in Conns \ {c} :
          r.down[d] = IF d \in members /\ ~ Broken(d) THEN Append(left.down[d], newcomer) ELSE left.down[d]
  BY <1>12, <1>13, <1>14, <1>20
<1>22. ~ Broken(c) => r.down[c] = Append(IF members = {} THEN left.down[c]
                                         ELSE Append(left.down[c], PeersJoined(entries)), Joined(host))
  <2> SUFFICES ASSUME ~ Broken(c)
               PROVE  r.down[c] = Append(IF members = {} THEN left.down[c]
                                         ELSE Append(left.down[c], PeersJoined(entries)), Joined(host))
    OBVIOUS
  <2>1. told.down[c] = left.down[c]
    BY <1>3, <1>5, <1>12
  <2>2. r.down[c] = left.down[c] \o packets
    BY <1>3, <1>13, <1>14, <2>1
  <2>3. left.down[c] \in Seq(Answers)
    BY <1>2, <1>3 DEF IsServer
  <2> QED BY <1>11, <2>2, <2>3
<1>23. HasJoined(left, r, c, g)
  <2>1. newcomer = PeersJoined({Entry(left.players, c)})
    BY <1>9 DEF newcomer
  <2>2. ~ Broken(c) => r.down[c] = Append(NewsFor(left.players, g, left.down[c]), Joined(r.hosts[g]))
    BY <1>9, <1>18, <1>22 DEF NewsFor, members
  <2>3. \A d \in Conns \ {c} :
           r.down[d] = IF d \in GroupMembers(left.players, g) /\ ~ Broken(d)
                       THEN Append(left.down[d], PeersJoined({Entry(left.players, c)})) ELSE left.down[d]
    BY <1>21, <2>1 DEF members
  <2>4. \A h \in Groups : h # g \/ left.hosts[h] # NoMac => r.hosts[h] = left.hosts[h]
    BY <1>4, <1>18
  <2> QED BY <1>4, <1>15, <1>16, <1>18, <2>2, <2>3, <2>4 DEF HasJoined
<1> QED BY <1>1, <1>2, <1>19, <1>23 DEF left

\* r is st without the player of connection c.
HasErased(st, r, c) ==
    /\ DOMAIN r.players = DOMAIN st.players \ {c}
    /\ \A d \in DOMAIN r.players : r.players[d] = st.players[d]
    /\ r.hosts = st.hosts
    /\ \A d \in Conns \ {c} : r.down[d] = st.down[d]

LEMMA EraseErases ==
    ASSUME NEW st, IsServer(st), NEW c \in DOMAIN st.players
    PROVE  IsServer(Erase(st, c)) /\ HasErased(st, Erase(st, c), c)
<1> DEFINE r == Erase(st, c)
           rest == [d \in DOMAIN st.players \ {c} |-> st.players[d]]
<1>1. /\ DOMAIN r = ServerFields /\ r.players = rest /\ r.hosts = st.hosts
      /\ r.failing = st.failing \ {c}
      /\ r.down = [st.down EXCEPT ![c] = IF Broken(c) THEN @ ELSE Append(@, Eof)]
  BY DEF Erase, ServerFields, IsServer
<1> HIDE DEF r
<1>2. /\ DOMAIN rest = DOMAIN st.players \ {c} /\ \A d \in DOMAIN rest : rest[d] = st.players[d]
      /\ rest \in [DOMAIN rest -> Player]
  BY DEF IsServer
<1> HIDE DEF rest
<1>3. c \in Conns /\ st.down[c] \in Seq(Answers) /\ Append(st.down[c], Eof) \in Seq(Answers)
  BY AppendProperties DEF IsServer, Answers
<1>4. r.down \in [Conns -> Seq(Answers)] /\ \A d \in Conns \ {c} : r.down[d] = st.down[d]
  BY <1>1, <1>3 DEF IsServer
<1>5. IsServer(r) /\ HasErased(st, r, c)
  BY <1>1, <1>2, <1>4 DEF IsServer, HasErased
<1> QED BY <1>5 DEF r

-----------------------------------------------------------------------------
(* What a console in a group has been told, or will have been once it has   *)
(* received all that is on its way: every other member, and the host.       *)

Joins == {Joined(h) : h \in Macs}
Enters(e) == {PeersJoined(T) : T \in {U \in SUBSET Entries : e \in U}}
Removes(e) == {PeerLeft(e.id)} \union
              {PeersJoined(T) : T \in {U \in SUBSET Entries : \E n \in U : n.mac = e.mac /\ n # e}}

ToldMember(e, s, q) == Lasts(e, s.peers, q, Enters(e), Removes(e))
ToldHost(h, s, q) == Lasts(s.host, {h}, q, {Joined(h)}, Joins)
Told(ps, hs, q, s) ==
    /\ \A d \in GroupMembers(ps, s.wanted) \ {s.conn} : ToldMember(Entry(ps, d), s, q)
    /\ ToldHost(hs[s.wanted], s, q)

LEMMA PacketFacts ==
    /\ \A e, T : T \in SUBSET Entries /\ e \in T => PeersJoined(T) \in Enters(e)
    /\ \A e, T : PeersJoined(T) \in Enters(e) => e \in T
    /\ \A e, T : PeersJoined(T) \in Removes(e) => \E n \in T : n.mac = e.mac /\ n # e
    /\ \A e, T : T \in SUBSET Entries /\ (\E n \in T : n.mac = e.mac /\ n # e) => PeersJoined(T) \in Removes(e)
    /\ \A e, c : PeerLeft(c) \in Removes(e) <=> c = e.id
    /\ \A e, c : PeerLeft(c) \notin Enters(e)
    /\ \A e, h : Joined(h) \notin Removes(e) /\ Joined(h) \notin Enters(e)
    /\ \A T : PeersJoined(T) \notin Joins
    /\ \A c : PeerLeft(c) \notin Joins
    /\ \A h, k : Joined(h) = Joined(k) <=> h = k
<1>1. /\ \A T, U : PeersJoined(T) = PeersJoined(U) <=> T = U
      /\ \A c, d : PeerLeft(c) = PeerLeft(d) <=> c = d
      /\ \A h, k : Joined(h) = Joined(k) <=> h = k
      /\ \A T, c : PeersJoined(T) # PeerLeft(c)
      /\ \A T, h : PeersJoined(T) # Joined(h)
      /\ \A c, h : PeerLeft(c) # Joined(h)
  BY DEF PeersJoined, PeerLeft, Joined
<1> QED BY <1>1 DEF Enters, Removes, Joins

LEMMA ErasedTold ==
    ASSUME NEW st, NEW r, NEW c, HasErased(st, r, c), IsServer(st), NEW d \in DOMAIN r.players,
           NEW s, s.conn = d, Told(st.players, st.hosts, st.down[d], s)
    PROVE  Told(r.players, r.hosts, r.down[d], s)
<1>1. r.down[d] = st.down[d] /\ r.hosts = st.hosts
  BY DEF HasErased, IsServer
<1>2. \A e \in GroupMembers(r.players, s.wanted) :
         e \in GroupMembers(st.players, s.wanted) /\ Entry(r.players, e) = Entry(st.players, e)
  BY DEF HasErased, GroupMembers, Entry
<1> QED BY <1>1, <1>2 DEF Told

LEMMA LeftTold ==
    ASSUME NEW st, NEW r, NEW c, HasLeft(st, r, c), IsServer(st),
           NEW d \in DOMAIN st.players, d # c, NEW s, s.conn = d, s.wanted = st.players[d].group,
           s.wanted \in Groups, Told(st.players, st.hosts, st.down[d], s)
    PROVE  Told(r.players, r.hosts, r.down[d], s)
<1> DEFINE p == PeerLeft(c)
           q == st.down[d]
<1>1. d \in Conns /\ q \in Seq(Answers)
  BY DEF IsServer
<1>2. r.down[d] = q \/ r.down[d] = Append(q, p)
  BY <1>1 DEF HasLeft
<1>3. s.wanted # NoGroup /\ d \in GroupMembers(st.players, s.wanted)
  BY LinksAssumption DEF GroupMembers
<1>4. r.hosts[s.wanted] = st.hosts[s.wanted]
  BY <1>3 DEF HasLeft
<1>5. \A e \in GroupMembers(r.players, s.wanted) :
         e # c /\ e \in GroupMembers(st.players, s.wanted) /\ Entry(r.players, e) = Entry(st.players, e)
  BY DEF HasLeft, GroupMembers, Entry
<1> HIDE DEF p, q
<1>6. ASSUME NEW e \in GroupMembers(r.players, s.wanted) \ {s.conn}
      PROVE  ToldMember(Entry(r.players, e), s, r.down[d])
  <2> DEFINE n == Entry(st.players, e)
  <2>1. ToldMember(n, s, q)
    BY <1>5 DEF Told, q
  <2>2. p \notin Removes(n)
    BY <1>5, PacketFacts DEF Entry, p
  <2> HIDE DEF n
  <2>3. ToldMember(n, s, Append(q, p))
    <3>1. PICK T : q \in Seq(T) /\ p \in T
      <4>1. q \in Seq(Answers \union {p})
        BY <1>1, SeqDef
      <4> QED BY <4>1
    <3> QED BY <2>1, <2>2, <3>1, LastsAppended DEF ToldMember
  <2>4. Entry(r.players, e) = n
    BY <1>5 DEF n
  <2> QED BY <1>2, <2>1, <2>3, <2>4
<1>7. ToldHost(r.hosts[s.wanted], s, r.down[d])
  <2>1. ToldHost(st.hosts[s.wanted], s, q)
    BY DEF Told, q
  <2>2. p \notin Joins
    BY PacketFacts DEF p
  <2>3. PICK T : q \in Seq(T) /\ p \in T
    <3>1. q \in Seq(Answers \union {p})
      BY <1>1, SeqDef
    <3> QED BY <3>1
  <2>4. ToldHost(st.hosts[s.wanted], s, Append(q, p))
    BY <2>1, <2>2, <2>3, LastsAppended DEF ToldHost
  <2> QED BY <1>2, <1>4, <2>1, <2>4
<1> QED BY <1>6, <1>7 DEF Told

HostsThere(ps, hs) == \A d \in DOMAIN ps : ps[d].group # NoGroup => hs[ps[d].group] # NoMac

\* Nobody else in the group goes by the newcomer's MAC.
LEMMA JoinedTold ==
    ASSUME NEW left, NEW r, NEW c \in DOMAIN left.players, NEW g \in Groups, HasJoined(left, r, c, g),
           IsServer(left), NamedMembers(left.players), OneEach(left.players),
           HostsThere(left.players, left.hosts), left.players[c].mac # NoMac,
           NEW d \in DOMAIN left.players, d # c, ~ Broken(d),
           NEW s, s.conn = d, s.wanted = left.players[d].group,
           s.wanted \in Groups, Told(left.players, left.hosts, left.down[d], s)
    PROVE  Told(r.players, r.hosts, r.down[d], s)
<1> DEFINE new == Entry(left.players, c)
           p == PeersJoined({new})
           q == left.down[d]
<1>1. d \in Conns /\ c \in Conns /\ q \in Seq(Answers) /\ left.players[c] \in Player
  BY DEF IsServer
<1>2. s.wanted # NoGroup /\ d \in GroupMembers(left.players, s.wanted)
  BY LinksAssumption DEF GroupMembers
<1>3. {new} \in SUBSET Entries
  BY <1>1 DEF Entry, Entries, Player
<1>4. r.down[d] = IF d \in GroupMembers(left.players, g) THEN Append(q, p) ELSE q
  BY <1>1 DEF HasJoined
<1>5. r.hosts[s.wanted] = left.hosts[s.wanted]
  BY <1>2 DEF HasJoined, HostsThere
<1>6. \E T : q \in Seq(T) /\ p \in T
  <2>1. q \in Seq(Answers \union {p})
    BY <1>1, SeqDef
  <2> QED BY <2>1
<1>7. \A e \in GroupMembers(r.players, s.wanted) : e \in DOMAIN left.players /\ Entry(r.players, e) = Entry(left.players, e)
  BY DEF HasJoined, GroupMembers, Entry
<1> HIDE DEF q
<1>8. ASSUME NEW e \in GroupMembers(r.players, s.wanted) \ {s.conn}
      PROVE  ToldMember(Entry(r.players, e), s, r.down[d])
  <2>1. CASE e = c
    <3>1. s.wanted = g
      BY <2>1 DEF HasJoined, GroupMembers
    <3>2. r.down[d] = Append(q, p)
      BY <1>2, <1>4, <3>1
    <3>3. p \in Enters(new)
      BY <1>3, PacketFacts
    <3> HIDE DEF p, new
    <3>4. ToldMember(new, s, Append(q, p))
      BY <1>6, <3>3, LastsAppended DEF ToldMember
    <3> QED BY <1>7, <2>1, <3>2, <3>4 DEF new
  <2>2. CASE e # c
    <3> DEFINE n == Entry(left.players, e)
    <3>1. e \in GroupMembers(left.players, s.wanted)
      BY <2>2 DEF HasJoined, GroupMembers
    <3>2. ToldMember(n, s, q)
      BY <3>1 DEF Told, q
    <3>3. left.players[e].mac # left.players[c].mac
      BY <1>2, <2>2, <3>1 DEF OneEach, NamedMembers, GroupMembers
    <3>4. p \notin Removes(n)
      <4>1. new.mac = left.players[c].mac /\ n.mac = left.players[e].mac
        BY DEF Entry
      <4> HIDE DEF new, n
      <4> QED BY <3>3, <4>1, PacketFacts
    <3> HIDE DEF p, new, n
    <3>5. ToldMember(n, s, Append(q, p))
      BY <1>6, <3>2, <3>4, LastsAppended DEF ToldMember
    <3>6. Entry(r.players, e) = n
      BY <1>7 DEF n
    <3> QED BY <1>4, <3>2, <3>5, <3>6
  <2> QED BY <2>1, <2>2
<1>9. ToldHost(r.hosts[s.wanted], s, r.down[d])
  <2>1. ToldHost(left.hosts[s.wanted], s, q)
    BY DEF Told, q
  <2>2. p \notin Joins
    BY PacketFacts
  <2> HIDE DEF p
  <2>3. ToldHost(left.hosts[s.wanted], s, Append(q, p))
    BY <1>6, <2>1, <2>2, LastsAppended DEF ToldHost
  <2> QED BY <1>4, <1>5, <2>1, <2>3
<1> QED BY <1>8, <1>9 DEF Told

\* The newcomer is told about everyone, and who the host is.
LEMMA NewcomerTold ==
    ASSUME NEW left, NEW r, NEW c \in DOMAIN left.players, NEW g \in Groups, HasJoined(left, r, c, g),
           IsServer(left), NamedMembers(left.players), left.players[c].group = NoGroup,
           ~ Broken(c), NEW s, s.conn = c, s.wanted = g
    PROVE  Told(r.players, r.hosts, r.down[c], s)
<1> DEFINE members == GroupMembers(left.players, g)
           entries == {Entry(left.players, d) : d \in members}
           p == PeersJoined(entries)
           last == Joined(r.hosts[g])
           q == left.down[c]
           news == IF members = {} THEN q ELSE Append(q, p)
<1>1. c \in Conns /\ q \in Seq(Answers)
  BY DEF IsServer
<1>2. \A d \in members : left.players[d].mac \in Macs /\ d \in Conns
  BY DEF GroupMembers, NamedMembers, IsServer, Player
<1>3. entries \in SUBSET Entries
  BY <1>2 DEF Entry, Entries
<1>4. r.down[c] = Append(news, last)
  BY DEF HasJoined, NewsFor
<1>5. \E T : q \in Seq(T) /\ p \in T /\ last \in T /\ Append(q, p) \in Seq(T)
  <2> HIDE DEF p, last, q
  <2>1. q \in Seq(Answers \union {p, last})
    BY <1>1, SeqDef
  <2> QED BY <2>1, AppendProperties
<1>6. ASSUME NEW e \in GroupMembers(r.players, s.wanted) \ {s.conn}
      PROVE  ToldMember(Entry(r.players, e), s, r.down[c])
  <2> DEFINE n == Entry(left.players, e)
  <2>1. e \in members /\ Entry(r.players, e) = n
    BY DEF HasJoined, GroupMembers, Entry
  <2>2. n \in entries
    BY <2>1
  <2>3. p \in Enters(n)
    <3> HIDE DEF n, entries
    <3> QED BY <1>3, <2>2, PacketFacts
  <2>4. last \notin Removes(n)
    BY PacketFacts
  <2> HIDE DEF n, p, last, q, members
  <2>5. news = Append(q, p)
    BY <2>1
  <2>6. ToldMember(n, s, Append(q, p))
    BY <1>5, <2>3, LastsAppended DEF ToldMember
  <2>7. ToldMember(n, s, Append(Append(q, p), last))
    BY <1>5, <2>4, <2>6, LastsAppended DEF ToldMember
  <2> QED BY <1>4, <2>1, <2>5, <2>7
<1>7. ToldHost(r.hosts[s.wanted], s, r.down[c])
  <2>1. last \in {Joined(r.hosts[g])}
    OBVIOUS
  <2> HIDE DEF p, last, q, members
  <2>2. \E T : news \in Seq(T) /\ last \in T
    BY <1>5
  <2>3. ToldHost(r.hosts[g], s, Append(news, last))
    <3> HIDE DEF news
    <3> QED BY <2>1, <2>2, LastsAppended DEF ToldHost
  <2> QED BY <1>4, <2>3
<1> QED BY <1>6, <1>7 DEF Told

-----------------------------------------------------------------------------
(* The invariant of the lobby, connection by connection.                    *)

Asks == {Disconnect} \union {Connect(g) : g \in Groups}
Logins == {Login(m) : m \in Macs}

\* A console logs in once and before it asks for anything: only a console the
\* server knows is ever in a group.
LoginsFirst(c) ==
    /\ up[c] # <<>> => ~ Has(Tail(up[c]), Logins)
    /\ players[c].mac # NoMac => ~ Has(up[c], Logins)
    /\ players[c].mac = NoMac =>
          /\ players[c].group = NoGroup /\ up[c] # <<>>
          /\ Head(up[c]) \in Logins \/ up[c] = <<Reset>>

Owns(m, c) ==
    /\ players[c].mac \in {m, NoMac}
    /\ \A n \in Macs : Has(up[c], {Login(n)}) => n = m

\* What the server was asked for last is the group the game wants; and once the
\* server has read all it was asked, the console has been told about that group.
Heard(s, c) == ~ Broken(c) /\ s.wanted # NoGroup =>
    /\ Lasts(players[c].group, {s.wanted}, up[c], {Connect(s.wanted)}, Asks)
    /\ ~ Has(up[c], Asks) => Told(players, hosts, down[c], s)

ConnInv(c) ==
    /\ LoginsFirst(c)
    /\ players[c].group # NoGroup => hosts[players[c].group] # NoMac
    /\ \A m \in Macs : client[m].conn = c => Owns(m, c) /\ Heard(client[m], c)

LobbyTyped ==
    /\ IsServer(Server) /\ up \in [Conns -> Seq(Requests)]
    /\ client \in [Macs -> Clients] /\ made \in 0 .. MaxConns /\ events \in 0 .. MaxEvents
OneConnEach ==
    /\ DOMAIN players \subseteq 1 .. made
    /\ \A m \in Macs : client[m].conn <= made
    /\ \A m, n \in Macs : client[m].conn = client[n].conn /\ client[m].conn # NoConn => m = n
LobbyInv ==
    /\ LobbyTyped /\ LoginInv /\ OneConnEach
    /\ \A c \in DOMAIN players : ConnInv(c)
    /\ \A m \in Macs : client[m].joined => client[m].wanted # NoGroup

LEMMA ServerIs ==
    /\ DOMAIN Server = ServerFields /\ Server.players = players /\ Server.hosts = hosts
    /\ Server.down = down /\ Server.failing = failing
  BY DEF Server, ServerFields

LEMMA LobbyTypes ==
    ASSUME LobbyInv
    PROVE  /\ IsServer(Server) /\ DOMAIN players \subseteq Conns /\ players \in [DOMAIN players -> Player]
           /\ hosts \in [Groups -> Macs \union {NoMac}] /\ failing \subseteq DOMAIN players
           /\ up \in [Conns -> Seq(Requests)] /\ down \in [Conns -> Seq(Answers)]
           /\ client \in [Macs -> Clients] /\ made \in 0 .. MaxConns /\ MaxConns \in Nat
           /\ OneEach(players) /\ NamedMembers(players) /\ HostsThere(players, hosts)
<1>1. NamedMembers(players) /\ HostsThere(players, hosts)
  BY DEF LobbyInv, ConnInv, LoginsFirst, NamedMembers, HostsThere
<1>2. IsServer(Server)
  BY DEF LobbyInv, LobbyTyped
<1> QED BY <1>1, <1>2, ServerIs, LinksAssumption DEF LobbyInv, LobbyTyped, LoginInv, IsServer

LEMMA BrokenHas ==
    ASSUME NEW c, up[c] \in Seq(Requests)
    PROVE  Broken(c) <=> Has(up[c], {Reset, Eof})
<1>1. DOMAIN up[c] = 1 .. Len(up[c])
  BY LenProperties
<1> QED BY <1>1 DEF Broken, WasReset, Has

LEMMA RequestFacts ==
    /\ \A m : Login(m) \notin Asks \union {Reset, Eof, Disconnect}
    /\ \A g : Connect(g) \notin Logins \union {Reset, Eof, Disconnect} /\ (g \in Groups => Connect(g) \in Asks)
    /\ Disconnect \notin Logins \union {Reset, Eof} /\ Disconnect \in Asks
    /\ Eof \notin Logins \union Asks /\ Reset \notin Logins \union Asks
    /\ \A m, n : Login(m) = Login(n) <=> m = n
    /\ \A g, h : Connect(g) = Connect(h) <=> g = h
    /\ \A m, g : Login(m) # Connect(g)
  BY DEF Asks, Logins, Login, Connect, Disconnect, Eof, Reset

\* A packet is what its op says.
LEMMA RequestOps ==
    ASSUME NEW p \in Requests
    PROVE  /\ p.op = "disconnect" => p = Disconnect
           /\ p.op = "connect" => p.group \in Groups /\ p = Connect(p.group)
           /\ p.op = "login" => p.mac \in Macs /\ p = Login(p.mac)
<1>1. CASE p \in {Eof, Reset, Disconnect}
  BY <1>1 DEF Eof, Reset, Disconnect
<1>2. CASE p \in {Login(m) : m \in Macs}
  BY <1>2 DEF Login
<1>3. CASE p \in {Connect(g) : g \in Groups}
  BY <1>3 DEF Connect
<1> QED BY <1>1, <1>2, <1>3 DEF Requests

\* How the step of the server for connection c leaves the others.
OthersKept(c) ==
    /\ \A d \in DOMAIN players' \ {c} :
          /\ d \in DOMAIN players /\ players'[d] = players[d] /\ up'[d] = up[d]
          /\ players[d].group # NoGroup => hosts'[players[d].group] = hosts[players[d].group]
          /\ \A s : /\ s.conn = d /\ s.wanted = players[d].group /\ s.wanted \in Groups /\ ~ Broken(d)
                    /\ Told(players, hosts, down[d], s)
                    => Told(players', hosts', down'[d], s)
    /\ UNCHANGED <<client, made>>

LEMMA OthersKeepTheirs ==
    ASSUME LobbyInv, NEW c, OthersKept(c), NEW d \in DOMAIN players' \ {c}
    PROVE  ConnInv(d)'
<1>1. /\ d \in DOMAIN players /\ players'[d] = players[d] /\ up'[d] = up[d] /\ client' = client
      /\ players[d].group # NoGroup => hosts'[players[d].group] = hosts[players[d].group]
  BY DEF OthersKept
<1>2. LoginsFirst(d)' /\ Broken(d)' = Broken(d)
  BY <1>1 DEF LobbyInv, ConnInv, LoginsFirst, Broken, WasReset
<1>3. players'[d].group # NoGroup => hosts'[players'[d].group] # NoMac
  BY <1>1 DEF LobbyInv, ConnInv
<1>4. ASSUME NEW m \in Macs, client'[m].conn = d
      PROVE  Owns(m, d)' /\ Heard(client[m], d)'
  <2> DEFINE s == client[m]
  <2>1. s.conn = d /\ client'[m] = s /\ Owns(m, d) /\ Heard(s, d) /\ s \in Clients
    BY <1>1, <1>4, LobbyTypes DEF LobbyInv, ConnInv
  <2>2. Owns(m, d)'
    BY <1>1, <2>1 DEF Owns
  <2>3. ASSUME ~ Broken(d), s.wanted # NoGroup, ~ Has(up[d], Asks)
        PROVE  Told(players', hosts', down'[d], s)
    <3>1. Lasts(players[d].group, {s.wanted}, up[d], {Connect(s.wanted)}, Asks) /\ Told(players, hosts, down[d], s)
      BY <2>1, <2>3 DEF Heard
    <3>2. s.wanted \in Groups /\ {Connect(s.wanted)} \subseteq Asks
      BY <2>1, <2>3 DEF Clients, Asks
    <3>3. Len(up[d]) \in Nat
      BY <1>1, LobbyTypes, LenProperties
    <3>4. players[d].group = s.wanted
      <4> HIDE DEF s
      <4> QED BY <2>3, <3>1, <3>2, <3>3, LastsUnasked
    <3> QED BY <1>1, <2>1, <2>3, <3>1, <3>2, <3>4 DEF OthersKept
  <2>4. Heard(client[m], d)'
    <3> HIDE DEF s
    <3> QED BY <1>1, <1>2, <2>1, <2>3 DEF Heard
  <2> QED BY <2>2, <2>4
<1> QED BY <1>2, <1>3, <1>4 DEF ConnInv

-----------------------------------------------------------------------------
(* The server's steps.                                                      *)

\* r is st after something was done to connection c: the others keep their
\* group, its host and what they have been told about it.
SparesOthers(st, r, c) ==
    \A d \in DOMAIN r.players \ {c} :
       /\ d \in DOMAIN st.players /\ r.players[d] = st.players[d]
       /\ st.players[d].group # NoGroup => r.hosts[st.players[d].group] = st.hosts[st.players[d].group]
       /\ \A s : /\ s.conn = d /\ s.wanted = st.players[d].group /\ s.wanted \in Groups /\ ~ Broken(d)
                 /\ Told(st.players, st.hosts, st.down[d], s)
                 => Told(r.players, r.hosts, r.down[d], s)

LEMMA SparedTwice ==
    ASSUME NEW st, NEW mid, NEW r, NEW c, SparesOthers(st, mid, c), SparesOthers(mid, r, c)
    PROVE  SparesOthers(st, r, c)
  BY DEF SparesOthers

LEMMA SamePlayer ==
    ASSUME NEW p \in Player, NEW q \in Player, p.mac = q.mac, p.group = q.group
    PROVE  p = q
  BY DEF Player

LEMMA LeavingSpares ==
    ASSUME NEW st, NEW r, NEW c, IsServer(st), IsServer(r), HasLeft(st, r, c)
    PROVE  SparesOthers(st, r, c)
<1> SUFFICES ASSUME NEW d \in DOMAIN r.players \ {c}
             PROVE  /\ d \in DOMAIN st.players /\ r.players[d] = st.players[d]
                    /\ st.players[d].group # NoGroup =>
                          r.hosts[st.players[d].group] = st.hosts[st.players[d].group]
                    /\ \A s : /\ s.conn = d /\ s.wanted = st.players[d].group /\ s.wanted \in Groups
                              /\ ~ Broken(d) /\ Told(st.players, st.hosts, st.down[d], s)
                              => Told(r.players, r.hosts, r.down[d], s)
  BY DEF SparesOthers
<1>1. /\ d \in DOMAIN st.players /\ d # c /\ r.players[d].mac = st.players[d].mac
      /\ r.players[d].group = st.players[d].group
  BY DEF HasLeft
<1>2. r.players[d] \in Player /\ st.players[d] \in Player
  BY <1>1 DEF IsServer
<1>3. r.players[d] = st.players[d]
  BY <1>1, <1>2, SamePlayer
<1>4. ASSUME st.players[d].group # NoGroup
      PROVE  r.hosts[st.players[d].group] = st.hosts[st.players[d].group]
  <2>1. st.players[d].group \in Groups /\ d \in GroupMembers(st.players, st.players[d].group)
    BY <1>1, <1>2, <1>4 DEF Player, GroupMembers
  <2> QED BY <1>1, <2>1 DEF HasLeft
<1> QED BY <1>1, <1>3, <1>4, LeftTold

LEMMA JoiningSpares ==
    ASSUME NEW left, NEW r, NEW c \in DOMAIN left.players, NEW g \in Groups, HasJoined(left, r, c, g),
           IsServer(left), IsServer(r), NamedMembers(left.players), OneEach(left.players),
           HostsThere(left.players, left.hosts), left.players[c].mac # NoMac
    PROVE  SparesOthers(left, r, c)
<1> SUFFICES ASSUME NEW d \in DOMAIN r.players \ {c}
             PROVE  /\ d \in DOMAIN left.players /\ r.players[d] = left.players[d]
                    /\ left.players[d].group # NoGroup =>
                          r.hosts[left.players[d].group] = left.hosts[left.players[d].group]
                    /\ \A s : /\ s.conn = d /\ s.wanted = left.players[d].group /\ s.wanted \in Groups
                              /\ ~ Broken(d) /\ Told(left.players, left.hosts, left.down[d], s)
                              => Told(r.players, r.hosts, r.down[d], s)
  BY DEF SparesOthers
<1>1. /\ d \in DOMAIN left.players /\ d # c /\ r.players[d].mac = left.players[d].mac
      /\ r.players[d].group = left.players[d].group
  BY DEF HasJoined
<1>2. r.players[d] \in Player /\ left.players[d] \in Player
  BY <1>1 DEF IsServer
<1>3. r.players[d] = left.players[d]
  BY <1>1, <1>2, SamePlayer
<1>4. ASSUME left.players[d].group # NoGroup
      PROVE  r.hosts[left.players[d].group] = left.hosts[left.players[d].group]
  <2>1. left.players[d].group \in Groups /\ left.hosts[left.players[d].group] # NoMac
    BY <1>1, <1>2, <1>4 DEF Player, HostsThere
  <2> QED BY <2>1 DEF HasJoined
<1> QED BY <1>1, <1>3, <1>4, JoinedTold

LEMMA ErasingSpares ==
    ASSUME NEW st, NEW r, NEW c, IsServer(st), HasErased(st, r, c)
    PROVE  SparesOthers(st, r, c)
<1> SUFFICES ASSUME NEW d \in DOMAIN r.players \ {c}
             PROVE  /\ d \in DOMAIN st.players /\ r.players[d] = st.players[d] /\ r.hosts = st.hosts
                    /\ \A s : /\ s.conn = d /\ Told(st.players, st.hosts, st.down[d], s)
                              => Told(r.players, r.hosts, r.down[d], s)
  BY DEF SparesOthers
<1> QED BY ErasedTold DEF HasErased

LEMMA DroppingSpares ==
    ASSUME NEW st, IsServer(st), NEW c \in DOMAIN st.players
    PROVE  /\ IsServer(DropPlayer(st, c)) /\ SparesOthers(st, DropPlayer(st, c), c)
           /\ DOMAIN DropPlayer(st, c).players = DOMAIN st.players \ {c}
<1> DEFINE left == LeaveGroup(st, c)
           r == Erase(left, c)
<1>1. DropPlayer(st, c) = r
  BY DEF DropPlayer
<1>2. IsServer(left) /\ HasLeft(st, left, c)
  BY LeaveGroupLeaves
<1> HIDE DEF left
<1>3. c \in DOMAIN left.players /\ DOMAIN left.players = DOMAIN st.players
  BY <1>2 DEF HasLeft
<1>4. IsServer(r) /\ HasErased(left, r, c)
  BY <1>2, <1>3, EraseErases
<1> HIDE DEF r
<1>5. SparesOthers(st, left, c) /\ SparesOthers(left, r, c)
  BY <1>2, <1>4, LeavingSpares, ErasingSpares
<1>6. DOMAIN r.players = DOMAIN st.players \ {c}
  BY <1>3, <1>4 DEF HasErased
<1> QED BY <1>1, <1>4, <1>5, <1>6, SparedTwice

LEMMA BecomeIs ==
    ASSUME NEW r, IsServer(r), Become(r)
    PROVE  IsServer(Server)' /\ players' = r.players /\ hosts' = r.hosts /\ down' = r.down
<1>1. /\ Server'.players = r.players /\ Server'.hosts = r.hosts /\ Server'.down = r.down
      /\ Server'.failing = r.failing /\ DOMAIN Server' = ServerFields
  BY DEF Server, Become, ServerFields
<1>2. IsServer(Server')
  BY <1>1 DEF IsServer
<1>3. IsServer(Server)' <=> IsServer(Server')
  BY DEF IsServer
<1> QED BY <1>2, <1>3 DEF Become

LEMMA SparedKept ==
    ASSUME NEW r, NEW c, IsServer(r), Become(r), SparesOthers(Server, r, c), UNCHANGED <<client, made>>,
           \A d \in DOMAIN players \ {c} : up'[d] = up[d]
    PROVE  OthersKept(c)
  BY BecomeIs, ServerIs DEF SparesOthers, OthersKept

LEMMA ServerStepKeeps ==
    ASSUME LobbyInv, [Next]_vars, NEW c, OthersKept(c), IsServer(Server)',
           up' \in [Conns -> Seq(Requests)], events' \in 0 .. MaxEvents,
           DOMAIN players' \subseteq DOMAIN players, c \in DOMAIN players' => ConnInv(c)'
    PROVE  LobbyInv'
<1>1. client' = client /\ made' = made
  BY DEF OthersKept
<1>2. LobbyTyped'
  BY <1>1 DEF LobbyInv, LobbyTyped
<1>3. LoginInv'
  BY LoginStep DEF LobbyInv
<1>4. OneConnEach'
  BY <1>1 DEF LobbyInv, OneConnEach
<1>5. \A d \in DOMAIN players' : ConnInv(d)'
  BY OthersKeepTheirs
<1>6. \A m \in Macs : client'[m].joined => client'[m].wanted # NoGroup
  BY <1>1 DEF LobbyInv
<1> QED BY <1>2, <1>3, <1>4, <1>5, <1>6 DEF LobbyInv

\* The queue of a connection after its first packet is handled.
LEMMA TakenFrom ==
    ASSUME LobbyInv, NEW c \in DOMAIN players, up[c] # <<>>, up'[c] = Tail(up[c])
    PROVE  /\ c \in Conns /\ up[c] \in Seq(Requests) /\ Tail(up[c]) \in Seq(Requests)
           /\ Head(up[c]) \in Requests /\ Len(Tail(up[c])) \in Nat
           /\ \A S : Has(up[c], S) <=> Head(up[c]) \in S \/ Has(up'[c], S)
           /\ Broken(c)' <=> Has(up'[c], {Reset, Eof})
           /\ Broken(c) <=> Has(up[c], {Reset, Eof})
           /\ ~ Has(up'[c], Logins)
<1>1. c \in Conns /\ up[c] \in Seq(Requests)
  BY LobbyTypes
<1>2. Tail(up[c]) \in Seq(Requests) /\ Head(up[c]) \in Requests
  BY <1>1, HeadTailProperties
<1>3. DOMAIN up'[c] = 1 .. Len(up'[c])
  BY <1>2, LenProperties
<1>4. Broken(c)' <=> Has(up'[c], {Reset, Eof})
  BY <1>3 DEF Broken, WasReset, Has
<1>5. ~ Has(up'[c], Logins)
  BY DEF LobbyInv, ConnInv, LoginsFirst
<1> QED BY <1>1, <1>2, <1>4, <1>5, BrokenHas, HasTaken, LenProperties

\* A group asked for is not left over when the packet handled set none.
LEMMA HeardInNone ==
    ASSUME LobbyInv, NEW c \in DOMAIN players, up[c] # <<>>, up'[c] = Tail(up[c]),
           Head(up[c]) \notin {Connect(g) : g \in Groups} \union {Reset, Eof},
           Head(up[c]) \in Asks \/ players[c].group = NoGroup, players'[c].group = NoGroup,
           NEW m \in Macs, client[m].conn = c, client'[m] = client[m]
    PROVE  Heard(client[m], c)'
<1> DEFINE s == client[m]
           S == {Connect(s.wanted)}
<1>1. SUFFICES ASSUME ~ Broken(c)', s.wanted # NoGroup
               PROVE  /\ Lasts(players'[c].group, {s.wanted}, up'[c], S, Asks)
                      /\ Has(up'[c], Asks)
  BY DEF Heard
<1>2. ~ Broken(c)
  <2>1. ~ Has(up'[c], {Reset, Eof})
    BY <1>1, TakenFrom
  <2>2. Head(up[c]) \notin {Reset, Eof}
    OBVIOUS
  <2> QED BY <2>1, <2>2, TakenFrom
<1>3. Lasts(players[c].group, {s.wanted}, up[c], S, Asks)
  BY <1>1, <1>2 DEF LobbyInv, ConnInv, Heard
<1>4. s.wanted \in Groups
  BY <1>1, LobbyTypes DEF Clients
<1>5. S \subseteq Asks /\ Head(up[c]) \notin S
  BY <1>4 DEF Asks
<1> HIDE DEF s, S
<1>6. Lasts(players'[c].group, {s.wanted}, Tail(up[c]), S, Asks)
  <2>1. up[c] \in Seq(Requests)
    BY TakenFrom
  <2>2. Head(up[c]) \in S \/ (Head(up[c]) \notin Asks /\ players[c].group \in {s.wanted})
          => players'[c].group \in {s.wanted}
    BY <1>5
  <2> QED BY <1>3, <2>1, <2>2, LastsTaken
<1>7. Has(Tail(up[c]), Asks)
  <2>1. players'[c].group \notin {s.wanted}
    BY <1>1
  <2>2. Len(Tail(up[c])) \in Nat
    BY TakenFrom
  <2> QED BY <1>5, <1>6, <2>1, <2>2, LastsUnasked
<1> QED BY <1>6, <1>7

LEMMA TakenUp ==
    ASSUME LobbyInv, NEW c \in DOMAIN players, up[c] # <<>>, Taken(c)
    PROVE  /\ up' \in [Conns -> Seq(Requests)] /\ up'[c] = Tail(up[c])
           /\ \A d \in DOMAIN players \ {c} : up'[d] = up[d]
<1>1. c \in Conns /\ up \in [Conns -> Seq(Requests)] /\ DOMAIN players \subseteq Conns
  BY LobbyTypes
<1>2. Tail(up[c]) \in Seq(Requests)
  BY <1>1, HeadTailProperties
<1> QED BY <1>1, <1>2 DEF Taken

LEMMA DisconnectStep ==
    ASSUME LobbyInv, [Next]_vars, NEW c \in Conns, HandleDisconnect(c), UNCHANGED <<client, made>>
    PROVE  LobbyInv'
<1> DEFINE r == LeaveGroup(Server, c)
<1>1. c \in DOMAIN players /\ up[c] # <<>> /\ Head(up[c]).op = "disconnect" /\ Become(r) /\ Taken(c)
      /\ events' = events
  BY DEF HandleDisconnect, Takes
<1>2. IsServer(r) /\ HasLeft(Server, r, c)
  BY <1>1, LobbyTypes, ServerIs, LeaveGroupLeaves
<1> HIDE DEF r
<1>3. /\ up' \in [Conns -> Seq(Requests)] /\ up'[c] = Tail(up[c])
      /\ \A d \in DOMAIN players \ {c} : up'[d] = up[d]
  BY <1>1, TakenUp
<1>4. OthersKept(c)
  BY <1>1, <1>2, <1>3, LobbyTypes, LeavingSpares, SparedKept
<1>5. /\ DOMAIN players' = DOMAIN players /\ players'[c].group = NoGroup
      /\ players'[c].mac = players[c].mac /\ IsServer(Server)'
  BY <1>1, <1>2, BecomeIs, ServerIs DEF HasLeft
<1>6. Head(up[c]) \notin Logins \union {Connect(g) : g \in Groups} \union {Reset, Eof}
  BY <1>1 DEF Logins, Login, Connect, Reset, Eof
<1>7. Head(up[c]) \in Asks
  <2>1. Head(up[c]) = Disconnect
    BY <1>1, <1>3, TakenFrom, RequestOps
  <2> QED BY <2>1 DEF Asks
<1>8. players[c].mac # NoMac
  BY <1>1, <1>6, HeadTailProperties DEF LobbyInv, ConnInv, LoginsFirst
<1>9. ConnInv(c)'
  <2>1. LoginsFirst(c)'
    <3>1. ~ Has(up'[c], Logins)
      BY <1>1, <1>3, TakenFrom
    <3>2. up'[c] # <<>> => ~ Has(Tail(up'[c]), Logins)
      BY <1>1, <1>3, <3>1, TakenFrom, HasTaken
    <3> QED BY <1>5, <1>8, <3>1, <3>2 DEF LoginsFirst
  <2>2. ASSUME NEW m \in Macs, client'[m].conn = c
        PROVE  Owns(m, c)' /\ Heard(client[m], c)'
    <3>1. client[m].conn = c /\ client'[m] = client[m] /\ Owns(m, c)
      BY <1>1, <2>2 DEF LobbyInv, ConnInv
    <3>2. Owns(m, c)'
      BY <1>1, <1>3, <1>5, <3>1, TakenFrom DEF Owns
    <3>3. Heard(client[m], c)'
      BY <1>1, <1>3, <1>5, <1>6, <1>7, <3>1, HeardInNone
    <3> QED BY <3>2, <3>3
  <2> QED BY <1>5, <2>1, <2>2 DEF ConnInv
<1>10. events' \in 0 .. MaxEvents
  BY <1>1 DEF LobbyInv, LobbyTyped
<1> QED BY <1>3, <1>4, <1>5, <1>9, <1>10, ServerStepKeeps

LEMMA ConnectStep ==
    ASSUME LobbyInv, [Next]_vars, NEW c \in Conns, HandleConnect(c), UNCHANGED <<client, made>>
    PROVE  LobbyInv'
<1> DEFINE g == Head(up[c]).group
           left == LeaveGroup(Server, c)
           r == JoinGroup(Server, c, g)
<1>1. c \in DOMAIN players /\ up[c] # <<>> /\ Head(up[c]).op = "connect" /\ Become(r) /\ Taken(c)
      /\ events' = events
  BY DEF HandleConnect, Takes
<1>2. /\ up' \in [Conns -> Seq(Requests)] /\ up'[c] = Tail(up[c])
      /\ \A d \in DOMAIN players \ {c} : up'[d] = up[d]
  BY <1>1, TakenUp
<1>3. g \in Groups /\ Head(up[c]) = Connect(g)
  BY <1>1, <1>2, TakenFrom, RequestOps
<1>4. Head(up[c]) \notin Logins \union {Reset, Eof} /\ Head(up[c]) \in Asks
  BY <1>3, RequestFacts
<1>5. players[c].mac # NoMac
  <2>1. up[c] # <<Reset>>
    BY <1>4, <1>1, HeadTailProperties
  <2> QED BY <1>1, <1>4, <2>1 DEF LobbyInv, ConnInv, LoginsFirst
<1> HIDE DEF g
<1>6. IsServer(left) /\ HasLeft(Server, left, c) /\ IsServer(r) /\ HasJoined(left, r, c, g)
  BY <1>1, <1>3, <1>5, LobbyTypes, ServerIs, JoinGroupJoins
<1> HIDE DEF left, r
<1>7. /\ c \in DOMAIN left.players /\ left.players[c].group = NoGroup /\ left.players[c].mac = players[c].mac
      /\ DOMAIN left.players = DOMAIN players
  BY <1>1, <1>6, ServerIs DEF HasLeft
<1>8. NamedMembers(left.players) /\ OneEach(left.players) /\ HostsThere(left.players, left.hosts)
  <2>1. NamedMembers(left.players) /\ OneEach(left.players)
    BY <1>6, LobbyTypes, ServerIs DEF HasLeft, NamedMembers, OneEach
  <2>2. ASSUME NEW d \in DOMAIN left.players, left.players[d].group # NoGroup
        PROVE  left.hosts[left.players[d].group] # NoMac
    <3>1. SparesOthers(Server, left, c)
      BY <1>6, LobbyTypes, LeavingSpares
    <3>2. d # c /\ d \in DOMAIN players
      BY <1>7, <2>2
    <3>3. left.players[d] = players[d] /\ left.hosts[players[d].group] = hosts[players[d].group]
      BY <2>2, <3>1, <3>2, ServerIs DEF SparesOthers
    <3> QED BY <2>2, <3>2, <3>3, LobbyTypes DEF HostsThere
  <2> QED BY <2>1, <2>2 DEF HostsThere
<1>9. OthersKept(c)
  <2>1. SparesOthers(Server, left, c)
    BY <1>6, LobbyTypes, LeavingSpares
  <2>2. SparesOthers(left, r, c)
    BY <1>3, <1>5, <1>6, <1>7, <1>8, JoiningSpares
  <2>3. SparesOthers(Server, r, c)
    BY <2>1, <2>2, SparedTwice
  <2> QED BY <1>1, <1>2, <1>6, <2>3, SparedKept
<1>10. /\ DOMAIN players' = DOMAIN players /\ players'[c].group = g /\ players' = r.players
       /\ players'[c].mac = players[c].mac /\ hosts'[g] \in Macs /\ hosts' = r.hosts /\ down' = r.down
       /\ IsServer(Server)'
  BY <1>1, <1>6, <1>7, BecomeIs DEF HasJoined
<1>11. LoginsFirst(c)'
  <2>1. ~ Has(up'[c], Logins)
    BY <1>1, <1>2, TakenFrom
  <2>2. up'[c] # <<>> => ~ Has(Tail(up'[c]), Logins)
    BY <1>1, <1>2, <2>1, TakenFrom, HasTaken
  <2> QED BY <1>5, <1>10, <2>1, <2>2 DEF LoginsFirst
<1>12. ASSUME NEW m \in Macs, client'[m].conn = c
       PROVE  Owns(m, c)' /\ Heard(client[m], c)'
  <2> DEFINE s == client[m]
             S == {Connect(s.wanted)}
  <2>1. s.conn = c /\ client'[m] = s /\ Owns(m, c) /\ Heard(s, c)
    BY <1>1, <1>12 DEF LobbyInv, ConnInv
  <2>2. Owns(m, c)'
    BY <1>1, <1>2, <1>10, <2>1, TakenFrom DEF Owns
  <2>3. SUFFICES ASSUME ~ Broken(c)', s.wanted # NoGroup
                 PROVE  /\ Lasts(players'[c].group, {s.wanted}, up'[c], S, Asks)
                        /\ ~ Has(up'[c], Asks) => Told(players', hosts', down'[c], s)
    BY <2>1, <2>2 DEF Heard
  <2>4. ~ Broken(c)
    BY <1>1, <1>2, <1>4, <2>3, TakenFrom
  <2>5. Lasts(players[c].group, {s.wanted}, up[c], S, Asks) /\ s.wanted \in Groups
    BY <2>1, <2>3, <2>4, LobbyTypes DEF Heard, Clients
  <2>6. Head(up[c]) \in S => g = s.wanted
    BY <1>3, RequestFacts
  <2>7. S \subseteq Asks
    BY <2>5, RequestFacts
  <2> HIDE DEF s, S
  <2>8. Lasts(g, {s.wanted}, Tail(up[c]), S, Asks)
    <3>1. up[c] \in Seq(Requests)
      BY <1>1, <1>2, TakenFrom
    <3>2. Head(up[c]) \in S \/ (Head(up[c]) \notin Asks /\ players[c].group \in {s.wanted}) => g \in {s.wanted}
      BY <1>4, <2>6
    <3> QED BY <1>1, <2>5, <3>1, <3>2, LastsTaken
  <2>9. ASSUME ~ Has(up'[c], Asks) PROVE Told(players', hosts', down'[c], s)
    <3>1. Len(Tail(up[c])) \in Nat
      BY <1>1, <1>2, TakenFrom
    <3>2. s.wanted = g
      BY <1>2, <2>7, <2>8, <2>9, <3>1, LastsUnasked
    <3> QED BY <1>3, <1>6, <1>7, <1>8, <1>10, <2>1, <2>4, <3>2, NewcomerTold
  <2> QED BY <1>2, <1>10, <2>8, <2>9
<1>13. ConnInv(c)'
  <2>1. hosts'[g] # NoMac
    BY <1>10, LinksAssumption
  <2> QED BY <1>10, <1>11, <1>12, <2>1 DEF ConnInv
<1>14. events' \in 0 .. MaxEvents
  BY <1>1 DEF LobbyInv, LobbyTyped
<1> QED BY <1>2, <1>9, <1>10, <1>13, <1>14, ServerStepKeeps

LEMMA ClearedUp ==
    ASSUME LobbyInv, NEW c \in DOMAIN players, up' = [up EXCEPT ![c] = <<>>]
    PROVE  up' \in [Conns -> Seq(Requests)] /\ \A d \in DOMAIN players \ {c} : up'[d] = up[d]
<1>1. c \in Conns /\ up \in [Conns -> Seq(Requests)] /\ DOMAIN players \subseteq Conns
  BY LobbyTypes
<1>2. <<>> \in Seq(Requests)
  BY EmptySeq
<1> QED BY <1>1, <1>2

LEMMA DropStep ==
    ASSUME LobbyInv, [Next]_vars, NEW c \in DOMAIN players,
           Become(DropPlayer(Server, c)) \/ Become(Erase(Server, c)),
           up' = [up EXCEPT ![c] = <<>>], events' \in 0 .. MaxEvents, UNCHANGED <<client, made>>
    PROVE  LobbyInv'
<1>1. \E r : IsServer(r) /\ Become(r) /\ SparesOthers(Server, r, c) /\ DOMAIN r.players = DOMAIN players \ {c}
  <2>1. IsServer(Server) /\ Server.players = players
    BY LobbyTypes, ServerIs
  <2>2. CASE Become(DropPlayer(Server, c))
    BY <2>1, <2>2, DroppingSpares
  <2>3. CASE Become(Erase(Server, c))
    BY <2>1, <2>3, EraseErases, ErasingSpares DEF HasErased
  <2> QED BY <2>2, <2>3
<1>2. PICK r : IsServer(r) /\ Become(r) /\ SparesOthers(Server, r, c) /\ DOMAIN r.players = DOMAIN players \ {c}
  BY <1>1
<1>3. up' \in [Conns -> Seq(Requests)] /\ \A d \in DOMAIN players \ {c} : up'[d] = up[d]
  BY ClearedUp
<1>4. OthersKept(c)
  BY <1>2, <1>3, SparedKept
<1>5. IsServer(Server)' /\ DOMAIN players' = DOMAIN players \ {c}
  BY <1>2, BecomeIs
<1> QED BY <1>3, <1>4, <1>5, ServerStepKeeps

LEMMA HandleLoginStep ==
    ASSUME LobbyInv, [Next]_vars, NEW c \in Conns, HandleLogin(c), UNCHANGED <<client, made>>
    PROVE  LobbyInv'
<1> DEFINE m == Head(up[c]).mac
           older == Older(c, m)
           first == CHOOSE d \in older : TRUE
           st == IF older = {} THEN Server ELSE DropPlayer(Server, first)
           r == [st EXCEPT !.players[c].mac = m]
<1>1. /\ c \in DOMAIN players /\ up[c] # <<>> /\ Head(up[c]).op = "login" /\ Become(r)
      /\ up' = [d \in Conns |-> IF d \in older THEN <<>> ELSE IF d = c THEN Tail(up[c]) ELSE up[d]]
      /\ events' = events
  BY DEF HandleLogin, Takes
<1>2. older = {d \in DOMAIN players \ {c} : players[d].mac = m}
  BY DEF Older
<1>3. up'[c] = Tail(up[c])
  BY SMTT(30), <1>1, <1>2
<1>4. m \in Macs /\ Head(up[c]) = Login(m)
  BY <1>1, <1>3, TakenFrom, RequestOps
<1>5. Head(up[c]) \in Logins /\ Head(up[c]) \notin Asks \union {Connect(g) : g \in Groups} \union {Reset, Eof}
  <2>1. Head(up[c]) \in Logins
    BY <1>4 DEF Logins
  <2> HIDE DEF m
  <2> QED BY <1>4, <2>1, RequestFacts
<1> HIDE DEF m, older
<1>6. players[c].mac = NoMac /\ players[c].group = NoGroup
  <2>1. Has(up[c], Logins)
    BY <1>1, <1>3, <1>5, TakenFrom
  <2> QED BY <1>1, <2>1 DEF LobbyInv, ConnInv, LoginsFirst
<1>7. \A d, e \in older : d = e
  BY <1>2, <1>4, LobbyTypes, LinksAssumption DEF OneEach
<1>8. older # {} => first \in older
  OBVIOUS
<1> HIDE DEF first
<1>9. /\ IsServer(st) /\ DOMAIN st.players = DOMAIN players \ older
      /\ \A d \in DOMAIN st.players :
            /\ d \in DOMAIN players /\ st.players[d] = players[d]
            /\ players[d].group # NoGroup => st.hosts[players[d].group] = hosts[players[d].group]
            /\ \A s : /\ s.conn = d /\ s.wanted = players[d].group /\ s.wanted \in Groups /\ ~ Broken(d)
                      /\ Told(players, hosts, down[d], s)
                      => Told(st.players, st.hosts, st.down[d], s)
  <2>1. IsServer(Server) /\ Server.players = players /\ Server.hosts = hosts /\ Server.down = down
    BY LobbyTypes, ServerIs
  <2>2. CASE older = {}
    <3>1. st = Server
      BY <2>2
    <3> HIDE DEF st
    <3> QED BY <2>1, <2>2, <3>1
  <2>3. CASE older # {}
    <3>1. first \in DOMAIN players /\ older = {first}
      BY <1>2, <1>7, <1>8, <2>3
    <3>2. st = DropPlayer(Server, first)
      BY <2>3
    <3> HIDE DEF st
    <3>3. IsServer(st) /\ SparesOthers(Server, st, first) /\ DOMAIN st.players = DOMAIN players \ {first}
      BY <2>1, <3>1, <3>2, DroppingSpares
    <3> QED BY <2>1, <3>1, <3>3 DEF SparesOthers
  <2> QED BY <2>2, <2>3
<1> HIDE DEF st
<1>10. c \in DOMAIN st.players /\ st.players[c] = players[c] /\ c \in Conns /\ players[c] \in Player
  BY <1>1, <1>2, <1>9, LobbyTypes
<1>11. /\ DOMAIN r = ServerFields /\ r.hosts = st.hosts /\ r.down = st.down /\ r.failing = st.failing
       /\ r.players = [st.players EXCEPT ![c].mac = m]
  BY <1>9 DEF IsServer, ServerFields
<1> HIDE DEF r
<1>12. /\ DOMAIN r.players = DOMAIN st.players
       /\ \A d \in DOMAIN st.players : d # c => r.players[d] = st.players[d]
       /\ r.players[c] = [players[c] EXCEPT !.mac = m]
       /\ r.players = [d \in DOMAIN r.players |-> r.players[d]]
  BY <1>9, <1>10, <1>11 DEF IsServer
<1>13. r.players[c] \in Player /\ r.players[c].mac = m /\ r.players[c].group = NoGroup
  BY <1>4, <1>6, <1>10, <1>12 DEF Player
<1>14. IsServer(r)
  <2>1. \A d \in DOMAIN r.players : r.players[d] \in Player
    BY <1>9, <1>12, <1>13 DEF IsServer
  <2>2. r.players \in [DOMAIN r.players -> Player]
    BY <1>12, <2>1
  <2> QED BY <1>9, <1>11, <1>12, <2>2 DEF IsServer
<1>15. players' = r.players /\ hosts' = st.hosts /\ down' = st.down /\ IsServer(Server)'
  BY <1>1, <1>11, <1>14, BecomeIs
<1>16. OthersKept(c)
  <2> SUFFICES ASSUME NEW d \in DOMAIN players' \ {c}
               PROVE  /\ d \in DOMAIN players /\ players'[d] = players[d] /\ up'[d] = up[d]
                      /\ players[d].group # NoGroup => hosts'[players[d].group] = hosts[players[d].group]
                      /\ \A s : /\ s.conn = d /\ s.wanted = players[d].group /\ s.wanted \in Groups
                                /\ ~ Broken(d) /\ Told(players, hosts, down[d], s)
                                => Told(players', hosts', down'[d], s)
    BY DEF OthersKept
  <2>1. d \in DOMAIN st.players /\ d \in DOMAIN players /\ d \notin older /\ d \in Conns
    BY <1>9, <1>12, <1>15, LobbyTypes
  <2>2. players'[d] = players[d] /\ up'[d] = up[d]
    BY <1>1, <1>9, <1>12, <1>15, <2>1
  <2>3. ASSUME NEW s, s.wanted \in Groups, Told(st.players, st.hosts, st.down[d], s)
        PROVE  Told(players', hosts', down'[d], s)
    <3>1. s.wanted # NoGroup
      BY <2>3, LinksAssumption
    <3>2. \A e \in GroupMembers(players', s.wanted) :
             e \in GroupMembers(st.players, s.wanted) /\ Entry(players', e) = Entry(st.players, e)
      BY <1>12, <1>13, <1>15, <3>1 DEF GroupMembers, Entry
    <3> QED BY <1>15, <2>3, <3>2 DEF Told
  <2> QED BY <1>9, <1>15, <2>1, <2>2, <2>3
<1>17. LoginsFirst(c)'
  <2>1. ~ Has(up'[c], Logins)
    BY <1>1, <1>3, TakenFrom
  <2>2. up'[c] # <<>> => ~ Has(Tail(up'[c]), Logins)
    BY <1>1, <1>3, <2>1, TakenFrom, HasTaken
  <2> QED BY <1>4, <1>13, <1>15, <2>1, <2>2, LinksAssumption DEF LoginsFirst
<1>18. ASSUME NEW n \in Macs, client'[n].conn = c
       PROVE  Owns(n, c)' /\ Heard(client[n], c)'
  <2>1. client[n].conn = c /\ client'[n] = client[n] /\ Owns(n, c)
    BY <1>1, <1>18 DEF LobbyInv, ConnInv
  <2>2. Has(up[c], {Login(m)})
    BY <1>1, <1>3, <1>4, TakenFrom
  <2>3. m = n
    BY <1>4, <2>1, <2>2 DEF Owns
  <2>4. \A k \in Macs : Has(up'[c], {Login(k)}) => Has(up[c], {Login(k)})
    BY <1>1, <1>3, TakenFrom
  <2>5. Owns(n, c)'
    BY <1>13, <1>15, <2>1, <2>3, <2>4 DEF Owns
  <2>6. Heard(client[n], c)'
    BY <1>1, <1>3, <1>5, <1>6, <1>13, <1>15, <2>1, HeardInNone
  <2> QED BY <2>5, <2>6
<1>19. ConnInv(c)'
  BY <1>13, <1>15, <1>17, <1>18 DEF ConnInv
<1>20. up' \in [Conns -> Seq(Requests)]
  <2>1. <<>> \in Seq(Requests) /\ Tail(up[c]) \in Seq(Requests)
    BY <1>1, <1>3, TakenFrom, EmptySeq
  <2> QED BY <1>1, <2>1, LobbyTypes
<1>21. events' \in 0 .. MaxEvents
  BY <1>1 DEF LobbyInv, LobbyTyped
<1>22. DOMAIN players' \subseteq DOMAIN players
  BY <1>9, <1>12, <1>15
<1> QED BY <1>15, <1>16, <1>19, <1>20, <1>21, <1>22, ServerStepKeeps

LEMMA ServerStep ==
    ASSUME LobbyInv, [Next]_vars, ServerNext, UNCHANGED <<client, made>>
    PROVE  LobbyInv'
<1>1. events \in 0 .. MaxEvents /\ MaxEvents \in Nat
  BY LinksAssumption DEF LobbyInv, LobbyTyped
<1>2. PICK c \in Conns : Handle(c) \/ Expire(c) \/ WriteFails(c)
  BY DEF ServerNext
<1>3. CASE HandleLogin(c) \/ HandleConnect(c) \/ HandleDisconnect(c)
  BY <1>3, HandleLoginStep, ConnectStep, DisconnectStep
<1>4. CASE HandleEof(c)
  <2>1. c \in DOMAIN players /\ events' \in 0 .. MaxEvents
    BY <1>1, <1>4 DEF HandleEof, Takes
  <2> QED BY <1>4, <2>1, DropStep DEF HandleEof
<1>5. CASE Expire(c)
  <2>1. c \in DOMAIN players /\ events' \in 0 .. MaxEvents
    BY <1>1, <1>5 DEF Expire, Happens
  <2> QED BY <1>5, <2>1, DropStep DEF Expire
<1>6. CASE WriteFails(c)
  <2>1. c \in DOMAIN players /\ events' \in 0 .. MaxEvents
    BY <1>1, <1>6, LobbyTypes DEF WriteFails
  <2> QED BY <1>6, <2>1, DropStep DEF WriteFails
<1> QED BY <1>2, <1>3, <1>4, <1>5, <1>6 DEF Handle

-----------------------------------------------------------------------------
(* The consoles' steps.                                                     *)

LEMMA ClientFields ==
    ASSUME NEW s \in Clients
    PROVE  LET cleared == ClearGroupState(s)
               none == NoGroupWanted(s)
               lost == Lost(s)
           IN  /\ cleared \in Clients /\ cleared.conn = s.conn /\ cleared.wanted = s.wanted
               /\ cleared.joined = FALSE
               /\ none \in Clients /\ none.conn = s.conn /\ none.wanted = NoGroup /\ none.joined = FALSE
               /\ lost \in Clients /\ lost.conn = NoConn /\ lost.wanted = s.wanted /\ lost.joined = FALSE
<1> DEFINE t == [s EXCEPT !.wanted = NoGroup, !.asking = FALSE, !.lost = FALSE, !.connected = FALSE]
<1>1. \A u \in Clients : /\ ClearGroupState(u) \in Clients /\ ClearGroupState(u).conn = u.conn
                         /\ ClearGroupState(u).wanted = u.wanted /\ ClearGroupState(u).joined = FALSE
  BY DEF ClearGroupState, Clients
<1>2. t \in Clients /\ t.conn = s.conn /\ t.wanted = NoGroup
  BY DEF Clients
<1>3. NoGroupWanted(s) = ClearGroupState(t)
  BY DEF NoGroupWanted
<1>4. Lost(s) \in Clients /\ Lost(s).conn = NoConn /\ Lost(s).wanted = s.wanted /\ Lost(s).joined = FALSE
  BY DEF Lost, Clients
<1> QED BY <1>1, <1>2, <1>3, <1>4

\* LoginsFirst of a queue and a player.
FirstIn(q, p) ==
    /\ q # <<>> => ~ Has(Tail(q), Logins)
    /\ p.mac # NoMac => ~ Has(q, Logins)
    /\ p.mac = NoMac => p.group = NoGroup /\ q # <<>> /\ (Head(q) \in Logins \/ q = <<Reset>>)

LEMMA FirstStays ==
    ASSUME NEW q \in Seq(Requests), NEW p \in Requests \ Logins, NEW player, FirstIn(q, player),
           ~ Has(q, {Reset, Eof})
    PROVE  /\ Append(q, p) \in Seq(Requests) /\ FirstIn(Append(q, p), player)
           /\ \A n : Has(Append(q, p), {Login(n)}) /\ n \in Macs => Has(q, {Login(n)})
<1> DEFINE r == Append(q, p)
<1>1. r \in Seq(Requests) /\ r # <<>>
  BY AppendProperties
<1>2. Head(r) = (IF q = <<>> THEN p ELSE Head(q)) /\ Tail(r) = (IF q = <<>> THEN <<>> ELSE Append(Tail(q), p))
  BY HeadTailAppend
<1>3. \A S : Has(r, S) <=> Has(q, S) \/ p \in S
  BY HasAppended
<1>4. ~ Has(<<>>, Logins)
  BY DEF Has
<1>5. ~ Has(Tail(r), Logins)
  <2>1. CASE q = <<>>
    BY <1>2, <1>4, <2>1
  <2>2. CASE q # <<>>
    <3>1. Tail(q) \in Seq(Requests) /\ ~ Has(Tail(q), Logins)
      BY <2>2, HeadTailProperties DEF FirstIn
    <3> QED BY <1>2, <2>2, <3>1, HasAppended
  <2> QED BY <2>1, <2>2
<1>6. q # <<Reset>>
  <2>1. Has(<<Reset>>, {Reset, Eof})
    BY DEF Has
  <2> QED BY <2>1
<1>7. \A n \in Macs : p # Login(n)
  BY DEF Logins
<1> HIDE DEF r
<1>8. FirstIn(r, player)
  BY <1>1, <1>2, <1>3, <1>5, <1>6 DEF FirstIn
<1> QED BY <1>1, <1>3, <1>7, <1>8 DEF r

\* What a console sends comes last in the queue, or goes nowhere.
LEMMA SendsLast ==
    ASSUME LobbyInv, NEW m \in Macs, NEW p \in Requests \ Logins, NEW first \in {<<>>, <<Disconnect>>},
           Send(m, first \o <<p>>)
    PROVE  LET c == client[m].conn
           IN  /\ up' \in [Conns -> Seq(Requests)]
               /\ \A d \in Conns : d # c => up'[d] = up[d]
               /\ c \in DOMAIN players =>
                     /\ FirstIn(up'[c], players[c])
                     /\ \A n \in Macs : Has(up'[c], {Login(n)}) => Has(up[c], {Login(n)})
                     /\ \/ Broken(c) /\ up'[c] = up[c]
                        \/ \E q \in Seq(Requests) : up'[c] = Append(q, p)
<1> DEFINE c == client[m].conn
<1>1. up \in [Conns -> Seq(Requests)] /\ DOMAIN players \subseteq Conns
  BY LobbyTypes
<1>2. c \in DOMAIN players => FirstIn(up[c], players[c])
  BY DEF LobbyInv, ConnInv, LoginsFirst, FirstIn
<1>3. CASE ~ (c \in DOMAIN players /\ ~ Broken(c))
  BY <1>1, <1>2, <1>3 DEF Send
<1>4. CASE c \in DOMAIN players /\ ~ Broken(c)
  <2> DEFINE q == up[c]
  <2>1. q \in Seq(Requests) /\ ~ Has(q, {Reset, Eof}) /\ FirstIn(q, players[c]) /\ c \in Conns
    BY <1>1, <1>2, <1>4, BrokenHas
  <2>2. up' = [up EXCEPT ![c] = q \o (first \o <<p>>)]
    BY <1>4 DEF Send
  <2>3. Disconnect \in Requests \ Logins /\ Disconnect \notin {Reset, Eof}
    BY RequestFacts DEF Requests
  <2> HIDE DEF q
  <2>4. PICK t : /\ t \in Seq(Requests) /\ ~ Has(t, {Reset, Eof}) /\ FirstIn(t, players[c])
                 /\ \A n \in Macs : Has(t, {Login(n)}) => Has(q, {Login(n)})
                 /\ q \o (first \o <<p>>) = Append(t, p)
    <3>1. CASE first = <<>>
      <4>1. first \o <<p>> = <<p>> /\ q \o <<p>> = Append(q, p)
        BY <2>1, <3>1, AppendIsConcat
      <4> QED BY <2>1, <4>1
    <3>2. CASE first = <<Disconnect>>
      <4> DEFINE u == Append(q, Disconnect)
      <4>1. /\ u \in Seq(Requests) /\ FirstIn(u, players[c])
            /\ \A n \in Macs : Has(u, {Login(n)}) => Has(q, {Login(n)})
        BY <2>1, <2>3, FirstStays
      <4>2. ~ Has(u, {Reset, Eof})
        BY <2>1, <2>3, HasAppended
      <4>3. u = q \o <<Disconnect>>
        BY <2>1, <2>3, AppendIsConcat
      <4>4. q \o (first \o <<p>>) = u \o <<p>>
        BY <2>1, <2>3, <3>2, <4>3, ConcatAssociative
      <4>5. u \o <<p>> = Append(u, p)
        BY <4>1, AppendIsConcat
      <4> QED BY <4>1, <4>2, <4>4, <4>5
    <3> QED BY <3>1, <3>2
  <2>5. /\ Append(t, p) \in Seq(Requests) /\ FirstIn(Append(t, p), players[c])
        /\ \A n \in Macs : Has(Append(t, p), {Login(n)}) => Has(t, {Login(n)})
    BY <2>4, FirstStays
  <2>6. up'[c] = Append(t, p) /\ \A d \in Conns : d # c => up'[d] = up[d]
    BY <1>1, <2>1, <2>2, <2>4
  <2>7. up' \in [Conns -> Seq(Requests)]
    BY <1>1, <2>1, <2>2, <2>4, <2>5
  <2> QED BY <2>4, <2>5, <2>6, <2>7 DEF q
<1> QED BY <1>3, <1>4

\* A step of console m: only its own connection and its own client change.
ClientKeeps(m, s) ==
    /\ s \in Clients /\ Becomes(m, s) /\ s.conn \in {client[m].conn, NoConn}
    /\ UNCHANGED <<players, hosts, failing, made>>
    /\ up' \in [Conns -> Seq(Requests)] /\ down' \in [Conns -> Seq(Answers)]
    /\ \A d \in Conns : d # client[m].conn => up'[d] = up[d] /\ down'[d] = down[d]

LEMMA ClientTyped ==
    ASSUME LobbyInv, NEW m \in Macs, NEW s, ClientKeeps(m, s), events' \in 0 .. MaxEvents
    PROVE  LobbyTyped' /\ OneConnEach'
<1>1. client' = [client EXCEPT ![m] = s] /\ client' \in [Macs -> Clients]
  BY LobbyTypes DEF ClientKeeps, Becomes
<1>2. client'[m] = s /\ \A n \in Macs : n # m => client'[n] = client[n]
  BY <1>1, LobbyTypes
<1>3. IsServer(Server)'
  <2>1. /\ Server'.players = players /\ Server'.hosts = hosts /\ Server'.down = down'
        /\ Server'.failing = failing /\ DOMAIN Server' = ServerFields
    BY DEF Server, ClientKeeps, ServerFields
  <2>2. IsServer(Server')
    BY <2>1, LobbyTypes DEF IsServer, ClientKeeps
  <2>3. IsServer(Server)' <=> IsServer(Server')
    BY DEF IsServer
  <2> QED BY <2>2, <2>3
<1>4. OneConnEach'
  <2>1. \A n \in Macs : client'[n].conn = client[n].conn \/ client'[n].conn = NoConn
    BY <1>2 DEF ClientKeeps
  <2>2. made' = made /\ players' = players /\ NoConn <= made
    BY LobbyTypes DEF ClientKeeps, NoConn
  <2>3. \A n, k \in Macs : client[n].conn <= made
                           /\ (client[n].conn = client[k].conn /\ client[n].conn # NoConn => n = k)
    BY DEF LobbyInv, OneConnEach
  <2>4. \A n, k \in Macs : client'[n].conn = client'[k].conn /\ client'[n].conn # NoConn => n = k
    BY <2>1, <2>3
  <2>5. \A n \in Macs : client'[n].conn <= made'
    BY <2>1, <2>2, <2>3
  <2>6. DOMAIN players' \subseteq 1 .. made'
    BY <2>2 DEF LobbyInv, OneConnEach
  <2> QED BY <2>4, <2>5, <2>6 DEF OneConnEach
<1> QED BY <1>1, <1>3, <1>4, LobbyTypes DEF LobbyTyped, ClientKeeps

LEMMA ClientStepKeeps ==
    ASSUME LobbyInv, [Next]_vars, NEW m \in Macs, NEW s, ClientKeeps(m, s), events' \in 0 .. MaxEvents,
           s.joined => s.wanted # NoGroup,
           \A c \in DOMAIN players : c = client[m].conn =>
              /\ FirstIn(up'[c], players[c])
              /\ \A n \in Macs : Has(up'[c], {Login(n)}) => Has(up[c], {Login(n)})
              /\ s.conn = c => Heard(s, c)'
    PROVE  LobbyInv'
<1>1. client'[m] = s /\ \A n \in Macs : n # m => client'[n] = client[n]
  BY LobbyTypes DEF ClientKeeps, Becomes
<1>2. players' = players /\ hosts' = hosts /\ DOMAIN players \subseteq Conns /\ NoConn \notin DOMAIN players
  BY LobbyTypes DEF ClientKeeps, NoConn, Conns
<1>3. ASSUME NEW d \in DOMAIN players, d # client[m].conn
      PROVE  ConnInv(d)'
  <2>1. up'[d] = up[d] /\ down'[d] = down[d] /\ ConnInv(d)
    BY <1>2, <1>3 DEF ClientKeeps, LobbyInv
  <2>2. \A n \in Macs : client'[n].conn = d => client[n].conn = d /\ client'[n] = client[n]
    BY <1>1, <1>2, <1>3 DEF ClientKeeps
  <2>3. LoginsFirst(d)' /\ Broken(d)' = Broken(d)
    BY <1>2, <2>1 DEF ConnInv, LoginsFirst, Broken, WasReset
  <2>4. ASSUME NEW n \in Macs, client'[n].conn = d
        PROVE  Owns(n, d)' /\ Heard(client[n], d)'
    <3>1. client'[n] = client[n] /\ Owns(n, d) /\ Heard(client[n], d)
      BY <2>1, <2>2, <2>4 DEF ConnInv
    <3>2. Owns(n, d)'
      BY <1>2, <2>1, <3>1 DEF Owns
    <3>3. Heard(client[n], d)'
      BY <1>2, <2>1, <2>3, <3>1 DEF Heard
    <3> QED BY <3>2, <3>3
  <2>5. players'[d].group # NoGroup => hosts'[players'[d].group] # NoMac
    BY <1>2, <2>1 DEF ConnInv
  <2> QED BY <2>3, <2>4, <2>5 DEF ConnInv
<1>4. ASSUME NEW c \in DOMAIN players, c = client[m].conn
      PROVE  ConnInv(c)'
  <2>1. FirstIn(up'[c], players[c]) /\ ConnInv(c)
    BY <1>4 DEF LobbyInv
  <2>2. LoginsFirst(c)'
    BY <1>2, <2>1 DEF LoginsFirst, FirstIn
  <2>3. ASSUME NEW n \in Macs, client'[n].conn = c
        PROVE  Owns(n, c)' /\ Heard(client[n], c)'
    <3>1. n = m
      BY <1>1, <1>2, <1>4, <2>3 DEF LobbyInv, OneConnEach
    <3>2. Owns(m, c)
      BY <1>4, <2>1 DEF ConnInv
    <3>3. Owns(m, c)'
      BY <1>2, <1>4, <3>2 DEF Owns
    <3>4. s.conn = c /\ client'[n] = s
      BY <1>1, <2>3, <3>1
    <3>5. Heard(s, c)'
      BY <1>4, <3>4
    <3>6. Heard(client[n], c)'
      BY <3>4, <3>5 DEF Heard
    <3> QED BY <3>1, <3>3, <3>6
  <2>4. players'[c].group # NoGroup => hosts'[players'[c].group] # NoMac
    BY <1>2, <2>1 DEF ConnInv
  <2> QED BY <2>2, <2>3, <2>4 DEF ConnInv
<1>5. \A d \in DOMAIN players' : ConnInv(d)'
  BY <1>2, <1>3, <1>4
<1>6. \A n \in Macs : client'[n].joined => client'[n].wanted # NoGroup
  BY <1>1 DEF LobbyInv
<1>7. LoginInv'
  BY LoginStep DEF LobbyInv
<1> QED BY <1>5, <1>6, <1>7, ClientTyped DEF LobbyInv

LEMMA EventsTyped == Happens /\ LobbyInv => events' \in 0 .. MaxEvents
  BY LinksAssumption DEF Happens, LobbyInv, LobbyTyped

LEMMA SentOnlyLoggedIn ==
    ASSUME LobbyInv, NEW m \in Macs, NEW packets,
           IF LoggedIn(m) THEN Send(m, packets) ELSE UNCHANGED up
    PROVE  Send(m, packets)
<1>1. NoConn \notin DOMAIN players
  BY LobbyTypes DEF NoConn, Conns
<1> QED BY <1>1 DEF LoggedIn, Send

\* The last thing a console asked for is what the game wants.
LEMMA AskedLast ==
    ASSUME LobbyInv, [Next]_vars, NEW m \in Macs, NEW s \in Clients, Becomes(m, s), s.conn = client[m].conn,
           s.joined = FALSE, NEW p \in Requests \ Logins, NEW first \in {<<>>, <<Disconnect>>},
           s.wanted # NoGroup => p = Connect(s.wanted),
           Send(m, first \o <<p>>), Happens, UNCHANGED <<serverVars, down, made>>
    PROVE  LobbyInv'
<1>1. /\ up' \in [Conns -> Seq(Requests)] /\ \A d \in Conns : d # client[m].conn => up'[d] = up[d]
      /\ \A c \in DOMAIN players : c = client[m].conn =>
            /\ FirstIn(up'[c], players[c])
            /\ \A n \in Macs : Has(up'[c], {Login(n)}) => Has(up[c], {Login(n)})
            /\ \/ Broken(c) /\ up'[c] = up[c]
               \/ \E q \in Seq(Requests) : up'[c] = Append(q, p)
  BY SendsLast
<1>2. ClientKeeps(m, s)
  BY <1>1, LobbyTypes DEF ClientKeeps, serverVars
<1>3. ASSUME NEW c \in DOMAIN players, c = client[m].conn
      PROVE  Heard(s, c)'
  <2>1. SUFFICES ASSUME ~ Broken(c)', s.wanted # NoGroup
                 PROVE  /\ Lasts(players'[c].group, {s.wanted}, up'[c], {Connect(s.wanted)}, Asks)
                        /\ Has(up'[c], Asks)
    BY DEF Heard
  <2>2. PICK q \in Seq(Requests) : up'[c] = Append(q, p)
    <3>1. ~ (Broken(c) /\ up'[c] = up[c])
      BY <2>1 DEF Broken, WasReset
    <3> QED BY <1>1, <1>3, <3>1
  <2>3. p \in {Connect(s.wanted)} /\ p \in Asks
    <3>1. s.wanted \in Groups
      BY <2>1 DEF Clients
    <3> QED BY <2>1, <3>1 DEF Asks
  <2>4. Lasts(players'[c].group, {s.wanted}, Append(q, p), {Connect(s.wanted)}, Asks)
    BY <2>3, LastsAppended
  <2>5. Has(Append(q, p), Asks)
    BY <2>3, HasAppended
  <2> QED BY <2>2, <2>4, <2>5
<1> QED BY <1>1, <1>2, <1>3, EventsTyped, ClientStepKeeps

LEMMA JoinStep ==
    ASSUME LobbyInv, [Next]_vars, NEW m \in Macs, NEW g \in Groups, Join(m, g)
    PROVE  LobbyInv'
<1> DEFINE s == [ClearGroupState(client[m]) EXCEPT
                   !.connected = FALSE, !.wanted = g, !.asking = TRUE, !.lost = FALSE]
<1>1. Becomes(m, s) /\ Happens /\ UNCHANGED <<serverVars, down, made>>
  BY DEF Join
<1>2. ClearGroupState(client[m]) \in Clients /\ ClearGroupState(client[m]).conn = client[m].conn
      /\ ClearGroupState(client[m]).joined = FALSE
  BY LobbyTypes, ClientFields
<1>3. s \in Clients /\ s.conn = client[m].conn /\ s.wanted = g /\ s.joined = FALSE
  BY <1>2 DEF Clients
<1>4. LeavesFirst(m) \in {<<>>, <<Disconnect>>}
  BY DEF LeavesFirst
<1>5. Send(m, LeavesFirst(m) \o <<Connect(g)>>)
  BY SentOnlyLoggedIn DEF Join
<1>6. Connect(g) \in Requests \ Logins
  BY RequestFacts DEF Requests
<1> HIDE DEF s
<1> QED BY <1>1, <1>3, <1>4, <1>5, <1>6, AskedLast

LEMMA GivesUp ==
    ASSUME LobbyInv, [Next]_vars, NEW m \in Macs, NEW s \in Clients, Becomes(m, s), s.conn = client[m].conn,
           s.joined = FALSE, s.wanted = NoGroup,
           IF LoggedIn(m) THEN Send(m, <<Disconnect>>) ELSE UNCHANGED up,
           Happens, UNCHANGED <<serverVars, down, made>>
    PROVE  LobbyInv'
<1>1. Disconnect \in Requests \ Logins
  BY RequestFacts DEF Requests
<1>2. <<>> \o <<Disconnect>> = <<Disconnect>>
  BY <1>1, AppendIsConcat
<1>3. Send(m, <<>> \o <<Disconnect>>)
  BY <1>2, SentOnlyLoggedIn
<1> QED BY <1>1, <1>3, AskedLast

LEMMA LeaveStep ==
    ASSUME LobbyInv, [Next]_vars, NEW m \in Macs, Leave(m) \/ RequestTimeout(m)
    PROVE  LobbyInv'
<1>1. client[m] \in Clients
  BY LobbyTypes
<1>2. CASE Leave(m)
  BY <1>1, <1>2, ClientFields, GivesUp DEF Leave
<1>3. CASE RequestTimeout(m)
  <2> DEFINE s == [ClearGroupState(client[m]) EXCEPT !.wanted = NoGroup, !.asking = FALSE]
  <2>1. s \in Clients /\ s.conn = client[m].conn /\ s.wanted = NoGroup /\ s.joined = FALSE
    <3>1. ClearGroupState(client[m]) \in Clients /\ ClearGroupState(client[m]).conn = client[m].conn
          /\ ClearGroupState(client[m]).joined = FALSE
      BY <1>1, ClientFields
    <3> QED BY <3>1 DEF Clients
  <2> HIDE DEF s
  <2> QED BY <1>3, <2>1, GivesUp DEF RequestTimeout, s
<1> QED BY <1>2, <1>3

\* What a step that sends nothing and receives nothing leaves.
LEMMA NothingSent ==
    ASSUME LobbyInv, NEW m \in Macs, UNCHANGED <<up, players>>
    PROVE  \A c \in DOMAIN players : c = client[m].conn =>
              /\ FirstIn(up'[c], players[c])
              /\ \A n \in Macs : Has(up'[c], {Login(n)}) => Has(up[c], {Login(n)})
  BY DEF LobbyInv, ConnInv, LoginsFirst, FirstIn

LEMMA GraceStep ==
    ASSUME LobbyInv, [Next]_vars, NEW m \in Macs, GraceEnds(m)
    PROVE  LobbyInv'
<1>1. PICK s : s = NoGroupWanted(client[m])
  OBVIOUS
<1>2. Becomes(m, s) /\ Happens /\ UNCHANGED <<players, hosts, failing, up, down, made>>
  BY <1>1 DEF GraceEnds, serverVars
<1>3. s \in Clients /\ s.conn = client[m].conn /\ s.wanted = NoGroup /\ s.joined = FALSE
  BY <1>1, LobbyTypes, ClientFields
<1>4. ClientKeeps(m, s)
  BY <1>2, <1>3, LobbyTypes DEF ClientKeeps
<1>5. \A c : Heard(s, c)'
  BY <1>3 DEF Heard
<1> QED BY <1>2, <1>3, <1>4, <1>5, NothingSent, EventsTyped, ClientStepKeeps

-----------------------------------------------------------------------------
(* What a console does with an answer.                                      *)

LEMMA AnswerFields ==
    /\ Eof.op = "eof"
    /\ \A S : PeersJoined(S).op = "peers joined" /\ PeersJoined(S).entries = S
    /\ \A c : PeerLeft(c).op = "peer left" /\ PeerLeft(c).id = c
    /\ \A h : Joined(h).op = "joined" /\ Joined(h).host = h
<1>1. Eof.op = "eof"
  BY Zenon DEF Eof
<1>2. \A S : PeersJoined(S).op = "peers joined"
  BY Zenon DEF PeersJoined
<1>3. \A S : PeersJoined(S).entries = S
  BY Zenon DEF PeersJoined
<1>4. \A c : PeerLeft(c).op = "peer left"
  BY Zenon DEF PeerLeft
<1>5. \A c : PeerLeft(c).id = c
  BY Zenon DEF PeerLeft
<1>6. \A h : Joined(h).op = "joined" /\ Joined(h).host = h
  BY Zenon DEF Joined
<1>7. /\ "eof" # "peers joined" /\ "eof" # "peer left" /\ "eof" # "joined"
      /\ "peers joined" # "peer left" /\ "peers joined" # "joined" /\ "peer left" # "joined"
  BY Zenon
<1> QED BY <1>1, <1>2, <1>3, <1>4, <1>5, <1>6, Zenon

LEMMA AnswerOps ==
    ASSUME NEW p \in Answers
    PROVE  /\ p.op = "peers joined" => p.entries \in SUBSET Entries /\ p = PeersJoined(p.entries)
           /\ p.op = "peer left" => p = PeerLeft(p.id)
           /\ p.op = "joined" => p.host \in Macs /\ p = Joined(p.host)
<1>1. /\ "eof" # "peers joined" /\ "eof" # "peer left" /\ "eof" # "joined"
      /\ "peers joined" # "peer left" /\ "peers joined" # "joined" /\ "peer left" # "joined"
      /\ "peer left" # "peers joined" /\ "joined" # "peers joined" /\ "joined" # "peer left"
  BY Zenon
<1>2. CASE p = Eof
  BY <1>1, <1>2, AnswerFields, Zenon
<1>3. ASSUME NEW S \in SUBSET Entries, p = PeersJoined(S)
      PROVE  /\ p.op = "peers joined" /\ p.entries \in SUBSET Entries /\ p = PeersJoined(p.entries)
  BY <1>3, AnswerFields, Zenon
<1>4. ASSUME NEW c \in Conns, p = PeerLeft(c)
      PROVE  p.op = "peer left" /\ p = PeerLeft(p.id)
  BY <1>4, AnswerFields, Zenon
<1>5. ASSUME NEW h \in Macs, p = Joined(h)
      PROVE  p.op = "joined" /\ p.host \in Macs /\ p = Joined(p.host)
  BY <1>5, AnswerFields, Zenon
<1>6. \/ p = Eof
      \/ \E S \in SUBSET Entries : p = PeersJoined(S)
      \/ \E c \in Conns : p = PeerLeft(c)
      \/ \E h \in Macs : p = Joined(h)
  BY DEF Answers
<1>7. CASE \E S \in SUBSET Entries : p = PeersJoined(S)
  BY <1>1, <1>3, <1>7, Zenon
<1>8. CASE \E c \in Conns : p = PeerLeft(c)
  BY <1>1, <1>4, <1>8, Zenon
<1>9. CASE \E h \in Macs : p = Joined(h)
  BY <1>1, <1>5, <1>9, Zenon
<1> QED BY <1>2, <1>6, <1>7, <1>8, <1>9, Zenon

\* The packet a console takes, by its op.
LEMMA PacketTaken ==
    ASSUME LobbyInv, NEW m \in Macs
    PROVE  /\ Receives(m, "peers joined") =>
                 Packet(m).entries \in SUBSET Entries /\ Packet(m) = PeersJoined(Packet(m).entries)
           /\ Receives(m, "peer left") => Packet(m) = PeerLeft(Packet(m).id)
           /\ Receives(m, "joined") => Packet(m).host \in Macs /\ Packet(m) = Joined(Packet(m).host)
           /\ \A op : Receives(m, op) => client[m].conn \in Conns /\ down[client[m].conn] # <<>>
<1> DEFINE c == client[m].conn
<1>1. LoggedIn(m) => c \in Conns
  BY LobbyTypes DEF LoggedIn, Clients
<1>2. c \in Conns /\ down[c] # <<>> => Packet(m) \in Answers
  BY LobbyTypes, HeadTailProperties DEF Packet
<1>3. \A op : Receives(m, op) => c \in Conns /\ down[c] # <<>> /\ Packet(m) \in Answers /\ Packet(m).op = op
  BY <1>1, <1>2, Zenon DEF Receives, Packet
<1>4. Receives(m, "peers joined") =>
        Packet(m).entries \in SUBSET Entries /\ Packet(m) = PeersJoined(Packet(m).entries)
  BY <1>3, AnswerOps, Zenon
<1>5. ASSUME Receives(m, "peer left")
      PROVE  Packet(m) = PeerLeft(Packet(m).id)
  <2>1. Packet(m) \in Answers /\ Packet(m).op = "peer left"
    BY <1>3, <1>5, Zenon
  <2> QED BY <2>1, AnswerOps, Zenon
<1>6. Receives(m, "joined") => Packet(m).host \in Macs /\ Packet(m) = Joined(Packet(m).host)
  BY <1>3, AnswerOps, Zenon
<1> QED BY <1>3, <1>4, <1>5, <1>6, Zenon

\* How a console that had heard s of its group and takes in packet p has heard t.
TakesIn(p, s, t, m) ==
    /\ \A e : e.mac # m /\ (p \in Enters(e) \/ (p \notin Removes(e) /\ e \in s.peers)) => e \in t.peers
    /\ \A h \in Macs : p = Joined(h) \/ (p \notin Joins /\ s.host = h) => t.host = h

LEMMA ReceiveStep ==
    ASSUME LobbyInv, [Next]_vars, NEW m \in Macs, NEW s \in Clients, Becomes(m, s), Received(m),
           client[m].conn \in Conns, down[client[m].conn] # <<>>,
           s.conn = client[m].conn, s.wanted = client[m].wanted, s.joined => s.wanted # NoGroup,
           s.wanted # NoGroup => TakesIn(Packet(m), client[m], s, m)
    PROVE  LobbyInv'
<1>1. /\ UNCHANGED <<players, hosts, failing, up, made, events>>
      /\ down' = [down EXCEPT ![client[m].conn] = Tail(@)]
  BY DEF Received, serverVars
<1>2. /\ down \in [Conns -> Seq(Answers)] /\ up \in [Conns -> Seq(Requests)]
      /\ DOMAIN players \subseteq Conns /\ client[m] \in Clients
  BY LobbyTypes
<1>3. Tail(down[client[m].conn]) \in Seq(Answers)
  BY <1>2, HeadTailProperties
<1>4. down' \in [Conns -> Seq(Answers)] /\ down'[client[m].conn] = Tail(down[client[m].conn])
      /\ \A d \in Conns : d # client[m].conn => down'[d] = down[d]
  BY <1>1, <1>2, <1>3
<1>5. ClientKeeps(m, s)
  BY <1>1, <1>2, <1>4 DEF ClientKeeps
<1>6. ASSUME NEW c \in DOMAIN players, c = client[m].conn
      PROVE  Heard(s, c)'
  <2>1. SUFFICES ASSUME ~ Broken(c)', s.wanted # NoGroup
                 PROVE  /\ Lasts(players'[c].group, {s.wanted}, up'[c], {Connect(s.wanted)}, Asks)
                        /\ ~ Has(up'[c], Asks) => Told(players', hosts', down'[c], s)
    BY DEF Heard
  <2>2. ~ Broken(c) /\ ConnInv(c) /\ Heard(client[m], c) /\ Owns(m, c)
    BY <1>1, <1>6, <2>1 DEF Broken, WasReset, LobbyInv, ConnInv
  <2>3. /\ Lasts(players[c].group, {s.wanted}, up[c], {Connect(s.wanted)}, Asks)
        /\ ~ Has(up[c], Asks) => Told(players, hosts, down[c], client[m])
    BY <2>1, <2>2 DEF Heard
  <2>4. ASSUME ~ Has(up[c], Asks)
        PROVE  Told(players, hosts, Tail(down[c]), s)
    <3>1. s.wanted \in Groups /\ {Connect(s.wanted)} \subseteq Asks
      BY <2>1 DEF Clients, Asks
    <3>2. Len(up[c]) \in Nat
      BY <1>2, LenProperties
    <3>3. players[c].group = s.wanted
      BY <2>3, <2>4, <3>1, <3>2, LastsUnasked
    <3>4. hosts[s.wanted] \in Macs /\ players[c].mac = m
      BY <2>1, <2>2, <3>1, <3>3, LobbyTypes DEF HostsThere, NamedMembers, Owns
    <3>5. TakesIn(Head(down[c]), client[m], s, m) /\ down[c] \in Seq(Answers) /\ down[c] # <<>>
      BY <1>2, <1>6, <2>1 DEF Packet
    <3>6. Told(players, hosts, down[c], client[m])
      BY <2>3, <2>4
    <3>7. ASSUME NEW d \in GroupMembers(players, s.wanted) \ {s.conn}
          PROVE  ToldMember(Entry(players, d), s, Tail(down[c]))
      <4>1. ToldMember(Entry(players, d), client[m], down[c])
        BY <3>6, <3>7 DEF Told
      <4>2. Entry(players, d).mac # m
        BY <1>6, <3>4, <3>7, LobbyTypes, LinksAssumption DEF OneEach, GroupMembers, Entry
      <4> QED BY <3>5, <4>1, <4>2, LastsTaken DEF ToldMember, TakesIn
    <3>8. ToldHost(hosts[s.wanted], s, Tail(down[c]))
      <4> DEFINE h == hosts[s.wanted]
      <4>1. Lasts(client[m].host, {h}, down[c], {Joined(h)}, Joins)
        BY <3>6 DEF Told, ToldHost
      <4>2. Head(down[c]) \in {Joined(h)} \/ (Head(down[c]) \notin Joins /\ client[m].host \in {h})
              => s.host \in {h}
        BY <3>4, <3>5 DEF TakesIn
      <4> HIDE DEF h
      <4>3. Lasts(s.host, {h}, Tail(down[c]), {Joined(h)}, Joins)
        BY <3>5, <4>1, <4>2, LastsTaken
      <4> QED BY <4>3 DEF ToldHost, h
    <3> QED BY <3>7, <3>8 DEF Told
  <2> QED BY <1>1, <1>4, <1>6, <2>3, <2>4
<1>7. events' \in 0 .. MaxEvents
  BY <1>1 DEF LobbyInv, LobbyTyped
<1> QED BY <1>1, <1>5, <1>6, <1>7, NothingSent, ClientStepKeeps

LEMMA PeersJoinedStep ==
    ASSUME LobbyInv, [Next]_vars, NEW m \in Macs, OnPeersJoined(m)
    PROVE  LobbyInv'
<1>1. PICK T : T = Packet(m).entries
  OBVIOUS
<1>2. PICK s : s = [client[m] EXCEPT !.peers = Enter(@, m, T)]
  OBVIOUS
<1>3. /\ T \in SUBSET Entries /\ Packet(m) = PeersJoined(T) /\ Becomes(m, s) /\ Received(m)
      /\ client[m].conn \in Conns /\ down[client[m].conn] # <<>>
  BY <1>1, <1>2, PacketTaken, Zenon DEF OnPeersJoined
<1>4. client[m] \in Clients
  BY LobbyTypes
<1>5. Enter(client[m].peers, m, T) \in SUBSET Entries
  BY <1>3, <1>4 DEF Enter, Clients
<1>6. /\ s \in Clients /\ s.conn = client[m].conn /\ s.wanted = client[m].wanted
      /\ s.joined = client[m].joined /\ s.host = client[m].host /\ s.peers = Enter(client[m].peers, m, T)
  BY <1>2, <1>4, <1>5 DEF Clients
<1>7. TakesIn(Packet(m), client[m], s, m)
  <2>1. ASSUME NEW e, e.mac # m, PeersJoined(T) \in Enters(e)
        PROVE  e \in s.peers
    BY <1>6, <2>1, PacketFacts DEF Enter
  <2>2. ASSUME NEW e, e.mac # m, PeersJoined(T) \notin Removes(e), e \in client[m].peers
        PROVE  e \in s.peers
    <3>1. \A n \in T : n.mac = e.mac => n = e
      BY <1>3, <2>2, PacketFacts
    <3> QED BY <1>6, <2>2, <3>1 DEF Enter
  <2>3. \A h \in Macs : PeersJoined(T) # Joined(h)
    BY PacketFacts DEF Joins
  <2> QED BY <1>3, <1>6, <2>1, <2>2, <2>3 DEF TakesIn
<1>8. s.joined => s.wanted # NoGroup
  BY <1>6 DEF LobbyInv
<1> QED BY <1>3, <1>6, <1>7, <1>8, ReceiveStep

LEMMA PeerLeftStep ==
    ASSUME LobbyInv, [Next]_vars, NEW m \in Macs, OnPeerLeft(m)
    PROVE  LobbyInv'
<1>1. PICK d : d = Packet(m).id
  OBVIOUS
<1>2. PICK s : s = [client[m] EXCEPT !.peers = {e \in @ : e.id # d}]
  OBVIOUS
<1>3. /\ Packet(m) = PeerLeft(d) /\ Becomes(m, s) /\ Received(m)
      /\ client[m].conn \in Conns /\ down[client[m].conn] # <<>>
  BY <1>1, <1>2, PacketTaken, Zenon DEF OnPeerLeft
<1>4. client[m] \in Clients
  BY LobbyTypes
<1>5. /\ s \in Clients /\ s.conn = client[m].conn /\ s.wanted = client[m].wanted
      /\ s.joined = client[m].joined /\ s.host = client[m].host /\ s.peers = {e \in client[m].peers : e.id # d}
  BY <1>2, <1>4 DEF Clients
<1>6. TakesIn(Packet(m), client[m], s, m)
  <2>1. \A e : PeerLeft(d) \notin Enters(e) /\ (PeerLeft(d) \in Removes(e) <=> d = e.id)
    BY PacketFacts
  <2>2. \A h \in Macs : PeerLeft(d) # Joined(h)
    BY PacketFacts DEF Joins
  <2> QED BY <1>3, <1>5, <2>1, <2>2 DEF TakesIn
<1>7. s.joined => s.wanted # NoGroup
  BY <1>5 DEF LobbyInv
<1> QED BY <1>3, <1>5, <1>6, <1>7, ReceiveStep

LEMMA JoinedStep ==
    ASSUME LobbyInv, [Next]_vars, NEW m \in Macs, OnJoined(m)
    PROVE  LobbyInv'
<1>1. PICK k : k = Packet(m).host
  OBVIOUS
<1>2. /\ k \in Macs /\ Packet(m) = Joined(k) /\ Received(m)
      /\ client[m].conn \in Conns /\ down[client[m].conn] # <<>>
  BY <1>1, PacketTaken, Zenon DEF OnJoined
<1>3. client[m] \in Clients /\ client \in [Macs -> Clients]
  BY LobbyTypes
<1>4. CASE client[m].wanted = NoGroup
  <2>1. client' = client
    BY <1>4 DEF OnJoined
  <2>2. PICK s : s = client[m]
    OBVIOUS
  <2>3. Becomes(m, s)
    BY <1>3, <2>1, <2>2 DEF Becomes
  <2>4. s.joined => s.wanted # NoGroup
    BY <2>2 DEF LobbyInv
  <2> QED BY <1>2, <1>3, <1>4, <2>2, <2>3, <2>4, ReceiveStep
<1>5. CASE client[m].wanted # NoGroup
  <2>1. PICK s : s = [client[m] EXCEPT !.joined = TRUE, !.host = k,
                                       !.asking = FALSE, !.lost = FALSE, !.connected = TRUE]
    OBVIOUS
  <2>2. Becomes(m, s)
    BY <1>1, <1>5, <2>1 DEF OnJoined
  <2>3. /\ s \in Clients /\ s.conn = client[m].conn /\ s.wanted = client[m].wanted
        /\ s.host = k /\ s.peers = client[m].peers
    BY <1>2, <1>3, <2>1 DEF Clients
  <2>4. TakesIn(Packet(m), client[m], s, m)
    <3>1. \A e : Joined(k) \notin Enters(e)
      BY PacketFacts
    <3>2. Joined(k) \in Joins /\ \A h \in Macs : Joined(k) = Joined(h) => k = h
      BY <1>2, PacketFacts DEF Joins
    <3> QED BY <1>2, <2>3, <3>1, <3>2 DEF TakesIn
  <2> QED BY <1>2, <1>5, <2>2, <2>3, <2>4, ReceiveStep
<1> QED BY <1>4, <1>5

\* A connection given up by the console.
LEMMA EofStep ==
    ASSUME LobbyInv, [Next]_vars, NEW m \in Macs, OnEof(m)
    PROVE  LobbyInv'
<1>1. PICK s : s = Lost(client[m])
  OBVIOUS
<1>2. /\ Becomes(m, s) /\ UNCHANGED <<players, hosts, failing, up, events, made>>
      /\ down' = [down EXCEPT ![client[m].conn] = <<>>]
  BY <1>1, Zenon DEF OnEof, serverVars
<1>3. s \in Clients /\ s.conn = NoConn /\ s.joined = FALSE
  BY <1>1, LobbyTypes, ClientFields
<1>4. down' \in [Conns -> Seq(Answers)] /\ \A d \in Conns : d # client[m].conn => down'[d] = down[d]
  BY <1>2, LobbyTypes, EmptySeq
<1>5. ClientKeeps(m, s)
  BY <1>2, <1>3, <1>4, LobbyTypes DEF ClientKeeps
<1>6. NoConn \notin DOMAIN players
  BY LobbyTypes DEF NoConn, Conns
<1>7. events' \in 0 .. MaxEvents
  BY <1>2 DEF LobbyInv, LobbyTyped
<1> QED BY <1>2, <1>3, <1>5, <1>6, <1>7, NothingSent, ClientStepKeeps

LEMMA ReconnectStep ==
    ASSUME LobbyInv, [Next]_vars, NEW m \in Macs, Reconnect(m)
    PROVE  LobbyInv'
<1>1. PICK s : s = Lost(client[m])
  OBVIOUS
<1>2. PICK c : c = client[m].conn
  OBVIOUS
<1>3. /\ Becomes(m, s) /\ Happens /\ UNCHANGED <<players, hosts, failing, made>>
      /\ up' = IF c \in DOMAIN players /\ ~ Broken(c) THEN [up EXCEPT ![c] = Append(@, Eof)] ELSE up
      /\ down' = [down EXCEPT ![c] = <<>>]
  BY <1>1, <1>2 DEF Reconnect, serverVars
<1>4. s \in Clients /\ s.conn = NoConn /\ s.joined = FALSE
  BY <1>1, LobbyTypes, ClientFields
<1>5. down' \in [Conns -> Seq(Answers)] /\ \A d \in Conns : d # c => down'[d] = down[d]
  BY <1>3, LobbyTypes, EmptySeq
<1>6. NoConn \notin DOMAIN players /\ DOMAIN players \subseteq Conns /\ up \in [Conns -> Seq(Requests)]
  BY LobbyTypes DEF NoConn, Conns
<1>7. c \in DOMAIN players => FirstIn(up[c], players[c])
  BY DEF LobbyInv, ConnInv, LoginsFirst, FirstIn
<1>8. /\ up' \in [Conns -> Seq(Requests)] /\ \A d \in Conns : d # c => up'[d] = up[d]
      /\ c \in DOMAIN players =>
            /\ FirstIn(up'[c], players[c])
            /\ \A n \in Macs : Has(up'[c], {Login(n)}) => Has(up[c], {Login(n)})
  <2>1. CASE ~ (c \in DOMAIN players /\ ~ Broken(c))
    BY <1>3, <1>6, <1>7, <2>1
  <2>2. CASE c \in DOMAIN players /\ ~ Broken(c)
    <3>1. up[c] \in Seq(Requests) /\ ~ Has(up[c], {Reset, Eof}) /\ Eof \in Requests \ Logins
      BY <1>6, <2>2, BrokenHas, RequestFacts DEF Requests
    <3>2. /\ Append(up[c], Eof) \in Seq(Requests) /\ FirstIn(Append(up[c], Eof), players[c])
          /\ \A n \in Macs : Has(Append(up[c], Eof), {Login(n)}) => Has(up[c], {Login(n)})
      BY <1>7, <2>2, <3>1, FirstStays
    <3>3. up' = [up EXCEPT ![c] = Append(up[c], Eof)] /\ c \in Conns
      BY <1>3, <1>6, <2>2
    <3> QED BY <1>6, <3>2, <3>3
  <2> QED BY <2>1, <2>2
<1>9. ClientKeeps(m, s)
  BY <1>2, <1>3, <1>4, <1>5, <1>8 DEF ClientKeeps
<1> QED BY <1>2, <1>3, <1>4, <1>6, <1>8, <1>9, EventsTyped, ClientStepKeeps

LEMMA BreakStep ==
    ASSUME LobbyInv, [Next]_vars, ConnectionBreaks
    PROVE  LobbyInv'
<1>1. PICK m \in Macs : /\ client[m].conn \in DOMAIN players /\ Break(client[m].conn)
                        /\ UNCHANGED <<serverVars, client, made>>
  BY DEF ConnectionBreaks
<1>2. PICK s : s = client[m]
  OBVIOUS
<1>3. PICK c : c = client[m].conn
  OBVIOUS
<1>4. /\ up \in [Conns -> Seq(Requests)] /\ down \in [Conns -> Seq(Answers)] /\ client \in [Macs -> Clients]
      /\ c \in DOMAIN players /\ c \in Conns /\ Happens /\ ~ Broken(c)
      /\ UNCHANGED <<players, hosts, failing, client, made>>
      /\ down' = [down EXCEPT ![c] = Append(@, Eof)]
  BY <1>1, <1>3, LobbyTypes DEF Break, serverVars
<1>5. PICK rest \in {up[c], <<>>} : up' = [up EXCEPT ![c] = Append(rest, Reset)]
  BY <1>1, <1>3 DEF Break
<1>6. Append(down[c], Eof) \in Seq(Answers)
  <2>1. Eof \in Answers
    BY DEF Answers
  <2> QED BY <1>4, <2>1, AppendProperties
<1>7. down' \in [Conns -> Seq(Answers)] /\ \A d \in Conns : d # c => down'[d] = down[d]
  BY <1>4, <1>6
<1>8. /\ rest \in Seq(Requests) /\ ~ Has(rest, {Reset, Eof}) /\ Reset \in Requests \ Logins
      /\ FirstIn(up[c], players[c])
  <2>1. ~ Has(up[c], {Reset, Eof}) /\ ~ Has(<<>>, {Reset, Eof})
    BY <1>4, BrokenHas DEF Has
  <2>2. FirstIn(up[c], players[c])
    BY <1>4 DEF LobbyInv, ConnInv, LoginsFirst, FirstIn
  <2>3. Reset \in Requests \ Logins
    BY RequestFacts DEF Requests
  <2>4. <<>> \in Seq(Requests) /\ up[c] \in Seq(Requests)
    BY <1>4, EmptySeq
  <2> QED BY <2>1, <2>2, <2>3, <2>4
<1>9. /\ Append(rest, Reset) \in Seq(Requests) /\ FirstIn(Append(rest, Reset), players[c])
      /\ \A n \in Macs : Has(Append(rest, Reset), {Login(n)}) => Has(up[c], {Login(n)})
  <2>1. CASE rest = up[c]
    BY <1>8, <2>1, FirstStays
  <2>2. CASE rest = <<>>
    <3>1. Append(rest, Reset) = <<Reset>> /\ <<Reset>> \in Seq(Requests)
      BY <1>8, <2>2
    <3>2. ~ Has(<<Reset>>, Logins) /\ ~ Has(Tail(<<Reset>>), Logins)
      BY <1>8 DEF Has
    <3>3. \A n \in Macs : ~ Has(<<Reset>>, {Login(n)})
      BY <1>8 DEF Has, Logins
    <3> QED BY <1>8, <3>1, <3>2, <3>3 DEF FirstIn
  <2> QED BY <2>1, <2>2
<1>10. /\ up' \in [Conns -> Seq(Requests)] /\ up'[c] = Append(rest, Reset)
       /\ \A d \in Conns : d # c => up'[d] = up[d]
  BY <1>4, <1>5, <1>9
<1>11. Broken(c)'
  <2>1. Has(up'[c], {Reset, Eof})
    BY <1>8, <1>10, HasAppended
  <2>2. Broken(c)' <=> Has(up'[c], {Reset, Eof})
    <3>1. DOMAIN up'[c] = 1 .. Len(up'[c])
      BY <1>4, <1>10, LenProperties
    <3> QED BY <3>1 DEF Broken, WasReset, Has
  <2> QED BY <2>1, <2>2
<1>12. Heard(s, c)'
  BY <1>11 DEF Heard
<1>13. ClientKeeps(m, s)
  BY <1>2, <1>3, <1>4, <1>7, <1>10 DEF ClientKeeps, Becomes
<1>14. s.joined => s.wanted # NoGroup
  BY <1>2 DEF LobbyInv
<1> QED BY <1>3, <1>4, <1>9, <1>10, <1>12, <1>13, <1>14, EventsTyped, ClientStepKeeps

-----------------------------------------------------------------------------
(* A console connects, logs in and asks again for the group it wants.       *)

LEMMA StrangerUnseen ==
    ASSUME NEW ps, NEW qs, NEW c, DOMAIN qs = DOMAIN ps \union {c}, c \notin DOMAIN ps, qs[c] = Stranger,
           \A d \in DOMAIN ps : qs[d] = ps[d], NEW hs, NEW q, NEW s, Told(ps, hs, q, s)
    PROVE  Told(qs, hs, q, s)
<1>1. \A g : GroupMembers(qs, g) = GroupMembers(ps, g)
  BY DEF GroupMembers, Stranger
<1>2. \A g : \A d \in GroupMembers(ps, g) : Entry(qs, d) = Entry(ps, d)
  BY DEF GroupMembers, Entry
<1> QED BY <1>1, <1>2 DEF Told

LEMMA FirstRequests ==
    ASSUME NEW m \in Macs, NEW w \in Groups \union {NoGroup}, NEW q,
           q = IF w = NoGroup THEN <<Login(m)>> ELSE <<Login(m), Connect(w)>>
    PROVE  /\ q \in Seq(Requests) /\ FirstIn(q, Stranger)
           /\ \A n \in Macs : Has(q, {Login(n)}) => n = m
           /\ w # NoGroup => /\ Lasts(NoGroup, {w}, q, {Connect(w)}, Asks)
                             /\ Has(q, Asks)
<1>1. Login(m) \in Requests /\ Login(m) \in Logins /\ Stranger.mac = NoMac /\ Stranger.group = NoGroup
  BY DEF Requests, Logins, Stranger
<1>2. CASE w = NoGroup
  <2>1. q = <<Login(m)>> /\ Tail(q) = <<>> /\ Head(q) = Login(m) /\ q # <<>>
    BY <1>2
  <2>2. ~ Has(Tail(q), Logins)
    BY <2>1 DEF Has
  <2>3. \A n \in Macs : Has(q, {Login(n)}) => n = m
    BY <2>1, RequestFacts DEF Has
  <2> QED BY <1>1, <1>2, <2>1, <2>2, <2>3 DEF FirstIn
<1>3. CASE w # NoGroup
  <2>1. Connect(w) \in Requests \ Logins /\ Connect(w) \in Asks /\ w \in Groups
    BY <1>3, RequestFacts DEF Requests
  <2>2. /\ q = <<Login(m), Connect(w)>> /\ Tail(q) = <<Connect(w)>> /\ Head(q) = Login(m) /\ q # <<>>
        /\ Len(q) = 2 /\ q[1] = Login(m) /\ q[2] = Connect(w)
    BY <1>3
  <2>3. q \in Seq(Requests)
    BY <1>1, <2>1, <2>2
  <2>4. ~ Has(Tail(q), Logins)
    BY <2>1, <2>2 DEF Has
  <2>5. \A n \in Macs : Has(q, {Login(n)}) => n = m
    BY <2>2, RequestFacts DEF Has
  <2>6. Has(q, Asks)
    BY <2>1, <2>2 DEF Has
  <2>7. Lasts(NoGroup, {w}, q, {Connect(w)}, Asks)
    <3>1. 2 \in 0 .. Len(q) /\ \A j \in 1 .. Len(q) : ~ (j > 2)
      BY <2>2
    <3> QED BY <2>2, <3>1 DEF Lasts
  <2> QED BY <1>1, <2>2, <2>3, <2>4, <2>5, <2>6, <2>7 DEF FirstIn
<1> QED BY <1>2, <1>3

LEMMA LogInStep ==
    ASSUME LobbyInv, [Next]_vars, NEW m \in Macs, LogIn(m)
    PROVE  LobbyInv'
<1>1. PICK w : w = client[m].wanted
  OBVIOUS
<1>2. PICK b : b = made'
  OBVIOUS
<1>3. PICK s : s = IF w = NoGroup THEN [client[m] EXCEPT !.conn = b]
                   ELSE ClearGroupState([client[m] EXCEPT !.conn = b])
  OBVIOUS
<1>4. PICK q : q = IF w = NoGroup THEN <<Login(m)>> ELSE <<Login(m), Connect(w)>>
  OBVIOUS
<1>5. /\ made < MaxConns /\ b = made + 1 /\ ~ LoggedIn(m) /\ UNCHANGED <<hosts, failing, down, events>>
      /\ players' = [d \in DOMAIN players \union {b} |-> IF d = b THEN Stranger ELSE players[d]]
      /\ up' = [up EXCEPT ![b] = q]
  BY <1>1, <1>2, <1>4 DEF LogIn
<1>6. Becomes(m, s)
  BY <1>1, <1>2, <1>3 DEF LogIn
<1>7. /\ client[m] \in Clients /\ client \in [Macs -> Clients] /\ up \in [Conns -> Seq(Requests)]
      /\ down \in [Conns -> Seq(Answers)] /\ hosts \in [Groups -> Macs \union {NoMac}]
      /\ players \in [DOMAIN players -> Player] /\ DOMAIN players \subseteq Conns /\ failing \subseteq DOMAIN players
      /\ made \in 0 .. MaxConns /\ MaxConns \in Nat /\ w \in Groups \union {NoGroup}
      /\ client[m].joined => w # NoGroup
  BY <1>1, LobbyTypes DEF LobbyInv, Clients
<1>8. b \in Conns /\ b \in 1 .. MaxConns
  BY <1>5, <1>7 DEF Conns
<1>9. s \in Clients /\ s.conn = b /\ s.wanted = w /\ (s.joined => w # NoGroup)
  <2>1. \A u \in Clients : /\ ClearGroupState(u) \in Clients /\ ClearGroupState(u).conn = u.conn
                           /\ ClearGroupState(u).wanted = u.wanted
    BY ClientFields
  <2>2. PICK u : u = [client[m] EXCEPT !.conn = b]
    OBVIOUS
  <2>3. u \in Clients /\ u.conn = b /\ u.wanted = w /\ u.joined = client[m].joined
    BY <1>1, <1>7, <1>8, <2>2 DEF Clients
  <2>4. s = IF w = NoGroup THEN u ELSE ClearGroupState(u)
    BY <1>3, <2>2
  <2> QED BY <1>7, <2>1, <2>3, <2>4
<1>10. /\ q \in Seq(Requests) /\ FirstIn(q, Stranger)
       /\ \A n \in Macs : Has(q, {Login(n)}) => n = m
       /\ w # NoGroup => /\ Lasts(NoGroup, {w}, q, {Connect(w)}, Asks)
                         /\ Has(q, Asks)
  BY <1>4, <1>7, FirstRequests
<1>11. /\ DOMAIN players \subseteq 1 .. made /\ b \notin DOMAIN players
       /\ \A n \in Macs : client[n].conn <= made /\ client[n].conn # b
       /\ \A n, k \in Macs : client[n].conn = client[k].conn /\ client[n].conn # NoConn => n = k
  <2>1. OneConnEach
    BY DEF LobbyInv
  <2>2. \A n \in Macs : client[n].conn \in Nat
    BY <1>7 DEF Clients, Conns, NoConn
  <2> QED BY <1>5, <1>7, <2>1, <2>2 DEF OneConnEach
<1>12. /\ DOMAIN players' = DOMAIN players \union {b} /\ players'[b] = Stranger
       /\ \A d \in DOMAIN players : players'[d] = players[d]
  BY <1>5, <1>11
<1>13. /\ up' \in [Conns -> Seq(Requests)] /\ up'[b] = q /\ \A d \in Conns : d # b => up'[d] = up[d]
  BY <1>5, <1>7, <1>8, <1>10
<1>14. client' \in [Macs -> Clients] /\ client'[m] = s /\ \A n \in Macs : n # m => client'[n] = client[n]
  BY <1>6, <1>7, <1>9 DEF Becomes
<1>15. LobbyTyped'
  <2>1. players' \in [DOMAIN players' -> Player]
    <3>1. Stranger \in Player
      BY DEF Stranger, Player
    <3> QED BY <1>5, <1>7, <3>1
  <2>2. IsServer(Server')
    <3>1. /\ Server'.players = players' /\ Server'.hosts = hosts /\ Server'.down = down
          /\ Server'.failing = failing /\ DOMAIN Server' = ServerFields
      BY <1>5 DEF Server, ServerFields
    <3> QED BY <1>7, <1>8, <1>12, <2>1, <3>1 DEF IsServer
  <2>3. IsServer(Server)' <=> IsServer(Server')
    BY DEF IsServer
  <2>4. made' \in 0 .. MaxConns /\ events' \in 0 .. MaxEvents
    BY <1>2, <1>5, <1>7 DEF LobbyInv, LobbyTyped
  <2> QED BY <1>13, <1>14, <2>2, <2>3, <2>4 DEF LobbyTyped
<1>16. OneConnEach'
  <2>1. \A d \in DOMAIN players' : d \in 1 .. made'
    BY <1>2, <1>5, <1>7, <1>11, <1>12
  <2>2. \A n \in Macs : client'[n].conn <= made'
    <3>1. \A n \in Macs : client[n].conn \in Nat
      BY <1>7 DEF Clients, Conns, NoConn
    <3>2. ASSUME NEW n \in Macs, n # m
          PROVE  client'[n].conn <= made'
      <4>1. client'[n].conn = client[n].conn /\ client[n].conn <= made /\ client[n].conn \in Nat
        BY <1>11, <1>14, <3>1, <3>2
      <4> QED BY <1>2, <1>5, <1>7, <4>1
    <3>3. client'[m].conn = made' /\ made' \in Nat
      BY <1>2, <1>5, <1>7, <1>9, <1>14
    <3> QED BY <3>2, <3>3
  <2>3. \A n, k \in Macs : client'[n].conn = client'[k].conn /\ client'[n].conn # NoConn => n = k
    BY <1>9, <1>11, <1>14
  <2> QED BY <2>1, <2>2, <2>3 DEF OneConnEach
<1>17. ConnInv(b)'
  <2>1. LoginsFirst(b)'
    BY <1>10, <1>12, <1>13 DEF LoginsFirst, FirstIn
  <2>2. players'[b].group = NoGroup /\ players'[b].mac = NoMac
    BY <1>12 DEF Stranger
  <2>3. ASSUME NEW n \in Macs, client'[n].conn = b
        PROVE  Owns(n, b)' /\ Heard(client[n], b)'
    <3>1. n = m
      BY <1>11, <1>14, <2>3
    <3>2. Owns(n, b)'
      BY <1>10, <1>13, <2>2, <3>1 DEF Owns
    <3>3. client'[n].wanted = w
      BY <1>9, <1>14, <3>1
    <3>4. Heard(client[n], b)'
      BY <1>10, <1>13, <2>2, <3>3 DEF Heard
    <3> QED BY <3>2, <3>4
  <2> QED BY <2>1, <2>2, <2>3 DEF ConnInv
<1>18. ASSUME NEW d \in DOMAIN players
       PROVE  ConnInv(d)'
  <2>1. /\ d # b /\ d \in Conns /\ ConnInv(d) /\ players'[d] = players[d] /\ up'[d] = up[d]
        /\ down' = down /\ hosts' = hosts
    BY <1>5, <1>7, <1>11, <1>12, <1>13 DEF LobbyInv
  <2>2. LoginsFirst(d)' /\ Broken(d)' = Broken(d)
    BY <2>1 DEF ConnInv, LoginsFirst, Broken, WasReset
  <2>3. ASSUME NEW n \in Macs, client'[n].conn = d
        PROVE  Owns(n, d)' /\ Heard(client[n], d)'
    <3>1. client'[n] = client[n] /\ Owns(n, d) /\ Heard(client[n], d)
      BY <1>9, <1>14, <2>1, <2>3 DEF ConnInv
    <3>2. Owns(n, d)'
      BY <2>1, <3>1 DEF Owns
    <3>3. Told(players, hosts, down[d], client[n]) => Told(players', hosts, down[d], client[n])
      BY <1>11, <1>12, StrangerUnseen
    <3>4. Heard(client[n], d)'
      BY <2>1, <2>2, <3>1, <3>3 DEF Heard
    <3> QED BY <3>2, <3>4
  <2>4. players'[d].group # NoGroup => hosts'[players'[d].group] # NoMac
    BY <2>1 DEF ConnInv
  <2> QED BY <2>2, <2>3, <2>4 DEF ConnInv
<1>19. \A d \in DOMAIN players' : ConnInv(d)'
  BY <1>12, <1>17, <1>18
<1>20. \A n \in Macs : client'[n].joined => client'[n].wanted # NoGroup
  BY <1>9, <1>14 DEF LobbyInv
<1>21. LoginInv'
  BY LoginStep DEF LobbyInv
<1> QED BY <1>15, <1>16, <1>19, <1>20, <1>21 DEF LobbyInv

-----------------------------------------------------------------------------
(* The invariant, and what follows from it.                                 *)

LEMMA ClientStep ==
    ASSUME LobbyInv, [Next]_vars, ClientNext
    PROVE  LobbyInv'
<1>1. PICK m \in Macs : \/ \E g \in Groups : Join(m, g)
                        \/ Leave(m) \/ LogIn(m) \/ Receive(m)
                        \/ Reconnect(m) \/ RequestTimeout(m) \/ GraceEnds(m)
  BY DEF ClientNext
<1>2. CASE Receive(m)
  BY <1>2, PeersJoinedStep, PeerLeftStep, JoinedStep, EofStep DEF Receive
<1>3. CASE \E g \in Groups : Join(m, g)
  BY <1>3, JoinStep
<1> QED BY <1>1, <1>2, <1>3, LeaveStep, LogInStep, ReconnectStep, GraceStep

LEMMA AlwaysLobby == Spec => []LobbyInv
<1>1. Init => LobbyInv
  <2> SUFFICES ASSUME Init PROVE LobbyInv
    OBVIOUS
  <2>1. DOMAIN players = {} /\ players = <<>>
    BY DEF Init
  <2>2. LoginInv
    BY <2>1 DEF LoginInv, ArePlayers, OneEach
  <2>3. players \in [DOMAIN players -> Player]
    BY <2>1
  <2>4. IsServer(Server)
    <3>1. /\ hosts \in [Groups -> Macs \union {NoMac}] /\ down \in [Conns -> Seq(Answers)] /\ failing = {}
      BY DEF Init
    <3> QED BY <2>1, <2>3, <3>1, ServerIs DEF IsServer
  <2>5. Off \in Clients
    BY DEF Off, Clients
  <2>6. LobbyTyped
    BY <2>4, <2>5, LinksAssumption DEF LobbyTyped, Init
  <2>7. OneConnEach
    BY <2>1, LinksAssumption DEF OneConnEach, Init, Off, NoConn
  <2>8. \A m \in Macs : client[m].joined = FALSE
    BY DEF Init, Off
  <2> QED BY <2>1, <2>2, <2>6, <2>7, <2>8 DEF LobbyInv
<1>2. LobbyInv /\ [Next]_vars => LobbyInv'
  <2> SUFFICES ASSUME LobbyInv, [Next]_vars PROVE LobbyInv'
    OBVIOUS
  <2>1. CASE ServerNext /\ UNCHANGED <<client, made>>
    BY <2>1, ServerStep
  <2>2. CASE ClientNext
    BY <2>2, ClientStep
  <2>3. CASE ConnectionBreaks
    BY <2>3, BreakStep
  <2>4. CASE UNCHANGED vars
    <3>1. /\ up' = up /\ down' = down /\ events' = events /\ players' = players /\ hosts' = hosts
          /\ failing' = failing /\ client' = client /\ made' = made
      BY <2>4 DEF vars
    <3>2. LobbyTyped' /\ OneConnEach' /\ LoginInv'
      BY <3>1, LoginStep DEF LobbyInv, LobbyTyped, OneConnEach, Server
    <3>3. \A c : ConnInv(c)' <=> ConnInv(c)
      BY <3>1 DEF ConnInv, LoginsFirst, Owns, Heard, Broken, WasReset
    <3> QED BY <3>1, <3>2, <3>3 DEF LobbyInv
  <2> QED BY <2>1, <2>2, <2>3, <2>4 DEF Next
<1> QED BY <1>1, <1>2, PTL DEF Spec

\* What has been handled: a console that is settled has heard of its group.
LEMMA SettledHeard ==
    ASSUME LobbyInv, NEW m \in Macs, Settled(m), client[m].joined
    PROVE  LET c == client[m].conn
               g == client[m].wanted
           IN  /\ c \in DOMAIN players /\ players[c].group = g
               /\ \A d \in GroupMembers(players, g) \ {c} : Entry(players, d) \in client[m].peers
               /\ client[m].host = hosts[g]
<1> DEFINE c == client[m].conn
           s == client[m]
<1>1. c \in DOMAIN players /\ up[c] = <<>> /\ down[c] = <<>>
  BY DEF Settled
<1>2. s.wanted # NoGroup /\ Heard(s, c)
  BY <1>1 DEF LobbyInv, ConnInv
<1>3. /\ \A x, X, S, C : Lasts(x, X, <<>>, S, C) => x \in X
      /\ \A S : ~ Has(<<>>, S)
  BY DEF Lasts, Has
<1>4. ~ Broken(c)
  BY <1>1 DEF Broken, WasReset
<1>5. players[c].group \in {s.wanted} /\ Told(players, hosts, <<>>, s)
  BY <1>1, <1>2, <1>3, <1>4 DEF Heard
<1>6. \A d \in GroupMembers(players, s.wanted) \ {c} : Entry(players, d) \in s.peers
  BY <1>3, <1>5 DEF Told, ToldMember
<1>7. s.host = hosts[s.wanted]
  BY <1>3, <1>5 DEF Told, ToldHost
<1> QED BY <1>1, <1>5, <1>6, <1>7

(* The values of the server and of the clients have their types, whatever  *)
(* the order in which packets, broken connections and calls come.          *)
THEOREM AdhocTypeCorrect == Spec => []TypeOK
<1>1. LobbyInv => TypeOK
  <2> SUFFICES ASSUME LobbyInv PROVE TypeOK
    OBVIOUS
  <2>1. \A c \in DOMAIN players : players[c] \in Player
    BY LobbyTypes
  <2>2. events \in 0 .. MaxEvents
    BY DEF LobbyInv, LobbyTyped
  <2> QED BY <2>1, <2>2, LobbyTypes DEF TypeOK, ServerTypeOK, Player
<1> QED BY <1>1, AlwaysLobby, PTL

(* Where nothing is under way, a game told that it is in its group is in   *)
(* the server's group of that name (client.cpp, server.cpp join_group).    *)
THEOREM AdhocJoinedIsMember == Spec => []JoinedIsMember
<1>1. LobbyInv => JoinedIsMember
  BY SettledHeard DEF JoinedIsMember, GroupOf
<1> QED BY <1>1, AlwaysLobby, PTL

(* Then it knows every other member of the group, in whatever order joins, *)
(* leaves, logins and lost connections were handled and told.              *)
THEOREM AdhocMembersKnown == Spec => []MembersKnown
<1>1. LobbyInv => MembersKnown
  BY SettledHeard DEF MembersKnown, GroupOf, Entry
<1> QED BY <1>1, AlwaysLobby, PTL

(* And two such games have been told the same host, the creator whom the   *)
(* server has kept (group_hosts) while others came and left.               *)
THEOREM AdhocHostAgreed == Spec => []HostAgreed
<1>1. LobbyInv => HostAgreed
  <2> SUFFICES ASSUME LobbyInv, NEW m \in Macs, NEW n \in Macs, Settled(m), Settled(n),
                      client[m].joined, client[n].joined, GroupOf(m) = GroupOf(n)
               PROVE  client[m].host = client[n].host
    BY DEF HostAgreed
  <2>1. client[m].host = hosts[GroupOf(m)]
    BY SettledHeard DEF GroupOf
  <2>2. client[n].host = hosts[GroupOf(n)]
    BY SettledHeard DEF GroupOf
  <2> QED BY <2>1, <2>2
<1> QED BY <1>1, AlwaysLobby, PTL
=============================================================================
