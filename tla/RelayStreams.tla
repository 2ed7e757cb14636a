---------------------------- MODULE RelayStreams ----------------------------
(***************************************************************************)
(* The stream sockets of the ad hoc client (adhoc/client.cpp) and the      *)
(* relay they go through.  The game's calls and the client's network       *)
(* thread work under one mutex, so each of them is one action.  A game     *)
(* that does not read pauses its link: nothing obliges Receive to happen   *)
(* where a property does not say so.  Of the group a console is in, which  *)
(* the Adhoc modules are about, this one keeps what its links depend on.   *)
(***************************************************************************)
EXTENDS RelayServer

CONSTANTS
    Openers, Listeners,  \* the names of sockets that connect and that listen
    MacOf,               \* the console of a name
    Retries,             \* how often a refused socket tries again
    Backlog,             \* the pending connections a listening socket keeps
    MaxPerPort,          \* bound: sockets that connect from one port
    MaxEvents            \* bound: sockets closed, links broken, groups lost, joins and requests
                         \* that got old

ASSUME StreamsAssumption ==
    /\ Names = Openers \union Listeners
    /\ MaxPerPort \in Nat /\ Retries \in Nat /\ Backlog \in Nat \ {0} /\ MaxEvents \in Nat

VARIABLES
    sockets,  \* streams: the sockets the games have open
    used,     \* next_handle, less one
    made,     \* the links made so far
    group,    \* per console: joined, or why not (wanted_group, game_connected)
    events

vars == <<sessions, up, down, sockets, used, made, group, events>>

Macs == {MacOf[n] : n \in Names}
Groups == {"none", "joining", "joined", "lost"}

Sockets == [kind : {"listen", "connect", "accept"}, name : Names, peer : Names,
            state : {"listening", "opening", "established", "failed", "disconnected"},
            link : Links \union {NoLink}, retries : 0 .. Retries, noticed : BOOLEAN,
            received : Seq(Blocks), sent : 0 .. MaxSent, backlog : Seq(Openers), pending : BOOLEAN]

RelayInit ==
    /\ sessions = <<>> /\ up = [c \in Links |-> <<>>] /\ down = [c \in Links |-> <<>>]
    /\ sockets = <<>> /\ used = 0 /\ made = 0 /\ events = 0
    /\ group = [m \in Macs |-> "none"]

Happens == events < MaxEvents /\ events' = events + 1

-----------------------------------------------------------------------------
(* The game's calls. *)

Socket(k, n, p, s) ==
    [kind |-> k, name |-> n, peer |-> p, state |-> s, link |-> NoLink, retries |-> Retries,
     noticed |-> FALSE, received |-> <<>>, sent |-> 0, backlog |-> <<>>, pending |-> k = "accept"]
Make(socket, others) ==
    /\ used + 1 \in Handles
    /\ used' = used + 1
    /\ sockets' = [h \in DOMAIN others \union {used'} |-> IF h = used' THEN socket ELSE others[h]]
    /\ UNCHANGED <<serverVars, made, group, events>>

(* The port of a listening socket must be free. *)
PtpListen(n) ==
    /\ \A h \in DOMAIN sockets : sockets[h].kind = "listen" => sockets[h].name # n
    /\ Make(Socket("listen", n, n, "listening"), sockets)

(* To another console, in a group or not; nothing asks whether the port is *)
(* free.                                                                   *)
PtpOpen(n, p) ==
    /\ MacOf[n] # MacOf[p]
    /\ Cardinality({h \in DOMAIN sockets : sockets[h].kind = "connect" /\ sockets[h].name = n}) < MaxPerPort
    /\ Make(Socket("connect", n, p, "opening"), sockets)

(* To the game an accepted stream is open at once. *)
PtpAccept(l) ==
    /\ sockets[l].backlog # <<>>
    /\ Make(Socket("accept", sockets[l].name, Head(sockets[l].backlog), "established"),
            [sockets EXCEPT ![l].backlog = Tail(@)])

HasLink(h) == sockets[h].link # NoLink
(* What is sent over a link the server has closed goes nowhere. *)
Alive(c) == c \in DOMAIN sessions /\ ~ Ended(c)

PtpSend(h) ==
    /\ sockets[h].state = "established" /\ HasLink(h) /\ sockets[h].sent < MaxSent
    /\ sockets' = [sockets EXCEPT ![h].sent = @ + 1]
    /\ LET c == sockets[h].link IN
       up' = IF Alive(c) THEN [up EXCEPT ![c] = Append(@, Block(h, sockets'[h].sent))] ELSE up
    /\ UNCHANGED <<sessions, down, used, made, group, events>>

(* Link.close: what it had not sent yet is lost, what has come is not read. *)
Closed(c) ==
    /\ \E n \in 0 .. Len(up[c]) :
         up' = IF Alive(c) THEN [up EXCEPT ![c] = Append(SubSeq(@, 1, n), Eof)] ELSE up
    /\ down' = [down EXCEPT ![c] = <<>>]

PtpClose(h) ==
    /\ Happens
    /\ sockets' = [g \in DOMAIN sockets \ {h} |-> sockets[g]]
    /\ IF HasLink(h) THEN Closed(sockets[h].link) ELSE UNCHANGED <<up, down>>
    /\ UNCHANGED <<sessions, used, made, group>>

-----------------------------------------------------------------------------
(* The network thread. *)

(* maintain_streams: a listening socket and one that still tries to        *)
(* connect get a link while their console is in a group, one just accepted *)
(* gets it in any case; the server accepts it.                             *)
Joined(h) == group[MacOf[sockets[h].name]] = "joined"
StartLink(h) ==
    /\ ~ HasLink(h) /\ made < MaxLinks
    /\ (sockets[h].state \in {"listening", "opening"} /\ Joined(h)) \/ sockets[h].pending
    /\ made' = made + 1
    /\ sockets' = [sockets EXCEPT ![h].link = made', ![h].pending = FALSE]
    /\ up' = [up EXCEPT ![made'] = <<Init(sockets[h].kind, sockets[h].name, sockets[h].peer)>>]
    /\ sessions' = [c \in DOMAIN sessions \union {made'} |-> IF c = made' THEN Accepted ELSE sessions[c]]
    /\ UNCHANGED <<down, used, group, events>>

Receives(h, op) ==
    HasLink(h) /\ down[sockets[h].link] # <<>> /\ Head(down[sockets[h].link]).op = op
Item(h) == Head(down[sockets[h].link])
Received(h, s) ==
    /\ sockets' = [sockets EXCEPT ![h] = s]
    /\ down' = [down EXCEPT ![sockets[h].link] = Tail(@)]
    /\ UNCHANGED <<sessions, up, used, made, group, events>>

OnRequest(h) ==
    /\ Receives(h, "notice") /\ sockets[h].kind = "listen"
    /\ Received(h, IF Len(sockets[h].backlog) < Backlog
                   THEN [sockets[h] EXCEPT !.backlog = Append(@, Item(h).name)] ELSE sockets[h])

OnEstablished(h) ==
    /\ Receives(h, "notice") /\ sockets[h].kind # "listen" /\ ~ sockets[h].noticed
    /\ Received(h, [sockets[h] EXCEPT !.noticed = TRUE,
                                      !.state = IF @ = "opening" THEN "established" ELSE @])

OnBlock(h) ==
    /\ Receives(h, "block")
    /\ Received(h, [sockets[h] EXCEPT !.received = Append(@, Item(h))])

(* The last attempt counted wrong. *)
Lost_Mutant(s) ==
    LET t == [s EXCEPT !.link = NoLink, !.noticed = FALSE] IN
    CASE s.state = "opening" -> [t EXCEPT !.retries = @ - 1]
      [] s.state = "established" -> [t EXCEPT !.state = "disconnected"]
      [] OTHER -> t
(* The link is gone: a connecting socket tries again or is refused. *)
Lost(s) ==
    LET t == [s EXCEPT !.link = NoLink, !.noticed = FALSE] IN
    CASE s.state = "opening" /\ s.retries > 0 -> [t EXCEPT !.retries = @ - 1]
      [] s.state = "opening" /\ s.retries = 0 -> [t EXCEPT !.state = "failed"]
      [] s.state = "established" -> [t EXCEPT !.state = "disconnected"]
      [] OTHER -> t

OnEof(h) ==
    /\ Receives(h, "eof")
    /\ Received(h, Lost(sockets[h]))

(* A second notice is read as the size of a block, and is too large. *)
OnOversized(h) ==
    /\ Receives(h, "notice") /\ sockets[h].noticed
    /\ Closed(sockets[h].link)
    /\ sockets' = [sockets EXCEPT ![h] = Lost(@)]
    /\ UNCHANGED <<sessions, used, made, group, events>>

(* A pending connection got older than kPendingConnectionLife. *)
RequestExpires(l) ==
    /\ Happens
    /\ sockets[l].backlog # <<>>
    /\ sockets' = [sockets EXCEPT ![l].backlog = Tail(@)]
    /\ UNCHANGED <<serverVars, used, made, group>>

(* close_relay_links, of the socket's console. *)
LeavesGroup(s) ==
    CASE s.kind = "listen" -> [s EXCEPT !.link = NoLink, !.backlog = <<>>]
      [] s.state = "established" -> [s EXCEPT !.link = NoLink, !.state = "disconnected"]
      [] s.state = "opening" -> [s EXCEPT !.link = NoLink, !.state = "failed"]
      [] OTHER -> [s EXCEPT !.link = NoLink]
CloseRelayLinks(m) ==
    LET mine == {h \in DOMAIN sockets : MacOf[sockets[h].name] = m}
        links == {sockets[h].link : h \in mine} \ {NoLink}
    IN  /\ sockets' = [h \in DOMAIN sockets |-> IF h \in mine THEN LeavesGroup(sockets[h]) ELSE sockets[h]]
        /\ \E sent \in [links -> 0 .. MaxSent + 1] :
             up' = [c \in Links |->
                      IF c \in links /\ Alive(c)
                      THEN Append(SubSeq(up[c], 1, AtMost(sent[c], Len(up[c]))), Eof) ELSE up[c]]
        /\ down' = [c \in Links |-> IF c \in links THEN <<>> ELSE down[c]]
        /\ UNCHANGED <<sessions, used, made>>

(* join, from no group: sockets opened before it are refused. *)
Join(m) ==
    /\ group[m] = "none"
    /\ group' = [group EXCEPT ![m] = "joining"]
    /\ CloseRelayLinks(m)
    /\ UNCHANGED events

(* kConnectBssid: the server confirms, the first time or after a new login. *)
OnConnectBssid(m) ==
    /\ group[m] \in {"joining", "lost"}
    /\ group' = [group EXCEPT ![m] = "joined"]
    /\ UNCHANGED <<serverVars, sockets, used, made, events>>

(* The server does not answer: the group is given up, the sockets stay.    *)
JoinTimesOut(m) ==
    /\ Happens
    /\ group[m] = "joining"
    /\ group' = [group EXCEPT ![m] = "none"]
    /\ UNCHANGED <<serverVars, sockets, used, made>>

(* leave, lose_group_for_good; join of another group; on_ctl_lost, after   *)
(* which the group is joined again.                                        *)
LoseGroup(m) ==
    /\ Happens
    /\ \E g \in {"none", "joining"} \union (IF group[m] \in {"joined", "lost"} THEN {"lost"} ELSE {}) :
         group' = [group EXCEPT ![m] = g]
    /\ CloseRelayLinks(m)

(* A link breaks: what was on its way to the server arrives or is lost. *)
Break(h) ==
    /\ Happens
    /\ HasLink(h) /\ Alive(sockets[h].link)
    /\ LET c == sockets[h].link IN
       /\ \E rest \in {up[c], <<>>} : up' = [up EXCEPT ![c] = Append(rest, Eof)]
       /\ down' = [down EXCEPT ![c] = Append(@, Eof)]
    /\ UNCHANGED <<sessions, sockets, used, made, group>>

Receive(h) == OnRequest(h) \/ OnEstablished(h) \/ OnBlock(h) \/ OnEof(h) \/ OnOversized(h)
Game ==
    \/ \E n \in Listeners : PtpListen(n)
    \/ \E n \in Openers, p \in Listeners : PtpOpen(n, p)
    \/ \E h \in DOMAIN sockets : PtpAccept(h) \/ PtpSend(h) \/ PtpClose(h)
Network == \E h \in DOMAIN sockets : StartLink(h) \/ Receive(h) \/ RequestExpires(h) \/ Break(h)
Membership == \E m \in Macs : Join(m) \/ OnConnectBssid(m) \/ JoinTimesOut(m) \/ LoseGroup(m)
Server == \E c \in Links : Serve(c) /\ UNCHANGED <<sockets, used, made, group, events>>

Next == Game \/ Network \/ Membership \/ Server
Spec == RelayInit /\ [][Next]_vars

(* The server's loop and the clients' threads go on, and games read.       *)
Fairness ==
    /\ WF_vars(Server)
    /\ WF_vars(\E h \in DOMAIN sockets : StartLink(h) \/ Receive(h))
FairSpec == Spec /\ Fairness

-----------------------------------------------------------------------------
TypeOK ==
    /\ ServerTypeOK
    /\ DOMAIN sockets \subseteq Handles
    /\ \A h \in DOMAIN sockets : sockets[h] \in Sockets
    /\ used \in {0} \union Handles /\ made \in 0 .. MaxLinks /\ events \in 0 .. MaxEvents
    /\ group \in [Macs -> Groups]

(* Two links are each other's partner, one connecting and one accepting,   *)
(* and each names the other, whatever links end or are replaced meanwhile. *)
PairedBothWays ==
    \A c \in DOMAIN sessions : sessions[c].partner # NoLink =>
        LET d == sessions[c].partner IN
        /\ d \in DOMAIN sessions /\ sessions[d].partner = c
        /\ {sessions[c].kind, sessions[d].kind} = {"connect", "accept"}
        /\ sessions[c].name = sessions[d].peer /\ sessions[c].peer = sessions[d].name

(* What a game reads from a stream is a run of the blocks one other socket *)
(* sent, in order and without a gap, however full the queues are.          *)
InOrder ==
    \A h \in DOMAIN sockets : \A i \in 2 .. Len(sockets[h].received) :
        LET a == sockets[h].received[i - 1] b == sockets[h].received[i]
        IN  a.from = b.from /\ b.number = a.number + 1

(* "When either closes, the other is closed after what it was sent has     *)
(* been delivered" (server.hpp).                                           *)
ClosedAfterDelivery ==
    [][\A c \in DOMAIN sessions :
         sessions[c].closing /\ ~ Ended(c) /\ c \notin DOMAIN sessions' =>
            \A i \in DOMAIN sessions[c].out : \E j \in DOMAIN down'[c] : down'[c][j] = sessions[c].out[i]]_vars

(* A game opens only so many sockets: in the end each that connects is     *)
(* established or refused, whatever links break and whoever listens, or    *)
(* its console is in no group.                                             *)
OpeningEnds == <>[](\A h \in DOMAIN sockets : sockets[h].state = "opening" => ~ Joined(h))

(* ptp_open "starts connecting at once and keeps retrying" (client.hpp):   *)
(* a socket opened where there is no group, or while a join gets no        *)
(* answer, does neither, and stays as it is until the next join.           *)
ConnectsAtOnce == <>[](\A h \in DOMAIN sockets : sockets[h].state # "opening")

(* And no stream stays open whose other end has gone. *)
Orphan(h) ==
    /\ sockets[h].state = "established" /\ HasLink(h)
    /\ sockets[h].link \in DOMAIN sessions => sessions[sockets[h].link].closing
EndIsSeen == <>[](\A h \in DOMAIN sockets : ~ Orphan(h))
=============================================================================
