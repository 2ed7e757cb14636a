---------------------------- MODULE AdhocClient ----------------------------
(***************************************************************************)
(* The matchmaking half of the ad hoc client (adhoc/client.cpp) of every   *)
(* console.  Its network thread and the game's calls work under one mutex, *)
(* so each of them is one action.  Connecting and logging in are one       *)
(* action: until the login nothing is sent.  Relay links and sockets are   *)
(* those of RelayStreams; scans change nothing here.                       *)
(***************************************************************************)
EXTENDS AdhocServer

VARIABLES
    client,  \* the state of each console's client
    made     \* the connections made so far

(* conn is ctl, NoConn while not logged in; asking is join_started, lost   *)
(* is lost_since; connected is game_connected, what the game was told.     *)
Clients == [conn : Conns \union {NoConn}, wanted : Groups \union {NoGroup},
            joined : BOOLEAN, connected : BOOLEAN, asking : BOOLEAN, lost : BOOLEAN,
            peers : SUBSET Entries, host : Macs \union {NoMac}]

Off == [conn |-> NoConn, wanted |-> NoGroup, joined |-> FALSE, connected |-> FALSE,
        asking |-> FALSE, lost |-> FALSE, peers |-> {}, host |-> NoMac]

LoggedIn(m) == client[m].conn # NoConn

ClearGroupState(s) == [s EXCEPT !.joined = FALSE, !.peers = {}, !.host = NoMac]
(* What every way of giving a group up does. *)
NoGroupWanted(s) ==
    ClearGroupState([s EXCEPT !.wanted = NoGroup, !.asking = FALSE, !.lost = FALSE, !.connected = FALSE])

Becomes(m, s) == client' = [client EXCEPT ![m] = s]

(* What is sent over a connection the server has closed goes nowhere. *)
Send(m, packets) ==
    LET c == client[m].conn IN
    up' = IF c \in DOMAIN players /\ ~ Broken(c) THEN [up EXCEPT ![c] = @ \o packets] ELSE up

-----------------------------------------------------------------------------
(* The game's calls. *)

(* A game that was told it is connected leaves first; one that asked and   *)
(* has no answer yet does not.  Joining again what it has joined does      *)
(* nothing.                                                                *)
LeavesFirst(m) == IF client[m].connected THEN <<Disconnect>> ELSE <<>>
Join(m, g) ==
    /\ Happens
    /\ ~ (client[m].connected /\ client[m].wanted = g)
    /\ Becomes(m, [ClearGroupState(client[m]) EXCEPT
                     !.connected = FALSE, !.wanted = g, !.asking = TRUE, !.lost = FALSE])
    /\ IF LoggedIn(m) THEN Send(m, LeavesFirst(m) \o <<Connect(g)>>) ELSE UNCHANGED up
    /\ UNCHANGED <<serverVars, down, made>>

Leave(m) ==
    /\ Happens
    /\ client[m].wanted # NoGroup
    /\ Becomes(m, NoGroupWanted(client[m]))
    /\ IF LoggedIn(m) THEN Send(m, <<Disconnect>>) ELSE UNCHANGED up
    /\ UNCHANGED <<serverVars, down, made>>

-----------------------------------------------------------------------------
(* The network thread. *)

(* The group is not asked for again. *)
LogIn_Mutant(m) ==
    /\ ~ LoggedIn(m)
    /\ made < MaxConns
    /\ made' = made + 1
    /\ players' = [d \in DOMAIN players \union {made'} |-> IF d = made' THEN Stranger ELSE players[d]]
    /\ Becomes(m, [client[m] EXCEPT !.conn = made'])
    /\ up' = [up EXCEPT ![made'] = <<Login(m)>>]
    /\ UNCHANGED <<hosts, failing, down, events>>

(* maintain_ctl connects, logs in and asks again for the group it wants;   *)
(* the server accepts the connection.                                      *)
LogIn(m) ==
    /\ ~ LoggedIn(m)
    /\ made < MaxConns
    /\ made' = made + 1
    /\ players' = [d \in DOMAIN players \union {made'} |-> IF d = made' THEN Stranger ELSE players[d]]
    /\ LET s == [client[m] EXCEPT !.conn = made'] IN
       IF s.wanted = NoGroup
       THEN Becomes(m, s) /\ up' = [up EXCEPT ![made'] = <<Login(m)>>]
       ELSE Becomes(m, ClearGroupState(s)) /\ up' = [up EXCEPT ![made'] = <<Login(m), Connect(s.wanted)>>]
    /\ UNCHANGED <<hosts, failing, down, events>>

Receives(m, op) ==
    LET c == client[m].conn IN LoggedIn(m) /\ down[c] # <<>> /\ Head(down[c]).op = op
Packet(m) == Head(down[client[m].conn])
Received(m) ==
    /\ down' = [down EXCEPT ![client[m].conn] = Tail(@)]
    /\ UNCHANGED <<serverVars, up, events, made>>

(* Entered under their MAC: a later entry replaces an earlier one. *)
Enter(peers, m, entries) ==
    LET news == {e \in entries : e.mac # m}
    IN  {e \in peers : \A n \in news : n.mac # e.mac} \union news

OnPeersJoined(m) ==
    /\ Receives(m, "peers joined")
    /\ Becomes(m, [client[m] EXCEPT !.peers = Enter(@, m, Packet(m).entries)])
    /\ Received(m)

OnPeerLeft(m) ==
    /\ Receives(m, "peer left")
    /\ Becomes(m, [client[m] EXCEPT !.peers = {e \in @ : e.id # Packet(m).id}])
    /\ Received(m)

(* The confirmation takes the state of the group back to its beginning. *)
OnJoined_Mutant(m) ==
    /\ Receives(m, "joined")
    /\ IF client[m].wanted = NoGroup THEN UNCHANGED client
       ELSE Becomes(m, [ClearGroupState(client[m]) EXCEPT
                          !.joined = TRUE, !.host = Packet(m).host,
                          !.asking = FALSE, !.lost = FALSE, !.connected = TRUE])
    /\ Received(m)

(* Any confirmation counts for the group wanted now. *)
OnJoined(m) ==
    /\ Receives(m, "joined")
    /\ IF client[m].wanted = NoGroup THEN UNCHANGED client
       ELSE Becomes(m, [client[m] EXCEPT !.joined = TRUE, !.host = Packet(m).host,
                                         !.asking = FALSE, !.lost = FALSE, !.connected = TRUE])
    /\ Received(m)

(* on_ctl_lost: the group is kept for the grace, with its peers. *)
Lost(s) == [s EXCEPT !.conn = NoConn, !.joined = FALSE, !.lost = @ \/ s.joined \/ s.connected]

OnEof(m) ==
    /\ Receives(m, "eof")
    /\ Becomes(m, Lost(client[m]))
    /\ down' = [down EXCEPT ![client[m].conn] = <<>>]
    /\ UNCHANGED <<serverVars, up, events, made>>

(* The player asks for a new connection: reconnect_now. *)
Reconnect(m) ==
    /\ LoggedIn(m)
    /\ Happens
    /\ LET c == client[m].conn IN
       /\ up' = IF c \in DOMAIN players /\ ~ Broken(c) THEN [up EXCEPT ![c] = Append(@, Eof)] ELSE up
       /\ down' = [down EXCEPT ![c] = <<>>]
    /\ Becomes(m, Lost(client[m]))
    /\ UNCHANGED <<serverVars, made>>

(* No answer to a join within kRequestTimeout. *)
RequestTimeout(m) ==
    /\ client[m].asking /\ ~ client[m].connected
    /\ Happens
    /\ Becomes(m, [ClearGroupState(client[m]) EXCEPT !.wanted = NoGroup, !.asking = FALSE])
    /\ IF LoggedIn(m) THEN Send(m, <<Disconnect>>) ELSE UNCHANGED up
    /\ UNCHANGED <<serverVars, down, made>>

(* kGroupGrace without a confirmation: the game is told it is disconnected. *)
GraceEnds(m) ==
    /\ client[m].lost
    /\ Happens
    /\ Becomes(m, NoGroupWanted(client[m]))
    /\ UNCHANGED <<serverVars, up, down, made>>

Receive(m) == OnPeersJoined(m) \/ OnPeerLeft(m) \/ OnJoined(m) \/ OnEof(m)
ClientNext ==
    \E m \in Macs :
        \/ \E g \in Groups : Join(m, g)
        \/ Leave(m) \/ LogIn(m) \/ Receive(m)
        \/ Reconnect(m) \/ RequestTimeout(m) \/ GraceEnds(m)
=============================================================================
