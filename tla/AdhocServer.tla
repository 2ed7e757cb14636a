---------------------------- MODULE AdhocServer ----------------------------
(***************************************************************************)
(* The matchmaking of the ad hoc server (adhoc/server.cpp): the players,   *)
(* the groups and who is told what.  The server runs on one thread: each   *)
(* action is one packet handled, one expiry or one failed write, and a     *)
(* player marked dead is out of the map before anything looks at it again. *)
(* Not here: chat and scans, which change nothing, and the queue limit of  *)
(* half a megabyte of unread packets.                                      *)
(***************************************************************************)
EXTENDS AdhocLinks

VARIABLES
    players,  \* the connections the server has, and who logged in on each
    hosts,    \* group_hosts: who created each group
    failing   \* the connections that were reset and are written to before that is read

serverVars == <<players, hosts, failing>>

Stranger == [mac |-> NoMac, group |-> NoGroup]

(* Members of a group, as group_members finds them. *)
GroupMembers(ps, g) == {c \in DOMAIN ps : g # NoGroup /\ ps[c].group = g}

(* The state a handler turns into another. *)
Server == [players |-> players, hosts |-> hosts, down |-> down, failing |-> failing]
Become(st) ==
    players' = st.players /\ hosts' = st.hosts /\ down' = st.down /\ failing' = st.failing

(* send *)
Tell(st, S, packets) ==
    [st EXCEPT !.down = [c \in Conns |-> IF c \in S /\ ~ Broken(c) THEN @[c] \o packets ELSE @[c]],
               !.failing = @ \union {c \in S : WasReset(c)}]

(* X_Mutant, before the definition X, is X as a plausible mistake in the   *)
(* code would have it: the runs' properties must tell the two apart.       *)
LeaveGroup_Mutant(st, c) ==
    LET g == st.players[c].group
    IN  IF g = NoGroup THEN st
        ELSE [Tell(st, GroupMembers(st.players, g) \ {c}, <<PeerLeft(c)>>) EXCEPT
                !.players[c].group = NoGroup, !.hosts[g] = NoMac]

(* The others are told; the last to leave takes the group with it. *)
LeaveGroup(st, c) ==
    LET g == st.players[c].group
        others == GroupMembers(st.players, g) \ {c}
    IN  IF g = NoGroup THEN st
        ELSE [Tell(st, others, <<PeerLeft(c)>>) EXCEPT
                !.players[c].group = NoGroup,
                !.hosts[g] = IF others = {} THEN NoMac ELSE @]

(* remove_closed: the socket is closed and the player erased. *)
Erase(st, c) ==
    [st EXCEPT !.players = [d \in DOMAIN st.players \ {c} |-> st.players[d]],
               !.failing = @ \ {c},
               !.down[c] = IF Broken(c) THEN @ ELSE Append(@, Eof)]

DropPlayer(st, c) == Erase(LeaveGroup(st, c), c)

(* The player leaves the old group after being entered in the new one. *)
JoinGroup_Mutant(st, c, g) ==
    LET host == IF st.hosts[g] = NoMac THEN st.players[c].mac ELSE st.hosts[g]
        members == GroupMembers(st.players, g) \ {c}
        entry(d) == [mac |-> st.players[d].mac, id |-> d]
        others == IF members = {} THEN <<>> ELSE <<PeersJoined({entry(d) : d \in members})>>
        told == Tell(Tell(st, members, <<PeersJoined({entry(c)})>>), {c}, others \o <<Joined(host)>>)
    IN  LeaveGroup([told EXCEPT !.players[c].group = g, !.hosts[g] = host], c)

(* Everyone is told about the newcomer and the newcomer about everyone;    *)
(* then the join is confirmed with the MAC of whoever created the group.   *)
JoinGroup(st, c, g) ==
    LET left == LeaveGroup(st, c)
        host == IF left.hosts[g] = NoMac THEN st.players[c].mac ELSE left.hosts[g]
        members == GroupMembers(left.players, g)
        entry(d) == [mac |-> left.players[d].mac, id |-> d]
        others == IF members = {} THEN <<>> ELSE <<PeersJoined({entry(d) : d \in members})>>
        told == Tell(left, members, <<PeersJoined({entry(c)})>>)
    IN  [Tell(told, {c}, others \o <<Joined(host)>>) EXCEPT !.players[c].group = g, !.hosts[g] = host]

-----------------------------------------------------------------------------
Takes(c, op) == c \in DOMAIN players /\ up[c] # <<>> /\ Head(up[c]).op = op
Taken(c) == up' = [up EXCEPT ![c] = Tail(@)]

(* The same MAC again is the same player reconnecting: the older           *)
(* connection is dropped.  There is at most one, this handler sees to it.  *)
Older_Mutant(c, m) == {}
Older(c, m) == {d \in DOMAIN players \ {c} : players[d].mac = m}

HandleLogin(c) ==
    /\ Takes(c, "login")
    /\ LET m == Head(up[c]).mac
           older == Older(c, m)
           st == IF older = {} THEN Server ELSE DropPlayer(Server, CHOOSE d \in older : TRUE)
       IN  /\ Become([st EXCEPT !.players[c].mac = m])
           /\ up' = [d \in Conns |-> IF d \in older THEN <<>> ELSE IF d = c THEN Tail(up[c]) ELSE up[d]]
    /\ UNCHANGED events

HandleConnect(c) ==
    /\ Takes(c, "connect")
    /\ Become(JoinGroup(Server, c, Head(up[c]).group))
    /\ Taken(c)
    /\ UNCHANGED events

HandleDisconnect(c) ==
    /\ Takes(c, "disconnect")
    /\ Become(LeaveGroup(Server, c))
    /\ Taken(c)
    /\ UNCHANGED events

(* The end of what the console sent. *)
HandleEof(c) ==
    /\ Takes(c, "eof") \/ Takes(c, "reset")
    /\ Become(DropPlayer(Server, c))
    /\ up' = [up EXCEPT ![c] = <<>>]
    /\ UNCHANGED events

(* Nothing has come from the console for too long. *)
Expire(c) ==
    /\ c \in DOMAIN players
    /\ Happens
    /\ Become(DropPlayer(Server, c))
    /\ up' = [up EXCEPT ![c] = <<>>]

(* write() after the connection broke and before the server has read its   *)
(* end: the error marks the connection dead, and remove_closed erases the  *)
(* player without leave_group.                                             *)
WriteFails(c) ==
    /\ c \in failing
    /\ Become(Erase(Server, c))
    /\ up' = [up EXCEPT ![c] = <<>>]
    /\ UNCHANGED events

Handle(c) == HandleLogin(c) \/ HandleConnect(c) \/ HandleDisconnect(c) \/ HandleEof(c)
ServerNext == \E c \in Conns : Handle(c) \/ Expire(c) \/ WriteFails(c)

ServerTypeOK ==
    /\ \A c \in DOMAIN players : players[c] \in [mac : Macs \union {NoMac}, group : Groups \union {NoGroup}]
    /\ DOMAIN players \subseteq Conns
    /\ hosts \in [Groups -> Macs \union {NoMac}]
    /\ failing \subseteq DOMAIN players
    /\ up \in [Conns -> Seq(Requests)]
    /\ down \in [Conns -> Seq(Answers)]
    /\ events \in 0 .. MaxEvents
=============================================================================
