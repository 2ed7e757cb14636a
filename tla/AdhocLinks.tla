----------------------------- MODULE AdhocLinks -----------------------------
(***************************************************************************)
(* The connections between the consoles and the ad hoc server: what each   *)
(* side has sent and the other has not handled, in order, as TCP delivers  *)
(* it.  A connection that ends has "eof", or "reset" when it was not       *)
(* closed but broke, as the last thing one side reads from it.             *)
(***************************************************************************)
EXTENDS Naturals, Sequences, FiniteSets

CONSTANTS
    Macs,      \* the consoles; a console keeps its MAC when it reconnects
    Groups,    \* the names of the groups they join, all of one product
    MaxConns,  \* bound: connections made in all
    MaxEvents, \* bound: broken connections, timeouts and calls of the games
    NoMac, NoGroup

ASSUME LinksAssumption ==
    /\ MaxConns \in Nat /\ MaxEvents \in Nat
    /\ NoMac \notin Macs /\ NoGroup \notin Groups

VARIABLES
    up,     \* per connection: the packets on their way to the server
    down,   \* per connection: the packets on their way to the console
    events  \* how many of those there have been

Conns == 1 .. MaxConns
NoConn == 0

Eof == [op |-> "eof"]
Login(m) == [op |-> "login", mac |-> m]
Connect(g) == [op |-> "connect", group |-> g]
Disconnect == [op |-> "disconnect"]
Reset == [op |-> "reset"]
Requests == {Eof, Reset, Disconnect} \union {Login(m) : m \in Macs} \union {Connect(g) : g \in Groups}

(* A player's id is unique among those logged in: the connection's number  *)
(* stands for it.  The packets that tell a newcomer about the members go   *)
(* out together and are one packet here.                                   *)
PeersJoined(entries) == [op |-> "peers joined", entries |-> entries]
PeerLeft(c) == [op |-> "peer left", id |-> c]
Joined(h) == [op |-> "joined", host |-> h]
Entries == [mac : Macs, id : Conns]
Answers == {Eof} \union {PeersJoined(S) : S \in SUBSET Entries}
           \union {PeerLeft(c) : c \in Conns} \union {Joined(h) : h \in Macs}

Happens == events < MaxEvents /\ events' = events + 1

(* The connection has ended, and the server has not read so far. *)
WasReset(c) == \E i \in DOMAIN up[c] : up[c][i] = Reset
Broken(c) == WasReset(c) \/ \E i \in DOMAIN up[c] : up[c][i] = Eof

(* Both sides read the end of a connection that breaks; what was on its    *)
(* way to the server arrives or is lost.  An answer that is lost is to the *)
(* console as a request that is.                                           *)
Break(c) ==
    /\ Happens
    /\ ~ Broken(c)
    /\ \E rest \in {up[c], <<>>} : up' = [up EXCEPT ![c] = Append(rest, Reset)]
    /\ down' = [down EXCEPT ![c] = Append(@, Eof)]
=============================================================================
