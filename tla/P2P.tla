--------------------------------- MODULE P2P ----------------------------------
(***************************************************************************)
(* An outbound peer of src/libs/p2p from the dial to its stop: the peer    *)
(* connection of Peer, then the NodeInfo handshake of NodeInfo over it,    *)
(* then, if our side keeps the peer, the running peer whose hasChannel     *)
(* tests the channels the handshake delivered.                             *)
(*                                                                         *)
(* The order is the switch's (not under src/): newOutboundPeerConn, then   *)
(* peerConn.HandshakeTimeout and the Validate / CompatibleWith checks,     *)
(* then newPeer and Start for a kept peer, or peerConn.CloseConn for a     *)
(* rejected one.  Us is our node, the other node the remote; each node's   *)
(* reactors are the channels its NodeInfo announces.                       *)
(***************************************************************************)
EXTENDS Naturals, Sequences, SequencesExt, FiniteSets

CONSTANTS
  Nodes, Infos, NoInfo,   \* as in NodeInfo
  Us,                     \* our node, which dials
  Senders, Chans, MaxMsgs \* as in Peer

ASSUME Us \in Nodes

VARIABLES
  info, hs, deadline, wr, rd, got, decided,           \* NodeInfo
  create, conn, started, stopped, stopDone, mconn,    \* Peer
  spc, sch, nsent, nrecv, remoteErr, peerErr, delivered

hsVars   == << info, hs, deadline, wr, rd, got, decided >>
peerVars == << create, conn, started, stopped, stopDone, mconn, spc, sch,
               nsent, nrecv, remoteErr, peerErr, delivered >>
vars     == << hsVars, peerVars >>

Them == CHOOSE n \in Nodes : n /= Us

(* The channel set of a NodeInfo; none before one is decoded.              *)
ChansOf(i) == IF i = NoInfo THEN {} ELSE ToSet(i.channels)

HS == INSTANCE NodeInfo
PR == INSTANCE Peer WITH channels <- ChansOf(got[Us]),
                         reactorsByCh <- ChansOf(info[Us]),
                         remoteReactors <- ChansOf(info[Them])

Init == HS!Init /\ PR!Init

(* newOutboundPeerConn: dial, deadline, SecretConnection, close on error.  *)
Connect ==
  /\ \/ \E ok \in BOOLEAN : PR!Dial(ok) \/ PR!SetHandshakeDeadline(ok) \/ PR!MakeSecret(ok)
     \/ PR!CloseOnError
  /\ UNCHANGED hsVars

(* HandshakeTimeout on both ends, once the secret connection is up; the    *)
(* remote's goes on after our side dropped the peer.                       *)
Handshake(n) ==
  /\ create \in {"done", "dropped"}
  /\ HS!Step(n)
  /\ UNCHANGED peerVars

(* The switch starts and uses a peer our side kept.                        *)
Run ==
  /\ decided[Us] = "accepted"
  /\ \/ \E ok \in BOOLEAN : PR!Start(ok)
     \/ PR!Stop \/ PR!OnStop
     \/ \E s \in Senders, ch \in Chans : PR!SendCheck(s, ch)
     \/ \E s \in Senders : PR!SendConn(s)
     \/ \E ch \in Chans : PR!Receive(ch)
  /\ UNCHANGED hsVars

(* The switch closes the connection of a peer our side rejected.           *)
Drop ==
  /\ decided[Us] = "rejected"
  /\ PR!CloseConn
  /\ UNCHANGED hsVars

Next == Connect \/ (\E n \in Nodes : Handshake(n)) \/ Run \/ Drop

(* Each end's handshake runs in its own goroutine under a wall-clock       *)
(* deadline, as in NodeInfo.                                               *)
Spec == Init /\ [][Next]_vars /\ \A n \in Nodes : WF_vars(Handshake(n))

-----------------------------------------------------------------------------
(* A kept peer sent its own valid, compatible NodeInfo (NodeInfo).         *)
AcceptedPeerOk == HS!AcceptedPeerOk

(* Once the secret connection is up, both ends' HandshakeTimeout return.   *)
EventuallyDecided == create = "done" ~> \A n \in Nodes : decided[n] /= "none"

(* The raw connection is released on every failure and after Stop (Peer).  *)
ConnReleased == PR!ConnReleased

(* Nothing we send makes the remote's onReceive panic: hasChannel tests    *)
(* the channels the handshake decoded, and these are the channels the      *)
(* remote really has reactors for, under every order of the two ends'      *)
(* handshake steps, the senders and Stop.                                  *)
NoRemoteUnknownChannel == PR!NoRemoteUnknownChannel

====
