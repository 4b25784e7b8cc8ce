--------------------------------- MODULE Peer ---------------------------------
(***************************************************************************)
(* One peer of src/libs/p2p/peer.go, from the outbound connection to its   *)
(* stop.  newOutboundPeerConn dials, newPeerConn sets the handshake        *)
(* deadline and makes the SecretConnection, and on either failure the      *)
(* caller closes the raw connection.  The peer is a BaseService: Start     *)
(* runs OnStart (mconn.Start), Stop marks it stopped and runs OnStop       *)
(* (mconn.Stop, which closes the connection).  Send and TrySend, called    *)
(* from any reactor goroutine, test IsRunning and hasChannel and then call *)
(* the MConnection: two steps another goroutine's Stop can fall between.   *)
(* The MConnection's onReceive hands a message to the reactor of its       *)
(* channel, or panics, which the MConnection turns into onPeerError.       *)
(*                                                                         *)
(* BaseService and MConnection are libraries outside src/; they are        *)
(* modelled by the behaviour peer.go relies on: Start and Stop each happen *)
(* once, a failed OnStart reverts Start, and a stopped MConnection accepts *)
(* no message.  Send and TrySend differ only in how long the MConnection   *)
(* waits for queue space, which is not modelled.                          *)
(*                                                                         *)
(* Three sets are inputs, fixed for the peer's life and bound by the       *)
(* module that composes Peer with the handshake (P2P): channels, the       *)
(* peer's nodeInfo.Channels; reactorsByCh, our reactors' channels; and     *)
(* remoteReactors, the channels the remote node has reactors for.  The     *)
(* actions leave them to the composing module, which keeps them unchanged. *)
(***************************************************************************)
EXTENDS Naturals, FiniteSets

CONSTANTS
  Senders,     \* reactor goroutines that call Send / TrySend
  Chans,       \* channel ids a caller or the remote may name
  MaxMsgs      \* bound on messages each way

VARIABLES
  create,     \* where newOutboundPeerConn / the switch is with the peerConn
  conn,       \* "none" | "open" | "closed": the raw net.Conn
  started,    \* BaseService.started
  stopped,    \* BaseService.stopped
  stopDone,   \* Stop has returned: OnStop ran
  mconn,      \* "new" | "running" | "stopped"
  spc,        \* spc[s]: "idle" | "send" (checks passed, mconn.Send next)
  sch,        \* sch[s]: the channel sender s sends on
  nsent,      \* messages the MConnection took from us
  nrecv,      \* messages the remote sent us
  remoteErr,  \* the remote's onReceive panicked on a channel we sent
  peerErr,    \* our onReceive panicked: onPeerError was called
  delivered,  \* channels a message was delivered to our reactor on
  channels,       \* input: p.channels, the peer's nodeInfo.Channels
  reactorsByCh,   \* input: the channels we have a reactor for
  remoteReactors  \* input: the channels the remote has a reactor for

vars == << create, conn, started, stopped, stopDone, mconn, spc, sch,
           nsent, nrecv, remoteErr, peerErr, delivered >>

CreateStates == {"dial", "deadline", "secret", "closing", "done", "failed", "dropped"}

Init ==
  /\ create = "dial" /\ conn = "none"
  /\ started = FALSE /\ stopped = FALSE /\ stopDone = FALSE
  /\ mconn = "new"
  /\ spc = [s \in Senders |-> "idle"]
  /\ sch = [s \in Senders |-> CHOOSE ch \in Chans : TRUE]
  /\ nsent = 0 /\ nrecv = 0
  /\ remoteErr = FALSE /\ peerErr = FALSE /\ delivered = {}

LifeVars == << started, stopped, stopDone, mconn, spc, sch, nsent, nrecv,
               remoteErr, peerErr, delivered >>

(* dial: DialTimeout gives a connection, or newOutboundPeerConn fails.     *)
Dial(ok) ==
  /\ create = "dial"
  /\ create' = IF ok THEN "deadline" ELSE "failed"
  /\ conn' = IF ok THEN "open" ELSE conn
  /\ UNCHANGED LifeVars

(* newPeerConn: conn.SetDeadline for the secret handshake; an error        *)
(* returns to newOutboundPeerConn, which closes the connection.            *)
SetHandshakeDeadline(ok) ==
  /\ create = "deadline"
  /\ create' = IF ok THEN "secret" ELSE "closing"
  /\ UNCHANGED << conn >> /\ UNCHANGED LifeVars

(* Variant: the SecretConnection error returns without the caller closing  *)
(* the connection.                                                          *)
MakeSecretNoClose(ok) ==
  /\ create = "secret"
  /\ create' = IF ok THEN "done" ELSE "failed"
  /\ UNCHANGED << conn >> /\ UNCHANGED LifeVars

(* newPeerConn: MakeSecretConnection; its error goes the same way.         *)
MakeSecret(ok) ==
  /\ create = "secret"
  /\ create' = IF ok THEN "done" ELSE "closing"
  /\ UNCHANGED << conn >> /\ UNCHANGED LifeVars

(* newOutboundPeerConn: conn.Close() after newPeerConn failed; a Close     *)
(* error is only folded into the returned error.                           *)
CloseOnError ==
  /\ create = "closing"
  /\ create' = "failed" /\ conn' = "closed"
  /\ UNCHANGED LifeVars

(* peerConn.CloseConn: the switch drops a peer it created but never        *)
(* started.                                                                 *)
CloseConn ==
  /\ create = "done" /\ ~started /\ ~stopped
  /\ create' = "dropped" /\ conn' = "closed"
  /\ UNCHANGED LifeVars

(* Start -> OnStart: BaseService.OnStart, then mconn.Start; on an error    *)
(* BaseService reverts started.                                            *)
Start(ok) ==
  /\ create = "done" /\ ~started /\ ~stopped
  /\ started' = ok
  /\ mconn' = IF ok THEN "running" ELSE mconn
  /\ UNCHANGED << create, conn, stopped, stopDone, spc, sch, nsent, nrecv,
                  remoteErr, peerErr, delivered >>

(* Close / Stop: BaseService marks the peer stopped, once, and then calls  *)
(* OnStop.                                                                 *)
Stop ==
  /\ create = "done" /\ ~stopped
  /\ stopped' = TRUE
  /\ UNCHANGED << create, conn, started, stopDone, mconn, spc, sch, nsent,
                  nrecv, remoteErr, peerErr, delivered >>

(* OnStop: mconn.Stop stops everything and closes the connection.          *)
OnStop ==
  /\ stopped /\ ~stopDone
  /\ stopDone' = TRUE /\ mconn' = "stopped" /\ conn' = "closed"
  /\ UNCHANGED << create, started, stopped, spc, sch, nsent, nrecv,
                  remoteErr, peerErr, delivered >>

IsRunning == started /\ ~stopped

(* The message bound: those taken plus those on their way.                *)
UnderBound == nsent + Cardinality({ t \in Senders : spc[t] = "send" }) < MaxMsgs

(* hasChannel: the channel is one the peer reported.                       *)
hasChannel(ch) == ch \in channels

(* Variant: Send without the hasChannel test.                              *)
SendCheckAnyChannel(s, ch) ==
  /\ create = "done" /\ spc[s] = "idle" /\ UnderBound
  /\ IF IsRunning
     THEN spc' = [spc EXCEPT ![s] = "send"] /\ sch' = [sch EXCEPT ![s] = ch]
     ELSE UNCHANGED << spc, sch >>
  /\ UNCHANGED << create, conn, started, stopped, stopDone, mconn, nsent,
                  nrecv, remoteErr, peerErr, delivered >>

(* Send / TrySend, first half: not running or an unknown channel returns   *)
(* false; otherwise the goroutine goes on to the MConnection.              *)
SendCheck(s, ch) ==
  /\ create = "done" /\ spc[s] = "idle" /\ UnderBound
  /\ IF IsRunning /\ hasChannel(ch)
     THEN spc' = [spc EXCEPT ![s] = "send"] /\ sch' = [sch EXCEPT ![s] = ch]
     ELSE UNCHANGED << spc, sch >>
  /\ UNCHANGED << create, conn, started, stopped, stopDone, mconn, nsent,
                  nrecv, remoteErr, peerErr, delivered >>

(* Send / TrySend, second half: mconn.Send queues the message only on a    *)
(* running MConnection; the remote's onReceive panics on a channel it has  *)
(* no reactor for.                                                         *)
SendConn(s) ==
  /\ spc[s] = "send"
  /\ spc' = [spc EXCEPT ![s] = "idle"]
  /\ IF mconn = "running"
     THEN /\ nsent' = nsent + 1
          /\ remoteErr' = (remoteErr \/ sch[s] \notin remoteReactors)
     ELSE UNCHANGED << nsent, remoteErr >>
  /\ UNCHANGED << create, conn, started, stopped, stopDone, mconn, sch, nrecv,
                  peerErr, delivered >>

(* createMConnection's onReceive: the remote may send on any channel; an   *)
(* unknown one panics and the MConnection reports onPeerError.             *)
Receive(ch) ==
  /\ mconn = "running" /\ nrecv < MaxMsgs
  /\ nrecv' = nrecv + 1
  /\ IF ch \in reactorsByCh
     THEN delivered' = delivered \cup {ch} /\ UNCHANGED peerErr
     ELSE peerErr' = TRUE /\ UNCHANGED delivered
  /\ UNCHANGED << create, conn, started, stopped, stopDone, mconn, spc, sch,
                  nsent, remoteErr >>

Next ==
  \/ \E ok \in BOOLEAN : Dial(ok) \/ SetHandshakeDeadline(ok) \/ MakeSecret(ok) \/ Start(ok)
  \/ CloseOnError \/ CloseConn \/ Stop \/ OnStop
  \/ \E s \in Senders, ch \in Chans : SendCheck(s, ch)
  \/ \E s \in Senders : SendConn(s)
  \/ \E ch \in Chans : Receive(ch)

-----------------------------------------------------------------------------
TypeOK ==
  /\ create \in CreateStates /\ conn \in {"none", "open", "closed"}
  /\ {started, stopped, stopDone, remoteErr, peerErr} \subseteq BOOLEAN
  /\ mconn \in {"new", "running", "stopped"}
  /\ spc \in [Senders -> {"idle", "send"}] /\ sch \in [Senders -> Chans]
  /\ nsent \in 0 .. MaxMsgs /\ nrecv \in 0 .. MaxMsgs
  /\ delivered \subseteq reactorsByCh

(* The raw connection is open only while a peer may still use it: a failed *)
(* newOutboundPeerConn, a dropped peerConn and a stopped peer have all     *)
(* closed it, whichever step of the creation failed.                       *)
ConnReleased ==
  conn = "open" => create \in {"deadline", "secret", "closing", "done"} /\ ~stopDone

(* Nothing we send makes the remote's onReceive panic: Send and TrySend    *)
(* only pass on channels the peer announced, under every interleaving of   *)
(* senders and Stop.                                                       *)
NoRemoteUnknownChannel == ~remoteErr

====
